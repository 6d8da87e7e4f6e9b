SPECIFICATION ServicesSpec
CONSTANTS
  Keys = {k1, k2, k3}
  Loads = {l1, l2}
  MaxEntries = 1
  CacheClock = 2
  Rows = 3
  BatchSize = 2
  Versions = 2
  OldWriters = {o1}
  MaxStorageFaults = 1
  Clients = {a1, a2, a3}
  LoginLimit = 1
  LoginWindow = 2
  LimiterEntries = 2
  SessionTtl = 2
  Callers = {c1, c2, c3}
  MaxChanges = 1
  MaxFailures = 1
  StartAttempts = 2
  MaxLive = 3
INVARIANT ServicesTypeOK
INVARIANT EntriesAccounted
INVARIANT StageLeavesNothing
INVARIANT LoginsBounded
INVARIANT OneChain
INVARIANT OneLiveRun
PROPERTY MigrationKeepsReads
PROPERTY MigrationEnds
PROPERTY FetchSettles
PROPERTY DashboardConverges
\* A component stops when its bounds are used up.
CHECK_DEADLOCK FALSE
