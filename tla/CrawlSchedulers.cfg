SPECIFICATION Spec
CONSTANTS
  Runs = {r1, r2}
  NoRun = NoRun
  Schedulers = {cron, manual}
  Manual = manual
  Workers = {w1}
  MaxPage = 2
  PageLimit = 0
  MaxAttempts = 2
  DetailLimit = 1
  Candidates = 0
  Free = Free
  Gone = Gone
  MaxCommands = 1
  MaxFaults = 1
SYMMETRY Interchangeable
INVARIANT NoStrandedRun
PROPERTY ImplementsLifecycle
\* An operator may leave the crawler off.
CHECK_DEADLOCK FALSE
