SPECIFICATION FairSpec
CONSTANTS
  Runs = {r1}
  NoRun = NoRun
  Schedulers = {cron, manual}
  Manual = manual
  Workers = {w1, w2}
  MaxPage = 2
  PageLimit = 0
  MaxAttempts = 2
  DetailLimit = 1
  Candidates = 2
  Free = Free
  Gone = Gone
  MaxCommands = 1
  MaxFaults = 1
INVARIANT CompletedCovered
PROPERTY RunEnds
\* An operator may leave the crawler off.
CHECK_DEADLOCK FALSE
