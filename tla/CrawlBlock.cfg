SPECIFICATION FairSpec
CONSTANTS
  Runs = {r1}
  NoRun = NoRun
  Schedulers = {cron, manual}
  Manual = manual
  Workers = {w1}
  MaxPage = 1
  PageLimit = 0
  MaxAttempts = 2
  DetailLimit = 1
  Candidates = 2
  Free = Free
  Gone = Gone
  MaxCommands = 0
  MaxFaults = 1
PROPERTY BlockPauses
\* An operator may leave the crawler off.
CHECK_DEADLOCK FALSE
