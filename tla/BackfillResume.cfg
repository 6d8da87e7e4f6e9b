SPECIFICATION FairSpec
CONSTANTS
  Listings = {l1}
  Workers = {w1}
  BatchSize = 1
  TargetLimit = 0
  MaxAttempts = 2
  CancelBatch = 2
  NoListing = NoListing
  Free = Free
  Gone = Gone
  MaxCommands = 2
  MaxFaults = 0
  MaxBlocks = 0
PROPERTY ResumeTakesEffect
\* A run that is over has nothing left to do.
CHECK_DEADLOCK FALSE
