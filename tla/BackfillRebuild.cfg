SPECIFICATION Spec
CONSTANTS
  Listings = {l1}
  Workers = {w1}
  BatchSize = 1
  TargetLimit = 0
  MaxAttempts = 2
  CancelBatch = 2
  NoListing = NoListing
  Free = Free
  Gone = Gone
  MaxCommands = 3
  MaxFaults = 0
  MaxBlocks = 0
SYMMETRY Interchangeable
INVARIANT CompletedIsComplete
\* A run that is over has nothing left to do.
CHECK_DEADLOCK FALSE
