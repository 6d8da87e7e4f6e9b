SPECIFICATION SpecCreated
CONSTANTS
  Listings = {l1, l2}
  Workers = {w1}
  BatchSize = 2
  TargetLimit = 0
  MaxAttempts = 2
  CancelBatch = 2
  NoListing = NoListing
  Free = Free
  Gone = Gone
  MaxCommands = 0
  MaxFaults = 0
  MaxBlocks = 1
SYMMETRY Interchangeable
INVARIANT ProbeAlone
\* A run that is over has nothing left to do.
CHECK_DEADLOCK FALSE
