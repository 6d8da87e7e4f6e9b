SPECIFICATION SpecCreated
CONSTANTS
  Listings = {l1, l2}
  Workers = {w1, w2}
  BatchSize = 1
  TargetLimit = 0
  MaxAttempts = 2
  CancelBatch = 2
  NoListing = NoListing
  Free = Free
  Gone = Gone
  MaxCommands = 1
  MaxFaults = 1
  MaxBlocks = 0
SYMMETRY Interchangeable
INVARIANTS TargetsConserved QueuedWithinBatch CompletedIsComplete
PROPERTY ImplementsLedger
\* A run that is over has nothing left to do.
CHECK_DEADLOCK FALSE
