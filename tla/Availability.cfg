SPECIFICATION Spec
CONSTANTS
  Runs = {r1, r2, r3}
  NoRun = NoRun
  Listings = {l1}
  Workers = {w1, w2}
  MaxTime = 3
SYMMETRY Interchangeable
INVARIANT EvidenceDecides
INVARIANT SightingsConfirm
PROPERTY OnlyCompleteRunsInfer
PROPERTY SoldStands
PROPERTY LatestObservationWins
\* The runs are used up.
CHECK_DEADLOCK FALSE
