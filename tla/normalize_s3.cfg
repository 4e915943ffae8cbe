SPECIFICATION Spec
CONSTANTS
  Workers = {w1, w2}
  MaxGen = 1
  MaxRuns = 3
  MaxFaults = 2
  Atomic = TRUE
  Exclusive = FALSE
  ForceFlags = {TRUE, FALSE}
  ResumeFlags = {TRUE, FALSE}
  PgLossy = FALSE
SYMMETRY WorkerSymmetry
INVARIANTS PublishedComplete SliceIsTold
CHECK_DEADLOCK FALSE
