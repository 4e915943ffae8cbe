SPECIFICATION Spec
CONSTANTS
  Workers = {w1}
  MaxGen = 1
  MaxRuns = 3
  MaxFaults = 2
  Atomic = FALSE
  Exclusive = TRUE
  ForceFlags = {FALSE}
  ResumeFlags = {TRUE, FALSE}
  PgLossy = FALSE
INVARIANTS ResumeIsSafe
CHECK_DEADLOCK FALSE
