SPECIFICATION FairSpec
CONSTANTS
  Workers = {w1}
  MaxGen = 2
  MaxRuns = 3
  MaxFaults = 2
  Atomic = FALSE
  Exclusive = TRUE
  ForceFlags = {FALSE}
  ResumeFlags = {TRUE}
  PgLossy = TRUE
INVARIANTS ManifestVouches OneGeneration
PROPERTIES WriteOnce EventuallyPublished
CHECK_DEADLOCK FALSE
