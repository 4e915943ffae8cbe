SPECIFICATION FairSpec
CONSTANTS
  j1 = j1
  j2 = j2
  j3 = j3
  u1 = u1
  u2 = u2
  NoJob = NoJob
  Workers = {w1, w2}
  MaxJobs = 2
  MaxStarts = 0
  MaxFaults = 2
  PgLossy = FALSE
  Samples = 3
  Jobs = {j1, j2}
  Uris = {u1, u2}
  Rank <- MCRank2
  Output <- MCOutput2
INVARIANTS ClaimExclusive FinishedIsReported RowsAreBacked
PROPERTIES StatusMoves LiveWorkersServe
