SPECIFICATION Spec
CONSTANTS
  j1 = j1
  j2 = j2
  j3 = j3
  u1 = u1
  u2 = u2
  NoJob = NoJob
  Workers = {w1}
  MaxJobs = 1
  MaxStarts = 0
  MaxFaults = 1
  PgLossy = FALSE
  Samples = 2
  Jobs = {j1, j2}
  Uris = {u1, u2}
  Rank <- MCRank2
  Output <- MCOutput2
INVARIANTS CrashKeepsQueued
