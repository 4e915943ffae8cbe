SPECIFICATION FairSpec
CONSTANTS
  d1 = d1
  d2 = d2
  d4 = d4
  Datasets = {d1, d2, d4}
  ShardOf <- MCShardOf
  Rank <- MCRank
  Shards = {0, 1}
  Steps = {0, 1, 2}
  Threads = 2
  FailFastFlags = {TRUE, FALSE}
  MaxAttempts = 1
  MaxFaults = 1
  SchemaDrift = TRUE
  ByHand = TRUE
INVARIANTS GreenMergeIsComplete StepsAccount
PROPERTIES StepsEnd
CHECK_DEADLOCK FALSE
