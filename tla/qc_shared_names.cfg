SPECIFICATION GateSpec
CONSTANTS
  QcDatasets = {"rob", "dro"}
  FamilyOf <- MCFamilyOf
  FilesOf <- MCFilesShared
  SampleLimit = 2
  Threads = 2
  Episodes = {"e1", "e3"}
  EpisodeOf <- MCEpisodeOf
  Ratios = {"most", "half"}
  BucketOf <- MCBucketOf
  Losses = {}
  MaxQcLosses = 0
  MaxChanges = 0
  MaxQcCuts = 0
INVARIANT ProbesAreTheirFiles
CHECK_DEADLOCK FALSE
