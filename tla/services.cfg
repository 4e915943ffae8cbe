SPECIFICATION ServicesSpec
CONSTANTS
  MaxRuns = 3
  Outputs = {"o1"}
  Input <- MCInput
  Splits = {"train", "val"}
  Limit = 0
  BatchSize = 2
  MaxWorkers = 2
  Retry = 1
  Answers = {"OK", "TIMEOUT"}
  Atomic = FALSE
  MaxOutages = 1
  MaxCuts = 1
  Clients = {"a", "b"}
  Pod = "a"
  MaxRetries = 1
  MaxSyncs = 1
  MaxFlips = 1
  MaxDeaths = 1
  HbTasks = {"t1", "t2"}
  StepOf <- MCStepOf
  HbPhases = 2
  Interval = 1
  WarnAfter = 1
  StaleAfter = 2
  MaxTime = 2
  Loaders = {"p", "q"}
  Objects = {"meta", "data", "video"}
  LeftOut = {"video"}
  SizeOf <- MCSizes
  MaxLosses = 1
  QcDatasets = {"rob", "dro"}
  FamilyOf <- MCFamilyOf
  FilesOf <- MCFilesOf
  SampleLimit = 2
  Threads = 2
  Episodes = {"e1", "e3"}
  EpisodeOf <- MCEpisodeOf
  Ratios = {"most", "half"}
  BucketOf <- MCBucketOf
  Losses = {"download", "features", "scores", "report"}
  MaxQcLosses = 1
  MaxChanges = 1
  MaxQcCuts = 1
  N = 4
  MaxSize = 4
  Targets = {0, 4, 5}
  Caps = {0, 1, 2, 3, 5}
CONSTRAINT FewFaults
INVARIANTS FilesAreOfTheRun AnswersItsSample DistilledNamesSource
INVARIANTS TablesHold SyncIsTrue CheckIsRight CacheIsCurrent RejectedStaysOut
INVARIANTS NoTwoMergeable OverflowIsSpread
CHECK_DEADLOCK FALSE
