SPECIFICATION LiveSpec
CONSTANTS
  e1 = e1
  n1 = n1
  f1 = f1
  Emitters = {e1}
  Reingests = {p1, p2}
  Batch <- MCBatch
  Refused = {}
  Loud = FALSE
  DbStates = {"ok", "drift", "no_table", "no_lake"}
  MaxDbChanges = 1
  MaxRows = 2
  MaxFaults = 1
  Dirs <- MCDirs
  Contents <- MCContents
  Limits <- MCLimits
  Policy <- MCPolicy
  MaxSeconds = 1
  MaxUploads = 1
  MaxRequests = 1
  MaxRaises = 1
  Families <- MCFamilies
  Platform = {"sla_checks"}
  MaxCreated = 3
  MaxAbsences = 2
INVARIANTS RecordsAccounted SkippedWasEarned UpMeansFresh
PROPERTIES KeptUntilStored Drains ScanReachesAll ExporterCatchesUp
CHECK_DEADLOCK FALSE
