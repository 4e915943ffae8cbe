SPECIFICATION FairSpec
CONSTANTS
  e1 = e1
  n1 = n1
  f1 = f1
  Emitters = {e1}
  Reingests = {p1}
  Batch <- MCBatch
  Refused = {n1}
  Loud = FALSE
  DbStates = {"ok", "drift"}
  MaxDbChanges = 2
  MaxRows = 2
  MaxFaults = 0
PROPERTIES NoRecordBlocks
CHECK_DEADLOCK FALSE
