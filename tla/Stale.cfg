\* only stale replies, answers in time
SPECIFICATION FairSpec
CONSTANTS
  Modulus = 4
  Overtime = 7
  FileSize = 2100
  TransferSizes = {1024, 2048}
  ModuleMaxLens = {1040, 2064}
  Timely = TRUE
  FaultLimit <- StaleReplies
PROPERTIES
  CompletesDespiteStaleReplies
CHECK_DEADLOCK FALSE
