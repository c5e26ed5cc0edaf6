\* one frame that is not a reply
SPECIFICATION Spec
CONSTANTS
  Modulus = 4
  Overtime = 4
  FileSize = 1500
  TransferSizes = {1024}
  ModuleMaxLens = {1040}
  Timely = TRUE
  FaultLimit <- OneForeign
PROPERTIES
  WaitMeansNoAnswer
CHECK_DEADLOCK FALSE
