\* a module that may refuse one request
SPECIFICATION Spec
CONSTANTS
  Modulus = 4
  Overtime = 4
  FileSize = 1500
  TransferSizes = {1024}
  ModuleMaxLens = {1040}
  Timely = TRUE
  FaultLimit <- OneRefusal
INVARIANTS
  SuccessMeansRebooted
CHECK_DEADLOCK FALSE
