\* one of each fault, and time enough for a failure before the timeout
SPECIFICATION FairSpec
CONSTANTS
  Modulus = 4
  Overtime = 3
  FileSize = 1500
  TransferSizes = {1024}
  ModuleMaxLens = {1024, 1040}
  Timely = FALSE
  FaultLimit <- AnyOneFault
INVARIANTS
  FailureNamed
PROPERTIES
  Termination
CHECK_DEADLOCK FALSE
