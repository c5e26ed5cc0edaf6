\* every kind of fault, once each
SPECIFICATION Spec
CONSTANTS
  Modulus = 4
  Overtime = 2
  FileSize = 2100
  TransferSizes = {1024, 2048}
  ModuleMaxLens = {1024, 1040, 2064}
  Timely = FALSE
  FaultLimit <- AnyOneFault
INVARIANTS
  TypeOK
  FreshReply
  PiecesInPlace
  NoBreeding
  SuccessMeansComplete
  FramesFitDevice
PROPERTIES
  DeliversInOrderOnce
CHECK_DEADLOCK FALSE
