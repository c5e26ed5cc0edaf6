\* a lost frame, a repeated reply and a kill, each of which may cost a run
SPECIFICATION PatientSpec
CONSTANTS
  Modulus = 4
  Overtime = 4
  FileSize = 1500
  TransferSizes = {1024, 2048}
  ModuleMaxLens = {2064}
  Timely = TRUE
  FaultLimit <- CostlyFaults
  KillLimit = 1
  RerunLimit = 2
INVARIANTS
  FreshReply
  InstalledWhole
PROPERTIES
  RetriesSucceed
CHECK_DEADLOCK FALSE
