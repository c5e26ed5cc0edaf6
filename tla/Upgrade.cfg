\* every call may fail, and the file is replaced once
SPECIFICATION FairSpec
CONSTANTS
  Rates = {9600, 115200}
  TransferSizeTable = {2048, 32768}
  OptionLists <- UpToTwoOptions
  Base = 4
  ByteBits = 2
  Half = 2
  Block = 8
  Packages <- MCPackages
  Replacements <- OtherPackages
  ReplaceLimit = 1
  First = 1
  FileSize = 3
INVARIANTS
  HeldGivenBack
  VerdictRight
  SuccessMeansInstalled
  ExitTells
PROPERTIES
  TouchedOnlyAfterCheck
  Exits
CHECK_DEADLOCK FALSE
