\* UartOptionSet may fail once
SPECIFICATION Spec
CONSTANTS
  Rates <- TwoRates
  WaitMax = 2
  TempSize = 2
  BufSize = 4
  Environments <- Faulty
INVARIANTS
  SuccessMeansFitted
CHECK_DEADLOCK FALSE
