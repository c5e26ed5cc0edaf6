\* every kind of fault once, or answers in time from a module that talks
SPECIFICATION FairSpec
CONSTANTS
  Rates <- ThreeRates
  WaitMax = 4
  TempSize = 2
  BufSize = 5
  Environments <- FaultyKilledOrTimely
INVARIANTS
  TypeOK
  FittedMeansAgreed
  FoundAtItsRate
  PortClosed
  OldTrafficGone
PROPERTIES
  ReachesAgreement
  FitReturns
  FitsTimelyModule
CHECK_DEADLOCK FALSE
