CONSTANTS
  Setups <- MCSetups
  Buffer = 1
  Tries = 3
  Faults = 1
  Idle = Idle
SPECIFICATION Spec
CHECK_DEADLOCK FALSE
PROPERTIES
  ImplementsFeed
  TakenIsScanned
  BarsScanned
  SignalsReported
