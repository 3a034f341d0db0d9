CONSTANTS
  Base = "b1"
  Order <- MCOrder
  Interval <- MCInterval
  Inputs <- MCInputs
  Nowhere = Nowhere
  None = None
  Horizon = 5
SPECIFICATION Spec
CHECK_DEADLOCK FALSE
INVARIANTS
  CompleteIsEnough
  OnlyDataIsMissing
  CutsKeepSight
PROPERTY OpenMarketServed
