SPECIFICATION Spec
CONSTANTS
  Setups <- CalmMarket
  MaxFailures = 1
  MaxAttempts = 2
  MaxPeriods = 1
CHECK_DEADLOCK FALSE
INVARIANT FailureIsRepaired
