SPECIFICATION Spec
CONSTANTS
  Setups <- SafeSetups
  MaxFailures = 3
  MaxAttempts = 2
  MaxPeriods = 5
CHECK_DEADLOCK FALSE
INVARIANTS
  OnePosition
  Protected
PROPERTIES
  ExitFlattens
  StopOutlivesPosition
