CONSTANTS
  MaxRows = 14
  None = None
  Plans <- MCPlans
SPECIFICATION Spec
CHECK_DEADLOCK FALSE
INVARIANTS
  OneSchedule
  NoPeek
  StartsWarm
