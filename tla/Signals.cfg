CONSTANTS
  Base = "base"
  Order <- MCOrder
  Interval <- MCInterval
  Calls <- MCCalls
  NaN = NaN
  None = None
  Absent = Absent
SPECIFICATION SignalSpec
CHECK_DEADLOCK FALSE
INVARIANTS
  ZoneWasEntered
  FiresOnKnown
  ClosedBarsOnly
