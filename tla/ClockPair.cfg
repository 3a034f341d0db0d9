SPECIFICATION ClockSpec
CONSTANTS
  Strategies <- Pair
  Durations <- ShortRuns
  Raising = {"b"}
  Period = 12
  Window = 5
  Interval = 1
  MaxTime = 40
CHECK_DEADLOCK FALSE
INVARIANTS
  OncePerPeriod
  NoPeriodLost
