CONSTANTS
  NaN = NaN
  Idle <- MCIdle
  Fails = Fails
  Nothing = Nothing
  One = 2
  SortsInPlace = 2
  Calls <- MCCalls
SPECIFICATION Spec
CHECK_DEADLOCK FALSE
INVARIANTS
  ResumesAlike
  SpansAreStretches
  BestIsBest
  TopKAreBest
  StopsForCause
  QuantilesHold
