SPECIFICATION Spec
CONSTANTS
  Plans <- MCPlans
  Warmup = 2
  Raws <- MCRaws
  Markets <- MCMarkets
  None = None
INVARIANTS
  KeepsParams
  CarryEnters
  Replayed
CHECK_DEADLOCK FALSE
