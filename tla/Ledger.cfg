SPECIFICATION KernelSpec
CONSTANTS
    None = None
    NaN = NaN
    Scale = 4
    Atrs = {1}
    Quotes = {16}
    Bars <- MCBars
    Params <- MCParams
    Switching <- MCSwitching
    Capital = 1000
    FeeFixed = 10
    FeePct = 1
    Length = 5
PROPERTIES
    Positions
    PaidOnce
CHECK_DEADLOCK FALSE
