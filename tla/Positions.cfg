SPECIFICATION Spec
CONSTANTS
    None = None
    NaN = NaN
    Scale = 4
    Atrs = {1, NaN}
    Quotes = {16}
    Bars <- MCBars
    Params <- MCParams
    Switching <- SwitchParams
INVARIANTS
    FrameWhiteListed
    VacantSideForgets
    EntryBarFillTraded
PROPERTIES
    LeavesForCause
    EntriesFollowSignals
    BreachLeaves
    StopsOnlyTighten
CHECK_DEADLOCK FALSE
