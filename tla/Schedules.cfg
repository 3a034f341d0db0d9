SPECIFICATION Spec
CONSTANTS
    None = None
    Schedules <- MCSchedules
    Lengths = {1, 2, 3, 4}
    Kinds = {"sl_pct", "tsl_atr"}
    AtrKinds = {"tsl_atr"}
    Funds = {1, 2}
INVARIANTS
    NeverFails
    RowsFollowSchedule
CHECK_DEADLOCK FALSE
