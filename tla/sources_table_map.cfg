SPECIFICATION Spec
CONSTANTS
    None = None
    Scenarios <- TableMapScenarios
    BusCapacity = 2
    MaxDenied = 2
    MaxUnmappableStreak = 3
    MaxCursorRecoveries = 1
    MaxPending = 2
INVARIANT
    NothingMissing
CHECK_DEADLOCK FALSE
