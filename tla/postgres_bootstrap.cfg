SPECIFICATION SlotSpec
CONSTANTS
    None = None
    Scenarios <- PostgresScenarios
    BusCapacity = 2
    MaxDenied = 2
    MaxUnmappableStreak = 3
    MaxCursorRecoveries = 1
    MaxPending = 2
PROPERTY
    BaseRowsArrive
CHECK_DEADLOCK FALSE
