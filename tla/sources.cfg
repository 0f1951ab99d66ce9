SPECIFICATION FairSpec
CONSTANTS
    None = None
    Scenarios <- MCScenarios
    BusCapacity = 2
    MaxDenied = 2
    MaxUnmappableStreak = 3
    MaxCursorRecoveries = 1
    MaxPending = 2
INVARIANTS
    TypeOK
    
    
PROPERTIES
    CursorMonotone
    
CHECK_DEADLOCK FALSE
