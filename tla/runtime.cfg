CONSTANTS
    NEvents = 3
    Mark <- MCMark
    Barriers <- MCBarriers
    Size <- MCSize
    ByteLimits <- MCByteLimits
    BusCapacity = 2
    MaxEvents = 2
    MaxParallel = 2
    NoCommand = NoCommand
    Loops = {"dispatcher", "memory", "loop", "agent", "identity"}
SPECIFICATION RuntimeSpec
INVARIANTS
    TypeOK
    WatermarkCoversHandledPrefix
    CleanExitIsComplete
    RequestsWithinLimits
    AccountingExact
    
    PauseHolds
    ReportedIsTrue
    IdentityHolds
PROPERTIES
    ImplementsDurablePrefix
    DispatcherSettles
    
    CommandsTakeEffect
    OperationsOnce
    OperationsSettle
CHECK_DEADLOCK FALSE
