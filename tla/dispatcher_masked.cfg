CONSTANTS
    NEvents = 3
    Mark <- MCMark
    Barriers <- MCBarriers
    Size <- MCSize
    ByteLimits <- MCByteLimits
    BusCapacity = 2
    MaxEvents = 2
    MaxParallel = 2
    NoCommand = NoCommand
    Loops = {"dispatcher"}
SPECIFICATION RuntimeSpec
INVARIANT
    DurabilityFailureIsReported
CHECK_DEADLOCK FALSE
