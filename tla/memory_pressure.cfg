CONSTANTS
    NEvents = 3
    Mark <- MCMark
    Barriers <- MCBarriers
    Size <- MCSize
    ByteLimits <- MCByteLimits
    BusCapacity = 2
    MaxEvents = 2
    MaxParallel = 2
    NoCommand = NoCommand
    Loops = {"memory"}
SPECIFICATION RuntimeSpec
PROPERTY
    TransformProgresses
CHECK_DEADLOCK FALSE
