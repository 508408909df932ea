SPECIFICATION LiveSpec
CONSTANTS
    Producers = 2
    Shapes <- TwoSizes
    MaxMessages = 2
    MaxBytes = 2
    BatchLimit = 2
    LatencyMin = 2
    LatencyMax = 3
    LatencyTarget = 2
    Nowait = FALSE
    AckOwned = TRUE
    MaxLeftover = 2
    MaxFrames = 4
    MaxConnections = 1
PROPERTIES
    LeftoversLeave
CHECK_DEADLOCK FALSE
