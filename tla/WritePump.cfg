SPECIFICATION LiveSpec
CONSTANTS
    Producers = 2
    Shapes <- AckAndSegments
    MaxMessages = 2
    MaxBytes = 3
    BatchLimit = 2
    LatencyMin = 2
    LatencyMax = 3
    LatencyTarget = 2
    Nowait = TRUE
    AckOwned = TRUE
    MaxLeftover = 1
    MaxFrames = 4
    MaxConnections = 2
INVARIANTS
    WireExact
PROPERTIES
    FailedGenerationSilent
    ProducersLeave
CHECK_DEADLOCK FALSE
