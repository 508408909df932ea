SPECIFICATION LiveSpec
CONSTANTS
    Drainer <- MCDrainer
    Reader = "reader"
    Flusher <- MCFlusher
    MaxEffects = 3
    MaxBatch = 2
    MaxEpoch = 4
INVARIANTS
    LaneExact
    SendOrder
    FailureReported
PROPERTY DrainEnds
CHECK_DEADLOCK FALSE
