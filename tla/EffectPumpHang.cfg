SPECIFICATION LiveSpec
CONSTANTS
    Drainer <- MCDrainer
    Reader = "reader"
    Flusher <- MCFlusher
    MaxEffects = 2
    MaxBatch = 2
    MaxEpoch = 3
PROPERTY EveryDrainEnds
CHECK_DEADLOCK FALSE
