SPECIFICATION LiveSpec
CONSTANTS
    Base = 2
    MinCapacity = 1
    InitialWindow = 2
    Quantum = 4
    PromoteAfter = 2
    Retention = 2
    MaxPacket = 6
    HighWater = 3
    LowWater = 1
    BatchLimit = 2
    Kinds <- MCKinds
    Wires <- MCWires
    MaxConnections = 2
INVARIANTS
    ReceiveExact
PROPERTY FramesTaken
CHECK_DEADLOCK FALSE
