SPECIFICATION Spec
CONSTANTS
    id1 = id1
    id2 = id2
    q0 = q0
    q1 = q1
    q2 = q2
    Mid <- MCMid
    Message <- MCMessage
    QosOf <- MCQos
    SizeOf <- MCSize
    ReceiveMaximum = 2
    MaxInboundBytes = 3
    ReplayBatch = 1
    LotPackets = 2
    Modes <- ManualOnly
SYMMETRY IdSymmetry
INVARIANTS
    UnackedQos2Reachable
