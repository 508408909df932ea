INIT DeliveryInit
NEXT DeliveryNext
CONSTANTS
    id1 = id1
    id2 = id2
    m1 = m1
    m2 = m2
    m3 = m3
    m4 = m4
    Mid <- MCMid
    Message <- Two
    QosOf <- QosOnes
    SizeOf <- SizeTwo
    Outbox <- OutboxTwo
    ReceiveMaximum = 2
    MaxInboundBytes = 9
    ReplayBatch = 1
    LotPackets = 2
    Modes <- ManualOnly
    MaxFaults = 2
INVARIANTS
    ManualPubackOrder
CHECK_DEADLOCK FALSE
