SPECIFICATION DeliverySpec
CONSTANTS
    id1 = id1
    id2 = id2
    m1 = m1
    m2 = m2
    m3 = m3
    m4 = m4
    Mid <- MCMid
    Message <- MCMessage
    QosOf <- MCQos
    SizeOf <- MCSize
    Outbox <- MCOutbox
    ReceiveMaximum = 2
    MaxInboundBytes = 9
    ReplayBatch = 1
    LotPackets = 2
    Modes <- Either
    MaxFaults = 2
INVARIANTS
    ConformingBrokerAccepted
    Qos2GivenOnce
    CompletedIsOwned
PROPERTIES
    RetiredByOwner ExchangesEnd
CHECK_DEADLOCK FALSE
