SPECIFICATION DeliverySpec
CONSTANTS
    m1 = m1
    m2 = m2
    p1 = p1
    p2 = p2
    p3 = p3
    Mid <- MCMid
    Message <- Three
    QosOf <- QosThree
    SizeOf <- SizeThree
    AliasOnly <- None
    Segmented <- None
    Stores = {"durable"}
    Negotiation <- Windows
    LocalWindow = 2
    HydrateWindow = 1
    MaxMessages = 2
    MaxBytes = 4
    AdmissionFaults <- None
    MaxFaults = 2
INVARIANTS
    Qos2AtMostOnce
    CompleteMeansDelivered
    ReceiveMaximumRespected
    AdmissionOrder
PROPERTIES ReceiptsSettle Qos1AtLeastOnce
CHECK_DEADLOCK FALSE
