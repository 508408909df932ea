SPECIFICATION Spec
CONSTANTS
    m1 = m1
    m2 = m2
    m3 = m3
    q1 = q1
    q2 = q2
    al = al
    Mid <- MCMid3
    Message <- MCMessage
    QosOf <- MCQosOf
    SizeOf <- MCSizeOf
    AliasOnly <- MCAliasOnly
    Segmented <- MCSegmented
    Stores = {"memory", "durable"}
    Negotiation <- MCNegotiation
    LocalWindow = 2
    HydrateWindow = 1
    MaxMessages = 3
    MaxBytes = 4
    AdmissionFaults = {"wait"}
SYMMETRY IdSymmetry
INVARIANTS
    SessionExact
PROPERTIES
    DupIffResent
    InFlightIdFreedByBroker
