SPECIFICATION Spec
CONSTANTS
    s1 = s1
    s2 = s2
    Supervisors <- MCSupervisors
    Policies = {"off", "on", "refused"}
    MaxRetries = 2
    MaxGens = 2
    MaxConnects = 2
    MaxDisconnects = 1
    MaxLosses = 1
    MaxCancels = 1
    SealFails = TRUE
SYMMETRY SupervisorSymmetry
INVARIANTS
    WorkIsOwned
    OneOwner
    NobodyStuck
    DisconnectIsFinal
PROPERTIES
    HooksMatchState
CHECK_DEADLOCK FALSE
