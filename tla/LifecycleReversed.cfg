SPECIFICATION Spec
CONSTANTS
    s1 = s1
    s2 = s2
    Supervisors <- MCSupervisors
    Policies = {"on"}
    MaxRetries = 2
    MaxGens = 2
    MaxConnects = 1
    MaxDisconnects = 1
    MaxLosses = 1
    MaxCancels = 0
    SealFails = FALSE
SYMMETRY SupervisorSymmetry
INVARIANT DisconnectNotReversed
CHECK_DEADLOCK FALSE
