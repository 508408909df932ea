SPECIFICATION Spec
CONSTANTS
    s1 = s1
    s2 = s2
    Supervisors <- MCSupervisors
    Policies = {"on"}
    MaxRetries = 2
    MaxGens = 3
    MaxConnects = 2
    MaxDisconnects = 0
    MaxLosses = 2
    MaxCancels = 0
    SealFails = FALSE
SYMMETRY SupervisorSymmetry
INVARIANT LiveConnectionKept
CHECK_DEADLOCK FALSE
