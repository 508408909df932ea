SPECIFICATION Spec
CONSTANTS
    i1 = i1
    i2 = i2
    i3 = i3
    Iterator <- TwoIterators
    Sizes = {1}
    MaxMessages = 2
    MaxBytes = 2
    Modes <- Either
    Deadline = TRUE
    LotSize = 2
    MaxArrivals = 3
    MaxStreams = 2
SYMMETRY IteratorSymmetry
INVARIANTS
    AckedSurvivesDeadline
CHECK_DEADLOCK FALSE
