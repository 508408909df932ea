SPECIFICATION Spec
CONSTANTS
    Filter <- MCFilter
    Topic <- MCTopic
    Dollar <- MCDollar
    Callback = {1, 2}
    MaxSequence = 4
INVARIANTS
    RouterExact
CHECK_DEADLOCK FALSE
