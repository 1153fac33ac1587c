SPECIFICATION Spec
CONSTANTS
    MaxApprovals = 3
    MaxClock = 4
    Delay = 2
    NoId = NoId
CHECK_DEADLOCK FALSE
INVARIANT NoDanglingCall
