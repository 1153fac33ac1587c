SPECIFICATION Spec
CONSTANTS
    Thread = {t1, t2}
    n1 = n1
    n2 = n2
    NoNode = NoNode
    Message <- MCMessage
    mCapacity = 2
    mWindow = 2
    MaxClock = 3
    Idle = Idle
    Never = Never
SYMMETRY MCSymmetry
INVARIANTS
    TypeOK
    CacheCoherent
PROPERTIES
    NoFalseDrop
    NoEarlyRepeat
    ImplementsRecentFilter
