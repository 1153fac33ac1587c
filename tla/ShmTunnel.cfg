SPECIFICATION MCSpec
CONSTANTS
    p1 = p1
    p2 = p2
    p3 = p3
    Process = {p1, p2, p3}
    n1 = n1
    Outgoing <- MCOutgoing
    NodeId = {n1}
    NoNode = NoNode
    NoSlot = NoSlot
    Blank <- MCBlank
    Packet <- MCPacket
    MAX_CLIENTS = 3
    REGION = 4
    SIZE_MAX = 5
    MAX_MESSAGES = 3
    MaxObjects = 2
    Budgets <- MCBudgets
CHECK_DEADLOCK FALSE
INVARIANTS
    TypeOK
    NoOwnMessage
    ArrayBounds
PROPERTIES
    RingIsQueue
    HellosEnd
