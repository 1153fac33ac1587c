SPECIFICATION Spec
CONSTANTS
    p1 = p1
    p2 = p2
    p3 = p3
    Process = {p1, p2, p3}
    n1 = n1
    Outgoing <- MCOutgoing
    NodeId = {n1}
    NoNode = NoNode
    NoSlot = NoSlot
    Blank <- MCBlank
    Packet <- MCPacket
    MAX_CLIENTS = 3
    REGION = 4
    SIZE_MAX = 5
    MAX_MESSAGES = 2
    MaxObjects = 1
    Budgets <- MCBudgets
CHECK_DEADLOCK FALSE
INVARIANT
    OwnBuffer
