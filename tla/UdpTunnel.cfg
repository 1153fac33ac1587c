SPECIFICATION Spec
CONSTANTS
    a = a
    b = b
    Endpoint = {a, b}
    NodeId = {n1}
    NoNode = NoNode
    NoEndpoint = NoEndpoint
    kKeepaliveTimeout = 0
    MaxAge = 1
    MaxPeers = 2
    MaxTasks = 2
    InitialPeers <- MCInitialPeers
SYMMETRY MCSymmetry
INVARIANTS
    TypeOK
    IndexInBounds
    IndexComplete
    PromptOnce
    RouteSound
    UnicastToOrigin
    OneLateReceive
