SPECIFICATION Spec
CONSTANTS
    a = a
    b = b
    Endpoint = {a, b}
    NodeId = {}
    NoNode = NoNode
    kKeepaliveTimeout = 3
    MaxAge = 5
    PeerLists <- MCMutual
    MaxLoss = 1
    MaxShuffle = 0
    MaxCrash = 0
    MaxQuit = 0
PROPERTY Recovers
