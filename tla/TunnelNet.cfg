SPECIFICATION Spec
CONSTANTS
    a = a
    b = b
    Endpoint = {a, b}
    NodeId = {}
    NoNode = NoNode
    kKeepaliveTimeout = 3
    MaxAge = 5
    PeerLists <- MCPeerLists
    MaxLoss = 3
    MaxShuffle = 1
    MaxCrash = 1
    MaxQuit = 1
INVARIANTS
    TypeOK
    HandshakeDone
    DetectionBound
PROPERTIES
    SurvivesLosses
    EchoesEnd
    DeadPeerDropped
