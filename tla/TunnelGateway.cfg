SPECIFICATION Spec
CONSTANTS
    g1 = g1
    g2 = g2
    a = a
    b = b
    f = f
    e1 = e1
    e2 = e2
    Off = Off
    Gateway = {g1, g2}
    NodeId = {a, b, f}
    MadeUp = {f}
    NoNode = NoNode
    Endpoint = {e1, e2}
    NoEndpoint = NoEndpoint
    SurrogateEndpoint = e2
    Ttl = {1, 2}
    MaxLate = 1
    MaxTransit = 1
    MaxFaults = 1
    Scenarios <- MCScenarios
SYMMETRY MCSymmetry
INVARIANTS
    TypeOK
    NoEcho
    UntrackedHasLeft
    MapsAgree
    NoNullRearm
PROPERTIES
    ObserversServed
