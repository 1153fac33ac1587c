SPECIFICATION Spec
CONSTANTS
    eth = eth
    wifi = wifi
    p1 = p1
    p2 = p2
    Interface = {eth, wifi}
    MaxGateways = 2
    MaxTasks = 3
    Peer = {p1, p2}
    Session = {s1, s2}
    NoSession = NoSession
    NoGateway = NoGateway
    Scenarios <- MCScenarios
INVARIANTS
    OneGatewayPerInterface
