-------------------------- MODULE MCTunnelGateway --------------------------
(* Four scenarios: two gateways on one LAN and a node that appears on both  *)
(* sides of the tunnel; the same with a unicast to a node only one of them  *)
(* may know; one gateway with nodes of several lifetimes that is stopped;   *)
(* one gateway with measurements, a node that changes its endpoint and a    *)
(* ping from an endpoint that a node uses too.                              *)
EXTENDS TunnelGateway

CONSTANTS g1, g2, a, b, f, e1, e2

Alive(n, e, ttl) == [type |-> "alive", ident |-> n, endpoint |-> e, ttl |-> ttl]
ByeBye(n) == [type |-> "byebye", ident |-> n, endpoint |-> e1, ttl |-> 1]
Unknown(n) == [type |-> "other", ident |-> n, endpoint |-> e1, ttl |-> 1]
FromTunnel(type, n, to, ttl) == [type |-> type, from |-> n, to |-> to, ttl |-> ttl]

MovingNode ==
    [gateways |-> {g1, g2},
     lan      |-> {Alive(a, e1, 1)},
     tunnel   |-> {FromTunnel("BROADCAST", a, NoNode, 1), FromTunnel("BYEBYE", a, NoNode, 1)},
     measure  |-> {},
     stops    |-> FALSE]

TwoGateways ==
    [gateways |-> {g1, g2},
     lan      |-> {Alive(b, e1, 1)},
     tunnel   |-> {FromTunnel("BROADCAST", a, NoNode, 1), FromTunnel("UNICAST", a, b, 1)},
     measure  |-> {},
     stops    |-> FALSE]

Stopped(g) ==
    [gateways |-> {g},
     lan      |-> {Alive(a, e1, 1), Alive(a, e1, 2), Unknown(b)},
     tunnel   |-> {FromTunnel("BROADCAST", b, NoNode, 1), FromTunnel("UNICAST", b, a, 2),
                   FromTunnel("UNICAST", f, a, 1), FromTunnel("BYEBYE", b, NoNode, 1)},
     measure  |-> {},
     stops    |-> TRUE]

Measurements(g) ==
    [gateways |-> {g},
     lan      |-> {Alive(a, e1, 1), Alive(a, e2, 1), ByeBye(a)},
     tunnel   |-> {FromTunnel("BROADCAST", b, NoNode, 1),
                   FromTunnel("MEASUREMENT_PING", b, a, 1),
                   FromTunnel("MEASUREMENT_PONG", b, f, 1)},
     measure  |-> [type : {"ping", "pong"}, from : {e1, e2}],
     stops    |-> FALSE]

MCScenarios ==
    {MovingNode, TwoGateways} \cup {Stopped(g) : g \in Gateway}
                              \cup {Measurements(g) : g \in Gateway}

\* The set of scenarios is closed under exchanging the gateways.
MCSymmetry == Permutations(Gateway)
=============================================================================
