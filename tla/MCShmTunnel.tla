---------------------------- MODULE MCShmTunnel ----------------------------
(* Processes on objects with three slots, of which the code grants two, and *)
(* room for one more ring behind them.                                      *)
EXTENDS ShmTunnel

CONSTANTS n1, p1, p2, p3

\* One message to all slots, one along a route, and one that ends a route.
MCOutgoing ==
    {[type |-> "BROADCAST", from |-> n1, to |-> NoNode],
     [type |-> "UNICAST",   from |-> n1, to |-> n1],
     [type |-> "BYEBYE",    from |-> n1, to |-> NoNode]}

\* Tunnels that come and go, that crash, and that exchange messages until they know
\* routes and lose them.
MCBudgets ==
    {[who |-> {p1, p2}, opens |-> 3, stops |-> 2, forwards |-> 0, crashes |-> 0, splits |-> 1],
     [who |-> {p1, p2}, opens |-> 3, stops |-> 1, forwards |-> 0, crashes |-> 1, splits |-> 1],
     [who |-> {p1, p2}, opens |-> 2, stops |-> 1, forwards |-> 1, crashes |-> 0, splits |-> 1],
     [who |-> {p1, p2}, opens |-> 2, stops |-> 0, forwards |-> 2, crashes |-> 0, splits |-> 1]}

MCPacket == [source : Id, message : Message]

MCBlank ==
    [source |-> 0, message |-> [type |-> "ZERO", from |-> NoNode, to |-> NoNode]]

\* Three processes on object 1, with num clients and their rings.
Start(num, rings, tunnels) ==
    /\ memory = [o \in Object |->
                    IF o = 1 THEN [num_clients |-> num, broadcast |-> rings]
                    ELSE [num_clients |-> 0, broadcast |-> [k \in Place |-> EmptyRing]]]
    /\ name = 1
    /\ created = 1
    /\ proc = [p \in Process |-> [tunnels[p] EXCEPT !.object = 1]]
    /\ budget = [who |-> {p3}, opens |-> 0, stops |-> 1, forwards |-> 0, crashes |-> 0,
                 splits |-> 1]
    /\ mishaps = {}

\* p1 and p2 have joined and HELLO is on its way when p3, which opened the object
\* before them, is about to construct it once more.
LateFirst ==
    Start(2, [k \in Place |->
                 IF k = 0
                 THEN Push(EmptyRing, [source |-> 1, message |-> Control("TUNNEL_HELLO")])
                 ELSE EmptyRing],
          p1 :> Running(NoTunnel) @@ p2 :> Running([NoTunnel EXCEPT !.mClientId = 1])
              @@ p3 :> [NoTunnel EXCEPT !.step = "opened"])

\* p3 constructed it once more after the destructors of p1 and p2 have read num_clients.
LateDestructors ==
    LET Leaving(id) == [NoTunnel EXCEPT !.step = "leaving", !.seen = 2, !.mClientId = id]
    IN  Start(1, [k \in Place |-> EmptyRing],
              p1 :> Leaving(0) @@ p2 :> Leaving(1) @@ p3 :> Running(NoTunnel))

MCSpec == (Init \/ LateFirst \/ LateDestructors) /\ [][Next]_vars /\ Fairness
=============================================================================
