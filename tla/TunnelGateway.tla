---------------------------- MODULE TunnelGateway ----------------------------
(***************************************************************************)
(* The TunnelGateways of one extender, one per network interface, all on   *)
(* the same LAN and all registered with the same tunnel.  A gateway hears  *)
(* the discovery messages of the LAN and forwards them into the tunnel; it *)
(* repeats what comes out of the tunnel on the LAN through a surrogate     *)
(* with sockets of its own for every remote node.  One IO thread runs all  *)
(* handlers; stop_listening is called on the application thread.           *)
(*                                                                         *)
(* Nodes on the LAN and the far side of the tunnel are an open environment *)
(* that sends any message of the scenario at any time.  What a surrogate   *)
(* multicasts is under way for at most MaxTransit seconds and may be lost, *)
(* delayed or heard several times, also by a gateway that has started to   *)
(* listen in the meantime.                                                 *)
(***************************************************************************)
EXTENDS PeerTracker

CONSTANTS
    Gateway,
    NodeId,
    MadeUp,       \* the random ids given to senders of pings
    NoNode,
    Endpoint,     \* addresses and ports of measurement sockets on the LAN
    NoEndpoint,
    SurrogateEndpoint, \* where a surrogate's measurement socket is
    Ttl,          \* times to live in discovery messages
    MaxLate,      \* seconds a timer may run late
    MaxTransit,   \* seconds a multicast may be under way
    MaxFaults,    \* bound: sockets that cannot be opened
    Scenarios     \* what happens: [gateways, lan, tunnel, measure, stops]

ASSUME GatewayAssumption == IsFiniteSet(Gateway)
ASSUME MadeUpAssumption == MadeUp \subseteq NodeId
ASSUME NoNodeAssumption == NoNode \notin NodeId
ASSUME NoEndpointAssumption == NoEndpoint \notin Endpoint /\ SurrogateEndpoint \in Endpoint
ASSUME BoundsAssumption == MaxLate \in Nat /\ MaxTransit \in Nat /\ MaxFaults \in Nat
\* A multicast arrives before its time to live is over (5 s in Link).
ASSUME TtlAssumption == Ttl \subseteq Nat /\ \A ttl \in Ttl : MaxTransit <= ttl

LanMessage == [type : {"alive", "byebye", "other"}, ident : NodeId,
               endpoint : Endpoint, ttl : Ttl]

TunnelMessage ==
    [type : {"BROADCAST", "BYEBYE"}, from : NodeId, to : {NoNode}, ttl : Ttl]
        \cup [type : {"UNICAST", "MEASUREMENT_PING", "MEASUREMENT_PONG"},
              from : NodeId, to : NodeId, ttl : Ttl]

Measurement == [type : {"ping", "pong"}, from : Endpoint]

ASSUME ScenariosAssumption ==
    Scenarios \subseteq [gateways : SUBSET Gateway, lan : SUBSET LanMessage,
                         tunnel : SUBSET TunnelMessage, measure : SUBSET Measurement,
                         stops : BOOLEAN]

VARIABLES
    scenario,   \* what the environment does in this behaviour
    gw,         \* per gateway: its data members
    gateways,   \* the gateways the tunnel knows
    lan,        \* multicasts of surrogates that are under way (present: history)
    rearm,      \* <<gateway, node>> of a handler that has read is_running
    dead,       \* the process has crashed
    forwarded,  \* what the last step gave to the tunnel
    faults,     \* sockets that could not be opened so far
    (* History, never read by the model:                                   *)
    unbacked,   \* <<gateway, node>>: no socket for the node's last message
    last,       \* per gateway and remote node: the type of its last message
    claims      \* per gateway: every <<node, endpoint>> that was recorded

vars == <<scenario, gw, gateways, lan, rearm, dead, forwarded, faults,
          unbacked, last, claims>>

history == <<unbacked, last, claims>>

NewGateway ==
    [phase      |-> "new",     \* "running" while is_running is set
     armed      |-> FALSE,     \* a multicast receive is outstanding
     surrogates |-> {},        \* keys of mRemoteNodeIdToRemoteNodeSurrogate
     measurers  |-> {},        \* keys of mRemoteNodeIdToRemoteMeasurementSurrogate
     endpointOf |-> [n \in NodeId |-> NoEndpoint],   \* localNodeIdToEndpointMap
     nodeAt     |-> [e \in Endpoint |-> NoNode],     \* localMeasurementEndpointToNodeId
     local      |-> NewTracker,
     remote     |-> NewTracker,
     localSeen  |-> {},        \* what mLocalObserver was told
     remoteSeen |-> {}]        \* what mRemoteObserver was told

Init ==
    /\ scenario \in Scenarios
    /\ gw = [g \in Gateway |-> NewGateway]
    /\ gateways = {}
    /\ lan = {}
    /\ rearm = {}
    /\ dead = FALSE
    /\ forwarded = {}
    /\ faults = 0
    /\ unbacked = {}
    /\ last = [g \in Gateway |-> [n \in NodeId |-> "none"]]
    /\ claims = [g \in Gateway |-> {}]

HasLocalNode(s, n) == s.endpointOf[n] # NoEndpoint

HasRemoteNodeSurrogate(s, n) == n \in s.surrogates

Result(s, out) == [gateway |-> s, out |-> out]

Tunnelled(type, from, to) == [type |-> type, from |-> from, to |-> to]

-----------------------------------------------------------------------------
(* Messages from the LAN.                                                  *)

\* Forgets the nodes and leaves their endpoints in the reverse map.
ForgetLocal_Bad(s, nodes) ==
    [s EXCEPT !.endpointOf = [n \in NodeId |-> IF n \in nodes THEN NoEndpoint ELSE @[n]]]

\* Erases the nodes and whatever the reverse map holds at their endpoints.
ForgetLocal(s, nodes) ==
    [s EXCEPT !.endpointOf = [n \in NodeId |-> IF n \in nodes THEN NoEndpoint ELSE @[n]],
              !.nodeAt = [e \in Endpoint |->
                             IF \E n \in nodes : s.endpointOf[n] = e THEN NoNode ELSE @[e]]]

\* Also drops the surrogate that the message was sent to.
ReceiveByeBye_Bad(s, m, to) ==
    Result([ForgetLocal(s, {m.ident}) EXCEPT !.local      = Untrack(@, m.ident),
                                             !.localSeen  = @ \ {m.ident},
                                             !.surrogates = @ \ {to}],
           {Tunnelled("BYEBYE", m.ident, to)})

ReceiveByeBye(s, m, to) ==
    Result([ForgetLocal(s, {m.ident}) EXCEPT !.local     = Untrack(@, m.ident),
                                             !.localSeen = @ \ {m.ident}],
           {Tunnelled("BYEBYE", m.ident, to)})

ReceivePeerState(s, m, to) ==
    Result([s EXCEPT !.endpointOf[m.ident] = m.endpoint,
                     !.nodeAt[m.endpoint]  = m.ident,
                     !.localSeen           = @ \cup {m.ident},
                     !.local               = UpdateTimeout(@, m.ident, m.ttl)],
           {Tunnelled(IF to = NoNode THEN "BROADCAST" ELSE "UNICAST", m.ident, to)})

\* What a surrogate of the own extender multicast is not taken for a local node.
HandleStateMessage(s, m, to) ==
    CASE HasRemoteNodeSurrogate(s, m.ident) \/ m.type = "other" -> Result(s, {})
      [] OTHER -> IF m.type = "byebye" THEN ReceiveByeBye(s, m, to)
                  ELSE ReceivePeerState(s, m, to)

\* A ping comes from a socket of its own: unless the endpoint is known it gets
\* a random id, which stays in both maps.
SendersOf(s, e) ==
    IF s.nodeAt[e] # NoNode THEN {s.nodeAt[e]}
    ELSE {fresh \in MadeUp : ~HasLocalNode(s, fresh)}

HandlePing(s, m, to, id) ==
    Result(IF id = s.nodeAt[m.from] THEN s
           ELSE [s EXCEPT !.nodeAt[m.from] = id, !.endpointOf[id] = m.from],
           {Tunnelled("MEASUREMENT_PING", id, to)})

\* Forwards a pong of an endpoint nobody is known at.
HandlePong_Bad(s, m, to) ==
    Result(s, {Tunnelled("MEASUREMENT_PONG", s.nodeAt[m.from], to)})

\* A pong comes from the measurement endpoint of a node.
HandlePong(s, m, to) ==
    Result(s, IF s.nodeAt[m.from] = NoNode THEN {}
              ELSE {Tunnelled("MEASUREMENT_PONG", s.nodeAt[m.from], to)})

-----------------------------------------------------------------------------
(* Messages from the tunnel.                                               *)

Multicast(m) == m.type \in {"BROADCAST", "BYEBYE"}

\* resolveDestination: everything else needs a local node to go to.
Routable(s, m) == Multicast(m) \/ HasLocalNode(s, m.to)

NeedsSocket(s, m) ==
    m.from \notin (IF m.type = "MEASUREMENT_PING" THEN s.measurers ELSE s.surrogates)

\* Sockets are created on demand, for a BYEBYE and a pong too.
OpenSockets(s, m) ==
    IF m.type = "MEASUREMENT_PING" THEN [s EXCEPT !.measurers = @ \cup {m.from}]
    ELSE [s EXCEPT !.surrogates = @ \cup {m.from}]

\* Only broadcasts count as a sign of life.
ObserveRemotePeerState_Bad(s, m) ==
    IF m.type # "BROADCAST" THEN s
    ELSE [s EXCEPT !.remoteSeen = @ \cup {m.from},
                   !.remote     = UpdateTimeout(@, m.from, m.ttl)]

ObserveRemotePeerState(s, m) ==
    [s EXCEPT !.remoteSeen = @ \cup {m.from},
              !.remote     = UpdateTimeout(@, m.from, m.ttl)]

\* Drops the surrogate together with the node.
OnRemotePeerLeft_Bad(s, m) ==
    [s EXCEPT !.remoteSeen = @ \ {m.from},
              !.remote     = Untrack(@, m.from),
              !.surrogates = @ \ {m.from}]

\* The surrogate stays.
OnRemotePeerLeft(s, m) ==
    [s EXCEPT !.remoteSeen = @ \ {m.from},
              !.remote     = Untrack(@, m.from)]

ForwardMessageLocally(s, m) ==
    LET opened == OpenSockets(s, m)
    IN  CASE ~Routable(s, m)                      -> s
          [] m.type \in {"BROADCAST", "UNICAST"}  -> ObserveRemotePeerState(opened, m)
          [] m.type = "BYEBYE"                    -> OnRemotePeerLeft(opened, m)
          [] OTHER                                -> opened

-----------------------------------------------------------------------------
(* The IO thread.                                                          *)

IoIdle == rearm = {} /\ ~dead

Note(g, r) == forwarded' = {[gateway |-> g, msg |-> m] : m \in r.out}

\* The endpoints that g has recorded for its nodes.
Claim(g) ==
    claims' = [claims EXCEPT ![g] = @ \cup
        {<<n, gw'[g].endpointOf[n]>> : n \in {q \in NodeId : HasLocalNode(gw'[g], q)}}]

\* GatewayFactory creates a gateway for an interface and lets it listen.  (That
\* it may also do so while the tunnel is stopped is a matter of Controller.tla.)
Listen(g) ==
    /\ IoIdle
    /\ g \in scenario.gateways
    /\ gw[g].phase = "new"
    /\ \A h \in gateways : gw[h].phase = "running"
    /\ gw' = [gw EXCEPT ![g].phase = "running", ![g].armed = TRUE]
    /\ gateways' = gateways \cup {g}
    /\ forwarded' = {}
    /\ UNCHANGED <<scenario, lan, rearm, dead, faults, history>>

\* operator(): a message on the multicast socket, then the next receive.
Receive(g, m, inSubnet) ==
    /\ IoIdle
    /\ gw[g].armed
    /\ LET r == IF inSubnet THEN HandleStateMessage(gw[g], m, NoNode)
                ELSE Result(gw[g], {})
       IN  /\ gw' = [gw EXCEPT ![g] = [r.gateway EXCEPT !.armed = gw[g].phase = "running"]]
           /\ Note(g, r)
    /\ Claim(g)
    /\ UNCHANGED <<scenario, gateways, lan, rearm, dead, faults, unbacked, last>>

HearNode(g) ==
    \E m \in scenario.lan, inSubnet \in BOOLEAN : Receive(g, m, inSubnet)

\* The multicast of another gateway's surrogate.
HearSurrogate(g) ==
    \E p \in lan : g \in p.hearers /\ Receive(g, p.msg, TRUE)

\* operator() on the state socket of a surrogate.  The next receive needs the
\* surrogate again (RearmSurrogate): the application thread may come between.
ReceiveOnSurrogate(g, n, m) ==
    /\ IoIdle
    /\ n \in gw[g].surrogates
    /\ LET r == HandleStateMessage(gw[g], m, n)
       IN  gw' = [gw EXCEPT ![g] = r.gateway] /\ Note(g, r)
    /\ rearm' = IF gw[g].phase = "running" THEN {<<g, n>>} ELSE {}
    /\ Claim(g)
    /\ UNCHANGED <<scenario, gateways, lan, dead, faults, unbacked, last>>

\* mRemoteNodeIdToRemoteNodeSurrogate[*to_node_id]->receiveState: operator[]
\* creates an empty pointer for a node without a surrogate.
RearmSurrogate ==
    /\ ~dead
    /\ rearm # {}
    /\ dead' = \E gn \in rearm : gn[2] \notin gw[gn[1]].surrogates
    /\ rearm' = {}
    /\ forwarded' = {}
    /\ UNCHANGED <<scenario, gw, gateways, lan, faults, history>>

\* A ping or pong on the measurement socket of a surrogate of either kind.
ReceiveMeasurement(g, n, m) ==
    /\ IoIdle
    /\ n \in gw[g].surrogates \cup gw[g].measurers
    /\ \E r \in IF m.type = "pong" THEN {HandlePong(gw[g], m, n)}
                ELSE {HandlePing(gw[g], m, n, id) : id \in SendersOf(gw[g], m.from)} :
          gw' = [gw EXCEPT ![g] = r.gateway] /\ Note(g, r)
    /\ Claim(g)
    /\ UNCHANGED <<scenario, gateways, lan, rearm, dead, faults, unbacked, last>>

\* What the surrogate multicasts for a message from the tunnel.
OnLan(m) == [type |-> IF m.type = "BYEBYE" THEN "byebye" ELSE "alive",
             ident |-> m.from, endpoint |-> SurrogateEndpoint, ttl |-> m.ttl]

\* An interface does not hear its own multicasts (enable_loopback is off).  Every
\* other one does that listens when the multicast arrives, since when ever.
Hearers(senders) == {h \in scenario.gateways : senders \ {h} # {}}

\* The hearers that listened already when the multicast was sent.
Present(senders) == {h \in Hearers(senders) : gw[h].phase = "running"}

\* Tunnel::forward_locally: every gateway gets the message.  A gateway that
\* cannot open a socket gives the message up (catch (...)).
ForwardLocally(m, noSocket) ==
    LET failing == {g \in noSocket : Routable(gw[g], m) /\ NeedsSocket(gw[g], m)}
        handled == {g \in gateways \ failing : Routable(gw[g], m)}
    IN  /\ IoIdle
        /\ noSocket \subseteq gateways
        /\ failing = noSocket
        /\ faults' = faults + Cardinality(failing)
        /\ faults' <= MaxFaults
        /\ gw' = [g \in Gateway |-> IF g \in handled THEN ForwardMessageLocally(gw[g], m)
                                    ELSE gw[g]]
        /\ lan' = lan \cup {p \in {[msg     |-> OnLan(m),
                                   hearers |-> Hearers(handled),
                                   present |-> Present(handled),
                                   left    |-> MaxTransit]} :
                               Multicast(m) /\ p.hearers # {}}
        /\ unbacked' = (unbacked \cup (failing \X {m.from}))
                           \ {gn \in handled \X {m.from} : gn[2] \in gw'[gn[1]].surrogates}
        /\ last' = [g \in Gateway |-> IF g \in handled /\ m.type # "MEASUREMENT_PING"
                                      THEN [last[g] EXCEPT ![m.from] = m.type]
                                      ELSE last[g]]
        /\ forwarded' = {}
        /\ UNCHANGED <<scenario, gateways, rearm, dead, claims>>

\* The timer of mLocalTracker: onLocalPeerTimedOut for every expired node.
PruneLocal(g) ==
    LET over == Expired(gw[g].local)
    IN  /\ IoIdle
        /\ Due(gw[g].local)
        /\ gw' = [gw EXCEPT ![g] = [ForgetLocal(gw[g], over) EXCEPT
                                       !.local     = Prune(@),
                                       !.localSeen = @ \ over]]
        /\ forwarded' = {}
        /\ UNCHANGED <<scenario, gateways, lan, rearm, dead, faults, history>>

\* The timer of mRemoteTracker: onRemotePeerTimedOut for every expired node.
PruneRemote(g) ==
    LET over == Expired(gw[g].remote)
    IN  /\ IoIdle
        /\ Due(gw[g].remote)
        /\ gw' = [gw EXCEPT ![g].remote     = Prune(@),
                            ![g].remoteSeen = @ \ over,
                            ![g].surrogates = @ \ over,
                            ![g].measurers  = @ \ over]
        /\ forwarded' = {}
        /\ UNCHANGED <<scenario, gateways, lan, rearm, dead, faults, history>>

IoStep ==
    \/ \E g \in Gateway :
          \/ Listen(g) \/ HearNode(g) \/ HearSurrogate(g)
          \/ PruneLocal(g) \/ PruneRemote(g)
    \/ \E g \in Gateway, n \in NodeId :
          \/ \E m \in scenario.lan : ReceiveOnSurrogate(g, n, m)
          \/ \E m \in scenario.measure : ReceiveMeasurement(g, n, m)
    \/ RearmSurrogate
    \/ \E m \in scenario.tunnel, noSocket \in SUBSET gateways : ForwardLocally(m, noSocket)

-----------------------------------------------------------------------------
(* The application thread stops the gateways; time passes.                 *)

\* Tunnel::stop_listening stops one gateway after the other.
StopFlag(g) ==
    /\ ~dead
    /\ scenario.stops
    /\ \A h \in gateways : gw[h].phase # "stopping"
    /\ gw[g].phase = "running"
    /\ gw' = [gw EXCEPT ![g].phase = "stopping"]
    /\ forwarded' = {}
    /\ UNCHANGED <<scenario, gateways, lan, rearm, dead, faults, history>>

\* The surrogates are destroyed with their sockets; no observer is told.
StopClear(g) ==
    /\ ~dead
    /\ gw[g].phase = "stopping"
    /\ gw' = [gw EXCEPT ![g].phase      = "stopped",
                        ![g].surrogates = {},
                        ![g].measurers  = {},
                        ![g].endpointOf = NewGateway.endpointOf,
                        ![g].nodeAt     = NewGateway.nodeAt,
                        ![g].local      = Clear(@),
                        ![g].remote     = Clear(@)]
    /\ forwarded' = {}
    /\ UNCHANGED <<scenario, gateways, lan, rearm, dead, faults, history>>

\* gateways.clear() of Tunnel::stop_listening, after the loop over the gateways.
DropGateways ==
    /\ ~dead
    /\ gateways # {}
    /\ \A g \in gateways : gw[g].phase = "stopped"
    /\ gateways' = {}
    /\ forwarded' = {}
    /\ UNCHANGED <<scenario, gw, lan, rearm, dead, faults, history>>

OnTime(t) == t.mTimer # Off => t.mTimer > -MaxLate

Tick ==
    /\ ~dead
    /\ \A g \in Gateway : OnTime(gw[g].local) /\ OnTime(gw[g].remote)
    /\ gw' = [g \in Gateway |-> [gw[g] EXCEPT !.local = Elapse(@), !.remote = Elapse(@)]]
    /\ lan' = {[p EXCEPT !.left = @ - 1] : p \in {q \in lan : q.left > 0}}
    /\ forwarded' = {}
    /\ UNCHANGED <<scenario, gateways, rearm, dead, faults, history>>

AppStep == (\E g \in Gateway : StopFlag(g) \/ StopClear(g)) \/ DropGateways

Crashed == dead /\ UNCHANGED vars

Next == IoStep \/ AppStep \/ Tick \/ Crashed

Spec == Init /\ [][Next]_vars

-----------------------------------------------------------------------------
(* Properties.                                                             *)

Running(g) == gw[g].phase = "running"

Tracker == [mTimeouts : Seq([time : Int, node : NodeId]), mTimer : Int \cup {Off}]

GatewayState ==
    [phase : {"new", "running", "stopping", "stopped"}, armed : BOOLEAN,
     surrogates : SUBSET NodeId, measurers : SUBSET NodeId,
     endpointOf : [NodeId -> Endpoint \cup {NoEndpoint}],
     nodeAt : [Endpoint -> NodeId \cup {NoNode}],
     local : Tracker, remote : Tracker,
     localSeen : SUBSET NodeId, remoteSeen : SUBSET NodeId]

\* Every variable has its type, and a known node has an endpoint.
TypeOK ==
    /\ scenario \in Scenarios
    /\ gw \in [Gateway -> GatewayState]
    /\ gateways \subseteq Gateway
    /\ lan \subseteq [hearers : SUBSET Gateway, present : SUBSET Gateway,
                      msg : LanMessage, left : 0..MaxTransit]
    /\ rearm \subseteq Gateway \X NodeId
    /\ dead \in BOOLEAN
    /\ forwarded \subseteq [gateway : Gateway,
                            msg : [type : {"BROADCAST", "UNICAST", "BYEBYE",
                                           "MEASUREMENT_PING", "MEASUREMENT_PONG"},
                                   from : NodeId, to : NodeId \cup {NoNode}]]
    /\ faults \in 0..MaxFaults
    /\ unbacked \subseteq Gateway \X NodeId
    /\ last \in [Gateway -> [NodeId -> {"none", "BROADCAST", "UNICAST", "BYEBYE",
                                        "MEASUREMENT_PONG"}]]
    /\ claims \in [Gateway -> SUBSET (NodeId \X Endpoint)]

\* As long as the multicast of a surrogate can reach another gateway of the
\* extender, that gateway has a surrogate of the same node and ignores it:
\* a remote node is not taken for a local one and sent back into the tunnel.
\* The exceptions are a gateway that could not open the surrogate's sockets and
\* one that started to listen while the multicast was under way: it had no
\* surrogate to open when the message came out of the tunnel.
NoEcho ==
    \A p \in lan : \A g \in p.present :
        Running(g) /\ <<g, p.msg.ident>> \notin unbacked =>
            HasRemoteNodeSurrogate(gw[g], p.msg.ident)

\* A surrogate without a timeout, which nothing will ever remove and whose node
\* would stay unheard if it came to this LAN, belongs to a node whose last
\* message was a BYEBYE or a pong.
UntrackedHasLeft ==
    \A g \in Gateway : \A n \in gw[g].surrogates \ Tracked(gw[g].remote) :
        last[g][n] \in {"BYEBYE", "MEASUREMENT_PONG"}

\* localNodeIdToEndpointMap and localMeasurementEndpointToNodeId are inverse to
\* each other for a node and an endpoint that were only ever recorded with each
\* other: pongs leave under the id of the node that sent them, and the answer to
\* a ping returns to the socket it came from.
MapsAgree ==
    \A g \in Gateway, n \in NodeId, e \in Endpoint :
        (\A c \in claims[g] : c[1] = n <=> c[2] = e) =>
            (gw[g].endpointOf[n] = e <=> gw[g].nodeAt[e] = n)

\* The handler of a surrogate's state socket finds its surrogate again when it
\* starts the next receive; it can miss it only when stop_listening ran on the
\* application thread in between.
NoNullRearm == dead => \E g \in Gateway : gw[g].phase = "stopped"

\* The seconds until the peers an observer was told of are given up; a peer
\* that is seen without a timeout has none.
Lifetimes(g, seen, tracker) ==
    [n \in NodeId |-> CASE n \notin seen \/ ~Running(g) -> Off
                         [] n \in seen /\ Running(g) /\ n \in Tracked(tracker) ->
                                TimeOf(tracker, n)
                         [] OTHER -> NoNode]

\* A local node leaves with a byebye, which the same step forwards.
LocalExpiry(g) ==
    INSTANCE PeerExpiry WITH Node <- NodeId, Lifetime <- Ttl, Gone <- Off,
                             left <- Lifetimes(g, gw[g].localSeen, gw[g].local),
                             byes <- {f.msg.from : f \in
                                 {x \in forwarded : x.gateway = g /\ x.msg.type = "BYEBYE"}},
                             closed <- ~Running(g)

RemoteExpiry(g) ==
    INSTANCE PeerExpiry WITH Node <- NodeId, Lifetime <- Ttl, Gone <- Off,
                             left <- Lifetimes(g, gw[g].remoteSeen, gw[g].remote),
                             byes <- {n \in NodeId : last[g][n] = "BYEBYE"},
                             closed <- ~Running(g)

\* Both observers of every gateway get what PeerExpiry promises: no peer is
\* reported lost before its time to live is over unless it said goodbye, and
\* none stays longer than a second and a timer's delay after it, whatever the
\* order in which peers are heard, leave and are pruned.
ObserversServed ==
    /\ \A g \in Gateway : LocalExpiry(g)!Init /\ RemoteExpiry(g)!Init
    /\ [][\A g \in Gateway : LocalExpiry(g)!Step /\ RemoteExpiry(g)!Step]_vars
=============================================================================
