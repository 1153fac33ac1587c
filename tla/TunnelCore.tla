----------------------------- MODULE TunnelCore -----------------------------
(***************************************************************************)
(* The handlers of UdpTunnel (src/include/ableton/extender/UdpTunnel.hpp)  *)
(* as functions of a tunnel record.  Each handler runs to completion on    *)
(* the one IO thread, so each is one operator: it takes the tunnel before  *)
(* the handler and returns a Result, the tunnel after it with what the     *)
(* handler handed to the outside.  UdpTunnel.tla interleaves the handlers  *)
(* of one tunnel; TunnelNet.tla lets the tunnels of several sites talk.    *)
(*                                                                         *)
(* Abstractions.  Vector indices are 1-based and a std::map is a total     *)
(* function in which NotFound (0) marks an absent key.  Payloads are left  *)
(* out: no handler looks into them.  last_seen is kept as its age in       *)
(* maintenance intervals (5 s): the number of interval boundaries passed   *)
(* since, saturating at MaxAge (the default time_point {} is older than    *)
(* any timeout).  An age of k stands for any real time between k - 1 and   *)
(* k + 1 intervals, so at k = kKeepaliveTimeout the comparison in          *)
(* runMaintenance can go either way (see TimedOut).                        *)
(***************************************************************************)
EXTENDS Naturals, Sequences, SequencesExt

CONSTANTS
    Endpoint,           \* UDP endpoints of tunnel peers
    NodeId,             \* Link node ids
    NoNode,             \* the empty std::optional<NodeId>
    kKeepaliveTimeout,  \* in maintenance intervals (15 s / 5 s = 3 in the code)
    MaxAge              \* bound: ages saturate here

ASSUME TimeoutAssumption ==
    /\ kKeepaliveTimeout \in Nat
    /\ MaxAge \in Nat
    /\ MaxAge > kKeepaliveTimeout

ASSUME NoNodeAssumption == NoNode \notin NodeId

NotFound == 0

PeerConnectionState == {"DISCONNECTED", "CONNECTING", "CONNECTED"}

ControlType == {"TUNNEL_HELLO", "TUNNEL_KEEPALIVE", "TUNNEL_BYE"}
\* Types that gateways hand to forward() and that tunnels carry between them.
DataType == {"BROADCAST", "UNICAST", "BYEBYE", "MEASUREMENT_PING", "MEASUREMENT_PONG"}
\* encapsulate() writes a to_node for these, and fails when there is none.
AddressedType == {"UNICAST", "MEASUREMENT_PING", "MEASUREMENT_PONG"}
\* Only these pass through the duplicate filter.
DedupType == {"BROADCAST", "UNICAST", "BYEBYE"}

PeerEntry == [endpoint : Endpoint, state : PeerConnectionState, age : 0..MaxAge]

Tunnel ==
    [mPeers                : Seq(PeerEntry),
     mEndpointToPeerIdx    : [Endpoint -> Nat],
     remoteNodeIdToPeerIdx : [NodeId -> Nat],
     mPendingPeers         : SUBSET Endpoint,
     mRejectedPeers        : SUBSET Endpoint,
     is_running            : BOOLEAN]

Message ==
    [type : ControlType \cup DataType,
     from : NodeId \cup {NoNode},
     to   : NodeId \cup {NoNode}]

Datagram == [msg : Message, dst : Endpoint]

-----------------------------------------------------------------------------
(* What a handler leaves behind: the tunnel, the datagrams it sent, the    *)
(* messages it gave to forward_locally and the unknown-peer callbacks.     *)

Result == [tunnel : Tunnel, sent : SUBSET Datagram,
           local : SUBSET Message, prompt : SUBSET Endpoint]

Quiet(t) == [tunnel |-> t, sent |-> {}, local |-> {}, prompt |-> {}]

Sending(t, datagrams) == [Quiet(t) EXCEPT !.sent = datagrams]

\* sendControlMessage: the node id is default constructed, there is no payload.
Control(type) == [type |-> type, from |-> NoNode, to |-> NoNode]

ControlTo(type, e) == [msg |-> Control(type), dst |-> e]

-----------------------------------------------------------------------------
(* The peer table and its two indices.                                     *)

NewPeer(e) == [endpoint |-> e, state |-> "DISCONNECTED", age |-> MaxAge]

IndicesOf(peers, e) == {i \in DOMAIN peers : peers[i].endpoint = e}

\* mEndpointToPeerIdx[mPeers[i].endpoint] = i for i ascending: the last entry
\* of an endpoint wins.
RebuildEndpointIndex(peers) ==
    [e \in Endpoint |->
        IF IndicesOf(peers, e) = {} THEN NotFound ELSE Max(IndicesOf(peers, e))]

ErasePeerNodeIds(nodes, i) ==
    [n \in NodeId |-> IF nodes[n] = i THEN NotFound ELSE nodes[n]]

Known(t, e) == t.mEndpointToPeerIdx[e] # NotFound

Connected(t, i) == t.mPeers[i].state = "CONNECTED"

PeerOf(t, e) == t.mPeers[t.mEndpointToPeerIdx[e]]

\* Every index entry points into mPeers, at an entry of its own endpoint.
InBounds(t) ==
    \A e \in Endpoint :
        Known(t, e) => /\ t.mEndpointToPeerIdx[e] \in 1..Len(t.mPeers)
                       /\ PeerOf(t, e).endpoint = e

\* Every entry of mPeers is found through the index.
Indexed(t) == \A i \in DOMAIN t.mPeers : Known(t, t.mPeers[i].endpoint)

\* Forgets the index.
PushPeer_Bad(t, e) == [t EXCEPT !.mPeers = Append(@, NewPeer(e))]

PushPeer(t, e) ==
    [t EXCEPT !.mPeers = Append(@, NewPeer(e)),
              !.mEndpointToPeerIdx[e] = Len(t.mPeers) + 1]

\* The constructor: every configured endpoint is pushed, repeated ones too.
NewTunnel(initial_peers) ==
    LET peers == [i \in DOMAIN initial_peers |-> NewPeer(initial_peers[i])]
    IN  [mPeers                |-> peers,
         mEndpointToPeerIdx    |-> RebuildEndpointIndex(peers),
         remoteNodeIdToPeerIdx |-> [n \in NodeId |-> NotFound],
         mPendingPeers         |-> {},
         mRejectedPeers        |-> {},
         is_running            |-> TRUE]
-----------------------------------------------------------------------------
(* Tasks that other threads post to the IO thread.                         *)

AddPeer(t, e) ==
    IF Known(t, e) THEN Quiet(t)
    ELSE Sending(PushPeer(t, e), {ControlTo("TUNNEL_HELLO", e)})

\* Erases the entry but leaves the indices of the entries behind it alone.
RemovePeer_Bad(t, e) ==
    LET idx == t.mEndpointToPeerIdx[e]
    IN  IF ~Known(t, e) THEN Quiet(t)
        ELSE Sending(
                [t EXCEPT !.remoteNodeIdToPeerIdx = ErasePeerNodeIds(@, idx),
                          !.mPeers                = RemoveAt(@, idx),
                          !.mEndpointToPeerIdx[e] = NotFound],
                {ControlTo("TUNNEL_BYE", e)})

\* Erases the entry and rebuilds the endpoint index.  The node ids that belong
\* to the erased entry go; those of the entries behind it keep their old index.
RemovePeer(t, e) ==
    LET idx   == t.mEndpointToPeerIdx[e]
        peers == RemoveAt(t.mPeers, idx)
    IN  IF ~Known(t, e) THEN Quiet(t)
        ELSE Sending(
                [t EXCEPT !.remoteNodeIdToPeerIdx = ErasePeerNodeIds(@, idx),
                          !.mPeers                = peers,
                          !.mEndpointToPeerIdx    = RebuildEndpointIndex(peers)],
                {ControlTo("TUNNEL_BYE", e)})

\* The task behind the accept function given to the unknown-peer callback.
Accept(t, e) == AddPeer([t EXCEPT !.mPendingPeers = @ \ {e}], e)

\* Leaves the endpoint pending.
Reject_Bad(t, e) == Quiet([t EXCEPT !.mRejectedPeers = @ \cup {e}])

\* The task behind the reject function given to the unknown-peer callback.
Reject(t, e) ==
    Quiet([t EXCEPT !.mPendingPeers  = @ \ {e},
                    !.mRejectedPeers = @ \cup {e}])

-----------------------------------------------------------------------------
(* handleReceive, by message type.                                         *)

\* The callback runs once per HELLO.
HandleUnknownPeer_Bad(t, e) ==
    IF e \in t.mRejectedPeers THEN Quiet(t)
    ELSE [Quiet([t EXCEPT !.mPendingPeers = @ \cup {e}]) EXCEPT !.prompt = {e}]

HandleUnknownPeer(t, e) ==
    IF e \in t.mRejectedPeers \/ e \in t.mPendingPeers THEN Quiet(t)
    ELSE [Quiet([t EXCEPT !.mPendingPeers = @ \cup {e}]) EXCEPT !.prompt = {e}]

\* Echoes every HELLO.
HandleHello_Bad(t, e) ==
    LET idx == t.mEndpointToPeerIdx[e]
    IN  IF ~Known(t, e) THEN HandleUnknownPeer(t, e)
        ELSE Sending([t EXCEPT !.mPeers[idx].state = "CONNECTED",
                               !.mPeers[idx].age   = 0],
                     {ControlTo("TUNNEL_HELLO", e)})

\* Never answers a HELLO.
HandleHello_Silent(t, e) ==
    LET idx == t.mEndpointToPeerIdx[e]
    IN  IF ~Known(t, e) THEN HandleUnknownPeer(t, e)
        ELSE Quiet([t EXCEPT !.mPeers[idx].state = "CONNECTED",
                             !.mPeers[idx].age   = 0])

\* A HELLO connects the peer; it is echoed only by a tunnel it newly connected.
HandleHello(t, e) ==
    LET idx == t.mEndpointToPeerIdx[e]
    IN  IF ~Known(t, e) THEN HandleUnknownPeer(t, e)
        ELSE Sending([t EXCEPT !.mPeers[idx].state = "CONNECTED",
                               !.mPeers[idx].age   = 0],
                     IF Connected(t, idx) THEN {}
                     ELSE {ControlTo("TUNNEL_HELLO", e)})

HandleKeepalive(t, e) ==
    IF Known(t, e) /\ Connected(t, t.mEndpointToPeerIdx[e])
    THEN Quiet([t EXCEPT !.mPeers[t.mEndpointToPeerIdx[e]].age = 0])
    ELSE Quiet(t)

\* Forgets to drop the routes behind the peer.
HandleBye_Bad(t, e) ==
    IF Known(t, e)
    THEN Quiet([t EXCEPT !.mPeers[t.mEndpointToPeerIdx[e]].state = "DISCONNECTED"])
    ELSE Quiet(t)

HandleBye(t, e) ==
    LET idx == t.mEndpointToPeerIdx[e]
    IN  IF Known(t, e)
        THEN Quiet([t EXCEPT !.mPeers[idx].state = "DISCONNECTED",
                             !.remoteNodeIdToPeerIdx = ErasePeerNodeIds(@, idx)])
        ELSE Quiet(t)

\* BYEBYE and data are taken from connected peers only.
HandleByeBye(t, e, m) ==
    IF Known(t, e) /\ Connected(t, t.mEndpointToPeerIdx[e])
    THEN [Quiet([t EXCEPT !.remoteNodeIdToPeerIdx[m.from] = NotFound])
             EXCEPT !.local = {m}]
    ELSE Quiet(t)

\* std::map::emplace: the first mapping of a node id is kept.
HandleData(t, e, m) ==
    IF Known(t, e) /\ Connected(t, t.mEndpointToPeerIdx[e])
    THEN [Quiet([t EXCEPT !.remoteNodeIdToPeerIdx[m.from] =
                              IF @ = NotFound THEN t.mEndpointToPeerIdx[e] ELSE @])
             EXCEPT !.local = {m}]
    ELSE Quiet(t)

HandleReceive(t, e, m) ==
    CASE m.type = "TUNNEL_HELLO"     -> HandleHello(t, e)
      [] m.type = "TUNNEL_KEEPALIVE" -> HandleKeepalive(t, e)
      [] m.type = "TUNNEL_BYE"       -> HandleBye(t, e)
      [] m.type = "BYEBYE"           -> HandleByeBye(t, e, m)
      [] OTHER                       -> HandleData(t, e, m)

-----------------------------------------------------------------------------
(* Maintenance, forwarding and shutdown.                                   *)

\* One interval too early.
TimedOut_Bad(t, i, over) == Connected(t, i) /\ t.mPeers[i].age + 1 >= kKeepaliveTimeout

\* One interval too late.
TimedOut_Late(t, i, over) == Connected(t, i) /\ t.mPeers[i].age > kKeepaliveTimeout + 1

\* now - last_seen > kKeepaliveTimeout, in real time.  The two moments lie
\* anywhere in their intervals: at the boundary age, over holds the peers for
\* which the difference came out above the timeout.
TimedOut(t, i, over) ==
    /\ Connected(t, i)
    /\ \/ t.mPeers[i].age > kKeepaliveTimeout
       \/ t.mPeers[i].age = kKeepaliveTimeout /\ i \in over

\* The state of peer i after the maintenance pass.
MaintainedState(t, i, over) ==
    CASE TimedOut(t, i, over) -> "DISCONNECTED"
      [] Connected(t, i) /\ ~TimedOut(t, i, over) -> "CONNECTED"
      [] OTHER -> "CONNECTING"

\* Takes a KEEPALIVE it sends for a sign of life.
RunMaintenance_Bad(t, over) ==
    IF ~t.is_running THEN Quiet(t)
    ELSE Sending(
            [t EXCEPT
               !.mPeers = [i \in DOMAIN @ |->
                             [@[i] EXCEPT !.state = MaintainedState(t, i, over),
                                          !.age = IF Connected(t, i) THEN 0 ELSE @]]],
            {ControlTo(IF Connected(t, i) THEN "TUNNEL_KEEPALIVE" ELSE "TUNNEL_HELLO",
                       t.mPeers[i].endpoint) : i \in DOMAIN t.mPeers})

\* One pass over the peers: a timed out peer loses its routes and is dialled
\* again only by the next pass; a live one gets a KEEPALIVE, any other a HELLO.
RunMaintenance(t, over) ==
    IF ~t.is_running THEN Quiet(t)
    ELSE Sending(
            [t EXCEPT
               !.mPeers = [i \in DOMAIN @ |->
                             [@[i] EXCEPT !.state = MaintainedState(t, i, over)]],
               !.remoteNodeIdToPeerIdx = [n \in NodeId |->
                   IF @[n] \in DOMAIN t.mPeers /\ TimedOut(t, @[n], over)
                   THEN NotFound ELSE @[n]]],
            {ControlTo(IF Connected(t, i) THEN "TUNNEL_KEEPALIVE" ELSE "TUNNEL_HELLO",
                       t.mPeers[i].endpoint) :
                 i \in {j \in DOMAIN t.mPeers : ~TimedOut(t, j, over)}})

\* Sends everything to every connected peer.
Forward_Bad(t, m) ==
    {[msg |-> m, dst |-> t.mPeers[i].endpoint] :
        i \in {j \in DOMAIN t.mPeers : Connected(t, j)}}

\* The datagrams forward() sends once the duplicate filter has let m pass.
Forward(t, m) ==
    LET idx == t.remoteNodeIdToPeerIdx[m.to]
        targets ==
            CASE m.type \in AddressedType /\ m.to = NoNode -> {}
              [] m.type \in {"UNICAST", "MEASUREMENT_PING"} /\ m.to # NoNode ->
                    {i \in DOMAIN t.mPeers : i = idx /\ Connected(t, i)}
              [] OTHER -> {i \in DOMAIN t.mPeers : Connected(t, i)}
    IN  {[msg |-> IF m.type \in AddressedType THEN m ELSE [m EXCEPT !.to = NoNode],
          dst |-> t.mPeers[i].endpoint] : i \in targets}

\* stop_listening, first part: the flag that the other handlers look at.
StopFlag(t) == [t EXCEPT !.is_running = FALSE]

\* stop_listening, second part: BYE to every connected peer.
StopByes(t) ==
    {ControlTo("TUNNEL_BYE", t.mPeers[i].endpoint) :
        i \in {j \in DOMAIN t.mPeers : Connected(t, j)}}

\* stop_listening, last part.  mPeers is not cleared.
StopClear(t) ==
    [t EXCEPT !.mPendingPeers         = {},
              !.mRejectedPeers        = {},
              !.remoteNodeIdToPeerIdx = [n \in NodeId |-> NotFound],
              !.mEndpointToPeerIdx    = [e \in Endpoint |-> NotFound]]

Older(age) == IF age < MaxAge THEN age + 1 ELSE age

\* One maintenance interval passes: every last_seen is one interval older.
Age(t) ==
    [t EXCEPT !.mPeers = [i \in DOMAIN t.mPeers |->
        [t.mPeers[i] EXCEPT !.age = Older(t.mPeers[i].age)]]]
=============================================================================
