--------------------------- MODULE TunnelNetProofs ---------------------------
(***************************************************************************)
(* The connection protocol for every number of sites, every assignment of  *)
(* peer lists and any number of faults.  Tunnels and channels are reasoned *)
(* about through two views: what a site believes about a peer, and which   *)
(* types of message are under way.  Lists may repeat an endpoint or name   *)
(* the site's own; of an endpoint that is repeated, Transmit sends one of  *)
(* the datagrams.                                                          *)
(***************************************************************************)
EXTENDS TunnelNet, TunnelCoreProofs

-----------------------------------------------------------------------------
(* What a site believes about a peer.                                      *)

Live(t, e) == Known(t, e) /\ PeerOf(t, e).state = "CONNECTED"

AgeOf(t, e) == PeerOf(t, e).age

\* Only the entry that the index names was ever connected: of an endpoint that
\* the peer list repeats, the other entries are dialled for ever.
SoleConnected(t) ==
    \A i \in DOMAIN t.mPeers :
        Connected(t, i) => t.mEndpointToPeerIdx[t.mPeers[i].endpoint] = i

\* A tunnel that runs, with a table that fits its index.
Sound(t) ==
    /\ t \in Tunnel
    /\ InBounds(t)
    /\ Indexed(t)
    /\ SoleConnected(t)
    /\ t.is_running

\* u believes of every peer but e what t does.
SameBut(t, u, e) ==
    /\ \A x \in Endpoint : Known(u, x) <=> Known(t, x)
    /\ \A x \in Endpoint : x # e /\ Known(t, x) => PeerOf(u, x) = PeerOf(t, x)

\* The entry of a known peer has its type, and is the peer's own.
LEMMA KnownPeer ==
    ASSUME NEW t, Sound(t), NEW e \in Endpoint, Known(t, e)
    PROVE  /\ t.mEndpointToPeerIdx[e] \in DOMAIN t.mPeers
           /\ PeerOf(t, e) = t.mPeers[t.mEndpointToPeerIdx[e]]
           /\ PeerOf(t, e) \in PeerEntry
           /\ PeerOf(t, e).endpoint = e
           /\ AgeOf(t, e) \in Nat
           /\ Live(t, e) <=> Connected(t, t.mEndpointToPeerIdx[e])
<1>1. /\ t.mPeers \in Seq(PeerEntry) /\ t.mEndpointToPeerIdx[e] \in 1..Len(t.mPeers)
      /\ PeerOf(t, e).endpoint = e
  BY DEF Sound, Tunnel, InBounds
<1>2. PeerOf(t, e) \in PeerEntry /\ PeerOf(t, e).age \in 0..MaxAge
  BY <1>1, PeerAt DEF PeerOf
<1> QED  BY <1>1, <1>2, TimeoutAssumption DEF PeerOf, AgeOf, Live, Connected

\* The constructor's tunnel is sound and connected to nobody.
LEMMA NewTunnelView ==
    ASSUME NEW peers \in Seq(Endpoint)
    PROVE  Sound(NewTunnel(peers)) /\ \A e \in Endpoint : ~Live(NewTunnel(peers), e)
<1> DEFINE t == NewTunnel(peers)
<1>1. t \in Tunnel /\ InBounds(t) /\ Indexed(t)
  BY NewTunnelProperties
<1>2. t.is_running /\ t.mPeers = [i \in DOMAIN peers |-> NewPeer(peers[i])]
  BY DEF NewTunnel
<1>3. \A i \in DOMAIN t.mPeers : ~Connected(t, i)
  BY <1>2 DEF Connected, NewPeer
<1> HIDE DEF t
<1>4. Sound(t)
  BY <1>1, <1>2, <1>3 DEF Sound, SoleConnected
<1> QED  BY <1>3, <1>4, KnownPeer DEF Live, t

\* Overwriting the entry of e changes the view of e only.
LEMMA ReplacedView ==
    ASSUME NEW t, Sound(t), NEW e \in Endpoint, Known(t, e),
           NEW p \in PeerEntry, p.endpoint = e, NEW u \in Tunnel,
           u.mPeers = [t.mPeers EXCEPT ![t.mEndpointToPeerIdx[e]] = p],
           u.mEndpointToPeerIdx = t.mEndpointToPeerIdx, u.is_running
    PROVE  Sound(u) /\ SameBut(t, u, e) /\ PeerOf(u, e) = p
<1> DEFINE idx == t.mEndpointToPeerIdx[e]
<1>1. t \in Tunnel /\ InBounds(t) /\ PeerOf(t, e).endpoint = e
  BY KnownPeer DEF Sound
<1>2. /\ idx \in 1..Len(t.mPeers) /\ Len(u.mPeers) = Len(t.mPeers)
      /\ u.mPeers[idx] = p
      /\ \A i \in 1..Len(t.mPeers) : i # idx => u.mPeers[i] = t.mPeers[i]
      /\ \A i \in 1..Len(t.mPeers) : u.mPeers[i].endpoint = t.mPeers[i].endpoint
  BY <1>1, ReplacePeer
<1>3. InBounds(u) /\ Indexed(u)
  <2>1. SameTable(t, u)
    BY <1>2 DEF SameTable
  <2> QED  BY <1>1, <2>1, SameTableKeepsIndex DEF Sound
<1>4. DOMAIN u.mPeers = 1..Len(t.mPeers) /\ DOMAIN t.mPeers = 1..Len(t.mPeers)
  BY <1>1, <1>2 DEF Tunnel
<1> HIDE DEF idx
<1>5. SoleConnected(u)
  <2> SUFFICES ASSUME NEW i \in 1..Len(t.mPeers), Connected(u, i)
               PROVE  u.mEndpointToPeerIdx[u.mPeers[i].endpoint] = i
    BY <1>4 DEF SoleConnected
  <2>1. CASE i = idx
    BY <1>2, <2>1 DEF idx
  <2>2. CASE i # idx
    <3>1. Connected(t, i)
      BY <1>2, <2>2 DEF Connected
    <3> QED  BY <1>2, <1>4, <2>2, <3>1 DEF Sound, SoleConnected
  <2> QED  BY <2>1, <2>2
<1>6. SameBut(t, u, e)
  <2>1. ASSUME NEW x \in Endpoint, x # e, Known(t, x) PROVE PeerOf(u, x) = PeerOf(t, x)
    <3>1. /\ t.mEndpointToPeerIdx[x] \in 1..Len(t.mPeers)
          /\ t.mPeers[t.mEndpointToPeerIdx[x]].endpoint = x
      BY <1>4, <2>1, KnownPeer
    <3>2. t.mEndpointToPeerIdx[x] # idx
      BY <1>1, <2>1, <3>1 DEF PeerOf, idx
    <3> QED  BY <1>2, <3>1, <3>2 DEF PeerOf
  <2> QED  BY <2>1 DEF SameBut, Known
<1> QED  BY <1>2, <1>3, <1>5, <1>6 DEF Sound, PeerOf, idx

\* What a control message of this type from e makes of t, and what is sent.
Received(t, e, type, r) ==
    /\ r \in Result
    /\ Sound(r.tunnel)
    /\ SameBut(t, r.tunnel, e)
    /\ ~Known(t, e) => r.sent = {}
    /\ type = "TUNNEL_HELLO" /\ Known(t, e) =>
          /\ Live(r.tunnel, e)
          /\ AgeOf(r.tunnel, e) = 0
          /\ r.sent = IF Live(t, e) THEN {} ELSE {ControlTo("TUNNEL_HELLO", e)}
    /\ type = "TUNNEL_KEEPALIVE" =>
          /\ r.sent = {}
          /\ Live(r.tunnel, e) <=> Live(t, e)
          /\ Live(t, e) => AgeOf(r.tunnel, e) = 0
    /\ type = "TUNNEL_BYE" => r.sent = {} /\ ~Live(r.tunnel, e)

\* A tunnel with the peers and the index of t is as sound, and believes the same.
LEMMA SamePeersView ==
    ASSUME NEW t, Sound(t), NEW u \in Tunnel, u.mPeers = t.mPeers,
           u.mEndpointToPeerIdx = t.mEndpointToPeerIdx, u.is_running
    PROVE  /\ Sound(u)
           /\ \A x \in Endpoint : /\ Known(u, x) <=> Known(t, x)
                                  /\ PeerOf(u, x) = PeerOf(t, x)
           /\ \A x \in Endpoint : SameBut(t, u, x)
BY DEF Sound, InBounds, Indexed, SoleConnected, Connected, Known, PeerOf, SameBut

\* A datagram from an endpoint that is not in the table changes no entry.
LEMMA UnknownView ==
    ASSUME NEW t, Sound(t), NEW e \in Endpoint, ~Known(t, e)
    PROVE  \A type : Received(t, e, type, HandleUnknownPeer(t, e)) /\ Received(t, e, type, Quiet(t))
<1>1. t \in Tunnel /\ t.is_running
  BY DEF Sound
<1>2. Quiet(t) \in Result /\ Quiet(t).tunnel = t /\ Quiet(t).sent = {}
  BY <1>1, QuietType
<1>3. HandleUnknownPeer(t, e) \in Result
  BY <1>1, HandleUnknownPeerEffect DEF ReceiveEffect
<1>4. /\ HandleUnknownPeer(t, e).tunnel.mPeers = t.mPeers
      /\ HandleUnknownPeer(t, e).tunnel.mEndpointToPeerIdx = t.mEndpointToPeerIdx
      /\ HandleUnknownPeer(t, e).tunnel.is_running
      /\ HandleUnknownPeer(t, e).sent = {}
  BY <1>1 DEF HandleUnknownPeer, Quiet, Tunnel
<1>5. HandleUnknownPeer(t, e).tunnel \in Tunnel
  BY <1>3 DEF Result
<1>6. ASSUME NEW r \in Result, r.sent = {}, r.tunnel.mPeers = t.mPeers,
             r.tunnel.mEndpointToPeerIdx = t.mEndpointToPeerIdx, r.tunnel.is_running
      PROVE  \A type : Received(t, e, type, r)
  <2>1. r.tunnel \in Tunnel
    BY DEF Result
  <2>2. Sound(r.tunnel) /\ SameBut(t, r.tunnel, e) /\ ~Known(r.tunnel, e)
    BY <1>6, <2>1, SamePeersView
  <2> QED  BY <1>6, <2>2 DEF Received, Live
<1> QED  BY <1>1, <1>2, <1>3, <1>4, <1>6

\* HELLO, KEEPALIVE and BYE, as the other sites will see their effect.
LEMMA ReceiveView ==
    ASSUME NEW t, Sound(t), NEW e \in Endpoint, NEW m \in Message, m.type \in ControlType
    PROVE  Received(t, e, m.type, HandleReceive(t, e, m))
<1> DEFINE idx == t.mEndpointToPeerIdx[e]
           r   == HandleReceive(t, e, m)
           u   == r.tunnel
<1>1. t \in Tunnel /\ InBounds(t) /\ t.is_running
  BY DEF Sound
<1>2. r \in Result /\ u \in Tunnel /\ u.is_running /\ SameTable(t, u)
  BY <1>1, HandleReceiveEffect DEF ReceiveEffect, Result
<1>3. CASE ~Known(t, e)
  <2>1. r = HandleUnknownPeer(t, e) \/ r = Quiet(t)
    BY <1>3 DEF HandleReceive, HandleHello, HandleKeepalive, HandleBye, ControlType
  <2> HIDE DEF r
  <2> QED  BY <1>3, <2>1, UnknownView DEF r
<1>4. CASE Known(t, e)
  <2>1. /\ idx \in DOMAIN t.mPeers /\ PeerOf(t, e) = t.mPeers[idx] /\ t.mPeers[idx] \in PeerEntry
        /\ t.mPeers[idx].endpoint = e /\ (Live(t, e) <=> Connected(t, idx))
        /\ DOMAIN t.mPeers = 1..Len(t.mPeers)
    BY <1>1, <1>4, KnownPeer DEF Tunnel
  <2>2. 0 \in 0..MaxAge /\ PeerConnectionState = {"DISCONNECTED", "CONNECTING", "CONNECTED"}
    BY TimeoutAssumption DEF PeerConnectionState
  <2>3. CASE m.type = "TUNNEL_HELLO"
    <3> DEFINE p == [t.mPeers[idx] EXCEPT !.state = "CONNECTED", !.age = 0]
               v == [t EXCEPT !.mPeers[idx].state = "CONNECTED", !.mPeers[idx].age = 0]
               d == IF Connected(t, idx) THEN {} ELSE {ControlTo("TUNNEL_HELLO", e)}
    <3>1. r = Sending(v, d)
      BY <1>4, <2>3 DEF HandleReceive, HandleHello
    <3>2. u = v /\ r.sent = d
      BY <3>1 DEF Sending, Quiet
    <3>3. /\ p \in PeerEntry /\ p.endpoint = e /\ p.state = "CONNECTED" /\ p.age = 0
      BY <2>1, <2>2 DEF PeerEntry
    <3>4. u.mPeers = [t.mPeers EXCEPT ![idx] = p] /\ u.mEndpointToPeerIdx = t.mEndpointToPeerIdx
      <4> HIDE DEF u, r
      <4> QED  BY <1>1, <2>1, <3>2 DEF Tunnel
    <3> HIDE DEF p, v, r
    <3>5. Sound(u) /\ SameBut(t, u, e) /\ PeerOf(u, e) = p
      BY <1>2, <1>4, <3>3, <3>4, ReplacedView
    <3>6. Live(u, e) /\ AgeOf(u, e) = 0
      BY <1>4, <3>3, <3>5 DEF Live, AgeOf, SameBut
    <3> QED  BY <1>2, <1>4, <2>1, <2>3, <3>2, <3>5, <3>6 DEF Received, r
  <2>4. CASE m.type = "TUNNEL_KEEPALIVE"
    <3>1. CASE ~Connected(t, idx)
      <4>1. r = Quiet(t)
        BY <2>4, <3>1 DEF HandleReceive, HandleKeepalive
      <4>2. u = t /\ r.sent = {}
        BY <1>1, <4>1, QuietType
      <4>3. SameBut(t, t, e) /\ ~Live(t, e)
        BY <2>1, <3>1 DEF SameBut
      <4> HIDE DEF r
      <4> QED  BY <1>2, <1>4, <2>4, <4>2, <4>3 DEF Received, r
    <3>2. CASE Connected(t, idx)
      <4> DEFINE p == [t.mPeers[idx] EXCEPT !.age = 0]
                 v == [t EXCEPT !.mPeers[idx].age = 0]
      <4>1. r = Quiet(v)
        BY <1>4, <2>4, <3>2 DEF HandleReceive, HandleKeepalive
      <4>2. u = v /\ r.sent = {}
        BY <4>1 DEF Quiet
      <4>3. p \in PeerEntry /\ p.endpoint = e /\ p.state = "CONNECTED" /\ p.age = 0
        BY <2>1, <2>2, <3>2 DEF PeerEntry, Connected
      <4>4. u.mPeers = [t.mPeers EXCEPT ![idx] = p] /\ u.mEndpointToPeerIdx = t.mEndpointToPeerIdx
        <5> HIDE DEF u, r
        <5> QED  BY <1>1, <2>1, <4>2 DEF Tunnel
      <4> HIDE DEF p, v, r
      <4>5. Sound(u) /\ SameBut(t, u, e) /\ PeerOf(u, e) = p
        BY <1>2, <1>4, <4>3, <4>4, ReplacedView
      <4>6. Live(u, e) /\ AgeOf(u, e) = 0 /\ Live(t, e)
        BY <1>4, <2>1, <3>2, <4>3, <4>5 DEF Live, AgeOf, SameBut
      <4> QED  BY <1>2, <1>4, <2>4, <4>2, <4>5, <4>6 DEF Received, r
    <3> QED  BY <3>1, <3>2
  <2>5. CASE m.type = "TUNNEL_BYE"
    <3> DEFINE p == [t.mPeers[idx] EXCEPT !.state = "DISCONNECTED"]
               v == [t EXCEPT !.mPeers[idx].state = "DISCONNECTED",
                              !.remoteNodeIdToPeerIdx = ErasePeerNodeIds(@, idx)]
    <3>1. r = Quiet(v)
      BY <1>4, <2>5 DEF HandleReceive, HandleBye
    <3>2. u = v /\ r.sent = {}
      BY <3>1 DEF Quiet
    <3>3. p \in PeerEntry /\ p.endpoint = e /\ p.state = "DISCONNECTED"
      BY <2>1, <2>2 DEF PeerEntry
    <3>4. u.mPeers = [t.mPeers EXCEPT ![idx] = p] /\ u.mEndpointToPeerIdx = t.mEndpointToPeerIdx
      <4> HIDE DEF u, r
      <4> QED  BY <1>1, <2>1, <3>2 DEF Tunnel
    <3> HIDE DEF p, v, r
    <3>5. Sound(u) /\ SameBut(t, u, e) /\ PeerOf(u, e) = p
      BY <1>2, <1>4, <3>3, <3>4, ReplacedView
    <3>6. ~Live(u, e)
      BY <3>3, <3>5 DEF Live
    <3> QED  BY <1>2, <1>4, <2>5, <3>2, <3>5, <3>6 DEF Received, r
  <2> QED  BY <2>3, <2>4, <2>5 DEF ControlType
<1> QED  BY <1>3, <1>4

\* What a maintenance pass makes of t, and what it sends.
Maintained(t, r) ==
    /\ r \in Result
    /\ Sound(r.tunnel)
    /\ \A x \in Endpoint : Known(r.tunnel, x) <=> Known(t, x)
    /\ \A x \in Endpoint : Known(t, x) =>
          /\ AgeOf(r.tunnel, x) = AgeOf(t, x)
          /\ Live(r.tunnel, x) => Live(t, x) /\ AgeOf(t, x) <= kKeepaliveTimeout
          /\ Live(t, x) /\ AgeOf(t, x) < kKeepaliveTimeout => Live(r.tunnel, x)
    /\ \A d \in r.sent :
          /\ d.dst \in Endpoint /\ Known(t, d.dst)
          /\ d.msg.type \in {"TUNNEL_HELLO", "TUNNEL_KEEPALIVE"}
          /\ ~Live(t, d.dst) => d.msg.type = "TUNNEL_HELLO"
    /\ \A x \in Endpoint :
          Known(t, x) /\ (Live(t, x) => Live(r.tunnel, x)) =>
              \E d \in r.sent : d.dst = x

\* A pass writes to every known peer that it does not just drop, and to one that
\* is not connected it writes HELLO.
LEMMA MaintenanceView ==
    ASSUME NEW t, Sound(t), NEW over
    PROVE  Maintained(t, RunMaintenance(t, over))
<1> DEFINE r == RunMaintenance(t, over)
           u == r.tunnel
           type(i) == IF Connected(t, i) THEN "TUNNEL_KEEPALIVE" ELSE "TUNNEL_HELLO"
<1>1. t \in Tunnel /\ InBounds(t) /\ Indexed(t) /\ SoleConnected(t) /\ t.is_running
  BY DEF Sound
<1>2. r \in Result /\ u \in Tunnel /\ u.is_running /\ SameTable(t, u)
  BY <1>1, RunMaintenanceEffect DEF Result
<1>3. InBounds(u) /\ Indexed(u)
  BY <1>1, <1>2, SameTableKeepsIndex
<1>4. /\ u.mPeers = [i \in DOMAIN t.mPeers |->
                        [t.mPeers[i] EXCEPT !.state = MaintainedState(t, i, over)]]
      /\ r.sent = {ControlTo(type(i), t.mPeers[i].endpoint) :
                      i \in {j \in DOMAIN t.mPeers : ~TimedOut(t, j, over)}}
  BY <1>1 DEF RunMaintenance, Sending, Quiet, Tunnel
<1>5. /\ u.mEndpointToPeerIdx = t.mEndpointToPeerIdx
      /\ DOMAIN u.mPeers = DOMAIN t.mPeers /\ DOMAIN t.mPeers = 1..Len(t.mPeers)
      /\ t.mPeers \in Seq(PeerEntry)
  BY <1>1, <1>2, <1>4 DEF SameTable, Tunnel
<1>6. ASSUME NEW i \in DOMAIN t.mPeers
      PROVE  /\ u.mPeers[i].age = t.mPeers[i].age
             /\ u.mPeers[i].endpoint = t.mPeers[i].endpoint
             /\ t.mPeers[i].endpoint \in Endpoint /\ t.mPeers[i].age \in Nat
             /\ Connected(u, i) <=> Connected(t, i) /\ ~TimedOut(t, i, over)
  <2>1. /\ t.mPeers[i] \in PeerEntry /\ t.mPeers[i].endpoint \in Endpoint
        /\ t.mPeers[i].age \in 0..MaxAge
    BY <1>5, PeerAt
  <2>2. MaintainedState(t, i, over) = "CONNECTED" <=> Connected(t, i) /\ ~TimedOut(t, i, over)
    BY DEF MaintainedState, TimedOut
  <2>3. u.mPeers[i] = [t.mPeers[i] EXCEPT !.state = MaintainedState(t, i, over)]
    BY <1>4
  <2> HIDE DEF u
  <2> QED  BY <2>1, <2>2, <2>3, TimeoutAssumption DEF Connected, PeerEntry
<1> HIDE DEF r
<1>7. SoleConnected(u)
  BY <1>1, <1>5, <1>6 DEF SoleConnected
<1>8. Sound(u)
  BY <1>2, <1>3, <1>7 DEF Sound
<1>9. \A x \in Endpoint : Known(u, x) <=> Known(t, x)
  BY <1>5 DEF Known
<1>10. ASSUME NEW x \in Endpoint, Known(t, x)
       PROVE  /\ AgeOf(u, x) = AgeOf(t, x)
              /\ Live(u, x) => Live(t, x) /\ AgeOf(t, x) <= kKeepaliveTimeout
              /\ Live(t, x) /\ AgeOf(t, x) < kKeepaliveTimeout => Live(u, x)
              /\ TimedOut(t, t.mEndpointToPeerIdx[x], over) <=> Live(t, x) /\ ~Live(u, x)
  <2> DEFINE i == t.mEndpointToPeerIdx[x]
  <2>1. i \in DOMAIN t.mPeers /\ (Live(t, x) <=> Connected(t, i)) /\ AgeOf(t, x) = t.mPeers[i].age
    BY <1>10, KnownPeer DEF AgeOf
  <2>2. (Live(u, x) <=> Connected(u, i)) /\ AgeOf(u, x) = u.mPeers[i].age
    BY <1>5, <1>8, <1>9, <1>10, KnownPeer DEF AgeOf
  <2> HIDE DEF i
  <2> QED  BY <1>6, <2>1, <2>2, TimeoutAssumption DEF TimedOut, i
<1>11. ASSUME NEW d \in r.sent
       PROVE  /\ d.dst \in Endpoint /\ Known(t, d.dst)
              /\ d.msg.type \in {"TUNNEL_HELLO", "TUNNEL_KEEPALIVE"}
              /\ ~Live(t, d.dst) => d.msg.type = "TUNNEL_HELLO"
  <2>1. PICK i \in DOMAIN t.mPeers : d = ControlTo(type(i), t.mPeers[i].endpoint)
    BY <1>4
  <2>2. d.dst = t.mPeers[i].endpoint /\ d.msg.type = type(i)
    BY <2>1 DEF ControlTo, Control
  <2>3. Known(t, d.dst) /\ d.dst \in Endpoint
    BY <1>1, <1>6, <2>2 DEF Indexed
  <2>4. Connected(t, i) => Live(t, d.dst)
    <3>1. Connected(t, i) => t.mEndpointToPeerIdx[d.dst] = i
      BY <1>1, <2>2 DEF SoleConnected
    <3> QED  BY <2>3, <3>1, KnownPeer
  <2> QED  BY <2>2, <2>3, <2>4
<1>12. ASSUME NEW x \in Endpoint, Known(t, x),
              Live(t, x) => Live(u, x)
       PROVE  \E d \in r.sent : d.dst = x
  <2> DEFINE i == t.mEndpointToPeerIdx[x]
             d == ControlTo(type(i), t.mPeers[i].endpoint)
  <2>1. i \in DOMAIN t.mPeers /\ ~TimedOut(t, i, over) /\ t.mPeers[i].endpoint = x
    BY <1>10, <1>12, KnownPeer
  <2>2. d \in r.sent
    BY <1>4, <2>1
  <2>3. d.dst = x
    BY <2>1 DEF ControlTo
  <2> QED  BY <2>2, <2>3
<1> QED  BY <1>2, <1>8, <1>9, <1>10, <1>11, <1>12 DEF Maintained, r

\* What an accepted e adds to t, and what is sent.
Accepted(t, e, r) ==
    /\ r \in Result
    /\ Sound(r.tunnel)
    /\ \A x \in Endpoint : Known(r.tunnel, x) <=> Known(t, x) \/ x = e
    /\ \A x \in Endpoint : Known(t, x) => PeerOf(r.tunnel, x) = PeerOf(t, x)
    /\ ~Known(t, e) => ~Live(r.tunnel, e)
    /\ r.sent = IF Known(t, e) THEN {} ELSE {ControlTo("TUNNEL_HELLO", e)}

\* accept adds a peer that is not connected and dials it, unless it is there.
LEMMA AcceptView ==
    ASSUME NEW t, Sound(t), NEW e \in Endpoint
    PROVE  Accepted(t, e, Accept(t, e))
<1> DEFINE v == [t EXCEPT !.mPendingPeers = @ \ {e}]
           r == Accept(t, e)
           u == r.tunnel
<1>1. t \in Tunnel /\ InBounds(t) /\ Indexed(t) /\ t.is_running
  BY DEF Sound
<1>2. r \in Result /\ u \in Tunnel /\ InBounds(u) /\ Indexed(u) /\ u.is_running
  BY <1>1, AcceptProperties DEF Result
<1>3. /\ v \in Tunnel /\ v.mPeers = t.mPeers /\ v.is_running
      /\ v.mEndpointToPeerIdx = t.mEndpointToPeerIdx
  BY <1>1 DEF Tunnel
<1>4. (Known(v, e) <=> Known(t, e)) /\ r = AddPeer(v, e)
  BY <1>3 DEF Known, Accept
<1> HIDE DEF v, r
<1>5. CASE Known(t, e)
  <2>1. u = v /\ r.sent = {}
    BY <1>3, <1>4, <1>5, QuietType DEF AddPeer
  <2> QED  BY <1>2, <1>3, <1>5, <2>1, SamePeersView DEF Accepted, r
<1>6. CASE ~Known(t, e)
  <2>1. u = PushPeer(v, e) /\ r.sent = {ControlTo("TUNNEL_HELLO", e)}
    BY <1>4, <1>6 DEF AddPeer, Sending, Quiet
  <2>2. /\ u.mPeers = Append(t.mPeers, NewPeer(e))
        /\ u.mEndpointToPeerIdx = [t.mEndpointToPeerIdx EXCEPT ![e] = Len(t.mPeers) + 1]
    BY <1>3, <2>1, ZenonT(40) DEF PushPeer, Tunnel
  <2>3. /\ t.mPeers \in Seq(PeerEntry) /\ t.mEndpointToPeerIdx \in [Endpoint -> Nat]
        /\ DOMAIN t.mPeers = 1..Len(t.mPeers) /\ Len(t.mPeers) \in Nat
        /\ NewPeer(e) \in PeerEntry /\ NewPeer(e).endpoint = e
        /\ NewPeer(e).state = "DISCONNECTED"
    BY <1>1, NewPeerType DEF Tunnel, NewPeer
  <2>4. /\ DOMAIN u.mPeers = 1..(Len(t.mPeers) + 1)
        /\ u.mPeers[Len(t.mPeers) + 1] = NewPeer(e)
        /\ \A i \in 1..Len(t.mPeers) : u.mPeers[i] = t.mPeers[i]
    BY <2>2, <2>3
  <2>5. /\ u.mEndpointToPeerIdx[e] = Len(t.mPeers) + 1
        /\ \A x \in Endpoint : x # e => u.mEndpointToPeerIdx[x] = t.mEndpointToPeerIdx[x]
    BY <2>2, <2>3
  <2>6. \A x \in Endpoint : Known(u, x) <=> Known(t, x) \/ x = e
    BY <2>3, <2>5 DEF Known, NotFound
  <2>7. ASSUME NEW x \in Endpoint, Known(t, x) PROVE PeerOf(u, x) = PeerOf(t, x)
    <3>1. x # e /\ t.mEndpointToPeerIdx[x] \in 1..Len(t.mPeers)
      BY <1>6, <2>3, <2>7, KnownPeer
    <3> QED  BY <2>4, <2>5, <3>1 DEF PeerOf
  <2>8. PeerOf(u, e) = NewPeer(e)
    BY <2>4, <2>5 DEF PeerOf
  <2>9. SoleConnected(u)
    <3> SUFFICES ASSUME NEW i \in 1..(Len(t.mPeers) + 1), Connected(u, i)
                 PROVE  u.mEndpointToPeerIdx[u.mPeers[i].endpoint] = i
      BY <2>4 DEF SoleConnected
    <3>1. i # Len(t.mPeers) + 1
      BY <2>3, <2>4 DEF Connected
    <3>2. i \in 1..Len(t.mPeers) /\ u.mPeers[i] = t.mPeers[i] /\ t.mPeers[i].endpoint \in Endpoint
      BY <2>3, <2>4, <3>1, PeerAt
    <3>3. t.mEndpointToPeerIdx[t.mPeers[i].endpoint] = i
      BY <2>3, <3>2 DEF Connected, Sound, SoleConnected
    <3>4. t.mPeers[i].endpoint # e
      BY <1>6, <3>2, <3>3 DEF Known, NotFound
    <3> QED  BY <2>5, <3>2, <3>3, <3>4
  <2>10. Sound(u)
    BY <1>2, <2>9 DEF Sound
  <2>11. ~Live(u, e)
    BY <2>3, <2>8 DEF Live
  <2> QED  BY <1>2, <1>6, <2>1, <2>6, <2>7, <2>10, <2>11 DEF Accepted, r
<1> QED  BY <1>5, <1>6

\* reject leaves every entry as it is and sends nothing.
LEMMA RejectView ==
    ASSUME NEW t, Sound(t), NEW e \in Endpoint
    PROVE  LET r == Reject(t, e)
           IN  /\ r \in Result
               /\ Sound(r.tunnel)
               /\ \A x \in Endpoint : /\ Known(r.tunnel, x) <=> Known(t, x)
                                      /\ PeerOf(r.tunnel, x) = PeerOf(t, x)
               /\ r.sent = {}
<1> DEFINE r == Reject(t, e)
<1>1. t \in Tunnel /\ InBounds(t) /\ t.is_running
  BY DEF Sound
<1>2. /\ r \in Result /\ r.tunnel \in Tunnel /\ r.tunnel.mPeers = t.mPeers
      /\ r.tunnel.is_running /\ r.sent = {}
  BY <1>1, RejectProperties DEF Result
<1>3. r.tunnel.mEndpointToPeerIdx = t.mEndpointToPeerIdx
  BY <1>1 DEF Reject, Quiet, Tunnel
<1> HIDE DEF r
<1> QED  BY <1>2, <1>3, SamePeersView DEF r

\* Time makes every belief older and changes no state.
LEMMA AgeView ==
    ASSUME NEW t, Sound(t)
    PROVE  /\ Sound(Age(t))
           /\ \A x \in Endpoint : /\ Known(Age(t), x) <=> Known(t, x)
                                  /\ Live(Age(t), x) <=> Live(t, x)
                                  /\ Known(t, x) => /\ AgeOf(Age(t), x) \in Nat
                                                    /\ AgeOf(Age(t), x) <= AgeOf(t, x) + 1
<1> DEFINE u == Age(t)
<1>1. t \in Tunnel /\ InBounds(t) /\ Indexed(t) /\ SoleConnected(t) /\ t.is_running
  BY DEF Sound
<1>2. u \in Tunnel /\ u.is_running /\ SameTable(t, u)
  BY <1>1, AgeProperties
<1>3. InBounds(u) /\ Indexed(u)
  BY <1>1, <1>2, SameTableKeepsIndex
<1>4. u.mPeers = [i \in DOMAIN t.mPeers |->
                     [t.mPeers[i] EXCEPT !.age = Older(t.mPeers[i].age)]]
  BY <1>1 DEF Age, Tunnel
<1>5. /\ u.mEndpointToPeerIdx = t.mEndpointToPeerIdx
      /\ DOMAIN u.mPeers = DOMAIN t.mPeers /\ DOMAIN t.mPeers = 1..Len(t.mPeers)
      /\ t.mPeers \in Seq(PeerEntry)
  BY <1>1, <1>2, <1>4 DEF SameTable, Tunnel
<1> HIDE DEF u
<1>6. ASSUME NEW i \in DOMAIN t.mPeers
      PROVE  /\ u.mPeers[i].endpoint = t.mPeers[i].endpoint
             /\ Connected(u, i) <=> Connected(t, i)
             /\ u.mPeers[i].age \in Nat /\ u.mPeers[i].age <= t.mPeers[i].age + 1
  <2>1. t.mPeers[i] \in PeerEntry /\ t.mPeers[i].age \in 0..MaxAge
    BY <1>5, PeerAt
  <2>2. u.mPeers[i] = [t.mPeers[i] EXCEPT !.age = Older(t.mPeers[i].age)]
    BY <1>4
  <2>3. /\ u.mPeers[i].endpoint = t.mPeers[i].endpoint
        /\ u.mPeers[i].state = t.mPeers[i].state
        /\ u.mPeers[i].age = Older(t.mPeers[i].age)
    BY <2>1, <2>2 DEF PeerEntry
  <2> QED  BY <2>1, <2>3, TimeoutAssumption DEF Older, Connected
<1>7. SoleConnected(u)
  BY <1>1, <1>5, <1>6 DEF SoleConnected
<1>8. Sound(u)
  BY <1>2, <1>3, <1>7 DEF Sound
<1>9. ASSUME NEW x \in Endpoint
      PROVE  /\ Known(u, x) <=> Known(t, x)
             /\ Live(u, x) <=> Live(t, x)
             /\ Known(t, x) => AgeOf(u, x) \in Nat /\ AgeOf(u, x) <= AgeOf(t, x) + 1
  <2>1. Known(u, x) <=> Known(t, x)
    BY <1>5 DEF Known
  <2>2. CASE Known(t, x)
    <3> DEFINE i == t.mEndpointToPeerIdx[x]
    <3>1. i \in DOMAIN t.mPeers /\ (Live(t, x) <=> Connected(t, i)) /\ AgeOf(t, x) = t.mPeers[i].age
      BY <2>2, KnownPeer DEF AgeOf
    <3>2. (Live(u, x) <=> Connected(u, i)) /\ AgeOf(u, x) = u.mPeers[i].age
      BY <1>5, <1>8, <2>1, <2>2, KnownPeer DEF AgeOf
    <3> HIDE DEF i
    <3> QED  BY <1>6, <2>1, <3>1, <3>2
  <2>3. CASE ~Known(t, x)
    BY <2>1, <2>3 DEF Live
  <2> QED  BY <2>2, <2>3
<1> QED  BY <1>8, <1>9 DEF u

-----------------------------------------------------------------------------
(* What is under way.                                                      *)

Network == [Endpoint -> [Endpoint -> Seq(Message)]]

\* The types of the messages in a channel.  No handshake depends on their order
\* or number.
Types(q) == {q[i].type : i \in DOMAIN q}

\* Nothing is under way exactly if no type is.
LEMMA TypesEmpty ==
    ASSUME NEW q \in Seq(Message)
    PROVE  Types(q) = {} <=> q = <<>>
<1>1. q = <<>> => DOMAIN q = {}
  OBVIOUS
<1>2. q # <<>> => 1 \in DOMAIN q
  OBVIOUS
<1> QED  BY <1>1, <1>2 DEF Types

\* A datagram that is sent adds its type.
LEMMA TypesAppend ==
    ASSUME NEW q \in Seq(Message), NEW m \in Message
    PROVE  Append(q, m) \in Seq(Message) /\ Types(Append(q, m)) = Types(q) \cup {m.type}
<1> DEFINE n == Len(q)
           r == Append(q, m)
<1>1. /\ r \in Seq(Message) /\ n \in Nat /\ DOMAIN q = 1..n
      /\ DOMAIN r = 1..(n + 1) /\ r[n + 1] = m
      /\ \A i \in 1..n : r[i] = q[i]
  OBVIOUS
<1> HIDE DEF n, r
<1>2. \A i \in 1..(n + 1) : i \in 1..n \/ i = n + 1
  BY <1>1
<1>3. n + 1 \in 1..(n + 1) /\ \A i \in 1..n : i \in 1..(n + 1)
  BY <1>1
<1> QED  BY <1>1, <1>2, <1>3 DEF Types, r

\* A datagram that leaves the channel takes at most its own type with it.
LEMMA TypesTail ==
    ASSUME NEW q \in Seq(Message), q # <<>>
    PROVE  /\ Head(q) \in Message /\ Tail(q) \in Seq(Message)
           /\ Types(q) = Types(Tail(q)) \cup {Head(q).type}
<1> DEFINE n == Len(q)
           r == Tail(q)
<1>1. /\ Head(q) \in Message /\ r \in Seq(Message) /\ Head(q) = q[1]
      /\ n \in Nat /\ n >= 1 /\ DOMAIN q = 1..n /\ DOMAIN r = 1..(n - 1)
      /\ \A i \in 1..(n - 1) : r[i] = q[i + 1]
  OBVIOUS
<1> HIDE DEF n, r
<1>2. \A i \in 1..n : i = 1 \/ (i - 1 \in 1..(n - 1) /\ r[i - 1] = q[i])
  BY <1>1
<1>3. 1 \in 1..n /\ \A i \in 1..(n - 1) : i + 1 \in 1..n
  BY <1>1
<1>4. ASSUME NEW i \in 1..n PROVE q[i].type \in Types(r) \cup {Head(q).type}
  <2>1. CASE i = 1
    BY <1>1, <2>1
  <2>2. CASE i # 1
    <3>1. i - 1 \in DOMAIN r /\ r[i - 1] = q[i]
      BY <1>1, <1>2, <2>2
    <3> QED  BY <3>1 DEF Types
  <2> QED  BY <2>1, <2>2
<1>5. ASSUME NEW i \in 1..(n - 1) PROVE r[i].type \in Types(q)
  <2>1. i + 1 \in DOMAIN q /\ r[i] = q[i + 1]
    BY <1>1, <1>3
  <2> QED  BY <2>1 DEF Types
<1>6. Head(q).type \in Types(q)
  BY <1>1, <1>3 DEF Types
<1>7. Types(q) \subseteq Types(r) \cup {Head(q).type}
  BY <1>1, <1>4 DEF Types
<1>8. Types(r) \subseteq Types(q)
  BY <1>1, <1>5 DEF Types
<1> QED  BY <1>1, <1>6, <1>7, <1>8 DEF r

\* What Transmit does to the network: row by row and in types.
Transmitted(s, c, sent, n) ==
    /\ n \in Network
    /\ \A x, y \in Endpoint : x # s => n[x][y] = c[x][y]
    /\ \A y \in Endpoint :
          \/ (\A d \in sent : d.dst # y) /\ n[s][y] = c[s][y]
          \/ \E d \in sent : d.dst = y /\ Types(n[s][y]) = Types(c[s][y]) \cup {d.msg.type}

\* A site writes to its own channels only, and into each that it has a datagram for.
LEMMA TransmitView ==
    ASSUME NEW s \in Endpoint, NEW c \in Network, NEW sent \in SUBSET Datagram
    PROVE  Transmitted(s, c, sent, Transmit(s, c, sent))
<1> DEFINE here(y) == {d \in sent : d.dst = y}
           row == [y \in Endpoint |->
                     IF here(y) = {} THEN c[s][y]
                     ELSE Append(c[s][y], (CHOOSE d \in here(y) : TRUE).msg)]
           n == [c EXCEPT ![s] = row]
<1>1. Transmit(s, c, sent) = n
  BY DEF Transmit, Network
<1>2. ASSUME NEW y \in Endpoint
      PROVE  /\ row[y] \in Seq(Message)
             /\ \/ (\A d \in sent : d.dst # y) /\ row[y] = c[s][y]
                \/ \E d \in sent : d.dst = y /\ Types(row[y]) = Types(c[s][y]) \cup {d.msg.type}
  <2>0. c[s][y] \in Seq(Message)
    BY DEF Network
  <2>1. CASE here(y) = {}
    <3>1. row[y] = c[s][y]
      BY <2>1
    <3> QED  BY <2>0, <2>1, <3>1
  <2>2. CASE here(y) # {}
    <3> DEFINE d == CHOOSE g \in here(y) : TRUE
    <3>1. d \in sent /\ d.dst = y
      BY <2>2
    <3>2. row[y] = Append(c[s][y], d.msg)
      BY <2>2
    <3>3. d.msg \in Message
      BY <3>1 DEF Datagram
    <3> HIDE DEF d, row
    <3> QED  BY <2>0, <3>1, <3>2, <3>3, TypesAppend
  <2> QED  BY <2>1, <2>2
<1>3. row \in [Endpoint -> Seq(Message)]
  <2> DEFINE f(y) == IF here(y) = {} THEN c[s][y]
                     ELSE Append(c[s][y], (CHOOSE d \in here(y) : TRUE).msg)
  <2>1. \A y \in Endpoint : f(y) \in Seq(Message)
    BY <1>2
  <2>2. row = [y \in Endpoint |-> f(y)]
    OBVIOUS
  <2> HIDE DEF f, row
  <2> QED  BY <2>1, <2>2
<1> HIDE DEF row
<1>4. /\ n \in Network /\ n[s] = row
      /\ \A x, y \in Endpoint : x # s => n[x][y] = c[x][y]
  BY <1>3 DEF Network
<1> HIDE DEF n
<1> QED  BY <1>1, <1>2, <1>4 DEF Transmitted

-----------------------------------------------------------------------------
(* The inductive invariant.                                                *)

Flow(x, y) == Types(chan[x][y])

\* No site has gone away.
Undisturbed == crashes = 0 /\ quits = 0

\* So few losses that nobody can have been timed out.
Calm == Undisturbed /\ losses + 1 < kKeepaliveTimeout

\* Tunnels are sound, and only a running application can be asked.
SitesInv ==
    \A s \in Endpoint : Sound(tun[s]) /\ (~up[s] => asked[s] = {})

\* A connected peer is older than the timeout only until the next pass.
AgeInv ==
    \A x, y \in Endpoint : ConnectedTo(x, y) =>
        /\ AgeOf(tun[x], y) <= kKeepaliveTimeout + 1
        /\ AgeOf(tun[x], y) = kKeepaliveTimeout + 1 => due[x]

\* Sites write control messages, and while none goes away whoever has written is
\* still there, still knows the peer, and has not said BYE.
FlowInv ==
    \A x, y \in Endpoint :
        /\ Flow(x, y) \subseteq ControlType
        /\ Undisturbed /\ Flow(x, y) # {} =>
              /\ up[x]
              /\ Known(tun[x], y)
              /\ "TUNNEL_BYE" \notin Flow(x, y)

\* While no site goes away, a connected peer is there and knows its peer.
FriendInv ==
    Undisturbed =>
        \A x, y \in Endpoint : ConnectedTo(x, y) => up[y] /\ Known(tun[y], x)

\* Every interval without news from a connected peer has cost one datagram,
\* except for the current one, in which news are still to be expected.
FreshInv ==
    Calm =>
        \A x, y \in Endpoint : ConnectedTo(x, y) =>
            /\ AgeOf(tun[x], y) <= losses + 1
            /\ AgeOf(tun[x], y) = losses + 1 => due[y] \/ Flow(y, x) # {}

\* Without losses a site that is not connected to a peer that knows it will be:
\* a HELLO is on its way to it if the peer is connected, and otherwise one of the
\* two will write or has written a HELLO in this interval.
ShakeInv ==
    Undisturbed /\ losses = 0 =>
        \A x, y \in Endpoint : Paired(x, y) /\ ~Live(tun[x], y) =>
            \/ "TUNNEL_HELLO" \in Flow(y, x)
            \/ /\ ~Live(tun[y], x)
               /\ due[x] \/ due[y] \/ "TUNNEL_HELLO" \in Flow(x, y)

Inv ==
    /\ TypeOK /\ SitesInv /\ AgeInv
    /\ FlowInv /\ FriendInv /\ FreshInv /\ ShakeInv

\* The step property: who is connected stays connected.
Kept ==
    \A a, b \in Endpoint :
        losses' + 1 < kKeepaliveTimeout /\ crashes' = 0 /\ quits' = 0 /\ ConnectedTo(a, b) =>
            ConnectedTo(a, b)'

\* While no site goes away, sites stay up and remember their peers.
Grows ==
    Undisturbed' =>
        /\ Undisturbed
        /\ \A x \in Endpoint : up[x] =>
              up'[x] /\ \A y \in Endpoint : Known(tun[x], y) => Known(tun'[x], y)

-----------------------------------------------------------------------------
(* How the parts of the invariant are kept, whatever the action.           *)

\* A connected peer is a live one of a running site, with an age.
LEMMA ConnectedView ==
    ASSUME SitesInv, NEW x \in Endpoint, NEW y \in Endpoint
    PROVE  /\ ConnectedTo(x, y) <=> up[x] /\ Live(tun[x], y)
           /\ Live(tun[x], y) => Known(tun[x], y)
           /\ Known(tun[x], y) => AgeOf(tun[x], y) \in Nat
<1>1. Sound(tun[x])
  BY DEF SitesInv
<1> QED  BY <1>1, KnownPeer DEF ConnectedTo, Live

\* A running site may write HELLO or KEEPALIVE to a peer it knows.
LEMMA FlowStep ==
    ASSUME FlowInv, Grows,
           \A x, y \in Endpoint :
               \/ Flow(x, y)' \subseteq Flow(x, y)
               \/ /\ Flow(x, y)' \subseteq Flow(x, y) \cup {"TUNNEL_HELLO", "TUNNEL_KEEPALIVE"}
                  /\ up'[x] /\ Known(tun'[x], y)
    PROVE  FlowInv'
<1> SUFFICES ASSUME NEW x \in Endpoint, NEW y \in Endpoint
             PROVE  /\ Flow(x, y)' \subseteq ControlType
                    /\ Undisturbed' /\ Flow(x, y)' # {} =>
                          /\ up'[x]
                          /\ Known(tun'[x], y)
                          /\ "TUNNEL_BYE" \notin Flow(x, y)'
  BY DEF FlowInv, Known
<1>1. Flow(x, y)' \subseteq ControlType
  BY DEF FlowInv, ControlType
<1>2. ASSUME Undisturbed', Flow(x, y)' # {}
      PROVE  up'[x] /\ Known(tun'[x], y) /\ "TUNNEL_BYE" \notin Flow(x, y)'
  <2>1. Undisturbed
    BY <1>2 DEF Grows
  <2>2. "TUNNEL_BYE" \notin Flow(x, y)
    BY <2>1 DEF FlowInv
  <2>3. CASE Flow(x, y)' \subseteq Flow(x, y)
    <3>1. up[x] /\ Known(tun[x], y)
      BY <1>2, <2>1, <2>3 DEF FlowInv
    <3> QED  BY <1>2, <2>2, <2>3, <3>1 DEF Grows
  <2>4. CASE /\ Flow(x, y)' \subseteq Flow(x, y) \cup {"TUNNEL_HELLO", "TUNNEL_KEEPALIVE"}
             /\ up'[x] /\ Known(tun'[x], y)
    BY <2>2, <2>4
  <2> QED  BY <2>3, <2>4
<1> QED  BY <1>1, <1>2

\* Whoever connects does so on a datagram from the peer.
LEMMA FriendStep ==
    ASSUME FlowInv, FriendInv, Grows,
           Undisturbed' => \A x, y \in Endpoint :
               ConnectedTo(x, y)' => ConnectedTo(x, y) \/ Flow(y, x) # {}
    PROVE  FriendInv'
<1> SUFFICES ASSUME Undisturbed', NEW x \in Endpoint, NEW y \in Endpoint, ConnectedTo(x, y)'
             PROVE  up'[y] /\ Known(tun'[y], x)
  BY DEF FriendInv, Known
<1>1. Undisturbed
  BY DEF Grows
<1>2. up[y] /\ Known(tun[y], x)
  BY <1>1 DEF FriendInv, FlowInv
<1> QED  BY <1>2 DEF Grows

\* A connection's age stays what it was or is reset; and a peer that was to
\* write or had written either still is, or has, or something was lost.
LEMMA FreshStep ==
    ASSUME FreshInv, Grows, SitesInv, losses \in Nat, losses' \in Nat, losses' >= losses,
           Calm /\ Calm' => \A x, y \in Endpoint : ConnectedTo(x, y)' =>
               \/ AgeOf(tun'[x], y) = 0
               \/ /\ ConnectedTo(x, y)
                  /\ AgeOf(tun'[x], y) = AgeOf(tun[x], y)
                  /\ \/ losses' > losses
                     \/ due[y] \/ Flow(y, x) # {} => due'[y] \/ Flow(y, x)' # {}
    PROVE  FreshInv'
<1> SUFFICES ASSUME Calm', NEW x \in Endpoint, NEW y \in Endpoint, ConnectedTo(x, y)'
             PROVE  /\ AgeOf(tun'[x], y) <= losses' + 1
                    /\ AgeOf(tun'[x], y) = losses' + 1 => due'[y] \/ Flow(y, x)' # {}
  BY DEF FreshInv, AgeOf, PeerOf
<1>1. Calm
  <2>1. Undisturbed /\ losses' + 1 < kKeepaliveTimeout
    BY DEF Calm, Grows
  <2>2. \A m, n \in Nat : m >= n /\ m + 1 < kKeepaliveTimeout => n + 1 < kKeepaliveTimeout
    BY TimeoutAssumption
  <2>3. losses + 1 < kKeepaliveTimeout
    BY <2>1, <2>2
  <2> QED  BY <2>1, <2>3 DEF Calm
<1>2. CASE AgeOf(tun'[x], y) = 0
  <2>1. \A n \in Nat : 0 <= n + 1 /\ 0 # n + 1
    OBVIOUS
  <2>2. 0 <= losses' + 1 /\ 0 # losses' + 1
    BY <2>1
  <2> QED  BY <1>2, <2>2
<1>3. CASE /\ ConnectedTo(x, y)
           /\ AgeOf(tun'[x], y) = AgeOf(tun[x], y)
           /\ \/ losses' > losses
              \/ due[y] \/ Flow(y, x) # {} => due'[y] \/ Flow(y, x)' # {}
  <2>1. /\ AgeOf(tun[x], y) <= losses + 1
        /\ AgeOf(tun[x], y) = losses + 1 => due[y] \/ Flow(y, x) # {}
        /\ AgeOf(tun[x], y) \in Nat
    BY <1>1, <1>3, ConnectedView DEF FreshInv
  <2>2. CASE losses' > losses
    BY <1>3, <2>1, <2>2
  <2>3. CASE ~(losses' > losses)
    <3>1. losses' = losses
      BY <2>3
    <3>2. AgeOf(tun'[x], y) <= losses' + 1
      BY <1>3, <2>1, <3>1
    <3>3. AgeOf(tun'[x], y) = losses' + 1 => due[y] \/ Flow(y, x) # {}
      BY <1>3, <2>1, <3>1
    <3> QED  BY <1>3, <2>3, <3>2, <3>3
  <2> QED  BY <2>2, <2>3
<1> QED  BY <1>1, <1>2, <1>3

\* A connection's age stays what it was, and so does the pass, or is reset.
LEMMA AgeStep ==
    ASSUME AgeInv,
           \A x, y \in Endpoint : ConnectedTo(x, y)' =>
               \/ AgeOf(tun'[x], y) = 0
               \/ /\ ConnectedTo(x, y)
                  /\ AgeOf(tun'[x], y) = AgeOf(tun[x], y)
                  /\ due[x] => due'[x]
    PROVE  AgeInv'
<1> SUFFICES ASSUME NEW x \in Endpoint, NEW y \in Endpoint, ConnectedTo(x, y)'
             PROVE  /\ AgeOf(tun'[x], y) <= kKeepaliveTimeout + 1
                    /\ AgeOf(tun'[x], y) = kKeepaliveTimeout + 1 => due'[x]
  BY DEF AgeInv, AgeOf, PeerOf
<1>1. CASE AgeOf(tun'[x], y) = 0
  BY <1>1, TimeoutAssumption
<1>2. CASE /\ ConnectedTo(x, y)
           /\ AgeOf(tun'[x], y) = AgeOf(tun[x], y)
           /\ due[x] => due'[x]
  BY <1>2 DEF AgeInv
<1> QED  BY <1>1, <1>2

-----------------------------------------------------------------------------
(* One lemma per action.                                                   *)

\* The types, in pieces that the steps use.
LEMMA NetTypes ==
    ASSUME TypeOK
    PROVE  /\ chan \in Network
           /\ up \in [Endpoint -> BOOLEAN] /\ due \in [Endpoint -> BOOLEAN]
           /\ tun \in [Endpoint -> Tunnel] /\ asked \in [Endpoint -> SUBSET Endpoint]
           /\ \A s \in Endpoint : config[s] \in Seq(Endpoint)
           /\ losses \in Nat /\ crashes \in Nat /\ quits \in Nat
BY FaultsAssumption DEF TypeOK, Network

\* A callback is opened with the endpoint that becomes pending, and answered with
\* the one that no longer is.
LEMMA PendingStep ==
    ASSUME Inv, [Next]_vars
    PROVE  PendingAsked'
<1>0. /\ TypeOK /\ SitesInv /\ PendingAsked
      /\ tun \in [Endpoint -> Tunnel] /\ asked \in [Endpoint -> SUBSET Endpoint]
  BY DEF Inv, TypeOK
<1>1. ASSUME NEW s \in Endpoint, NEW u, tun' = [tun EXCEPT ![s] = u],
             asked' = [asked EXCEPT ![s] = u.mPendingPeers]
      PROVE  PendingAsked'
  BY <1>0, <1>1 DEF PendingAsked
<1>2. ASSUME NEW s \in Endpoint, Start(s) \/ Gone(s) PROVE PendingAsked'
  <2>1. NewTunnel(config[s]).mPendingPeers = {}
    BY <1>0, NetTypes, NewTunnelProperties
  <2>2. asked' = [asked EXCEPT ![s] = {}]
    BY <1>0, <1>2 DEF Start, Gone, SitesInv
  <2> QED  BY <1>1, <1>2, <2>1, <2>2 DEF Start, Gone
<1>3. ASSUME NEW s \in Endpoint, Maintain(s) PROVE PendingAsked'
  <2>1. PICK over \in SUBSET DOMAIN tun[s].mPeers :
            tun' = [tun EXCEPT ![s] = RunMaintenance(tun[s], over).tunnel]
    BY <1>3 DEF Maintain, Apply
  <2>2. RunMaintenance(tun[s], over).tunnel.mPendingPeers = tun[s].mPendingPeers
    BY <1>0, RunMaintenanceEffect
  <2>3. asked' = [asked EXCEPT ![s] = tun[s].mPendingPeers]
    BY <1>0, <1>3 DEF Maintain, PendingAsked
  <2> QED  BY <1>1, <2>1, <2>2, <2>3
<1>4. ASSUME NEW s \in Endpoint, NEW e \in Endpoint, Answer(s, e) PROVE PendingAsked'
  <2>1. PICK r \in {Accept(tun[s], e), Reject(tun[s], e)} : tun' = [tun EXCEPT ![s] = r.tunnel]
    BY <1>4 DEF Answer, Apply
  <2>2. r.tunnel.mPendingPeers = tun[s].mPendingPeers \ {e}
    BY <1>0, AcceptProperties, RejectProperties DEF SitesInv, Sound
  <2>3. asked' = [asked EXCEPT ![s] = tun[s].mPendingPeers \ {e}]
    BY <1>0, <1>4 DEF Answer, PendingAsked
  <2> QED  BY <1>1, <2>1, <2>2, <2>3
<1>5. ASSUME NEW a \in Endpoint, NEW b \in Endpoint, Deliver(a, b) PROVE PendingAsked'
  <2> DEFINE r == HandleReceive(tun[b], a, Head(chan[a][b]))
  <2>1. CASE ~up[b]
    BY <1>0, <1>5, <2>1 DEF Deliver, PendingAsked
  <2>2. CASE up[b]
    <3>1. /\ tun' = [tun EXCEPT ![b] = r.tunnel]
          /\ asked' = [asked EXCEPT ![b] = @ \cup r.prompt]
      BY <1>5, <2>2 DEF Deliver, Apply
    <3>2. Head(chan[a][b]) \in Message
      <4>1. chan[a][b] \in Seq(Message) /\ chan[a][b] # <<>>
        BY <1>0, <1>5, NetTypes DEF Network, Deliver
      <4> QED  BY <4>1
    <3>3. PromptRecorded(tun[b], r, a)
      BY <1>0, <3>2, HandleReceiveEffect DEF ReceiveEffect, SitesInv, Sound
    <3> HIDE DEF r
    <3>4. asked[b] \cup r.prompt = r.tunnel.mPendingPeers
      BY <1>0, <3>3 DEF PendingAsked, PromptRecorded
    <3> QED  BY <1>1, <3>1, <3>4
  <2> QED  BY <2>1, <2>2
<1>6. ASSUME Tick PROVE PendingAsked'
  <2>1. \A s \in Endpoint : Age(tun[s]).mPendingPeers = tun[s].mPendingPeers
    BY <1>0, AgeProperties
  <2> QED  BY <1>0, <1>6, <2>1 DEF Tick, PendingAsked
<1>7. ASSUME UNCHANGED <<tun, asked>> PROVE PendingAsked'
  BY <1>0, <1>7 DEF PendingAsked
<1> QED  BY <1>2, <1>3, <1>4, <1>5, <1>6, <1>7
         DEF Next, Crash, Quit, Lose, Duplicate, Overtake, vars

\* A site that starts has its first pass to come and is connected to nobody.
LEMMA StartStep ==
    ASSUME Inv, NEW s \in Endpoint, Start(s)
    PROVE  Inv' /\ Kept
<1> DEFINE t == NewTunnel(config[s])
<1>0. TypeOK /\ SitesInv /\ AgeInv /\ FlowInv /\ FriendInv /\ FreshInv /\ ShakeInv
  BY DEF Inv
<1>1. Sound(t) /\ t \in Tunnel /\ \A e \in Endpoint : ~Live(t, e)
  BY <1>0, NetTypes, NewTunnelView DEF Sound
<1> HIDE DEF t
<1>2. /\ ~up[s] /\ up'[s] /\ due'[s] /\ tun'[s] = t
      /\ \A x \in Endpoint : x # s => up'[x] = up[x] /\ tun'[x] = tun[x] /\ due'[x] = due[x]
      /\ config' = config /\ asked' = asked /\ chan' = chan /\ losses' = losses
      /\ shuffles' = shuffles /\ crashes' = crashes /\ quits' = quits
  BY <1>0, NetTypes DEF Start, faults, t
<1>3. TypeOK'
  <2>1. PendingAsked'
    BY PendingStep DEF Next
  <2> QED  BY <1>0, <1>1, <2>1 DEF Start, faults, TypeOK, t
<1>4. SitesInv'
  BY <1>0, <1>1, <1>2 DEF SitesInv
<1>5. \A x, y \in Endpoint : Flow(x, y)' = Flow(x, y)
  BY <1>2 DEF Flow
<1>6. ASSUME NEW x \in Endpoint, NEW y \in Endpoint
      PROVE  ConnectedTo(x, y)' <=> x # s /\ ConnectedTo(x, y)
  BY <1>0, <1>1, <1>2, <1>4, ConnectedView DEF ConnectedTo, Live, Known, PeerOf
<1>7. Grows
  BY <1>2 DEF Grows, Undisturbed
<1>8. AgeInv'
  BY <1>0, <1>2, <1>6, AgeStep
<1>9. FlowInv'
  BY <1>0, <1>5, <1>7, FlowStep
<1>10. FriendInv'
  BY <1>0, <1>6, <1>7, FriendStep
<1>11. FreshInv'
  <2>1. losses \in Nat /\ losses' \in Nat /\ losses' >= losses
    BY <1>0, <1>2, NetTypes
  <2>2. \A y \in Endpoint : due[y] => due'[y]
    BY <1>2
  <2> QED  BY <1>0, <1>2, <1>5, <1>6, <1>7, <2>1, <2>2, FreshStep
<1>12. ShakeInv'
  <2> SUFFICES ASSUME Undisturbed', losses' = 0, NEW x \in Endpoint, NEW y \in Endpoint,
                      Paired(x, y)', ~Live(tun'[x], y)
               PROVE  \/ "TUNNEL_HELLO" \in Flow(y, x)'
                      \/ /\ ~Live(tun'[y], x)
                         /\ due'[x] \/ due'[y] \/ "TUNNEL_HELLO" \in Flow(x, y)'
    BY DEF ShakeInv, Live, Known, PeerOf
  <2>1. Undisturbed /\ losses = 0
    BY <1>2 DEF Undisturbed
  <2>2. CASE x # s /\ y # s
    <3>1. Paired(x, y) /\ ~Live(tun[x], y)
      BY <1>2, <2>2 DEF Paired, Known
    <3> QED  BY <1>0, <1>2, <1>5, <2>1, <2>2, <3>1 DEF ShakeInv
  <2>3. CASE x = s
    <3>1. ~Live(tun'[y], x)
      <4>1. CASE y = s
        BY <1>1, <1>2, <4>1
      <4>2. CASE y # s
        <5>1. up[y] /\ tun'[y] = tun[y]
          BY <1>2, <4>2 DEF Paired
        <5> QED  BY <1>0, <1>2, <2>1, <2>3, <5>1, ConnectedView DEF FriendInv
      <4> QED  BY <4>1, <4>2
    <3> QED  BY <1>2, <2>3, <3>1
  <2>4. CASE y = s
    BY <1>1, <1>2, <2>4
  <2> QED  BY <2>2, <2>3, <2>4
<1>13. Kept
  BY <1>2, <1>6 DEF Kept, ConnectedTo
<1> QED  BY <1>3, <1>4, <1>8, <1>9, <1>10, <1>11, <1>12, <1>13 DEF Inv

\* After a site has gone only types, tables and ages are left to be promised.
LEMMA GoneStep ==
    ASSUME Inv, NEW s \in Endpoint, Gone(s), config' = config, TypeOK',
           crashes' # 0 \/ quits' # 0,
           \A x, y \in Endpoint : Flow(x, y)' \subseteq ControlType
    PROVE  Inv' /\ Kept
<1> DEFINE t == NewTunnel(config[s])
<1>0. TypeOK /\ SitesInv /\ AgeInv
  BY DEF Inv
<1>1. Sound(t) /\ \A e \in Endpoint : ~Live(t, e)
  BY <1>0, NetTypes, NewTunnelView
<1> HIDE DEF t
<1>2. /\ ~up'[s] /\ tun'[s] = t /\ asked'[s] = {}
      /\ \A x \in Endpoint : x # s => /\ up'[x] = up[x] /\ tun'[x] = tun[x]
                                      /\ due'[x] = due[x] /\ asked'[x] = asked[x]
  BY <1>0, NetTypes DEF Gone, t
<1>3. SitesInv'
  BY <1>0, <1>1, <1>2 DEF SitesInv
<1>4. ASSUME NEW x \in Endpoint, NEW y \in Endpoint, ConnectedTo(x, y)'
      PROVE  x # s /\ ConnectedTo(x, y) /\ AgeOf(tun'[x], y) = AgeOf(tun[x], y) /\ due'[x] = due[x]
  BY <1>2, <1>4 DEF ConnectedTo, Known, PeerOf
<1>5. AgeInv'
  BY <1>0, <1>4, AgeStep
<1>6. ~Undisturbed'
  BY DEF Undisturbed
<1>7. FlowInv' /\ FriendInv' /\ FreshInv' /\ ShakeInv'
  BY <1>6 DEF FlowInv, FriendInv, FreshInv, ShakeInv, Calm
<1>8. Kept
  BY DEF Kept
<1> QED  BY <1>3, <1>5, <1>7, <1>8 DEF Inv

\* A crash leaves the network as it is.
LEMMA CrashStep ==
    ASSUME Inv, NEW s \in Endpoint, Crash(s)
    PROVE  Inv' /\ Kept
<1>0. TypeOK /\ FlowInv
  BY DEF Inv
<1>1. NewTunnel(config[s]) \in Tunnel
  BY <1>0, NetTypes, NewTunnelView DEF Sound
<1>2. /\ Gone(s) /\ config' = config /\ chan' = chan /\ crashes' = crashes + 1
      /\ crashes < MaxCrash /\ losses' = losses /\ shuffles' = shuffles /\ quits' = quits
  BY DEF Crash
<1>3. crashes' \in 0..MaxCrash /\ crashes' # 0
  BY <1>0, <1>2, FaultsAssumption DEF TypeOK
<1>4. TypeOK'
  <2>1. PendingAsked'
    BY PendingStep DEF Next
  <2> QED  BY <1>0, <1>1, <1>2, <1>3, <2>1 DEF TypeOK, Gone
<1>5. \A x, y \in Endpoint : Flow(x, y)' \subseteq ControlType
  BY <1>0, <1>2 DEF FlowInv, Flow
<1> QED  BY <1>2, <1>3, <1>4, <1>5, GoneStep

\* A regular exit sends BYEs.
LEMMA QuitStep ==
    ASSUME Inv, NEW s \in Endpoint, Quit(s)
    PROVE  Inv' /\ Kept
<1>0. TypeOK /\ FlowInv /\ chan \in Network /\ tun[s] \in Tunnel
  BY NetTypes DEF Inv
<1>1. NewTunnel(config[s]) \in Tunnel
  BY <1>0, NetTypes, NewTunnelView DEF Sound
<1>2. /\ Gone(s) /\ config' = config /\ quits' = quits + 1 /\ quits < MaxQuit
      /\ chan' = Transmit(s, chan, StopByes(tun[s]))
      /\ losses' = losses /\ shuffles' = shuffles /\ crashes' = crashes
  BY DEF Quit
<1>3. quits' \in 0..MaxQuit /\ quits' # 0
  BY <1>0, <1>2, FaultsAssumption DEF TypeOK
<1>4. StopByes(tun[s]) \in SUBSET Datagram /\ \A d \in StopByes(tun[s]) : d.msg.type \in ControlType
  BY <1>0, StopByesType
<1>5. Transmitted(s, chan, StopByes(tun[s]), chan')
  BY <1>0, <1>2, <1>4, TransmitView
<1>6. TypeOK'
  <2>1. chan' \in [Endpoint -> [Endpoint -> Seq(Message)]]
    BY <1>5 DEF Transmitted, Network
  <2>2. PendingAsked'
    BY PendingStep DEF Next
  <2> QED  BY <1>0, <1>1, <1>2, <1>3, <2>1, <2>2 DEF TypeOK, Gone
<1>7. ASSUME NEW x \in Endpoint, NEW y \in Endpoint PROVE Flow(x, y)' \subseteq ControlType
  <2>1. Flow(x, y) \subseteq ControlType
    BY <1>0 DEF FlowInv
  <2>2. CASE x # s
    BY <1>5, <2>1, <2>2 DEF Transmitted, Flow
  <2>3. CASE x = s
    BY <1>4, <1>5, <2>1, <2>3 DEF Transmitted, Flow
  <2> QED  BY <2>2, <2>3
<1> QED  BY <1>2, <1>3, <1>6, <1>7, GoneStep

\* A handler of s took u over and sent into the network c.
HandlerStep(s, u, sent, c) ==
    /\ up[s]
    /\ tun' = [tun EXCEPT ![s] = u]
    /\ Transmitted(s, c, sent, chan')
    /\ config' = config /\ up' = up /\ losses' = losses /\ shuffles' = shuffles
    /\ crashes' = crashes /\ quits' = quits

\* The other sites do not notice.
LEMMA HandlerView ==
    ASSUME Inv, NEW s \in Endpoint, NEW u, Sound(u), NEW sent, NEW c, HandlerStep(s, u, sent, c),
           due' \in [Endpoint -> BOOLEAN], asked' \in [Endpoint -> SUBSET Endpoint],
           \A x \in Endpoint : ~up[x] => asked'[x] = {},
           \A y \in Endpoint : Known(tun[s], y) => Known(u, y),
           PendingAsked'
    PROVE  /\ TypeOK' /\ SitesInv' /\ Grows
           /\ losses \in Nat /\ losses' \in Nat /\ losses' >= losses
           /\ tun'[s] = u /\ \A x \in Endpoint : x # s => tun'[x] = tun[x]
           /\ \A x, y \in Endpoint :
                 x # s => (ConnectedTo(x, y)' <=> ConnectedTo(x, y)) /\ AgeOf(tun'[x], y) = AgeOf(tun[x], y)
           /\ \A y \in Endpoint : ConnectedTo(s, y)' <=> Live(u, y)
           /\ \A y \in Endpoint : ConnectedTo(s, y) <=> Live(tun[s], y)
<1>0. TypeOK /\ SitesInv
  BY DEF Inv
<1>1. tun'[s] = u /\ \A x \in Endpoint : x # s => tun'[x] = tun[x]
  BY <1>0, NetTypes DEF HandlerStep
<1>2. u \in Tunnel
  BY DEF Sound
<1>3. TypeOK'
  BY <1>0, <1>2 DEF TypeOK, HandlerStep, Transmitted, Network
<1>4. SitesInv'
  BY <1>0, <1>1 DEF SitesInv, HandlerStep
<1>5. Grows
  BY <1>1 DEF Grows, Undisturbed, HandlerStep
<1>6. losses \in Nat /\ losses' \in Nat /\ losses' >= losses
  BY <1>0, NetTypes DEF HandlerStep
<1>7. ASSUME NEW x \in Endpoint, NEW y \in Endpoint, x # s
      PROVE  (ConnectedTo(x, y)' <=> ConnectedTo(x, y)) /\ AgeOf(tun'[x], y) = AgeOf(tun[x], y)
  BY <1>1, <1>7 DEF ConnectedTo, Known, PeerOf, HandlerStep
<1>8. ASSUME NEW y \in Endpoint
      PROVE  (ConnectedTo(s, y)' <=> Live(u, y)) /\ (ConnectedTo(s, y) <=> Live(tun[s], y))
  BY <1>1 DEF ConnectedTo, Live, Known, PeerOf, HandlerStep
<1> QED  BY <1>1, <1>3, <1>4, <1>5, <1>6, <1>7, <1>8

\* While the network is calm a pass drops nobody.
LEMMA NobodyTimedOut ==
    ASSUME Inv, Calm, NEW x \in Endpoint, NEW y \in Endpoint, ConnectedTo(x, y)
    PROVE  AgeOf(tun[x], y) < kKeepaliveTimeout
<1>1. AgeOf(tun[x], y) <= losses + 1 /\ losses + 1 < kKeepaliveTimeout
  BY DEF Inv, FreshInv, Calm
<1>2. losses \in Nat /\ AgeOf(tun[x], y) \in Nat
  BY NetTypes, ConnectedView DEF Inv
<1> QED  BY <1>1, <1>2, TimeoutAssumption

\* Losing nothing is calm.
LEMMA LosslessIsCalm ==
    ASSUME Undisturbed, losses = 0
    PROVE  Calm
BY TimeoutAssumption, IntervalAssumption DEF Calm

\* The pass of this interval: the news that the others wait for.
LEMMA MaintainStep ==
    ASSUME Inv, NEW s \in Endpoint, Maintain(s)
    PROVE  Inv' /\ Kept
<1> DEFINE t == tun[s]
<1>a. PICK over \in SUBSET DOMAIN t.mPeers : Apply(s, RunMaintenance(t, over), chan)
  BY DEF Maintain
<1> DEFINE r == RunMaintenance(t, over)
           u == r.tunnel
<1>0. /\ TypeOK /\ SitesInv /\ AgeInv /\ FlowInv /\ FriendInv /\ FreshInv /\ ShakeInv
      /\ Sound(t) /\ chan \in Network
  BY NetTypes DEF Inv, SitesInv
<1>1. Maintained(t, r)
  BY <1>0, MaintenanceView
<1>2. /\ up[s] /\ due[s] /\ due' = [due EXCEPT ![s] = FALSE] /\ asked' = asked
      /\ tun' = [tun EXCEPT ![s] = u] /\ chan' = Transmit(s, chan, r.sent)
      /\ config' = config /\ up' = up /\ losses' = losses /\ shuffles' = shuffles
      /\ crashes' = crashes /\ quits' = quits
  BY <1>a DEF Maintain, Apply, faults
<1> HIDE DEF t, r
<1>3. Sound(u) /\ r.sent \in SUBSET Datagram /\ \A y \in Endpoint : Known(u, y) <=> Known(t, y)
  BY <1>1 DEF Maintained, Result
<1> HIDE DEF u
<1>4. HandlerStep(s, u, r.sent, chan)
  BY <1>0, <1>2, <1>3, TransmitView DEF HandlerStep
<1>5. /\ due' \in [Endpoint -> BOOLEAN] /\ asked' \in [Endpoint -> SUBSET Endpoint]
      /\ \A x \in Endpoint : ~up[x] => asked'[x] = {}
      /\ ~due'[s] /\ \A x \in Endpoint : x # s => due'[x] = due[x]
  BY <1>0, <1>2, NetTypes DEF SitesInv
<1>6. /\ TypeOK' /\ SitesInv' /\ Grows
      /\ losses \in Nat /\ losses' \in Nat /\ losses' >= losses
      /\ tun'[s] = u /\ \A x \in Endpoint : x # s => tun'[x] = tun[x]
      /\ \A x, y \in Endpoint :
            x # s => (ConnectedTo(x, y)' <=> ConnectedTo(x, y)) /\ AgeOf(tun'[x], y) = AgeOf(tun[x], y)
      /\ \A y \in Endpoint : ConnectedTo(s, y)' <=> Live(u, y)
      /\ \A y \in Endpoint : ConnectedTo(s, y) <=> Live(t, y)
  <2>1. PendingAsked'
    BY PendingStep DEF Next
  <2> QED  BY <1>3, <1>4, <1>5, <2>1, HandlerView DEF t
<1>7. ASSUME NEW y \in Endpoint
      PROVE  /\ Live(u, y) => /\ Live(t, y) /\ Known(t, y)
                              /\ AgeOf(u, y) = AgeOf(t, y)
                              /\ AgeOf(t, y) <= kKeepaliveTimeout
             /\ Live(t, y) /\ AgeOf(t, y) < kKeepaliveTimeout => Live(u, y)
  BY <1>1, <1>3 DEF Maintained, Live, u
<1>8. ASSUME NEW x \in Endpoint, NEW y \in Endpoint
      PROVE  /\ Flow(x, y) \subseteq Flow(x, y)'
             /\ \/ Flow(x, y)' \subseteq Flow(x, y)
                \/ /\ Flow(x, y)' \subseteq Flow(x, y) \cup {"TUNNEL_HELLO", "TUNNEL_KEEPALIVE"}
                   /\ x = s /\ Known(t, y)
  <2>1. CASE x # s
    BY <1>4, <2>1 DEF HandlerStep, Transmitted, Flow
  <2>2. CASE x = s /\ chan'[x][y] = chan[x][y]
    BY <2>2 DEF Flow
  <2>3. CASE x = s /\ chan'[x][y] # chan[x][y]
    <3>1. PICK d \in r.sent : d.dst = y /\ Flow(x, y)' = Flow(x, y) \cup {d.msg.type}
      BY <1>4, <2>3 DEF HandlerStep, Transmitted, Flow
    <3>2. Known(t, y) /\ d.msg.type \in {"TUNNEL_HELLO", "TUNNEL_KEEPALIVE"}
      BY <1>1, <3>1 DEF Maintained
    <3> QED  BY <2>3, <3>1, <3>2
  <2> QED  BY <2>1, <2>2, <2>3
<1>9. ASSUME NEW y \in Endpoint, Known(t, y), Live(t, y) => AgeOf(t, y) < kKeepaliveTimeout
      PROVE  /\ Flow(s, y)' # {}
             /\ ~Live(t, y) => "TUNNEL_HELLO" \in Flow(s, y)'
  <2>1. Live(t, y) => Live(u, y)
    BY <1>7, <1>9
  <2>2. PICK g \in r.sent : g.dst = y
    BY <1>1, <1>9, <2>1 DEF Maintained, u
  <2>3. PICK d \in r.sent : d.dst = y /\ Flow(s, y)' = Flow(s, y) \cup {d.msg.type}
    BY <1>4, <2>2 DEF HandlerStep, Transmitted, Flow
  <2>4. ~Live(t, y) => d.msg.type = "TUNNEL_HELLO"
    BY <1>1, <2>3 DEF Maintained
  <2> QED  BY <2>3, <2>4
<1>10. AgeInv'
  <2> SUFFICES ASSUME NEW x \in Endpoint, NEW y \in Endpoint, ConnectedTo(x, y)'
               PROVE  /\ AgeOf(tun'[x], y) <= kKeepaliveTimeout + 1
                      /\ AgeOf(tun'[x], y) = kKeepaliveTimeout + 1 => due'[x]
    BY DEF AgeInv, AgeOf, PeerOf
  <2>1. CASE x # s
    BY <1>0, <1>5, <1>6, <2>1 DEF AgeInv
  <2>2. CASE x = s
    <3>1. AgeOf(u, y) <= kKeepaliveTimeout /\ AgeOf(u, y) \in Nat
      BY <1>3, <1>6, <1>7, <2>2, KnownPeer
    <3> QED  BY <1>6, <2>2, <3>1, TimeoutAssumption
  <2> QED  BY <2>1, <2>2
<1>11. FlowInv'
  BY <1>0, <1>2, <1>3, <1>6, <1>8, FlowStep
<1>12. FriendInv'
  BY <1>0, <1>6, <1>7, FriendStep
<1>13. FreshInv'
  <2>1. ASSUME Calm, NEW x \in Endpoint, NEW y \in Endpoint, ConnectedTo(x, y)'
        PROVE  /\ ConnectedTo(x, y)
               /\ AgeOf(tun'[x], y) = AgeOf(tun[x], y)
               /\ due[y] \/ Flow(y, x) # {} => due'[y] \/ Flow(y, x)' # {}
    <3>1. ConnectedTo(x, y) /\ AgeOf(tun'[x], y) = AgeOf(tun[x], y)
      BY <1>6, <1>7, <2>1 DEF t
    <3>2. Flow(y, x) # {} => Flow(y, x)' # {}
      BY <1>8
    <3>3. CASE y # s
      BY <1>5, <3>1, <3>2, <3>3
    <3>4. CASE y = s
      <4>1. Known(t, x)
        BY <1>0, <2>1, <3>1, <3>4 DEF FriendInv, Calm, t
      <4>2. Live(t, x) => AgeOf(t, x) < kKeepaliveTimeout
        BY <1>6, <2>1, NobodyTimedOut DEF t
      <4> QED  BY <1>9, <3>1, <3>4, <4>1, <4>2
    <3> QED  BY <3>3, <3>4
  <2> QED  BY <1>0, <1>6, <2>1, FreshStep
<1>14. ShakeInv'
  <2> SUFFICES ASSUME Undisturbed', losses' = 0, NEW x \in Endpoint, NEW y \in Endpoint,
                      Paired(x, y)', ~Live(tun'[x], y)
               PROVE  \/ "TUNNEL_HELLO" \in Flow(y, x)'
                      \/ /\ ~Live(tun'[y], x)
                         /\ due'[x] \/ due'[y] \/ "TUNNEL_HELLO" \in Flow(x, y)'
    BY DEF ShakeInv, Live, Known, PeerOf
  <2>1. Undisturbed /\ losses = 0 /\ Calm
    BY <1>2, LosslessIsCalm DEF Undisturbed
  <2>2. ASSUME NEW v \in Endpoint, NEW w \in Endpoint, up[v]
        PROVE  /\ Known(tun'[v], w) <=> Known(tun[v], w)
               /\ Live(tun'[v], w) <=> Live(tun[v], w)
    <3>1. CASE v # s
      BY <1>6, <3>1 DEF Known, Live, PeerOf
    <3>2. CASE v = s
      <4>1. Live(t, w) => AgeOf(t, w) < kKeepaliveTimeout
        BY <1>6, <2>1, NobodyTimedOut DEF t
      <4> QED  BY <1>3, <1>6, <1>7, <3>2, <4>1 DEF t
    <3> QED  BY <3>1, <3>2
  <2>3. up[x] /\ up[y] /\ Known(tun'[x], y) /\ Known(tun'[y], x)
    BY <1>2 DEF Paired, Known
  <2>4. Paired(x, y) /\ ~Live(tun[x], y)
    BY <2>2, <2>3 DEF Paired
  <2>5. \/ "TUNNEL_HELLO" \in Flow(y, x)
        \/ /\ ~Live(tun[y], x)
           /\ due[x] \/ due[y] \/ "TUNNEL_HELLO" \in Flow(x, y)
    BY <1>0, <2>1, <2>4 DEF ShakeInv
  <2>6. CASE "TUNNEL_HELLO" \in Flow(y, x)
    BY <1>8, <2>6
  <2>7. CASE ~Live(tun[y], x) /\ (x = s \/ y = s)
    <3>1. x = s => "TUNNEL_HELLO" \in Flow(x, y)'
      BY <1>9, <2>4 DEF Paired, t
    <3>2. y = s => "TUNNEL_HELLO" \in Flow(y, x)'
      BY <1>9, <2>4, <2>7 DEF Paired, t
    <3> QED  BY <2>2, <2>3, <2>7, <3>1, <3>2
  <2>8. CASE /\ ~Live(tun[y], x) /\ x # s /\ y # s
             /\ due[x] \/ due[y] \/ "TUNNEL_HELLO" \in Flow(x, y)
    BY <1>5, <1>8, <2>2, <2>3, <2>8
  <2> QED  BY <2>5, <2>6, <2>7, <2>8
<1>15. Kept
  <2> SUFFICES ASSUME NEW x \in Endpoint, NEW y \in Endpoint, ConnectedTo(x, y),
                      losses' + 1 < kKeepaliveTimeout, crashes' = 0, quits' = 0
               PROVE  ConnectedTo(x, y)'
    BY DEF Kept
  <2>1. Calm
    BY <1>2 DEF Calm, Undisturbed
  <2>2. CASE x # s
    BY <1>6, <2>2
  <2>3. CASE x = s
    BY <1>6, <1>7, <2>1, <2>3, NobodyTimedOut DEF t
  <2> QED  BY <2>2, <2>3
<1> QED  BY <1>6, <1>10, <1>11, <1>12, <1>13, <1>14, <1>15 DEF Inv

\* An answer to a prompt: a rejection changes nothing that others see, and an
\* accepted peer gets a HELLO.
LEMMA AnswerStep ==
    ASSUME Inv, NEW s \in Endpoint, NEW e \in Endpoint, Answer(s, e)
    PROVE  Inv' /\ Kept
<1> DEFINE t == tun[s]
<1>0. /\ TypeOK /\ SitesInv /\ AgeInv /\ FlowInv /\ FriendInv /\ FreshInv /\ ShakeInv
      /\ Sound(t) /\ chan \in Network
  BY NetTypes DEF Inv, SitesInv
<1>1. PICK r \in {Accept(t, e), Reject(t, e)} :
         tun' = [tun EXCEPT ![s] = r.tunnel] /\ chan' = Transmit(s, chan, r.sent)
  BY DEF Answer, Apply
<1>2. /\ e \in asked[s] /\ asked' = [asked EXCEPT ![s] = @ \ {e}]
      /\ config' = config /\ up' = up /\ due' = due /\ losses' = losses
      /\ shuffles' = shuffles /\ crashes' = crashes /\ quits' = quits
  BY DEF Answer, faults
<1> HIDE DEF t
<1> DEFINE u == r.tunnel
<1>3. /\ r \in Result /\ Sound(u)
      /\ \A x \in Endpoint : Known(t, x) => Known(u, x) /\ PeerOf(u, x) = PeerOf(t, x)
      /\ \A x \in Endpoint : Known(u, x) /\ ~Known(t, x) =>
            x = e /\ ~Live(u, x) /\ r.sent = {ControlTo("TUNNEL_HELLO", e)}
      /\ r.sent \subseteq {ControlTo("TUNNEL_HELLO", e)}
      /\ r.sent # {} => Known(u, e)
  <2>1. CASE r = Accept(t, e)
    <3>1. Accepted(t, e, r)
      BY <1>0, <2>1, AcceptView
    <3> QED  BY <3>1 DEF Accepted
  <2>2. CASE r = Reject(t, e)
    BY <1>0, <2>2, RejectView
  <2> QED  BY <2>1, <2>2
<1>4. r.sent \in SUBSET Datagram
  BY <1>3 DEF Result
<1> HIDE DEF u
<1>5. up[s]
  BY <1>0, <1>2 DEF SitesInv
<1>6. HandlerStep(s, u, r.sent, chan)
  BY <1>0, <1>1, <1>2, <1>4, <1>5, TransmitView DEF HandlerStep, u
<1>7. /\ due' \in [Endpoint -> BOOLEAN] /\ asked' \in [Endpoint -> SUBSET Endpoint]
      /\ \A x \in Endpoint : ~up[x] => asked'[x] = {}
  BY <1>0, <1>2, <1>5, NetTypes DEF SitesInv
<1>8. /\ TypeOK' /\ SitesInv' /\ Grows
      /\ losses \in Nat /\ losses' \in Nat /\ losses' >= losses
      /\ tun'[s] = u /\ \A x \in Endpoint : x # s => tun'[x] = tun[x]
      /\ \A x, y \in Endpoint :
            x # s => (ConnectedTo(x, y)' <=> ConnectedTo(x, y)) /\ AgeOf(tun'[x], y) = AgeOf(tun[x], y)
      /\ \A y \in Endpoint : ConnectedTo(s, y)' <=> Live(u, y)
      /\ \A y \in Endpoint : ConnectedTo(s, y) <=> Live(t, y)
  <2>1. PendingAsked'
    BY PendingStep DEF Next
  <2> QED  BY <1>3, <1>6, <1>7, <2>1, HandlerView DEF t, u
<1>9. ASSUME NEW y \in Endpoint
      PROVE  (Live(u, y) <=> Live(t, y)) /\ (Live(u, y) => AgeOf(u, y) = AgeOf(t, y))
  BY <1>3 DEF Live, AgeOf
<1>10. ASSUME NEW x \in Endpoint, NEW y \in Endpoint
       PROVE  (ConnectedTo(x, y)' <=> ConnectedTo(x, y))
              /\ (ConnectedTo(x, y)' => AgeOf(tun'[x], y) = AgeOf(tun[x], y))
  BY <1>8, <1>9 DEF t
<1>11. ASSUME NEW x \in Endpoint, NEW y \in Endpoint
       PROVE  /\ Flow(x, y) \subseteq Flow(x, y)'
              /\ \/ Flow(x, y)' \subseteq Flow(x, y)
                 \/ /\ Flow(x, y)' \subseteq Flow(x, y) \cup {"TUNNEL_HELLO", "TUNNEL_KEEPALIVE"}
                    /\ x = s /\ Known(u, y)
  <2>1. CASE x # s
    BY <1>6, <2>1 DEF HandlerStep, Transmitted, Flow
  <2>2. CASE x = s /\ chan'[x][y] = chan[x][y]
    BY <2>2 DEF Flow
  <2>3. CASE x = s /\ chan'[x][y] # chan[x][y]
    <3>1. PICK d \in r.sent : d.dst = y /\ Flow(x, y)' = Flow(x, y) \cup {d.msg.type}
      BY <1>6, <2>3 DEF HandlerStep, Transmitted, Flow
    <3>2. d = ControlTo("TUNNEL_HELLO", e) /\ Known(u, e)
      BY <1>3, <3>1
    <3>3. d.dst = e /\ d.msg.type = "TUNNEL_HELLO"
      BY <3>2 DEF ControlTo, Control
    <3> QED  BY <2>3, <3>1, <3>2, <3>3
  <2> QED  BY <2>1, <2>2, <2>3
<1>12. AgeInv'
  BY <1>0, <1>2, <1>10, AgeStep
<1>13. FlowInv'
  BY <1>0, <1>2, <1>5, <1>8, <1>11, FlowStep
<1>14. FriendInv'
  BY <1>0, <1>8, <1>10, FriendStep
<1>15. FreshInv'
  <2>1. \A x, y \in Endpoint : Flow(y, x) # {} => Flow(y, x)' # {}
    BY <1>11
  <2> QED  BY <1>0, <1>2, <1>8, <1>10, <2>1, FreshStep
<1>16. ShakeInv'
  <2> SUFFICES ASSUME Undisturbed', losses' = 0, NEW x \in Endpoint, NEW y \in Endpoint,
                      Paired(x, y)', ~Live(tun'[x], y)
               PROVE  \/ "TUNNEL_HELLO" \in Flow(y, x)'
                      \/ /\ ~Live(tun'[y], x)
                         /\ due'[x] \/ due'[y] \/ "TUNNEL_HELLO" \in Flow(x, y)'
    BY DEF ShakeInv, Live, Known, PeerOf
  <2>1. Undisturbed /\ losses = 0
    BY <1>2 DEF Undisturbed
  <2>2. ASSUME NEW v \in Endpoint, NEW w \in Endpoint
        PROVE  Live(tun'[v], w) <=> Live(tun[v], w)
    BY <1>8, <1>9 DEF Live, Known, PeerOf, t
  <2>3. up[x] /\ up[y] /\ Known(tun'[x], y) /\ Known(tun'[y], x)
    BY <1>2 DEF Paired, Known
  <2>4. CASE Known(tun[x], y) /\ Known(tun[y], x)
    <3>1. Paired(x, y) /\ ~Live(tun[x], y)
      BY <2>2, <2>3, <2>4 DEF Paired
    <3>2. \/ "TUNNEL_HELLO" \in Flow(y, x)
          \/ /\ ~Live(tun[y], x)
             /\ due[x] \/ due[y] \/ "TUNNEL_HELLO" \in Flow(x, y)
      BY <1>0, <2>1, <3>1 DEF ShakeInv
    <3> QED  BY <1>2, <1>11, <2>2, <3>2
  <2>5. CASE ~(Known(tun[x], y) /\ Known(tun[y], x))
    <3>1. ~Live(tun[y], x)
      <4>1. Live(tun[y], x) => Known(tun[y], x)
        BY DEF Live
      <4>2. Live(tun[y], x) => Known(tun[x], y)
        BY <1>0, <2>1, <2>3, ConnectedView DEF FriendInv
      <4> QED  BY <2>5, <4>1, <4>2
    <3>2. \/ x = s /\ y = e /\ Known(u, e) /\ ~Known(t, e)
          \/ y = s /\ x = e /\ Known(u, e) /\ ~Known(t, e)
      <4>1. CASE ~Known(tun[x], y)
        BY <1>3, <1>8, <2>3, <4>1 DEF t
      <4>2. CASE ~Known(tun[y], x)
        BY <1>3, <1>8, <2>3, <4>2 DEF t
      <4> QED  BY <2>5, <4>1, <4>2
    <3>3. "TUNNEL_HELLO" \in Flow(s, e)'
      <4>1. ControlTo("TUNNEL_HELLO", e) \in r.sent /\ r.sent = {ControlTo("TUNNEL_HELLO", e)}
        BY <1>3, <3>2
      <4>2. ControlTo("TUNNEL_HELLO", e).dst = e
            /\ ControlTo("TUNNEL_HELLO", e).msg.type = "TUNNEL_HELLO"
        BY DEF ControlTo, Control
      <4> QED  BY <1>6, <4>1, <4>2 DEF HandlerStep, Transmitted, Flow
    <3> QED  BY <2>2, <3>1, <3>2, <3>3
  <2> QED  BY <2>4, <2>5
<1>17. Kept
  BY <1>10 DEF Kept
<1> QED  BY <1>8, <1>12, <1>13, <1>14, <1>15, <1>16, <1>17 DEF Inv

\* n is the network without the oldest datagram from z to s.
Taken(z, s, n) ==
    /\ n \in Network
    /\ \A x, y \in Endpoint : x # z \/ y # s => n[x][y] = chan[x][y]
    /\ Types(chan[z][s]) = Types(n[z][s]) \cup {Head(chan[z][s]).type}

\* Receiving or losing a datagram takes it out of its own channel only.
LEMMA TakenView ==
    ASSUME chan \in Network, NEW z \in Endpoint, NEW s \in Endpoint, chan[z][s] # <<>>
    PROVE  Head(chan[z][s]) \in Message /\ Taken(z, s, [chan EXCEPT ![z][s] = Tail(@)])
<1> DEFINE rest == [chan EXCEPT ![z][s] = Tail(@)]
<1>1. chan[z][s] \in Seq(Message)
  BY DEF Network
<1>2. /\ Head(chan[z][s]) \in Message /\ Tail(chan[z][s]) \in Seq(Message)
      /\ Types(chan[z][s]) = Types(Tail(chan[z][s])) \cup {Head(chan[z][s]).type}
  BY <1>1, TypesTail
<1>3. rest[z][s] = Tail(chan[z][s])
  BY DEF Network
<1>4. \A x, y \in Endpoint : x # z \/ y # s => rest[x][y] = chan[x][y]
  BY DEF Network
<1>5. rest \in Network
  BY <1>2 DEF Network
<1> HIDE DEF rest
<1> QED  BY <1>2, <1>3, <1>4, <1>5 DEF Taken, rest

\* A datagram for a site that is down is gone.
LEMMA VanishStep ==
    ASSUME Inv, NEW z \in Endpoint, NEW s \in Endpoint, Deliver(z, s), ~up[s]
    PROVE  Inv' /\ Kept
<1>0. /\ TypeOK /\ SitesInv /\ AgeInv /\ FlowInv /\ FriendInv /\ FreshInv /\ ShakeInv
      /\ chan \in Network
  BY NetTypes DEF Inv
<1>1. /\ chan[z][s] # <<>> /\ chan' = [chan EXCEPT ![z][s] = Tail(@)]
      /\ tun' = tun /\ asked' = asked /\ config' = config /\ up' = up /\ due' = due
      /\ losses' = losses /\ shuffles' = shuffles /\ crashes' = crashes /\ quits' = quits
  BY DEF Deliver, faults
<1>2. /\ chan' \in Network
      /\ \A x, y \in Endpoint : x # z \/ y # s => Flow(x, y)' = Flow(x, y)
      /\ Flow(z, s)' \subseteq Flow(z, s)
  <2>1. Taken(z, s, chan')
    BY <1>0, <1>1, TakenView
  <2> QED  BY <2>1 DEF Taken, Flow
<1>3. TypeOK'
  BY <1>0, <1>1, <1>2 DEF TypeOK, PendingAsked, Network
<1>4. SitesInv' /\ Grows
  BY <1>0, <1>1 DEF SitesInv, Grows, Undisturbed
<1>5. \A x, y \in Endpoint : (ConnectedTo(x, y)' <=> ConnectedTo(x, y)) /\ (ConnectedTo(x, y) => x # s)
  BY <1>1 DEF ConnectedTo
<1>6. AgeInv'
  BY <1>0, <1>1, <1>5, AgeStep
<1>7. FlowInv'
  BY <1>0, <1>2, <1>4, FlowStep
<1>8. FriendInv'
  BY <1>0, <1>4, <1>5, FriendStep
<1>9. FreshInv'
  <2>1. losses \in Nat /\ losses' \in Nat /\ losses' >= losses
    BY <1>0, <1>1, NetTypes
  <2>2. \A x, y \in Endpoint : ConnectedTo(x, y) => Flow(y, x)' = Flow(y, x)
    BY <1>2, <1>5
  <2> QED  BY <1>0, <1>1, <1>4, <1>5, <2>1, <2>2, FreshStep
<1>10. ShakeInv'
  <2> SUFFICES ASSUME Undisturbed', losses' = 0, NEW x \in Endpoint, NEW y \in Endpoint,
                      Paired(x, y)', ~Live(tun'[x], y)
               PROVE  \/ "TUNNEL_HELLO" \in Flow(y, x)'
                      \/ /\ ~Live(tun'[y], x)
                         /\ due'[x] \/ due'[y] \/ "TUNNEL_HELLO" \in Flow(x, y)'
    BY DEF ShakeInv, Live, Known, PeerOf
  <2>1. Undisturbed /\ losses = 0 /\ Paired(x, y) /\ x # s /\ y # s
    BY <1>1 DEF Undisturbed, Paired
  <2>2. Flow(x, y)' = Flow(x, y) /\ Flow(y, x)' = Flow(y, x)
    BY <1>2, <2>1
  <2> QED  BY <1>0, <1>1, <2>1, <2>2 DEF ShakeInv
<1>11. Kept
  BY <1>5 DEF Kept
<1> QED  BY <1>3, <1>4, <1>6, <1>7, <1>8, <1>9, <1>10, <1>11 DEF Inv

\* A datagram that is handled: a HELLO connects and is echoed if it is news, a
\* KEEPALIVE is a sign of life, and a BYE means that a site has gone.
LEMMA HandledStep ==
    ASSUME Inv, NEW z \in Endpoint, NEW s \in Endpoint, Deliver(z, s), up[s]
    PROVE  Inv' /\ Kept
<1> DEFINE t == tun[s]
           m == Head(chan[z][s])
           rest == [chan EXCEPT ![z][s] = Tail(@)]
           r == HandleReceive(t, z, m)
           u == r.tunnel
<1>0. /\ TypeOK /\ SitesInv /\ AgeInv /\ FlowInv /\ FriendInv /\ FreshInv /\ ShakeInv
      /\ Sound(t) /\ chan \in Network
  BY NetTypes DEF Inv, SitesInv
<1>1. /\ chan[z][s] # <<>> /\ asked' = [asked EXCEPT ![s] = @ \cup r.prompt]
      /\ tun' = [tun EXCEPT ![s] = u] /\ chan' = Transmit(s, rest, r.sent)
      /\ config' = config /\ up' = up /\ due' = due
      /\ losses' = losses /\ shuffles' = shuffles /\ crashes' = crashes /\ quits' = quits
  BY DEF Deliver, Apply, faults
<1>2. /\ rest \in Network /\ m \in Message
      /\ \A x, y \in Endpoint : x # z \/ y # s => Types(rest[x][y]) = Flow(x, y)
      /\ Flow(z, s) = Types(rest[z][s]) \cup {m.type}
  <2>1. m \in Message /\ Taken(z, s, rest)
    BY <1>0, <1>1, TakenView
  <2> HIDE DEF rest
  <2> QED  BY <2>1 DEF Taken, Flow
<1>3. m.type \in ControlType /\ (Undisturbed => up[z] /\ Known(tun[z], s) /\ m.type # "TUNNEL_BYE")
  BY <1>0, <1>2 DEF FlowInv
<1>4. Received(t, z, m.type, r)
  BY <1>0, <1>2, <1>3, ReceiveView
<1> HIDE DEF t, m, rest, r
<1>5. r \in Result /\ Sound(u) /\ SameBut(t, u, z) /\ r.sent \in SUBSET Datagram /\ r.prompt \in SUBSET Endpoint
  BY <1>4 DEF Received, Result
<1> HIDE DEF u
<1>6. HandlerStep(s, u, r.sent, rest)
  BY <1>1, <1>2, <1>5, TransmitView DEF HandlerStep
<1>7. /\ due' \in [Endpoint -> BOOLEAN] /\ asked' \in [Endpoint -> SUBSET Endpoint]
      /\ \A x \in Endpoint : ~up[x] => asked'[x] = {}
  BY <1>0, <1>1, <1>5, NetTypes DEF SitesInv
<1>8. /\ TypeOK' /\ SitesInv' /\ Grows
      /\ losses \in Nat /\ losses' \in Nat /\ losses' >= losses
      /\ tun'[s] = u /\ \A x \in Endpoint : x # s => tun'[x] = tun[x]
      /\ \A x, y \in Endpoint :
            x # s => (ConnectedTo(x, y)' <=> ConnectedTo(x, y)) /\ AgeOf(tun'[x], y) = AgeOf(tun[x], y)
      /\ \A y \in Endpoint : ConnectedTo(s, y)' <=> Live(u, y)
      /\ \A y \in Endpoint : ConnectedTo(s, y) <=> Live(t, y)
  <2>1. PendingAsked'
    BY PendingStep DEF Next
  <2> QED  BY <1>5, <1>6, <1>7, <2>1, HandlerView DEF t, SameBut
\* The peers that did not write are seen as before.
<1>9. ASSUME NEW y \in Endpoint, y # z
      PROVE  (Live(u, y) <=> Live(t, y)) /\ (Live(u, y) => AgeOf(u, y) = AgeOf(t, y))
  BY <1>5, <1>9 DEF SameBut, Live, AgeOf
\* Who is connected to the writer afterwards has just heard of it.
<1>10. /\ Live(u, z) => AgeOf(u, z) = 0
       /\ Live(u, z) => Live(t, z) \/ m.type = "TUNNEL_HELLO"
       /\ Live(t, z) /\ m.type # "TUNNEL_BYE" => Live(u, z)
       /\ m.type = "TUNNEL_HELLO" /\ Known(t, z) => Live(u, z)
  <2>1. Live(u, z) => Known(t, z)
    BY <1>5 DEF SameBut, Live
  <2>2. Live(t, z) => Known(t, z)
    BY DEF Live
  <2> QED  BY <1>3, <1>4, <2>1, <2>2 DEF Received, ControlType, u
\* Nothing but an echo is sent.
<1>11. /\ r.sent \subseteq {ControlTo("TUNNEL_HELLO", z)}
       /\ r.sent # {} => Known(t, z)
       /\ m.type = "TUNNEL_HELLO" /\ Known(t, z) /\ ~Live(t, z) => r.sent = {ControlTo("TUNNEL_HELLO", z)}
  BY <1>3, <1>4 DEF Received, ControlType
<1>12. /\ ControlTo("TUNNEL_HELLO", z).dst = z
       /\ ControlTo("TUNNEL_HELLO", z).msg.type = "TUNNEL_HELLO"
  BY DEF ControlTo, Control
<1>13. ASSUME NEW x \in Endpoint, NEW y \in Endpoint
       PROVE  /\ \/ Flow(x, y)' = Types(rest[x][y])
                 \/ /\ Flow(x, y)' = Types(rest[x][y]) \cup {"TUNNEL_HELLO"}
                    /\ x = s /\ y = z /\ Known(t, z)
  <2>1. CASE x # s
    BY <1>6, <2>1 DEF HandlerStep, Transmitted, Flow
  <2>2. CASE x = s /\ chan'[x][y] = rest[x][y]
    BY <2>2 DEF Flow
  <2>3. CASE x = s /\ chan'[x][y] # rest[x][y]
    <3>1. PICK d \in r.sent : d.dst = y /\ Flow(x, y)' = Types(rest[x][y]) \cup {d.msg.type}
      BY <1>6, <2>3 DEF HandlerStep, Transmitted, Flow
    <3>2. d = ControlTo("TUNNEL_HELLO", z) /\ Known(t, z)
      BY <1>11, <3>1
    <3> QED  BY <1>12, <2>3, <3>1, <3>2
  <2> QED  BY <2>1, <2>2, <2>3
<1>14. ASSUME NEW x \in Endpoint, NEW y \in Endpoint
       PROVE  /\ x # z \/ y # s => Flow(x, y) \subseteq Flow(x, y)'
              /\ "TUNNEL_HELLO" \in Flow(x, y) /\ m.type # "TUNNEL_HELLO" => "TUNNEL_HELLO" \in Flow(x, y)'
              /\ \/ Flow(x, y)' \subseteq Flow(x, y)
                 \/ /\ Flow(x, y)' \subseteq Flow(x, y) \cup {"TUNNEL_HELLO", "TUNNEL_KEEPALIVE"}
                    /\ x = s /\ Known(t, y)
  <2>1. Types(rest[x][y]) \subseteq Flow(x, y) /\ Flow(x, y) \subseteq Types(rest[x][y]) \cup {m.type}
        /\ (x # z \/ y # s => Types(rest[x][y]) = Flow(x, y))
    BY <1>2
  <2> QED  BY <1>13, <2>1
<1>15. ASSUME m.type = "TUNNEL_HELLO", Known(t, z), ~Live(t, z)
       PROVE  "TUNNEL_HELLO" \in Flow(s, z)'
  BY <1>6, <1>11, <1>12, <1>15 DEF HandlerStep, Transmitted, Flow
<1>16. ASSUME NEW x \in Endpoint, NEW y \in Endpoint, ConnectedTo(x, y)'
       PROVE  \/ x = s /\ y = z /\ AgeOf(tun'[x], y) = 0
              \/ /\ x # s \/ y # z
                 /\ ConnectedTo(x, y) /\ AgeOf(tun'[x], y) = AgeOf(tun[x], y)
  <2>1. CASE x # s
    BY <1>8, <1>16, <2>1
  <2>2. CASE x = s /\ y # z
    BY <1>8, <1>9, <1>16, <2>2 DEF t
  <2>3. CASE x = s /\ y = z
    BY <1>8, <1>10, <1>16, <2>3
  <2> QED  BY <2>1, <2>2, <2>3
<1>17. AgeInv'
  BY <1>0, <1>1, <1>16, AgeStep
<1>18. FlowInv'
  <2>1. \A y \in Endpoint : Known(t, y) => Known(u, y)
    BY <1>5 DEF SameBut
  <2> QED  BY <1>0, <1>1, <1>8, <1>14, <2>1, FlowStep
<1>19. FriendInv'
  <2>1. m.type \in Flow(z, s)
    BY <1>2
  <2> QED  BY <1>0, <1>8, <1>16, <2>1, FriendStep
<1>20. FreshInv'
  <2>1. ASSUME NEW x \in Endpoint, NEW y \in Endpoint, ConnectedTo(x, y)'
        PROVE  \/ AgeOf(tun'[x], y) = 0
               \/ /\ ConnectedTo(x, y) /\ AgeOf(tun'[x], y) = AgeOf(tun[x], y)
                  /\ Flow(y, x) # {} => Flow(y, x)' # {}
    BY <1>14, <1>16, <2>1
  <2> QED  BY <1>0, <1>1, <1>8, <2>1, FreshStep
<1>21. ShakeInv'
  <2> SUFFICES ASSUME Undisturbed', losses' = 0, NEW x \in Endpoint, NEW y \in Endpoint,
                      Paired(x, y)', ~Live(tun'[x], y)
               PROVE  \/ "TUNNEL_HELLO" \in Flow(y, x)'
                      \/ /\ ~Live(tun'[y], x)
                         /\ due'[x] \/ due'[y] \/ "TUNNEL_HELLO" \in Flow(x, y)'
    BY DEF ShakeInv, Live, Known, PeerOf
  <2>1. Undisturbed /\ losses = 0 /\ m.type # "TUNNEL_BYE"
    BY <1>1, <1>3 DEF Undisturbed
  <2>2. ASSUME NEW v \in Endpoint, NEW w \in Endpoint
        PROVE  /\ Known(tun'[v], w) <=> Known(tun[v], w)
               /\ Live(tun[v], w) => Live(tun'[v], w)
               /\ Live(tun'[v], w) => Live(tun[v], w) \/ (v = s /\ w = z /\ m.type = "TUNNEL_HELLO")
    <3>1. CASE v # s
      BY <1>8, <3>1 DEF Known, Live, PeerOf
    <3>2. CASE v = s
      <4>1. Known(u, w) <=> Known(t, w)
        BY <1>5 DEF SameBut
      <4> QED  BY <1>8, <1>9, <1>10, <2>1, <3>2, <4>1 DEF t
    <3> QED  BY <3>1, <3>2
  <2>3. Paired(x, y) /\ ~Live(tun[x], y)
    <3>1. up[x] /\ up[y] /\ Known(tun'[x], y) /\ Known(tun'[y], x)
      BY <1>1 DEF Paired, Known
    <3> QED  BY <2>2, <3>1 DEF Paired
  <2>4. \/ "TUNNEL_HELLO" \in Flow(y, x)
        \/ /\ ~Live(tun[y], x)
           /\ due[x] \/ due[y] \/ "TUNNEL_HELLO" \in Flow(x, y)
    BY <1>0, <2>1, <2>3 DEF ShakeInv
  <2>5. CASE m.type # "TUNNEL_HELLO"
    BY <1>1, <1>14, <2>2, <2>4, <2>5
  <2>6. CASE m.type = "TUNNEL_HELLO"
    <3>1. ~(x = s /\ y = z)
      BY <1>8, <1>10, <2>3, <2>6 DEF Paired, t
    <3>2. Flow(y, x) \subseteq Flow(y, x)'
      BY <1>14, <3>1
    <3>3. CASE x = z /\ y = s
      <4>1. Known(t, z)
        BY <2>3, <3>3 DEF Paired, t
      <4>2. CASE ~Live(t, z)
        BY <1>15, <2>6, <3>3, <4>1, <4>2
      <4>3. CASE Live(t, z)
        BY <2>4, <3>2, <3>3, <4>3 DEF t
      <4> QED  BY <4>2, <4>3
    <3>4. CASE ~(x = z /\ y = s)
      <4>1. Flow(x, y) \subseteq Flow(x, y)'
        BY <1>14, <3>4
      <4>2. ~Live(tun[y], x) => ~Live(tun'[y], x)
        BY <2>2, <3>4
      <4> QED  BY <1>1, <2>4, <3>2, <4>1, <4>2
    <3> QED  BY <3>3, <3>4
  <2> QED  BY <2>5, <2>6
<1>22. Kept
  <2> SUFFICES ASSUME NEW x \in Endpoint, NEW y \in Endpoint, ConnectedTo(x, y),
                      crashes' = 0, quits' = 0
               PROVE  ConnectedTo(x, y)'
    BY DEF Kept
  <2>1. m.type # "TUNNEL_BYE"
    BY <1>1, <1>3 DEF Undisturbed
  <2> QED  BY <1>8, <1>9, <1>10, <2>1
<1> QED  BY <1>8, <1>17, <1>18, <1>19, <1>20, <1>21, <1>22 DEF Inv
-----------------------------------------------------------------------------
(* The network on its own, and time.                                       *)

\* While no site does anything, the network may forget types at the price of a
\* loss, and otherwise reorder and repeat.
LEMMA NetworkStep ==
    ASSUME Inv, TypeOK',
           tun' = tun, asked' = asked, up' = up, due' = due, crashes' = crashes, quits' = quits,
           \/ losses' = losses + 1 /\ \A x, y \in Endpoint : Flow(x, y)' \subseteq Flow(x, y)
           \/ losses' = losses /\ \A x, y \in Endpoint : Flow(x, y)' = Flow(x, y)
    PROVE  Inv' /\ Kept
<1>0. /\ TypeOK /\ SitesInv /\ AgeInv /\ FlowInv /\ FriendInv /\ FreshInv /\ ShakeInv
      /\ losses \in Nat
  BY NetTypes DEF Inv
<1>1. SitesInv' /\ Grows
  BY <1>0 DEF SitesInv, Grows, Undisturbed
<1>2. \A x, y \in Endpoint : ConnectedTo(x, y)' <=> ConnectedTo(x, y)
  BY DEF ConnectedTo
<1>3. AgeInv'
  BY <1>0, <1>2, AgeStep
<1>4. FlowInv'
  <2>1. \A x, y \in Endpoint : Flow(x, y)' \subseteq Flow(x, y)
    OBVIOUS
  <2> QED  BY <1>0, <1>1, <2>1, FlowStep
<1>5. FriendInv'
  BY <1>0, <1>1, <1>2, FriendStep
<1>6. FreshInv'
  <2>1. losses' \in Nat /\ losses' >= losses
    BY <1>0
  <2>2. losses' > losses \/ \A x, y \in Endpoint : Flow(x, y)' = Flow(x, y)
    BY <1>0
  <2> QED  BY <1>0, <1>1, <1>2, <2>1, <2>2, FreshStep
<1>7. ShakeInv'
  <2> SUFFICES ASSUME Undisturbed', losses' = 0, NEW x \in Endpoint, NEW y \in Endpoint,
                      Paired(x, y)', ~Live(tun'[x], y)
               PROVE  \/ "TUNNEL_HELLO" \in Flow(y, x)'
                      \/ /\ ~Live(tun'[y], x)
                         /\ due'[x] \/ due'[y] \/ "TUNNEL_HELLO" \in Flow(x, y)'
    BY DEF ShakeInv, Live, Known, PeerOf
  <2>1. losses + 1 # 0
    BY <1>0
  <2>2. losses = 0 /\ Flow(x, y)' = Flow(x, y) /\ Flow(y, x)' = Flow(y, x)
    BY <2>1
  <2>3. Undisturbed /\ Paired(x, y)
    BY DEF Undisturbed, Paired
  <2> QED  BY <1>0, <2>2, <2>3 DEF ShakeInv
<1>8. Kept
  BY <1>2 DEF Kept
<1> QED  BY <1>1, <1>3, <1>4, <1>5, <1>6, <1>7, <1>8 DEF Inv

\* A lost datagram is one more loss.
LEMMA LoseStep ==
    ASSUME Inv, NEW a \in Endpoint, NEW b \in Endpoint, Lose(a, b)
    PROVE  Inv' /\ Kept
<1>0. TypeOK /\ chan \in Network
  BY NetTypes DEF Inv
<1>1. /\ chan[a][b] # <<>> /\ chan' = [chan EXCEPT ![a][b] = Tail(@)]
      /\ tun' = tun /\ asked' = asked /\ config' = config /\ up' = up /\ due' = due
      /\ losses < MaxLoss /\ losses' = losses + 1
      /\ shuffles' = shuffles /\ crashes' = crashes /\ quits' = quits
  BY DEF Lose
<1>2. Taken(a, b, chan')
  BY <1>0, <1>1, TakenView
<1>3. TypeOK'
  <2>1. losses' \in 0..MaxLoss
    BY <1>0, <1>1, FaultsAssumption DEF TypeOK
  <2> QED  BY <1>0, <1>1, <1>2, <2>1 DEF TypeOK, PendingAsked, Taken, Network
<1>4. \A x, y \in Endpoint : Flow(x, y)' \subseteq Flow(x, y)
  BY <1>2 DEF Taken, Flow
<1> QED  BY <1>1, <1>3, <1>4, NetworkStep

\* A shuffle of one channel that keeps its types disturbs nobody.
LEMMA ShuffleStep ==
    ASSUME Inv, NEW a \in Endpoint, NEW b \in Endpoint, NEW q \in Seq(Message),
           Types(q) = Types(chan[a][b]), chan' = [chan EXCEPT ![a][b] = q],
           shuffles < MaxShuffle, shuffles' = shuffles + 1,
           UNCHANGED <<config, up, tun, due, asked, losses, crashes, quits>>
    PROVE  Inv' /\ Kept
<1>0. TypeOK /\ chan \in Network
  BY NetTypes DEF Inv
<1>1. chan' \in Network /\ chan'[a][b] = q
  BY <1>0 DEF Network
<1>2. \A x, y \in Endpoint : x # a \/ y # b => chan'[x][y] = chan[x][y]
  BY <1>0 DEF Network
<1>3. \A x, y \in Endpoint : Flow(x, y)' = Flow(x, y)
  BY <1>1, <1>2 DEF Flow
<1>4. TypeOK'
  <2>1. shuffles' \in 0..MaxShuffle
    BY <1>0, FaultsAssumption DEF TypeOK
  <2> QED  BY <1>0, <1>1, <2>1 DEF TypeOK, PendingAsked, Network
<1> QED  BY <1>3, <1>4, NetworkStep

\* A duplicate and a datagram that is overtaken are such shuffles.
LEMMA DisorderStep ==
    ASSUME Inv, NEW a \in Endpoint, NEW b \in Endpoint, Duplicate(a, b) \/ Overtake(a, b)
    PROVE  Inv' /\ Kept
<1> DEFINE q == chan[a][b]
<1>0. chan \in Network /\ q \in Seq(Message)
  BY NetTypes DEF Inv, Network
<1>1. q # <<>>
  BY <1>0 DEF Duplicate, Overtake
<1>2. /\ Head(q) \in Message /\ Tail(q) \in Seq(Message)
      /\ Types(q) = Types(Tail(q)) \cup {Head(q).type}
  BY <1>0, <1>1, TypesTail
<1>3. CASE Duplicate(a, b)
  <2>1. Append(q, Head(q)) \in Seq(Message) /\ Types(Append(q, Head(q))) = Types(q)
    BY <1>0, <1>2, TypesAppend
  <2>2. chan' = [chan EXCEPT ![a][b] = Append(q, Head(q))]
    BY <1>3, <1>0 DEF Duplicate, Network
  <2> QED  BY <1>3, <2>1, <2>2, ShuffleStep DEF Duplicate
<1>4. CASE Overtake(a, b)
  <2>1. Append(Tail(q), Head(q)) \in Seq(Message) /\ Types(Append(Tail(q), Head(q))) = Types(q)
    BY <1>2, TypesAppend
  <2>2. chan' = [chan EXCEPT ![a][b] = Append(Tail(q), Head(q))]
    BY <1>4, <1>0 DEF Overtake, Network
  <2> QED  BY <1>4, <2>1, <2>2, ShuffleStep DEF Overtake
<1> QED  BY <1>3, <1>4
\* At the end of an interval nothing is under way or still to come.
LEMMA QuiescentView ==
    ASSUME TypeOK, Quiescent
    PROVE  /\ \A x \in Endpoint : ~due[x]
           /\ \A x, y \in Endpoint : Flow(x, y) = {}
<1>1. \A x, y \in Endpoint : chan[x][y] \in Seq(Message) /\ chan[x][y] = <<>>
  BY DEF TypeOK, Quiescent
<1> QED  BY <1>1, TypesEmpty DEF Quiescent, Flow

\* The next interval: every connection is one interval older, and every running
\* site, so every connected peer, is to write again.
LEMMA TickStep ==
    ASSUME Inv, Tick
    PROVE  Inv' /\ Kept
<1>0. /\ TypeOK /\ SitesInv /\ AgeInv /\ FlowInv /\ FriendInv /\ FreshInv /\ ShakeInv
      /\ losses \in Nat
  BY NetTypes DEF Inv
<1>1. /\ Quiescent /\ due' = up /\ up' = up /\ asked' = asked /\ chan' = chan /\ config' = config
      /\ losses' = losses /\ shuffles' = shuffles /\ crashes' = crashes /\ quits' = quits
      /\ tun' = [s \in Endpoint |-> IF up[s] THEN Age(tun[s]) ELSE tun[s]]
  BY DEF Tick, faults
<1>2. /\ \A x \in Endpoint : ~due[x]
      /\ \A x, y \in Endpoint : Flow(x, y) = {} /\ Flow(x, y)' = {}
  BY <1>0, <1>1, QuiescentView DEF Flow
<1>3. ASSUME NEW x \in Endpoint
      PROVE  /\ Sound(tun[x]) /\ Sound(tun'[x]) /\ tun'[x] \in Tunnel
             /\ \A y \in Endpoint : /\ Known(tun'[x], y) <=> Known(tun[x], y)
                                    /\ Live(tun'[x], y) <=> Live(tun[x], y)
                                    /\ Known(tun[x], y) /\ up[x] =>
                                          /\ AgeOf(tun'[x], y) \in Nat
                                          /\ AgeOf(tun'[x], y) <= AgeOf(tun[x], y) + 1
  <2>1. Sound(tun[x])
    BY <1>0 DEF SitesInv
  <2>2. CASE up[x]
    <3>1. tun'[x] = Age(tun[x])
      BY <1>1, <2>2
    <3> QED  BY <2>1, <2>2, <3>1, AgeView DEF Sound
  <2>3. CASE ~up[x]
    <3>1. tun'[x] = tun[x]
      BY <1>1, <2>3
    <3> QED  BY <2>1, <2>3, <3>1 DEF Sound
  <2> QED  BY <2>2, <2>3
<1>4. TypeOK'
  <2>1. tun' \in [Endpoint -> Tunnel]
    BY <1>1, <1>3
  <2>2. PendingAsked'
    BY PendingStep DEF Next
  <2> QED  BY <1>0, <1>1, <2>1, <2>2 DEF TypeOK
<1>5. SitesInv' /\ Grows
  BY <1>0, <1>1, <1>3 DEF SitesInv, Grows, Undisturbed
<1>6. ASSUME NEW x \in Endpoint, NEW y \in Endpoint
      PROVE  /\ ConnectedTo(x, y)' <=> ConnectedTo(x, y)
             /\ ConnectedTo(x, y) => /\ up[x] /\ AgeOf(tun[x], y) \in Nat
                                     /\ AgeOf(tun'[x], y) \in Nat
                                     /\ AgeOf(tun'[x], y) <= AgeOf(tun[x], y) + 1
  <2>1. /\ ConnectedTo(x, y) <=> up[x] /\ Live(tun[x], y)
        /\ Live(tun[x], y) => Known(tun[x], y) /\ AgeOf(tun[x], y) \in Nat
    BY <1>0, ConnectedView
  <2>2. ConnectedTo(x, y)' <=> up[x] /\ Live(tun'[x], y)
    BY <1>1 DEF ConnectedTo, Live, Known, PeerOf
  <2> QED  BY <1>3, <2>1, <2>2
<1>7. AgeInv'
  <2> SUFFICES ASSUME NEW x \in Endpoint, NEW y \in Endpoint, ConnectedTo(x, y)'
               PROVE  /\ AgeOf(tun'[x], y) <= kKeepaliveTimeout + 1
                      /\ AgeOf(tun'[x], y) = kKeepaliveTimeout + 1 => due'[x]
    BY DEF AgeInv, AgeOf, PeerOf
  <2>1. ConnectedTo(x, y) /\ up[x] /\ ~due[x]
    BY <1>2, <1>6
  <2>2. AgeOf(tun[x], y) <= kKeepaliveTimeout + 1 /\ AgeOf(tun[x], y) # kKeepaliveTimeout + 1
    BY <1>0, <2>1 DEF AgeInv
  <2>3. AgeOf(tun'[x], y) <= kKeepaliveTimeout + 1
    BY <1>6, <2>1, <2>2, TimeoutAssumption
  <2> QED  BY <1>1, <2>1, <2>3
<1>8. FlowInv'
  BY <1>0, <1>2, <1>5, FlowStep
<1>9. FriendInv'
  BY <1>0, <1>5, <1>6, FriendStep
<1>10. FreshInv'
  <2> SUFFICES ASSUME Calm', NEW x \in Endpoint, NEW y \in Endpoint, ConnectedTo(x, y)'
               PROVE  /\ AgeOf(tun'[x], y) <= losses' + 1
                      /\ AgeOf(tun'[x], y) = losses' + 1 => due'[y] \/ Flow(y, x)' # {}
    BY DEF FreshInv, AgeOf, PeerOf
  <2>1. Calm /\ Undisturbed /\ ConnectedTo(x, y)
    BY <1>1, <1>6 DEF Calm, Undisturbed
  <2>2. AgeOf(tun[x], y) <= losses + 1 /\ AgeOf(tun[x], y) # losses + 1
    BY <1>0, <1>2, <2>1 DEF FreshInv
  <2>3. AgeOf(tun'[x], y) <= losses' + 1
    BY <1>0, <1>1, <1>6, <2>1, <2>2
  <2>4. due'[y]
    BY <1>0, <1>1, <2>1 DEF FriendInv
  <2> QED  BY <2>3, <2>4
<1>11. ShakeInv'
  <2> SUFFICES ASSUME Undisturbed', losses' = 0, NEW x \in Endpoint, NEW y \in Endpoint,
                      Paired(x, y)', ~Live(tun'[x], y)
               PROVE  FALSE
    BY DEF ShakeInv, Live, Known, PeerOf
  <2>1. Undisturbed /\ losses = 0
    BY <1>1 DEF Undisturbed
  <2>2. Paired(x, y)' <=> up[x] /\ up[y] /\ Known(tun'[x], y) /\ Known(tun'[y], x)
    BY <1>1 DEF Paired, Known
  <2>3. Paired(x, y) /\ ~Live(tun[x], y)
    BY <1>3, <2>2 DEF Paired
  <2> QED  BY <1>0, <1>2, <2>1, <2>3 DEF ShakeInv
<1>12. Kept
  BY <1>6 DEF Kept
<1> QED  BY <1>4, <1>5, <1>7, <1>8, <1>9, <1>10, <1>11, <1>12 DEF Inv

-----------------------------------------------------------------------------
(* The theorems.                                                           *)

\* At the beginning no site is up and nothing is under way.
LEMMA NetInit ==
    ASSUME Init
    PROVE  Inv
<1>1. /\ config \in [Endpoint -> Seq(Endpoint)]
      /\ \A s \in Endpoint : ~up[s] /\ asked[s] = {} /\ tun[s] = NewTunnel(config[s])
      /\ \A x, y \in Endpoint : chan[x][y] = <<>>
      /\ losses = 0
  BY PeerListsAssumption DEF Init
<1>2. \A s \in Endpoint : Sound(tun[s])
  BY <1>1, NewTunnelView
<1>3. TypeOK
  <2>1. tun \in [Endpoint -> Tunnel]
    BY <1>1, <1>2 DEF Init, Sound
  <2>2. chan \in [Endpoint -> [Endpoint -> Seq(Message)]]
    BY DEF Init
  <2>3. PendingAsked
    BY <1>1, NewTunnelProperties DEF PendingAsked
  <2> QED  BY <1>1, <2>1, <2>2, <2>3, FaultsAssumption DEF Init, TypeOK
<1>4. \A x, y \in Endpoint : Flow(x, y) = {}
  <2>1. <<>> \in Seq(Message)
    OBVIOUS
  <2> QED  BY <1>1, <2>1, TypesEmpty DEF Flow
<1>5. \A x, y \in Endpoint : ~ConnectedTo(x, y) /\ ~Paired(x, y)
  BY <1>1 DEF ConnectedTo, Paired
<1>6. SitesInv /\ AgeInv
  BY <1>1, <1>2, <1>5 DEF SitesInv, AgeInv
<1>7. FlowInv /\ FriendInv /\ FreshInv /\ ShakeInv
  BY <1>4, <1>5 DEF FlowInv, FriendInv, FreshInv, ShakeInv
<1> QED  BY <1>3, <1>6, <1>7 DEF Inv

\* Every step keeps the invariant, and who is connected connected.
LEMMA NetStep ==
    ASSUME Inv, [Next]_vars
    PROVE  Inv' /\ Kept
<1>1. ASSUME NEW s \in Endpoint, Start(s) \/ Crash(s) \/ Quit(s) \/ Maintain(s)
      PROVE  Inv' /\ Kept
  BY <1>1, StartStep, CrashStep, QuitStep, MaintainStep
<1>2. ASSUME NEW s \in Endpoint, NEW e \in Endpoint, Answer(s, e)
      PROVE  Inv' /\ Kept
  BY <1>2, AnswerStep
<1>3. ASSUME NEW a \in Endpoint, NEW b \in Endpoint, Deliver(a, b)
      PROVE  Inv' /\ Kept
  <2>1. CASE up[b]
    BY <1>3, <2>1, HandledStep
  <2>2. CASE ~up[b]
    BY <1>3, <2>2, VanishStep
  <2> QED  BY <2>1, <2>2
<1>4. ASSUME NEW a \in Endpoint, NEW b \in Endpoint,
             Lose(a, b) \/ Duplicate(a, b) \/ Overtake(a, b)
      PROVE  Inv' /\ Kept
  BY <1>4, LoseStep, DisorderStep
<1>5. ASSUME Tick PROVE Inv' /\ Kept
  BY <1>5, TickStep
<1>6. ASSUME UNCHANGED vars PROVE Inv' /\ Kept
  <2>1. TypeOK' /\ \A x, y \in Endpoint : Flow(x, y)' = Flow(x, y)
    BY <1>6 DEF vars, Inv, TypeOK, PendingAsked, Flow
  <2> QED  BY <1>6, <2>1, NetworkStep DEF vars
<1> QED  BY <1>1, <1>2, <1>3, <1>4, <1>5, <1>6 DEF Next

\* Inv holds of every reachable state.
LEMMA NetInvariance == Spec => []Inv
<1>1. Init => Inv
  BY NetInit
<1>2. Inv /\ [Next]_vars => Inv'
  BY NetStep
<1> QED  BY <1>1, <1>2, PTL DEF Spec

\* The type invariant: in particular every tunnel of every site keeps the type
\* that TunnelCore gives it, and every channel holds messages only.
THEOREM NetTypesCorrect == Spec => []TypeOK
<1>1. Inv => TypeOK
  BY DEF Inv
<1> QED  BY <1>1, NetInvariance, PTL

\* The dead are noticed: for any number of sites, losses and crashes, no site
\* calls a peer CONNECTED that it has not heard of for longer than
\* kKeepaliveTimeout and the interval of the pass that notices.
THEOREM DeadPeersNoticed == Spec => []DetectionBound
<1>1. Inv => DetectionBound
  BY DEF Inv, AgeInv, AgeOf, DetectionBound
<1> QED  BY <1>1, NetInvariance, PTL

\* One round of HELLOs is enough: for any number of sites that start in any order,
\* with HELLOs that cross, are duplicated or overtake each other, handle_hello's
\* echo has connected every pair both ways by the end of the interval.
THEOREM HandshakeCompletes == Spec => []HandshakeDone
<1>1. ASSUME Inv, losses = 0, crashes = 0, quits = 0, Quiescent,
             NEW a \in Endpoint, NEW b \in Endpoint, Paired(a, b)
      PROVE  ConnectedTo(a, b)
  <2>1. TypeOK /\ ShakeInv /\ SitesInv
    BY <1>1 DEF Inv
  <2>2. Flow(a, b) = {} /\ Flow(b, a) = {} /\ ~due[a] /\ ~due[b]
    BY <1>1, <2>1, QuiescentView
  <2>3. Live(tun[a], b)
    BY <1>1, <2>1, <2>2 DEF ShakeInv, Undisturbed
  <2> QED  BY <1>1, <2>1, <2>3, ConnectedView DEF Paired
<1>2. Inv => HandshakeDone
  BY <1>1 DEF HandshakeDone
<1> QED  BY <1>2, NetInvariance, PTL

\* Two losses fewer than the timeout has intervals cost no connection: a step of
\* any site and any reordering of the network leave every connected pair connected,
\* for every value of kKeepaliveTimeout, one loss being the code's.
THEOREM ConnectionsSurviveLosses == Spec => SurvivesLosses
<1>1. Inv /\ [Next]_vars => Kept
  BY NetStep
<1>2. Inv /\ [Next]_vars =>
        [\A a, b \in Endpoint :
            losses' + 1 < kKeepaliveTimeout /\ crashes' = 0 /\ quits' = 0 /\ ConnectedTo(a, b) =>
                ConnectedTo(a, b)']_vars
  BY <1>1 DEF Kept
<1> QED  BY <1>2, NetInvariance, PTL DEF Spec, SurvivesLosses

\* Data goes to somebody: while no site goes away, whomever a site calls CONNECTED,
\* and so forward() sends data to, is running and has the site in its own table,
\* so that it does not treat the data as an unknown peer's.
THEOREM ConnectedPeersAreKnown == Spec => []FriendInv
<1>1. Inv => FriendInv
  BY DEF Inv
<1> QED  BY <1>1, NetInvariance, PTL
=============================================================================
