-------------------------- MODULE TunnelCoreProofs --------------------------
(* What each handler of UdpTunnel preserves, for every set of endpoints and  *)
(* node ids: the result is a well-formed tunnel whose endpoint index fits    *)
(* its peer vector.                                                          *)
EXTENDS TunnelCore, SequencesExt, Integers, WellFoundedInduction, TLAPS

\* The greatest element of a non-empty set of vector indices exists: what
\* rebuildEndpointIndex stores for an endpoint is one of its positions.
LEMMA MaxIsMember ==
    ASSUME NEW n \in Nat, NEW S, S \subseteq 1..n, S # {}
    PROVE  Max(S) \in S /\ \A y \in S : Max(S) >= y
<1> DEFINE T == {n - x : x \in S}
<1>1. T \subseteq Nat /\ T # {}
  <2>1. \A x \in S : n - x \in Nat
    OBVIOUS
  <2>2. PICK x \in S : TRUE
    OBVIOUS
  <2>3. n - x \in T
    OBVIOUS
  <2> QED  BY <2>1, <2>3
<1>2. PICK m \in T : \A y \in T : ~(<<y, m>> \in OpToRel(<, Nat))
  <2> HIDE DEF T
  <2> QED  BY <1>1, NatLessThanWellFounded, WFMin
<1>3. PICK x \in S : m = n - x
  BY <1>2
<1>4. \A y \in S : x >= y
  <2> SUFFICES ASSUME NEW y \in S PROVE x >= y
    OBVIOUS
  <2>1. n - y \in T /\ n - y \in Nat /\ m \in Nat
    BY <1>1, <1>2
  <2>2. ~(n - y < m)
    BY <1>2, <2>1 DEF OpToRel
  <2> QED  BY <1>3, <2>1, <2>2
<1> QED  BY <1>4 DEF Max

\* vector::erase(begin() + i): the entries behind position i move up by one.
LEMMA RemoveAtProperties ==
    ASSUME NEW S, NEW s \in Seq(S), NEW i \in 1..Len(s)
    PROVE  /\ RemoveAt(s, i) \in Seq(S)
           /\ Len(RemoveAt(s, i)) = Len(s) - 1
           /\ \A j \in 1..(Len(s) - 1) :
                 RemoveAt(s, i)[j] = IF j < i THEN s[j] ELSE s[j + 1]
<1> DEFINE u == SubSeq(s, 1, i - 1)
           v == SubSeq(s, i + 1, Len(s))
<1>1. u \in Seq(S) /\ Len(u) = i - 1 /\ \A j \in 1..(i - 1) : u[j] = s[j]
  OBVIOUS
<1>2. v \in Seq(S) /\ Len(v) = Len(s) - i /\ \A j \in 1..(Len(s) - i) : v[j] = s[i + j]
  OBVIOUS
<1>3. RemoveAt(s, i) = u \o v
  BY DEF RemoveAt
<1> HIDE DEF u, v
<1>4. u \o v \in Seq(S) /\ Len(u \o v) = Len(s) - 1
  BY <1>1, <1>2
<1>5. ASSUME NEW j \in 1..(Len(s) - 1)
      PROVE  (u \o v)[j] = IF j < i THEN s[j] ELSE s[j + 1]
  <2>1. CASE j < i
    BY <1>1, <1>2, <2>1
  <2>2. CASE ~(j < i)
    <3>1. (u \o v)[j] = v[j - (i - 1)]
      BY <1>1, <1>2, <2>2
    <3>2. j - (i - 1) \in 1..(Len(s) - i)
      BY <2>2
    <3>3. i + (j - (i - 1)) = j + 1
      OBVIOUS
    <3> QED  BY <1>2, <2>2, <3>1, <3>2, <3>3
  <2> QED  BY <2>1, <2>2
<1> QED  BY <1>3, <1>4, <1>5

\* An entry of the peer vector has its type.
LEMMA PeerAt ==
    ASSUME NEW peers \in Seq(PeerEntry), NEW i \in 1..Len(peers)
    PROVE  /\ peers[i] \in PeerEntry
           /\ peers[i].endpoint \in Endpoint
           /\ peers[i].state \in PeerConnectionState
           /\ peers[i].age \in 0..MaxAge
<1>1. peers[i] \in PeerEntry
  OBVIOUS
<1> QED  BY <1>1 DEF PeerEntry

\* rebuildEndpointIndex: what is stored points at an entry of that endpoint,
\* and every entry of the vector is found.
LEMMA RebuildProperties ==
    ASSUME NEW peers \in Seq(PeerEntry)
    PROVE  /\ RebuildEndpointIndex(peers) \in [Endpoint -> Nat]
           /\ \A e \in Endpoint :
                 RebuildEndpointIndex(peers)[e] # NotFound =>
                    /\ RebuildEndpointIndex(peers)[e] \in 1..Len(peers)
                    /\ peers[RebuildEndpointIndex(peers)[e]].endpoint = e
           /\ \A i \in 1..Len(peers) :
                 RebuildEndpointIndex(peers)[peers[i].endpoint] # NotFound
<1> DEFINE Ix(e) == IndicesOf(peers, e)
<1>1. ASSUME NEW e \in Endpoint, Ix(e) # {}
      PROVE  /\ RebuildEndpointIndex(peers)[e] = Max(Ix(e))
             /\ Max(Ix(e)) \in 1..Len(peers)
             /\ peers[Max(Ix(e))].endpoint = e
  <2>1. Ix(e) \subseteq 1..Len(peers)
    BY DEF IndicesOf
  <2>2. Max(Ix(e)) \in Ix(e)
    <3> HIDE DEF Ix
    <3> QED  BY <1>1, <2>1, MaxIsMember
  <2>3. RebuildEndpointIndex(peers)[e] = Max(Ix(e))
    BY <1>1 DEF RebuildEndpointIndex
  <2> QED  BY <2>1, <2>2, <2>3 DEF IndicesOf
<1>2. ASSUME NEW e \in Endpoint, Ix(e) = {}
      PROVE  RebuildEndpointIndex(peers)[e] = NotFound
  BY <1>2 DEF RebuildEndpointIndex
<1>3. \A e \in Endpoint : RebuildEndpointIndex(peers)[e] \in Nat
  <2> SUFFICES ASSUME NEW e \in Endpoint PROVE RebuildEndpointIndex(peers)[e] \in Nat
    OBVIOUS
  <2> HIDE DEF Ix
  <2>1. CASE Ix(e) = {}
    BY <1>2, <2>1 DEF NotFound
  <2>2. CASE Ix(e) # {}
    BY <1>1, <2>2
  <2> QED  BY <2>1, <2>2
<1>4. RebuildEndpointIndex(peers) \in [Endpoint -> Nat]
  <2>1. RebuildEndpointIndex(peers) =
            [e \in Endpoint |-> RebuildEndpointIndex(peers)[e]]
    BY DEF RebuildEndpointIndex
  <2> QED  BY <1>3, <2>1
<1>5. ASSUME NEW i \in 1..Len(peers)
      PROVE  RebuildEndpointIndex(peers)[peers[i].endpoint] # NotFound
  <2>1. peers[i].endpoint \in Endpoint
    BY PeerAt
  <2>2. i \in Ix(peers[i].endpoint)
    BY DEF IndicesOf
  <2> HIDE DEF Ix
  <2> QED  BY <1>1, <2>1, <2>2 DEF NotFound
<1>6. ASSUME NEW e \in Endpoint, RebuildEndpointIndex(peers)[e] # NotFound
      PROVE  /\ RebuildEndpointIndex(peers)[e] \in 1..Len(peers)
             /\ peers[RebuildEndpointIndex(peers)[e]].endpoint = e
  <2> HIDE DEF Ix
  <2> QED  BY <1>1, <1>2, <1>6
<1> QED  BY <1>4, <1>5, <1>6

\* A new entry is a DISCONNECTED PeerEntry of its endpoint.
LEMMA NewPeerType ==
    ASSUME NEW e \in Endpoint
    PROVE  NewPeer(e) \in PeerEntry /\ NewPeer(e).endpoint = e
BY TimeoutAssumption DEF NewPeer, PeerEntry, PeerConnectionState

\* The constructor builds a tunnel whose index fits, repeated peers or not.
LEMMA NewTunnelProperties ==
    ASSUME NEW initial_peers \in Seq(Endpoint)
    PROVE  /\ NewTunnel(initial_peers) \in Tunnel
           /\ InBounds(NewTunnel(initial_peers))
           /\ Indexed(NewTunnel(initial_peers))
           /\ \A n \in NodeId : NewTunnel(initial_peers).remoteNodeIdToPeerIdx[n] = NotFound
           /\ NewTunnel(initial_peers).mPendingPeers = {}
<1> DEFINE peers == [i \in DOMAIN initial_peers |-> NewPeer(initial_peers[i])]
           t == NewTunnel(initial_peers)
<1>1. peers \in Seq(PeerEntry)
  <2>1. \A i \in 1..Len(initial_peers) : NewPeer(initial_peers[i]) \in PeerEntry
    BY NewPeerType
  <2> QED  BY <2>1
<1>2. /\ t.mPeers = peers
      /\ t.mEndpointToPeerIdx = RebuildEndpointIndex(peers)
      /\ t.remoteNodeIdToPeerIdx = [n \in NodeId |-> NotFound]
      /\ t.mPendingPeers = {}
  BY DEF NewTunnel
<1>3. t = [mPeers |-> peers, mEndpointToPeerIdx |-> RebuildEndpointIndex(peers),
           remoteNodeIdToPeerIdx |-> [n \in NodeId |-> NotFound],
           mPendingPeers |-> {}, mRejectedPeers |-> {}, is_running |-> TRUE]
  BY DEF NewTunnel
<1> HIDE DEF peers, t
<1>4. t \in Tunnel
  BY <1>1, <1>3, RebuildProperties DEF Tunnel, NotFound
<1>5. InBounds(t)
  BY <1>1, <1>2, RebuildProperties DEF InBounds, Known, PeerOf
<1>6. Indexed(t)
  <2>1. DOMAIN t.mPeers = 1..Len(peers)
    BY <1>1, <1>2
  <2> QED  BY <1>1, <1>2, <2>1, RebuildProperties DEF Indexed, Known
<1> QED  BY <1>2, <1>4, <1>5, <1>6 DEF t, NotFound
-----------------------------------------------------------------------------
(* Posted tasks.                                                           *)

\* sendControlMessage sends a datagram.
LEMMA ControlToType ==
    ASSUME NEW type \in ControlType, NEW e \in Endpoint
    PROVE  ControlTo(type, e) \in Datagram
BY DEF ControlTo, Control, Datagram, Message

\* A handler that leaves t and sends datagrams returns a Result.
LEMMA SendingType ==
    ASSUME NEW t \in Tunnel, NEW datagrams \in SUBSET Datagram
    PROVE  /\ Sending(t, datagrams) \in Result
           /\ Sending(t, datagrams).tunnel = t
           /\ Sending(t, datagrams).sent = datagrams
           /\ Sending(t, datagrams).prompt = {}
BY DEF Sending, Quiet, Result

\* A handler that leaves t and does nothing else returns a Result.
LEMMA QuietType ==
    ASSUME NEW t \in Tunnel
    PROVE  /\ Quiet(t) \in Result
           /\ Quiet(t).tunnel = t
           /\ Quiet(t).sent = {}
           /\ Quiet(t).prompt = {}
BY DEF Quiet, Result

\* push_back and the index entry for it: nothing that was there moves.
LEMMA PushPeerProperties ==
    ASSUME NEW t \in Tunnel, InBounds(t), NEW e \in Endpoint
    PROVE  LET u == PushPeer(t, e)
           IN  /\ u \in Tunnel
               /\ InBounds(u)
               /\ Indexed(t) => Indexed(u)
               /\ Len(u.mPeers) = Len(t.mPeers) + 1
               /\ \A i \in 1..Len(t.mPeers) : u.mPeers[i] = t.mPeers[i]
               /\ u.remoteNodeIdToPeerIdx = t.remoteNodeIdToPeerIdx
               /\ u.mPendingPeers = t.mPendingPeers
               /\ u.mRejectedPeers = t.mRejectedPeers
               /\ u.is_running = t.is_running
<1> DEFINE u == PushPeer(t, e)
           n == Len(t.mPeers)
<1>1. /\ t.mPeers \in Seq(PeerEntry)
      /\ t.mEndpointToPeerIdx \in [Endpoint -> Nat]
      /\ n \in Nat
  BY DEF Tunnel
<1>2. /\ u.mPeers = Append(t.mPeers, NewPeer(e))
      /\ u.mEndpointToPeerIdx = [t.mEndpointToPeerIdx EXCEPT ![e] = n + 1]
      /\ u.remoteNodeIdToPeerIdx = t.remoteNodeIdToPeerIdx
      /\ u.mPendingPeers = t.mPendingPeers
      /\ u.mRejectedPeers = t.mRejectedPeers
      /\ u.is_running = t.is_running
  BY DEF PushPeer, Tunnel
<1>3. /\ u.mPeers \in Seq(PeerEntry)
      /\ Len(u.mPeers) = n + 1
      /\ \A i \in 1..n : u.mPeers[i] = t.mPeers[i]
      /\ u.mPeers[n + 1] = NewPeer(e)
  BY <1>1, <1>2, NewPeerType
<1>4. u \in Tunnel
  <2>1. u.mEndpointToPeerIdx \in [Endpoint -> Nat]
    BY <1>1, <1>2
  <2> QED  BY <1>2, <1>3, <2>1 DEF PushPeer, Tunnel
<1> HIDE DEF u, n
<1>5. InBounds(u)
  <2> SUFFICES ASSUME NEW f \in Endpoint, Known(u, f)
               PROVE  /\ u.mEndpointToPeerIdx[f] \in 1..Len(u.mPeers)
                      /\ u.mPeers[u.mEndpointToPeerIdx[f]].endpoint = f
    BY DEF InBounds, PeerOf
  <2>1. CASE f = e
    BY <1>1, <1>2, <1>3, <2>1, NewPeerType
  <2>2. CASE f # e
    <3>1. u.mEndpointToPeerIdx[f] = t.mEndpointToPeerIdx[f]
      BY <1>1, <1>2, <2>2
    <3>2. /\ t.mEndpointToPeerIdx[f] \in 1..n
          /\ t.mPeers[t.mEndpointToPeerIdx[f]].endpoint = f
      BY <3>1 DEF InBounds, Known, PeerOf, n
    <3> QED  BY <1>1, <1>3, <3>1, <3>2
  <2> QED  BY <2>1, <2>2
<1>6. ASSUME Indexed(t) PROVE Indexed(u)
  <2> SUFFICES ASSUME NEW i \in 1..(n + 1) PROVE Known(u, u.mPeers[i].endpoint)
    BY <1>3 DEF Indexed
  <2>1. CASE i = n + 1
    BY <1>1, <1>2, <1>3, <2>1, NewPeerType DEF Known, NotFound
  <2>2. CASE i \in 1..n
    <3>1. u.mPeers[i].endpoint = t.mPeers[i].endpoint /\ t.mPeers[i].endpoint \in Endpoint
      BY <1>1, <1>3, <2>2, PeerAt DEF n
    <3>2. t.mEndpointToPeerIdx[t.mPeers[i].endpoint] # NotFound
      BY <1>1, <1>6, <2>2 DEF Indexed, Known, n
    <3> QED  BY <1>1, <1>2, <3>1, <3>2 DEF Known, NotFound
  <2> QED  BY <1>1, <2>1, <2>2
<1> QED  BY <1>2, <1>3, <1>4, <1>5, <1>6 DEF u, n
\* addPeer's task: known peers are left alone, others are appended.
LEMMA AddPeerProperties ==
    ASSUME NEW t \in Tunnel, InBounds(t), NEW e \in Endpoint
    PROVE  LET r == AddPeer(t, e)
           IN  /\ r \in Result
               /\ InBounds(r.tunnel)
               /\ Indexed(t) => Indexed(r.tunnel)
               /\ Len(r.tunnel.mPeers) >= Len(t.mPeers)
               /\ \A i \in 1..Len(t.mPeers) : r.tunnel.mPeers[i] = t.mPeers[i]
               /\ r.tunnel.remoteNodeIdToPeerIdx = t.remoteNodeIdToPeerIdx
               /\ r.tunnel.mPendingPeers = t.mPendingPeers
               /\ r.tunnel.is_running = t.is_running
               /\ r.prompt = {}
               /\ r.sent \subseteq {ControlTo("TUNNEL_HELLO", e)}
<1>0. t.mPeers \in Seq(PeerEntry) /\ Len(t.mPeers) \in Nat
  BY DEF Tunnel
<1>1. CASE Known(t, e)
  <2>1. AddPeer(t, e) = Quiet(t)
    BY <1>1 DEF AddPeer
  <2> QED  BY <1>0, <2>1, QuietType
<1>2. CASE ~Known(t, e)
  <2> DEFINE u == PushPeer(t, e)
             d == {ControlTo("TUNNEL_HELLO", e)}
  <2>1. AddPeer(t, e) = Sending(u, d)
    BY <1>2 DEF AddPeer
  <2>2. d \in SUBSET Datagram
    BY ControlToType DEF ControlType
  <2>3. /\ u \in Tunnel
        /\ InBounds(u)
        /\ Indexed(t) => Indexed(u)
        /\ Len(u.mPeers) = Len(t.mPeers) + 1
        /\ \A i \in 1..Len(t.mPeers) : u.mPeers[i] = t.mPeers[i]
        /\ u.remoteNodeIdToPeerIdx = t.remoteNodeIdToPeerIdx
        /\ u.mPendingPeers = t.mPendingPeers
        /\ u.is_running = t.is_running
    BY PushPeerProperties
  <2> HIDE DEF u, d
  <2>4. /\ Sending(u, d) \in Result
        /\ Sending(u, d).tunnel = u
        /\ Sending(u, d).sent = d
        /\ Sending(u, d).prompt = {}
    BY <2>2, <2>3, SendingType
  <2>5. Len(u.mPeers) >= Len(t.mPeers)
    BY <1>0, <2>3
  <2>6. d \subseteq {ControlTo("TUNNEL_HELLO", e)}
    BY DEF d
  <2> QED  BY <2>1, <2>3, <2>4, <2>5, <2>6
<1> QED  BY <1>1, <1>2

\* The task of accept: the endpoint is no longer pending, the rest is addPeer.
LEMMA AcceptProperties ==
    ASSUME NEW t \in Tunnel, InBounds(t), NEW e \in Endpoint
    PROVE  LET r == Accept(t, e)
           IN  /\ r \in Result
               /\ InBounds(r.tunnel)
               /\ Indexed(t) => Indexed(r.tunnel)
               /\ Len(r.tunnel.mPeers) >= Len(t.mPeers)
               /\ \A i \in 1..Len(t.mPeers) : r.tunnel.mPeers[i] = t.mPeers[i]
               /\ r.tunnel.remoteNodeIdToPeerIdx = t.remoteNodeIdToPeerIdx
               /\ r.tunnel.mPendingPeers = t.mPendingPeers \ {e}
               /\ r.tunnel.is_running = t.is_running
               /\ r.prompt = {}
               /\ r.sent \subseteq {ControlTo("TUNNEL_HELLO", e)}
<1> DEFINE u == [t EXCEPT !.mPendingPeers = @ \ {e}]
<1>1. /\ u \in Tunnel
      /\ u.mPeers = t.mPeers
      /\ u.mEndpointToPeerIdx = t.mEndpointToPeerIdx
      /\ u.remoteNodeIdToPeerIdx = t.remoteNodeIdToPeerIdx
      /\ u.mPendingPeers = t.mPendingPeers \ {e}
      /\ u.is_running = t.is_running
  BY DEF Tunnel
<1>2. Accept(t, e) = AddPeer(u, e)
  BY DEF Accept
<1> HIDE DEF u
<1>3. InBounds(u) /\ (Indexed(t) => Indexed(u))
  BY <1>1 DEF InBounds, Indexed, Known, PeerOf
<1> QED  BY <1>1, <1>2, <1>3, AddPeerProperties

\* The task of reject: the endpoint moves from the pending to the rejected.
LEMMA RejectProperties ==
    ASSUME NEW t \in Tunnel, InBounds(t), NEW e \in Endpoint
    PROVE  LET r == Reject(t, e)
           IN  /\ r \in Result
               /\ InBounds(r.tunnel)
               /\ Indexed(t) => Indexed(r.tunnel)
               /\ r.tunnel.mPeers = t.mPeers
               /\ r.tunnel.remoteNodeIdToPeerIdx = t.remoteNodeIdToPeerIdx
               /\ r.tunnel.mPendingPeers = t.mPendingPeers \ {e}
               /\ r.tunnel.is_running = t.is_running
               /\ r.prompt = {}
               /\ r.sent = {}
<1> DEFINE u == [t EXCEPT !.mPendingPeers = @ \ {e}, !.mRejectedPeers = @ \cup {e}]
<1>1. /\ u \in Tunnel
      /\ u.mPeers = t.mPeers
      /\ u.mEndpointToPeerIdx = t.mEndpointToPeerIdx
      /\ u.remoteNodeIdToPeerIdx = t.remoteNodeIdToPeerIdx
      /\ u.mPendingPeers = t.mPendingPeers \ {e}
      /\ u.is_running = t.is_running
  BY DEF Tunnel
<1>2. Reject(t, e) = Quiet(u)
  BY DEF Reject
<1> HIDE DEF u
<1>3. InBounds(u) /\ (Indexed(t) => Indexed(u))
  BY <1>1 DEF InBounds, Indexed, Known, PeerOf
<1> QED  BY <1>1, <1>2, <1>3, QuietType

\* erasePeerNodeIds drops the routes to peer i and no others.
LEMMA EraseType ==
    ASSUME NEW nodes \in [NodeId -> Nat], NEW i
    PROVE  /\ ErasePeerNodeIds(nodes, i) \in [NodeId -> Nat]
           /\ \A n \in NodeId : /\ nodes[n] = i  => ErasePeerNodeIds(nodes, i)[n] = NotFound
                                /\ nodes[n] # i => ErasePeerNodeIds(nodes, i)[n] = nodes[n]
BY DEF ErasePeerNodeIds, NotFound

\* removePeer's task: the vector loses one entry and its index is rebuilt.
LEMMA RemovePeerProperties ==
    ASSUME NEW t \in Tunnel, InBounds(t), NEW e \in Endpoint
    PROVE  LET r   == RemovePeer(t, e)
               idx == t.mEndpointToPeerIdx[e]
           IN  /\ r \in Result
               /\ InBounds(r.tunnel)
               /\ Indexed(t) => Indexed(r.tunnel)
               /\ ~Known(t, e) => r = Quiet(t)
               /\ Known(t, e) =>
                     /\ idx \in 1..Len(t.mPeers)
                     /\ Len(r.tunnel.mPeers) = Len(t.mPeers) - 1
                     /\ \A i \in 1..(idx - 1) : r.tunnel.mPeers[i] = t.mPeers[i]
                     /\ r.tunnel.remoteNodeIdToPeerIdx =
                            ErasePeerNodeIds(t.remoteNodeIdToPeerIdx, idx)
               /\ r.tunnel.mPendingPeers = t.mPendingPeers
               /\ r.tunnel.is_running = t.is_running
               /\ r.prompt = {}
               /\ r.sent \subseteq {ControlTo("TUNNEL_BYE", e)}
<1> DEFINE r     == RemovePeer(t, e)
           idx   == t.mEndpointToPeerIdx[e]
           peers == RemoveAt(t.mPeers, idx)
           d     == {ControlTo("TUNNEL_BYE", e)}
<1>1. CASE ~Known(t, e)
  <2>1. r = Quiet(t)
    BY <1>1 DEF RemovePeer
  <2> QED  BY <1>1, <2>1, QuietType
<1>2. CASE Known(t, e)
  <2> DEFINE u == [t EXCEPT !.remoteNodeIdToPeerIdx = ErasePeerNodeIds(@, idx),
                            !.mPeers                = peers,
                            !.mEndpointToPeerIdx    = RebuildEndpointIndex(peers)]
  <2>1. r = Sending(u, d)
    BY <1>2 DEF RemovePeer
  <2>2. t.mPeers \in Seq(PeerEntry) /\ idx \in 1..Len(t.mPeers)
    BY <1>2 DEF Tunnel, InBounds
  <2>3. /\ peers \in Seq(PeerEntry)
        /\ Len(peers) = Len(t.mPeers) - 1
        /\ \A j \in 1..(Len(t.mPeers) - 1) :
              peers[j] = IF j < idx THEN t.mPeers[j] ELSE t.mPeers[j + 1]
    <3> HIDE DEF idx
    <3> QED  BY <2>2, RemoveAtProperties
  <2>4. d \in SUBSET Datagram
    BY ControlToType DEF ControlType
  <2> HIDE DEF peers
  <2>5. /\ u.mPeers = peers
        /\ u.mEndpointToPeerIdx = RebuildEndpointIndex(peers)
        /\ u.remoteNodeIdToPeerIdx = ErasePeerNodeIds(t.remoteNodeIdToPeerIdx, idx)
        /\ u.mPendingPeers = t.mPendingPeers
        /\ u.is_running = t.is_running
    BY DEF Tunnel
  <2>6. u \in Tunnel
    <3>1. RebuildEndpointIndex(peers) \in [Endpoint -> Nat]
      BY <2>3, RebuildProperties
    <3>2. ErasePeerNodeIds(t.remoteNodeIdToPeerIdx, idx) \in [NodeId -> Nat]
      BY EraseType DEF Tunnel
    <3> QED  BY <2>3, <3>1, <3>2 DEF Tunnel
  <2> HIDE DEF u, d, idx, r
  <2>7. InBounds(u)
    BY <2>3, <2>5, RebuildProperties DEF InBounds, Known, PeerOf
  <2>8. Indexed(u)
    <3>1. DOMAIN u.mPeers = 1..Len(peers)
      BY <2>3, <2>5
    <3> QED  BY <2>3, <2>5, <3>1, RebuildProperties, SMTT(30) DEF Indexed, Known
  <2>9. r \in Result /\ r.tunnel = u /\ r.sent = d /\ r.prompt = {}
    BY <2>1, <2>4, <2>6, SendingType
  <2>10. \A i \in 1..(idx - 1) : u.mPeers[i] = t.mPeers[i]
    BY <2>2, <2>3, <2>5
  <2> QED  BY <1>2, <2>2, <2>3, <2>5, <2>7, <2>8, <2>9, <2>10 DEF r, idx, d
<1> QED  BY <1>1, <1>2
-----------------------------------------------------------------------------
(* Receiving, maintenance, shutdown.                                       *)

\* u has the peers of t in the same places, whatever their state.
SameTable(t, u) ==
    /\ u.mEndpointToPeerIdx = t.mEndpointToPeerIdx
    /\ Len(u.mPeers) = Len(t.mPeers)
    /\ \A i \in 1..Len(t.mPeers) : u.mPeers[i].endpoint = t.mPeers[i].endpoint

\* A route n has in u is the one it had in t, and its peer did not disconnect.
RouteKept(t, u, n) ==
    u.remoteNodeIdToPeerIdx[n] # NotFound =>
        /\ u.remoteNodeIdToPeerIdx[n] = t.remoteNodeIdToPeerIdx[n]
        /\ \A i \in 1..Len(t.mPeers) :
              i = u.remoteNodeIdToPeerIdx[n] /\ Connected(t, i) => Connected(u, i)

\* Or it is a new one, behind the connected sender e.
RouteKeptOrLearnt(t, u, e, n) ==
    u.remoteNodeIdToPeerIdx[n] # NotFound =>
        \/ RouteKept(t, u, n)
        \/ /\ t.remoteNodeIdToPeerIdx[n] = NotFound
           /\ Known(t, e)
           /\ u.remoteNodeIdToPeerIdx[n] = t.mEndpointToPeerIdx[e]
           /\ Connected(u, t.mEndpointToPeerIdx[e])

\* Who is asked about becomes pending, and was not pending before.
PromptRecorded(t, r, e) ==
    \/ r.prompt = {} /\ r.tunnel.mPendingPeers = t.mPendingPeers
    \/ /\ r.prompt = {e}
       /\ e \notin t.mPendingPeers
       /\ r.tunnel.mPendingPeers = t.mPendingPeers \cup {e}

\* What handling a datagram from e may do to the tunnel.
ReceiveEffect(t, e, r) ==
    /\ r \in Result
    /\ SameTable(t, r.tunnel)
    /\ r.tunnel.is_running = t.is_running
    /\ PromptRecorded(t, r, e)
    /\ \A n \in NodeId : RouteKeptOrLearnt(t, r.tunnel, e, n)
    /\ \A d \in r.sent : d.msg.type \in ControlType

\* As long as entries keep their places the index keeps fitting.
LEMMA SameTableKeepsIndex ==
    ASSUME NEW t \in Tunnel, NEW u \in Tunnel, SameTable(t, u)
    PROVE  (InBounds(t) => InBounds(u)) /\ (Indexed(t) => Indexed(u))
<1>1. /\ t.mPeers \in Seq(PeerEntry) /\ u.mPeers \in Seq(PeerEntry)
      /\ DOMAIN t.mPeers = 1..Len(t.mPeers)
      /\ DOMAIN u.mPeers = 1..Len(t.mPeers)
  BY DEF Tunnel, SameTable
<1>2. InBounds(t) => InBounds(u)
  BY DEF InBounds, Known, PeerOf, SameTable
<1>3. Indexed(t) => Indexed(u)
  BY <1>1 DEF Indexed, Known, SameTable
<1> QED  BY <1>2, <1>3

\* Doing nothing is a possible effect.
LEMMA QuietEffect ==
    ASSUME NEW t \in Tunnel, NEW e \in Endpoint
    PROVE  ReceiveEffect(t, e, Quiet(t))
BY QuietType DEF ReceiveEffect, SameTable, PromptRecorded, RouteKept, RouteKeptOrLearnt

\* handleUnknownPeer changes mPendingPeers only, and prompts only for a new one.
LEMMA HandleUnknownPeerEffect ==
    ASSUME NEW t \in Tunnel, NEW e \in Endpoint
    PROVE  ReceiveEffect(t, e, HandleUnknownPeer(t, e))
<1>1. CASE e \in t.mRejectedPeers \/ e \in t.mPendingPeers
  BY <1>1, QuietEffect DEF HandleUnknownPeer
<1>2. CASE ~(e \in t.mRejectedPeers \/ e \in t.mPendingPeers)
  <2> DEFINE u == [t EXCEPT !.mPendingPeers = @ \cup {e}]
             r == [Quiet(u) EXCEPT !.prompt = {e}]
  <2>1. HandleUnknownPeer(t, e) = r
    BY <1>2 DEF HandleUnknownPeer
  <2>2. /\ u \in Tunnel
        /\ u.mPeers = t.mPeers
        /\ u.mEndpointToPeerIdx = t.mEndpointToPeerIdx
        /\ u.remoteNodeIdToPeerIdx = t.remoteNodeIdToPeerIdx
        /\ u.mPendingPeers = t.mPendingPeers \cup {e}
        /\ u.is_running = t.is_running
    BY DEF Tunnel
  <2> HIDE DEF u
  <2>3. r \in Result /\ r.tunnel = u /\ r.prompt = {e} /\ r.sent = {}
    BY <2>2 DEF Quiet, Result
  <2> HIDE DEF r
  <2>4. SameTable(t, r.tunnel)
    BY <2>2, <2>3 DEF SameTable
  <2>5. PromptRecorded(t, r, e)
    BY <1>2, <2>2, <2>3 DEF PromptRecorded
  <2>6. \A n \in NodeId : RouteKeptOrLearnt(t, r.tunnel, e, n)
    BY <2>2, <2>3 DEF RouteKept, RouteKeptOrLearnt, Connected
  <2> QED  BY <2>1, <2>2, <2>3, <2>4, <2>5, <2>6 DEF ReceiveEffect
<1> QED  BY <1>1, <1>2

\* Overwriting e's entry in place moves nothing.
LEMMA ReplacePeer ==
    ASSUME NEW t \in Tunnel, InBounds(t), NEW e \in Endpoint, Known(t, e),
           NEW p \in PeerEntry, p.endpoint = PeerOf(t, e).endpoint
    PROVE  LET idx   == t.mEndpointToPeerIdx[e]
               peers == [t.mPeers EXCEPT ![idx] = p]
           IN  /\ idx \in 1..Len(t.mPeers)
               /\ peers \in Seq(PeerEntry)
               /\ Len(peers) = Len(t.mPeers)
               /\ peers[idx] = p
               /\ \A i \in 1..Len(t.mPeers) : i # idx => peers[i] = t.mPeers[i]
               /\ \A i \in 1..Len(t.mPeers) : peers[i].endpoint = t.mPeers[i].endpoint
<1> DEFINE idx == t.mEndpointToPeerIdx[e]
<1>1. t.mPeers \in Seq(PeerEntry) /\ idx \in 1..Len(t.mPeers)
  BY DEF Tunnel, InBounds
<1>2. p.endpoint = t.mPeers[idx].endpoint
  BY DEF PeerOf
<1> HIDE DEF idx
<1> QED  BY <1>1, <1>2 DEF idx

\* HELLO: the sender's entry becomes CONNECTED, no route changes.
LEMMA HandleHelloEffect ==
    ASSUME NEW t \in Tunnel, InBounds(t), NEW e \in Endpoint
    PROVE  ReceiveEffect(t, e, HandleHello(t, e))
<1>1. CASE ~Known(t, e)
  BY <1>1, HandleUnknownPeerEffect DEF HandleHello
<1>2. CASE Known(t, e)
  <2> DEFINE idx == t.mEndpointToPeerIdx[e]
             p   == [t.mPeers[idx] EXCEPT !.state = "CONNECTED", !.age = 0]
             u   == [t EXCEPT !.mPeers[idx].state = "CONNECTED", !.mPeers[idx].age = 0]
             d   == IF Connected(t, idx) THEN {} ELSE {ControlTo("TUNNEL_HELLO", e)}
  <2>1. HandleHello(t, e) = Sending(u, d)
    BY <1>2 DEF HandleHello
  <2>2. t.mPeers \in Seq(PeerEntry) /\ idx \in 1..Len(t.mPeers)
    BY <1>2 DEF Tunnel, InBounds
  <2>3. p \in PeerEntry /\ p.endpoint = PeerOf(t, e).endpoint /\ p.state = "CONNECTED"
    <3>1. t.mPeers[idx] \in PeerEntry
      BY <2>2
    <3>2. "CONNECTED" \in PeerConnectionState /\ 0 \in 0..MaxAge
      BY TimeoutAssumption DEF PeerConnectionState
    <3> QED  BY <3>1, <3>2 DEF PeerEntry, PeerOf
  <2>4. /\ u.mPeers = [t.mPeers EXCEPT ![idx] = p]
        /\ u.mEndpointToPeerIdx = t.mEndpointToPeerIdx
        /\ u.remoteNodeIdToPeerIdx = t.remoteNodeIdToPeerIdx
        /\ u.mPendingPeers = t.mPendingPeers
        /\ u.is_running = t.is_running
    BY <2>2 DEF Tunnel
  <2> HIDE DEF p
  <2>5. /\ u.mPeers \in Seq(PeerEntry)
        /\ Len(u.mPeers) = Len(t.mPeers)
        /\ u.mPeers[idx] = p
        /\ \A i \in 1..Len(t.mPeers) : i # idx => u.mPeers[i] = t.mPeers[i]
        /\ \A i \in 1..Len(t.mPeers) : u.mPeers[i].endpoint = t.mPeers[i].endpoint
    <3> HIDE DEF u
    <3> QED  BY <1>2, <2>3, <2>4, ReplacePeer
  <2>6. u \in Tunnel
    BY <2>5 DEF Tunnel
  <2>7. d \in SUBSET Datagram /\ \A g \in d : g.msg.type \in ControlType
    BY ControlToType DEF ControlType, ControlTo, Control
  <2> HIDE DEF u, d, idx
  <2>8. SameTable(t, u)
    BY <2>4, <2>5 DEF SameTable
  <2>9. \A n \in NodeId : RouteKeptOrLearnt(t, u, e, n)
    <3>1. \A i \in 1..Len(t.mPeers) : Connected(t, i) => Connected(u, i)
      BY <2>3, <2>5 DEF Connected
    <3> QED  BY <2>4, <3>1 DEF RouteKept, RouteKeptOrLearnt
  <2> QED  BY <2>1, <2>4, <2>6, <2>7, <2>8, <2>9, SendingType
           DEF ReceiveEffect, PromptRecorded
<1> QED  BY <1>1, <1>2

\* KEEPALIVE: only the age of the sender's entry changes.
LEMMA HandleKeepaliveEffect ==
    ASSUME NEW t \in Tunnel, InBounds(t), NEW e \in Endpoint
    PROVE  ReceiveEffect(t, e, HandleKeepalive(t, e))
<1> DEFINE idx == t.mEndpointToPeerIdx[e]
<1>1. CASE ~(Known(t, e) /\ Connected(t, idx))
  BY <1>1, QuietEffect DEF HandleKeepalive
<1>2. CASE Known(t, e) /\ Connected(t, idx)
  <2> DEFINE p == [t.mPeers[idx] EXCEPT !.age = 0]
             u == [t EXCEPT !.mPeers[idx].age = 0]
  <2>1. HandleKeepalive(t, e) = Quiet(u)
    BY <1>2 DEF HandleKeepalive
  <2>2. t.mPeers \in Seq(PeerEntry) /\ idx \in 1..Len(t.mPeers)
    BY <1>2 DEF Tunnel, InBounds
  <2>3. p \in PeerEntry /\ p.endpoint = PeerOf(t, e).endpoint
          /\ p.state = t.mPeers[idx].state
    <3>1. t.mPeers[idx] \in PeerEntry /\ 0 \in 0..MaxAge
      BY <2>2, TimeoutAssumption
    <3> QED  BY <3>1 DEF PeerEntry, PeerOf
  <2>4. /\ u.mPeers = [t.mPeers EXCEPT ![idx] = p]
        /\ u.mEndpointToPeerIdx = t.mEndpointToPeerIdx
        /\ u.remoteNodeIdToPeerIdx = t.remoteNodeIdToPeerIdx
        /\ u.mPendingPeers = t.mPendingPeers
        /\ u.is_running = t.is_running
    BY <2>2 DEF Tunnel
  <2> HIDE DEF p
  <2>5. /\ u.mPeers \in Seq(PeerEntry)
        /\ Len(u.mPeers) = Len(t.mPeers)
        /\ u.mPeers[idx] = p
        /\ \A i \in 1..Len(t.mPeers) : i # idx => u.mPeers[i] = t.mPeers[i]
        /\ \A i \in 1..Len(t.mPeers) : u.mPeers[i].endpoint = t.mPeers[i].endpoint
    <3> HIDE DEF u
    <3> QED  BY <1>2, <2>3, <2>4, ReplacePeer
  <2>6. u \in Tunnel
    BY <2>5 DEF Tunnel
  <2> HIDE DEF u, idx
  <2>7. SameTable(t, u)
    BY <2>4, <2>5 DEF SameTable
  <2>8. \A n \in NodeId : RouteKeptOrLearnt(t, u, e, n)
    <3>1. \A i \in 1..Len(t.mPeers) : Connected(t, i) => Connected(u, i)
      BY <2>3, <2>5 DEF Connected
    <3> QED  BY <2>4, <3>1 DEF RouteKept, RouteKeptOrLearnt
  <2> QED  BY <2>1, <2>4, <2>6, <2>7, <2>8, QuietType
           DEF ReceiveEffect, PromptRecorded
<1> QED  BY <1>1, <1>2

\* BYE: the sender's entry is DISCONNECTED and no route leads there any more.
LEMMA HandleByeEffect ==
    ASSUME NEW t \in Tunnel, InBounds(t), NEW e \in Endpoint
    PROVE  ReceiveEffect(t, e, HandleBye(t, e))
<1>1. CASE ~Known(t, e)
  BY <1>1, QuietEffect DEF HandleBye
<1>2. CASE Known(t, e)
  <2> DEFINE idx   == t.mEndpointToPeerIdx[e]
             p     == [t.mPeers[idx] EXCEPT !.state = "DISCONNECTED"]
             nodes == ErasePeerNodeIds(t.remoteNodeIdToPeerIdx, idx)
             u     == [t EXCEPT !.mPeers[idx].state = "DISCONNECTED",
                                !.remoteNodeIdToPeerIdx = ErasePeerNodeIds(@, idx)]
  <2>1. HandleBye(t, e) = Quiet(u)
    BY <1>2 DEF HandleBye
  <2>2. t.mPeers \in Seq(PeerEntry) /\ idx \in 1..Len(t.mPeers)
    BY <1>2 DEF Tunnel, InBounds
  <2>3. p \in PeerEntry /\ p.endpoint = PeerOf(t, e).endpoint
    <3>1. t.mPeers[idx] \in PeerEntry /\ "DISCONNECTED" \in PeerConnectionState
      BY <2>2 DEF PeerConnectionState
    <3> QED  BY <3>1 DEF PeerEntry, PeerOf
  <2>4. /\ u.mPeers = [t.mPeers EXCEPT ![idx] = p]
        /\ u.mEndpointToPeerIdx = t.mEndpointToPeerIdx
        /\ u.remoteNodeIdToPeerIdx = nodes
        /\ u.mPendingPeers = t.mPendingPeers
        /\ u.is_running = t.is_running
    BY <2>2 DEF Tunnel
  <2> HIDE DEF p
  <2>5. /\ u.mPeers \in Seq(PeerEntry)
        /\ Len(u.mPeers) = Len(t.mPeers)
        /\ \A i \in 1..Len(t.mPeers) : i # idx => u.mPeers[i] = t.mPeers[i]
        /\ \A i \in 1..Len(t.mPeers) : u.mPeers[i].endpoint = t.mPeers[i].endpoint
    <3> HIDE DEF u
    <3> QED  BY <1>2, <2>3, <2>4, ReplacePeer
  <2>6. /\ nodes \in [NodeId -> Nat]
        /\ \A n \in NodeId : nodes[n] # NotFound =>
              nodes[n] = t.remoteNodeIdToPeerIdx[n] /\ nodes[n] # idx
    BY EraseType DEF Tunnel
  <2>7. u \in Tunnel
    BY <2>5, <2>6 DEF Tunnel
  <2> HIDE DEF u, idx, nodes
  <2>8. SameTable(t, u)
    BY <2>4, <2>5 DEF SameTable
  <2>9. \A n \in NodeId : RouteKeptOrLearnt(t, u, e, n)
    BY <2>4, <2>5, <2>6 DEF RouteKept, RouteKeptOrLearnt, Connected
  <2> QED  BY <2>1, <2>4, <2>7, <2>8, <2>9, QuietType
           DEF ReceiveEffect, PromptRecorded
<1> QED  BY <1>1, <1>2

\* BYEBYE forgets the route of its sender; other routes stay.
LEMMA HandleByeByeEffect ==
    ASSUME NEW t \in Tunnel, InBounds(t), NEW e \in Endpoint, NEW m \in Message
    PROVE  ReceiveEffect(t, e, HandleByeBye(t, e, m))
<1> DEFINE idx == t.mEndpointToPeerIdx[e]
<1>1. CASE ~(Known(t, e) /\ Connected(t, idx))
  BY <1>1, QuietEffect DEF HandleByeBye
<1>2. CASE Known(t, e) /\ Connected(t, idx)
  <2> DEFINE nodes == [t.remoteNodeIdToPeerIdx EXCEPT ![m.from] = NotFound]
             u     == [t EXCEPT !.remoteNodeIdToPeerIdx[m.from] = NotFound]
             r     == [Quiet(u) EXCEPT !.local = {m}]
  <2>1. HandleByeBye(t, e, m) = r
    BY <1>2 DEF HandleByeBye
  <2>2. /\ nodes \in [NodeId -> Nat]
        /\ \A n \in NodeId : nodes[n] # NotFound => nodes[n] = t.remoteNodeIdToPeerIdx[n]
    BY DEF Tunnel, NotFound
  <2>3. /\ u \in Tunnel
        /\ u.mPeers = t.mPeers
        /\ u.mEndpointToPeerIdx = t.mEndpointToPeerIdx
        /\ u.remoteNodeIdToPeerIdx = nodes
        /\ u.mPendingPeers = t.mPendingPeers
        /\ u.is_running = t.is_running
    BY <2>2 DEF Tunnel
  <2> HIDE DEF u, nodes
  <2>4. r \in Result /\ r.tunnel = u /\ r.prompt = {} /\ r.sent = {}
    BY <2>3 DEF Quiet, Result
  <2> HIDE DEF r, idx
  <2>5. SameTable(t, u)
    BY <2>3 DEF SameTable
  <2>6. \A n \in NodeId : RouteKeptOrLearnt(t, u, e, n)
    BY <2>2, <2>3 DEF RouteKept, RouteKeptOrLearnt, Connected
  <2> QED  BY <2>1, <2>3, <2>4, <2>5, <2>6 DEF ReceiveEffect, PromptRecorded
<1> QED  BY <1>1, <1>2

\* Data: the first mapping of a node id is kept, a new one leads to the sender.
LEMMA HandleDataEffect ==
    ASSUME NEW t \in Tunnel, InBounds(t), NEW e \in Endpoint, NEW m \in Message
    PROVE  ReceiveEffect(t, e, HandleData(t, e, m))
<1> DEFINE idx == t.mEndpointToPeerIdx[e]
<1>1. CASE ~(Known(t, e) /\ Connected(t, idx))
  BY <1>1, QuietEffect DEF HandleData
<1>2. CASE Known(t, e) /\ Connected(t, idx)
  <2> DEFINE nodes == [t.remoteNodeIdToPeerIdx EXCEPT ![m.from] =
                          IF @ = NotFound THEN idx ELSE @]
             u     == [t EXCEPT !.remoteNodeIdToPeerIdx[m.from] =
                          IF @ = NotFound THEN t.mEndpointToPeerIdx[e] ELSE @]
             r     == [Quiet(u) EXCEPT !.local = {m}]
  <2>1. HandleData(t, e, m) = r
    BY <1>2 DEF HandleData
  <2>2. /\ nodes \in [NodeId -> Nat]
        /\ \A n \in NodeId : \/ nodes[n] = t.remoteNodeIdToPeerIdx[n]
                             \/ t.remoteNodeIdToPeerIdx[n] = NotFound /\ nodes[n] = idx
    BY DEF Tunnel
  <2>3. /\ u \in Tunnel
        /\ u.mPeers = t.mPeers
        /\ u.mEndpointToPeerIdx = t.mEndpointToPeerIdx
        /\ u.remoteNodeIdToPeerIdx = nodes
        /\ u.mPendingPeers = t.mPendingPeers
        /\ u.is_running = t.is_running
    BY <2>2 DEF Tunnel
  <2> HIDE DEF u, nodes
  <2>4. r \in Result /\ r.tunnel = u /\ r.prompt = {} /\ r.sent = {}
    BY <2>3 DEF Quiet, Result
  <2> HIDE DEF r
  <2>5. SameTable(t, u)
    BY <2>3 DEF SameTable
  <2>6. \A n \in NodeId : RouteKeptOrLearnt(t, u, e, n)
    BY <1>2, <2>2, <2>3 DEF RouteKept, RouteKeptOrLearnt, Connected
  <2> QED  BY <2>1, <2>3, <2>4, <2>5, <2>6 DEF ReceiveEffect, PromptRecorded
<1> QED  BY <1>1, <1>2

\* handleReceive, whatever the message.
LEMMA HandleReceiveEffect ==
    ASSUME NEW t \in Tunnel, InBounds(t), NEW e \in Endpoint, NEW m \in Message
    PROVE  ReceiveEffect(t, e, HandleReceive(t, e, m))
<1>1. CASE m.type = "TUNNEL_HELLO"
  BY <1>1, HandleHelloEffect DEF HandleReceive
<1>2. CASE m.type = "TUNNEL_KEEPALIVE"
  BY <1>2, HandleKeepaliveEffect DEF HandleReceive
<1>3. CASE m.type = "TUNNEL_BYE"
  BY <1>3, HandleByeEffect DEF HandleReceive
<1>4. CASE m.type = "BYEBYE"
  BY <1>4, HandleByeByeEffect DEF HandleReceive
<1>5. CASE m.type \notin {"TUNNEL_HELLO", "TUNNEL_KEEPALIVE", "TUNNEL_BYE", "BYEBYE"}
  BY <1>5, HandleDataEffect DEF HandleReceive
<1> QED  BY <1>1, <1>2, <1>3, <1>4, <1>5

\* What a maintenance pass may do: connected peers may time out, with their
\* routes, and only control messages are sent.
LEMMA RunMaintenanceEffect ==
    ASSUME NEW t \in Tunnel, NEW over
    PROVE  LET r == RunMaintenance(t, over)
           IN  /\ r \in Result
               /\ SameTable(t, r.tunnel)
               /\ r.tunnel.is_running = t.is_running
               /\ r.tunnel.mPendingPeers = t.mPendingPeers
               /\ r.prompt = {}
               /\ \A n \in NodeId : RouteKept(t, r.tunnel, n)
               /\ \A d \in r.sent : d.msg.type \in ControlType
<1>1. CASE ~t.is_running
  BY <1>1, QuietType DEF RunMaintenance, SameTable, RouteKept
<1>2. CASE t.is_running
  <2> DEFINE peers == [i \in DOMAIN t.mPeers |->
                          [t.mPeers[i] EXCEPT !.state = MaintainedState(t, i, over)]]
             nodes == [n \in NodeId |->
                          IF t.remoteNodeIdToPeerIdx[n] \in DOMAIN t.mPeers
                             /\ TimedOut(t, t.remoteNodeIdToPeerIdx[n], over)
                          THEN NotFound ELSE t.remoteNodeIdToPeerIdx[n]]
             u == [t EXCEPT !.mPeers = peers, !.remoteNodeIdToPeerIdx = nodes]
             alive == {j \in DOMAIN t.mPeers : ~TimedOut(t, j, over)}
             kind(i) == IF Connected(t, i) THEN "TUNNEL_KEEPALIVE" ELSE "TUNNEL_HELLO"
             sent == {ControlTo(kind(i), t.mPeers[i].endpoint) : i \in alive}
  <2>1. RunMaintenance(t, over) = Sending(u, sent)
    BY <1>2 DEF RunMaintenance
  <2>2. t.mPeers \in Seq(PeerEntry) /\ DOMAIN t.mPeers = 1..Len(t.mPeers)
    BY DEF Tunnel
  <2>3. \A i : MaintainedState(t, i, over) \in PeerConnectionState
    BY DEF MaintainedState, PeerConnectionState
  <2>4. ASSUME NEW i \in 1..Len(t.mPeers)
        PROVE  /\ peers[i] \in PeerEntry
               /\ peers[i].endpoint = t.mPeers[i].endpoint
               /\ peers[i].state = MaintainedState(t, i, over)
    <3>1. t.mPeers[i] \in PeerEntry
      BY <2>2
    <3> QED  BY <2>2, <2>3, <3>1 DEF PeerEntry
  <2>5. peers \in Seq(PeerEntry) /\ Len(peers) = Len(t.mPeers)
    <3>1. \A i \in 1..Len(t.mPeers) :
              [t.mPeers[i] EXCEPT !.state = MaintainedState(t, i, over)] \in PeerEntry
      BY <2>2, <2>4
    <3> QED  BY <2>2, <3>1
  <2>6. /\ nodes \in [NodeId -> Nat]
        /\ \A n \in NodeId : nodes[n] # NotFound =>
              /\ nodes[n] = t.remoteNodeIdToPeerIdx[n]
              /\ nodes[n] \in DOMAIN t.mPeers => ~TimedOut(t, nodes[n], over)
    BY DEF Tunnel, NotFound
  <2>7. /\ u \in Tunnel
        /\ u.mPeers = peers
        /\ u.mEndpointToPeerIdx = t.mEndpointToPeerIdx
        /\ u.remoteNodeIdToPeerIdx = nodes
        /\ u.mPendingPeers = t.mPendingPeers
        /\ u.is_running = t.is_running
    <3> HIDE DEF peers, nodes
    <3> QED  BY <2>5, <2>6 DEF Tunnel
  <2>8. sent \in SUBSET Datagram /\ \A d \in sent : d.msg.type \in ControlType
    <3>1. \A i \in alive : t.mPeers[i].endpoint \in Endpoint
      BY <2>2, PeerAt
    <3>2. \A i : kind(i) \in ControlType
      BY DEF ControlType
    <3> HIDE DEF alive, kind
    <3>3. \A i \in alive : /\ ControlTo(kind(i), t.mPeers[i].endpoint) \in Datagram
                           /\ ControlTo(kind(i), t.mPeers[i].endpoint).msg.type = kind(i)
      BY <3>1, <3>2, ControlToType DEF ControlTo, Control
    <3> QED  BY <3>2, <3>3
  <2>9. SameTable(t, u)
    <3> HIDE DEF peers, nodes, u
    <3> QED  BY <2>4, <2>5, <2>7 DEF SameTable
  <2>10. \A n \in NodeId : RouteKept(t, u, n)
    <3>1. \A i \in 1..Len(t.mPeers) :
              Connected(t, i) /\ ~TimedOut(t, i, over) => Connected(u, i)
      <4> HIDE DEF peers, nodes, u
      <4> QED  BY <2>4, <2>7 DEF Connected, MaintainedState, TimedOut
    <3> HIDE DEF peers, nodes, u
    <3> QED  BY <2>2, <2>6, <2>7, <3>1 DEF RouteKept
  <2> HIDE DEF u, sent
  <2> QED  BY <2>1, <2>7, <2>8, <2>9, <2>10, SendingType
<1> QED  BY <1>1, <1>2

\* Time does not move entries.
LEMMA AgeProperties ==
    ASSUME NEW t \in Tunnel
    PROVE  /\ Age(t) \in Tunnel
           /\ SameTable(t, Age(t))
           /\ Age(t).is_running = t.is_running
           /\ Age(t).mPendingPeers = t.mPendingPeers
           /\ \A n \in NodeId : RouteKept(t, Age(t), n)
<1> DEFINE aged(i) == [t.mPeers[i] EXCEPT !.age = Older(t.mPeers[i].age)]
           peers == [i \in DOMAIN t.mPeers |-> aged(i)]
<1>1. t.mPeers \in Seq(PeerEntry) /\ DOMAIN t.mPeers = 1..Len(t.mPeers)
  BY DEF Tunnel
<1>2. ASSUME NEW i \in 1..Len(t.mPeers)
      PROVE  /\ aged(i) \in PeerEntry
             /\ peers[i].endpoint = t.mPeers[i].endpoint
             /\ peers[i].state = t.mPeers[i].state
  <2>1. t.mPeers[i] \in PeerEntry /\ t.mPeers[i].age \in 0..MaxAge
    BY <1>1, PeerAt
  <2>2. Older(t.mPeers[i].age) \in 0..MaxAge
    BY <2>1, TimeoutAssumption DEF Older
  <2> QED  BY <1>1, <2>1, <2>2 DEF PeerEntry
<1>3. peers \in Seq(PeerEntry) /\ Len(peers) = Len(t.mPeers)
  <2>1. \A i \in 1..Len(t.mPeers) : aged(i) \in PeerEntry
    BY <1>2
  <2> HIDE DEF aged
  <2> QED  BY <1>1, <2>1
<1>4. Age(t) = [t EXCEPT !.mPeers = peers]
  BY DEF Age
<1> HIDE DEF peers
<1>5. /\ Age(t) \in Tunnel
      /\ Age(t).mPeers = peers
      /\ Age(t).mEndpointToPeerIdx = t.mEndpointToPeerIdx
      /\ Age(t).remoteNodeIdToPeerIdx = t.remoteNodeIdToPeerIdx
      /\ Age(t).is_running = t.is_running
      /\ Age(t).mPendingPeers = t.mPendingPeers
  BY <1>3, <1>4 DEF Tunnel
<1>6. SameTable(t, Age(t))
  BY <1>2, <1>3, <1>5 DEF SameTable
<1>7. \A n \in NodeId : RouteKept(t, Age(t), n)
  BY <1>2, <1>5 DEF RouteKept, Connected
<1> QED  BY <1>5, <1>6, <1>7

\* The flag of stop_listening changes nothing else.
LEMMA StopFlagProperties ==
    ASSUME NEW t \in Tunnel
    PROVE  /\ StopFlag(t) \in Tunnel
           /\ SameTable(t, StopFlag(t))
           /\ StopFlag(t).mPendingPeers = t.mPendingPeers
           /\ ~StopFlag(t).is_running
           /\ \A n \in NodeId : RouteKept(t, StopFlag(t), n)
BY DEF StopFlag, Tunnel, SameTable, RouteKept, Connected

\* After stop_listening both indices are empty.
LEMMA StopClearProperties ==
    ASSUME NEW t \in Tunnel
    PROVE  /\ StopClear(t) \in Tunnel
           /\ InBounds(StopClear(t))
           /\ StopClear(t).is_running = t.is_running
           /\ \A n \in NodeId : StopClear(t).remoteNodeIdToPeerIdx[n] = NotFound
<1>1. /\ StopClear(t).mEndpointToPeerIdx = [e \in Endpoint |-> NotFound]
      /\ StopClear(t).remoteNodeIdToPeerIdx = [n \in NodeId |-> NotFound]
      /\ StopClear(t).is_running = t.is_running
      /\ StopClear(t) \in Tunnel
  BY DEF StopClear, Tunnel, NotFound
<1> QED  BY <1>1 DEF InBounds, Known, NotFound

\* Shutdown says BYE and nothing else.
LEMMA StopByesType ==
    ASSUME NEW t \in Tunnel
    PROVE  StopByes(t) \in SUBSET Datagram
           /\ \A d \in StopByes(t) : d.msg.type \in ControlType
<1>1. \A i \in DOMAIN t.mPeers :
          /\ ControlTo("TUNNEL_BYE", t.mPeers[i].endpoint) \in Datagram
          /\ ControlTo("TUNNEL_BYE", t.mPeers[i].endpoint).msg.type = "TUNNEL_BYE"
  <2>1. \A i \in 1..Len(t.mPeers) : t.mPeers[i].endpoint \in Endpoint
    BY PeerAt DEF Tunnel
  <2>2. DOMAIN t.mPeers = 1..Len(t.mPeers)
    BY DEF Tunnel
  <2> QED  BY <2>1, <2>2, ControlToType DEF ControlType, ControlTo, Control
<1> QED  BY <1>1 DEF StopByes, ControlType

\* forward() sends to entries of the peer vector; what is addressed to one node
\* goes only to the entry its route names.
LEMMA ForwardProperties ==
    ASSUME NEW t \in Tunnel, NEW m \in Message
    PROVE  /\ Forward(t, m) \in SUBSET Datagram
           /\ \A d \in Forward(t, m) :
                 /\ d.msg.type = m.type
                 /\ m.type \in {"UNICAST", "MEASUREMENT_PING"} =>
                       /\ d.msg.to = m.to
                       /\ m.to # NoNode
                       /\ t.remoteNodeIdToPeerIdx[m.to] \in DOMAIN t.mPeers
                       /\ d.dst = t.mPeers[t.remoteNodeIdToPeerIdx[m.to]].endpoint
<1> DEFINE idx == t.remoteNodeIdToPeerIdx[m.to]
           targets ==
            CASE m.type \in AddressedType /\ m.to = NoNode -> {}
              [] m.type \in {"UNICAST", "MEASUREMENT_PING"} /\ m.to # NoNode ->
                    {i \in DOMAIN t.mPeers : i = idx /\ Connected(t, i)}
              [] OTHER -> {i \in DOMAIN t.mPeers : Connected(t, i)}
           msg == IF m.type \in AddressedType THEN m ELSE [m EXCEPT !.to = NoNode]
<1>1. Forward(t, m) = {[msg |-> msg, dst |-> t.mPeers[i].endpoint] : i \in targets}
  BY DEF Forward
<1>2. targets \subseteq DOMAIN t.mPeers
  OBVIOUS
<1>3. ASSUME m.type \in {"UNICAST", "MEASUREMENT_PING"}
      PROVE  msg = m /\ \A i \in targets : i = idx /\ m.to # NoNode
  BY <1>3 DEF AddressedType
<1>4. msg \in Message /\ msg.type = m.type
  BY DEF Message
<1> HIDE DEF targets, msg, idx
<1>5. \A i \in targets : t.mPeers[i].endpoint \in Endpoint
  <2>1. DOMAIN t.mPeers = 1..Len(t.mPeers) /\ t.mPeers \in Seq(PeerEntry)
    BY DEF Tunnel
  <2> QED  BY <1>2, <2>1, PeerAt
<1>6. Forward(t, m) \in SUBSET Datagram
  BY <1>1, <1>4, <1>5 DEF Datagram
<1>7. ASSUME NEW d \in Forward(t, m)
      PROVE  /\ d.msg.type = m.type
             /\ m.type \in {"UNICAST", "MEASUREMENT_PING"} =>
                   /\ d.msg.to = m.to
                   /\ m.to # NoNode
                   /\ idx \in DOMAIN t.mPeers
                   /\ d.dst = t.mPeers[idx].endpoint
  <2>1. PICK i \in targets : d = [msg |-> msg, dst |-> t.mPeers[i].endpoint]
    BY <1>1
  <2>2. d.msg = msg /\ d.dst = t.mPeers[i].endpoint
    BY <2>1
  <2> QED  BY <1>2, <1>3, <1>4, <2>2
<1> QED  BY <1>6, <1>7 DEF idx
=============================================================================
