--------------------------- MODULE UdpTunnelProofs ---------------------------
(* The invariants of one UdpTunnel, for every set of endpoints and node ids, *)
(* every peer list the constructor is given, any number of posted tasks and  *)
(* any messages.  The bounds MaxPeers and MaxTasks are arbitrary.            *)
EXTENDS UdpTunnel, TunnelCoreProofs

\* stop_listening clears is_running first and nothing sets it again.
RunningFlag == tunnel.is_running <=> stopping = "no"

\* The inductive invariant of the peer table.  The index can only be proved to
\* fit together with the types, and to be complete until it is cleared.
TableInv == TypeOK /\ IndexInBounds /\ IndexComplete /\ RunningFlag

-----------------------------------------------------------------------------

\* The oldest posted task has its type, and an endpoint if it is about a peer.
LEMMA HeadTask ==
    ASSUME tasks \in Seq(Task), tasks # <<>>
    PROVE  /\ Head(tasks) \in Task
           /\ Tail(tasks) \in Seq(Task)
           /\ Head(tasks).kind \in {"add", "remove", "accept", "reject"} =>
                 Head(tasks).endpoint \in Endpoint
<1>1. Head(tasks) \in Task /\ Tail(tasks) \in Seq(Task)
  OBVIOUS
<1> QED  BY <1>1 DEF Task, DecisionTask

\* mIo->async appends a well-formed task.
LEMMA PostType ==
    ASSUME tasks \in Seq(Task), NEW e \in Endpoint,
           NEW kind \in {"add", "remove", "accept", "reject"}
    PROVE  Post(kind, e) \in Seq(Task)
<1>1. [kind |-> kind, endpoint |-> e] \in Task
  BY DEF Task, DecisionTask
<1> QED  BY <1>1 DEF Post

\* Taking over a result keeps the types.
LEMMA ApplyType ==
    ASSUME TypeOK, NEW r \in Result, Apply(r)
    PROVE  /\ tunnel' = r.tunnel
           /\ tunnel' \in Tunnel
           /\ sent' = r.sent
           /\ sent' \in SUBSET Datagram
           /\ asked' \in [Endpoint -> Nat]
<1>1. r.tunnel \in Tunnel /\ r.sent \in SUBSET Datagram
  BY DEF Result
<1>2. asked' \in [Endpoint -> Nat]
  BY DEF Apply, TypeOK
<1> QED  BY <1>1, <1>2 DEF Apply

\* A kept route keeps its origin, a new one comes from e.
LEMMA TraceRoutesType ==
    ASSUME TypeOK, tunnel' \in Tunnel, NEW e \in Endpoint \cup {NoEndpoint}, TraceRoutes(e)
    PROVE  /\ origin' \in [NodeId -> Endpoint \cup {NoEndpoint}]
           /\ \A n \in NodeId : tunnel'.remoteNodeIdToPeerIdx[n] # NotFound =>
                 origin'[n] = IF Routes[n] = NotFound THEN e ELSE origin[n]
BY DEF TypeOK, TraceRoutes

\* The constructor establishes the invariant.
LEMMA TableInit == Init => TableInv
<1> SUFFICES ASSUME Init PROVE TableInv
  OBVIOUS
<1>1. PICK peers \in InitialPeers : tunnel = NewTunnel(peers)
  BY DEF Init
<1>2. peers \in Seq(Endpoint)
  BY InitialPeersAssumption
<1>3. tunnel \in Tunnel /\ InBounds(tunnel) /\ Indexed(tunnel)
  BY <1>1, <1>2, NewTunnelProperties
<1>4. tunnel.is_running
  BY <1>1 DEF NewTunnel
<1>5. tasks \in Seq(Task)
  <2>1. /\ [kind |-> "listen", endpoint |-> NoEndpoint] \in Task
        /\ [kind |-> "maintain", endpoint |-> NoEndpoint] \in Task
    BY DEF Task
  <2> QED  BY <2>1 DEF Init
<1>6. TypeOK
  BY <1>3, <1>5 DEF Init, TypeOK
<1> QED  BY <1>3, <1>4, <1>6
         DEF Init, TableInv, IndexInBounds, IndexComplete, RunningFlag

\* What arrives and what gateways forward are messages.
LEMMA IncomingType == Incoming \subseteq Message /\ Outgoing \subseteq Message
<1>1. \A type \in ControlType : Control(type) \in Message
  BY DEF Control, Message
<1> QED  BY <1>1 DEF Incoming, Outgoing, Message, AddressedType, DataType

\* Every step keeps the peer table and its index together.
LEMMA TableStep == TableInv /\ [Next]_vars => TableInv'
<1> SUFFICES ASSUME TableInv, [Next]_vars PROVE TableInv'
  OBVIOUS
<1> USE DEF TableInv, IndexInBounds, IndexComplete, RunningFlag
<1>0. tunnel \in Tunnel /\ InBounds(tunnel) /\ tasks \in Seq(Task) /\ TypeOK
  BY DEF TypeOK
<1>1. ASSUME NEW e \in Endpoint, CallAddPeer(e) PROVE TableInv'
  BY <1>1, <1>0, PostType DEF CallAddPeer, TypeOK
<1>2. ASSUME NEW e \in Endpoint, CallRemovePeer(e) PROVE TableInv'
  BY <1>2, <1>0, PostType DEF CallRemovePeer, TypeOK
<1>3. ASSUME NEW e \in Endpoint, NEW d \in {"accept", "reject"}, Decide(e, d)
      PROVE  TableInv'
  <2>1. tasks' \in Seq(Task)
    BY <1>3, <1>0, PostType DEF Decide
  <2>2. asked' \in [Endpoint -> Nat]
    BY <1>3 DEF Decide, TypeOK
  <2> QED  BY <1>3, <1>0, <2>1, <2>2 DEF Decide, TypeOK
<1>4. ASSUME StopBegin PROVE TableInv'
  <2>1. /\ tunnel' \in Tunnel /\ InBounds(tunnel')
        /\ Indexed(tunnel) => Indexed(tunnel')
        /\ ~tunnel'.is_running
    BY <1>4, <1>0, StopFlagProperties, SameTableKeepsIndex DEF StopBegin
  <2> QED  BY <1>4, <1>0, <2>1 DEF StopBegin, TypeOK
<1>5. ASSUME StopSayBye PROVE TableInv'
  <2>1. sent' \in SUBSET Datagram
    BY <1>5, <1>0, StopByesType DEF StopSayBye
  <2> QED  BY <1>5, <1>0, <2>1 DEF StopSayBye, TypeOK
<1>6. ASSUME StopEnd PROVE TableInv'
  <2>1. /\ tunnel' \in Tunnel /\ InBounds(tunnel')
        /\ tunnel'.is_running = tunnel.is_running
    BY <1>6, <1>0, StopClearProperties DEF StopEnd
  <2>2. origin' \in [NodeId -> Endpoint \cup {NoEndpoint}]
    BY <1>6, <1>0, <2>1, TraceRoutesType DEF StopEnd
  <2> QED  BY <1>6, <1>0, <2>1, <2>2 DEF StopEnd, KeepStale, TypeOK
<1>7. ASSUME RunAdd PROVE TableInv'
  <2> DEFINE e == Head(tasks).endpoint
  <2>1. e \in Endpoint /\ tasks' \in Seq(Task)
    BY <1>7, <1>0, HeadTask DEF RunAdd, NextTask
  <2> HIDE DEF e
  <2>2. /\ AddPeer(tunnel, e) \in Result
        /\ InBounds(AddPeer(tunnel, e).tunnel)
        /\ Indexed(tunnel) => Indexed(AddPeer(tunnel, e).tunnel)
        /\ AddPeer(tunnel, e).tunnel.is_running = tunnel.is_running
    BY <1>0, <2>1, AddPeerProperties
  <2>3. Apply(AddPeer(tunnel, e))
    BY <1>7 DEF RunAdd, e
  <2>4. /\ tunnel' \in Tunnel /\ InBounds(tunnel') /\ (Indexed(tunnel) => Indexed(tunnel'))
        /\ tunnel'.is_running = tunnel.is_running
        /\ sent' \in SUBSET Datagram /\ asked' \in [Endpoint -> Nat]
    BY <1>0, <2>2, <2>3, ApplyType
  <2> QED  BY <1>7, <1>0, <2>1, <2>4 DEF RunAdd, TypeOK
<1>8. ASSUME RunRemove PROVE TableInv'
  <2> DEFINE e == Head(tasks).endpoint
  <2>1. e \in Endpoint /\ tasks' \in Seq(Task)
    BY <1>8, <1>0, HeadTask DEF RunRemove, NextTask
  <2> HIDE DEF e
  <2>2. /\ RemovePeer(tunnel, e) \in Result
        /\ InBounds(RemovePeer(tunnel, e).tunnel)
        /\ Indexed(tunnel) => Indexed(RemovePeer(tunnel, e).tunnel)
        /\ RemovePeer(tunnel, e).tunnel.is_running = tunnel.is_running
    BY <1>0, <2>1, RemovePeerProperties
  <2>3. Apply(RemovePeer(tunnel, e))
    BY <1>8 DEF RunRemove, e
  <2>4. /\ tunnel' \in Tunnel /\ InBounds(tunnel') /\ (Indexed(tunnel) => Indexed(tunnel'))
        /\ tunnel'.is_running = tunnel.is_running
        /\ sent' \in SUBSET Datagram /\ asked' \in [Endpoint -> Nat]
    BY <1>0, <2>2, <2>3, ApplyType
  <2>5. origin' \in [NodeId -> Endpoint \cup {NoEndpoint}]
    BY <1>8, <1>0, <2>4, TraceRoutesType DEF RunRemove
  <2>6. stale' \in SUBSET NodeId
    BY <1>8 DEF RunRemove, AddStale, TypeOK
  <2> QED  BY <1>8, <1>0, <2>1, <2>4, <2>5, <2>6 DEF RunRemove, TypeOK
<1>9. ASSUME RunDecision PROVE TableInv'
  <2> DEFINE e == Head(tasks).endpoint
             r == IF Head(tasks).kind = "accept" THEN Accept(tunnel, e)
                  ELSE Reject(tunnel, e)
  <2>1. e \in Endpoint /\ tasks' \in Seq(Task)
    BY <1>9, <1>0, HeadTask DEF RunDecision, NextTask
  <2>2. Apply(r)
    BY <1>9 DEF RunDecision
  <2> HIDE DEF e
  <2>3. /\ r \in Result
        /\ InBounds(r.tunnel)
        /\ Indexed(tunnel) => Indexed(r.tunnel)
        /\ r.tunnel.is_running = tunnel.is_running
    BY <1>0, <2>1, AcceptProperties, RejectProperties
  <2> HIDE DEF r
  <2>4. /\ tunnel' \in Tunnel /\ InBounds(tunnel') /\ (Indexed(tunnel) => Indexed(tunnel'))
        /\ tunnel'.is_running = tunnel.is_running
        /\ sent' \in SUBSET Datagram /\ asked' \in [Endpoint -> Nat]
    BY <1>0, <2>2, <2>3, ApplyType
  <2> QED  BY <1>9, <1>0, <2>1, <2>4 DEF RunDecision, TypeOK
<1>10. ASSUME RunListen PROVE TableInv'
  BY <1>10, <1>0, HeadTask DEF RunListen, NextTask, TypeOK
<1>11. ASSUME Maintain, tasks' \in Seq(Task) PROVE TableInv'
  <2>0. PICK over \in SUBSET DOMAIN tunnel.mPeers : Apply(RunMaintenance(tunnel, over))
    BY <1>11 DEF Maintain
  <2> DEFINE r == RunMaintenance(tunnel, over)
  <2>1. r \in Result /\ SameTable(tunnel, r.tunnel)
          /\ r.tunnel.is_running = tunnel.is_running
    BY <1>0, RunMaintenanceEffect
  <2>2. Apply(r)
    BY <2>0
  <2> HIDE DEF r
  <2>3. /\ tunnel' \in Tunnel /\ tunnel' = r.tunnel
        /\ sent' \in SUBSET Datagram /\ asked' \in [Endpoint -> Nat]
    BY <1>0, <2>1, <2>2, ApplyType
  <2>4. InBounds(tunnel') /\ (Indexed(tunnel) => Indexed(tunnel'))
    BY <1>0, <2>1, <2>3, SameTableKeepsIndex
  <2>5. origin' \in [NodeId -> Endpoint \cup {NoEndpoint}]
    BY <1>11, <1>0, <2>3, TraceRoutesType DEF Maintain
  <2>6. timer' \in BOOLEAN
    BY <1>11 DEF Maintain, TypeOK, Tunnel
  <2> QED  BY <1>11, <1>0, <2>1, <2>3, <2>4, <2>5, <2>6 DEF Maintain, KeepStale, TypeOK
<1>12. ASSUME RunMaintain PROVE TableInv'
  BY <1>12, <1>11, <1>0, HeadTask DEF RunMaintain, NextTask
<1>13. ASSUME TimerFires PROVE TableInv'
  BY <1>13, <1>11, <1>0 DEF TimerFires
<1>14. ASSUME NEW e \in Endpoint, NEW m \in Incoming, Receive(e, m) PROVE TableInv'
  <2> DEFINE r == HandleReceive(tunnel, e, m)
  <2>1. ReceiveEffect(tunnel, e, r)
    BY <1>0, IncomingType, HandleReceiveEffect
  <2>2. Apply(r)
    BY <1>14 DEF Receive
  <2> HIDE DEF r
  <2>3. /\ tunnel' \in Tunnel /\ tunnel' = r.tunnel
        /\ sent' \in SUBSET Datagram /\ asked' \in [Endpoint -> Nat]
    BY <1>0, <2>1, <2>2, ApplyType DEF ReceiveEffect
  <2>4. /\ InBounds(tunnel') /\ (Indexed(tunnel) => Indexed(tunnel'))
        /\ tunnel'.is_running = tunnel.is_running
    BY <1>0, <2>1, <2>3, SameTableKeepsIndex DEF ReceiveEffect
  <2>5. origin' \in [NodeId -> Endpoint \cup {NoEndpoint}]
    BY <1>14, <1>0, <2>3, TraceRoutesType DEF Receive
  <2>6. armed' \in BOOLEAN /\ late' \in Nat
    BY <1>14 DEF Receive, Rearm, TypeOK, Tunnel
  <2> QED  BY <1>14, <1>0, <2>3, <2>4, <2>5, <2>6 DEF Receive, KeepStale, TypeOK
<1>15. ASSUME NEW m \in Outgoing, CallForward(m) PROVE TableInv'
  <2>1. sent' \in SUBSET Datagram
    BY <1>15, <1>0, IncomingType, ForwardProperties DEF CallForward
  <2> QED  BY <1>15, <1>0, <2>1 DEF CallForward, TypeOK
<1>16. ASSUME Tick PROVE TableInv'
  <2>1. /\ tunnel' \in Tunnel /\ InBounds(tunnel') /\ (Indexed(tunnel) => Indexed(tunnel'))
        /\ tunnel'.is_running = tunnel.is_running
    BY <1>16, <1>0, AgeProperties, SameTableKeepsIndex DEF Tick
  <2> QED  BY <1>16, <1>0, <2>1 DEF Tick, TypeOK
<1>17. ASSUME UNCHANGED vars PROVE TableInv'
  BY <1>17, <1>0 DEF vars, TypeOK
<1> QED  BY <1>1, <1>2, <1>3, <1>4, <1>5, <1>6, <1>7, <1>8, <1>9, <1>10, <1>12, <1>13,
            <1>14, <1>15, <1>16, <1>17 DEF Next, AppStep, IoStep

\* The peer table and its index fit together in every reachable state.
LEMMA TableInvariance == Spec => []TableInv
BY TableInit, TableStep, PTL DEF Spec

\* Every reachable state of a UdpTunnel is well-formed.
THEOREM TypeCorrect == Spec => []TypeOK
BY TableInvariance, PTL DEF TableInv

\* mPeers[idxIt->second] is always in bounds and the sender's own entry.
THEOREM IndexSafe == Spec => []IndexInBounds
BY TableInvariance, PTL DEF TableInv

\* Every configured or accepted peer is known to handleReceive until shutdown.
THEOREM IndexTotal == Spec => []IndexComplete
BY TableInvariance, PTL DEF TableInv

-----------------------------------------------------------------------------
(* Routes.                                                                 *)

\* Routes stay sound when entries keep their places, kept routes keep their
\* origin and no stale route becomes a good one.
LEMMA KeptRoutesAreSound ==
    ASSUME RouteSound, SameTable(tunnel, tunnel'),
           \A n \in NodeId : RouteKept(tunnel, tunnel', n),
           \A n \in NodeId : tunnel'.remoteNodeIdToPeerIdx[n] # NotFound =>
               origin'[n] = origin[n] /\ (n \in stale => n \in stale')
    PROVE  RouteSound'
<1> SUFFICES ASSUME NEW n \in NodeId,
                    tunnel'.remoteNodeIdToPeerIdx[n] # NotFound, n \notin stale'
             PROVE  LET idx == tunnel'.remoteNodeIdToPeerIdx[n]
                    IN  /\ idx \in 1..Len(tunnel'.mPeers)
                        /\ tunnel'.mPeers[idx].endpoint = origin'[n]
                        /\ Connected(tunnel', idx)
  BY DEF RouteSound, Routes, Connected
<1> DEFINE idx == tunnel'.remoteNodeIdToPeerIdx[n]
<1>1. /\ idx = tunnel.remoteNodeIdToPeerIdx[n]
      /\ \A i \in 1..Len(tunnel.mPeers) :
            i = idx /\ Connected(tunnel, i) => Connected(tunnel', i)
      /\ origin'[n] = origin[n]
      /\ n \notin stale
  BY DEF RouteKept
<1> HIDE DEF idx
<1>2. /\ idx \in 1..Len(tunnel.mPeers)
      /\ tunnel.mPeers[idx].endpoint = origin[n]
      /\ Connected(tunnel, idx)
  BY <1>1 DEF RouteSound, Routes, idx
<1> QED  BY <1>1, <1>2 DEF SameTable, idx

\* At first there are no routes.
LEMMA RouteInit == Init => RouteSound
<1> SUFFICES ASSUME Init PROVE RouteSound
  OBVIOUS
<1>1. PICK peers \in InitialPeers : tunnel = NewTunnel(peers)
  BY DEF Init
<1>2. \A n \in NodeId : tunnel.remoteNodeIdToPeerIdx[n] = NotFound
  BY <1>1, InitialPeersAssumption, NewTunnelProperties
<1> QED  BY <1>2 DEF RouteSound, Routes

\* Every step keeps the routes that no removePeer left behind sound.
LEMMA RouteStep == TableInv /\ RouteSound /\ [Next]_vars => RouteSound'
<1> SUFFICES ASSUME TableInv, RouteSound, [Next]_vars PROVE RouteSound'
  OBVIOUS
<1>0. tunnel \in Tunnel /\ InBounds(tunnel) /\ tasks \in Seq(Task) /\ TypeOK
  BY DEF TableInv, TypeOK, IndexInBounds
<1>1. ASSUME UNCHANGED <<tunnel, origin, stale>> PROVE RouteSound'
  BY <1>1 DEF RouteSound, Routes, Connected
<1>2. ASSUME StopBegin PROVE RouteSound'
  <2>1. SameTable(tunnel, tunnel') /\ \A n \in NodeId : RouteKept(tunnel, tunnel', n)
    BY <1>2, <1>0, StopFlagProperties DEF StopBegin
  <2> QED  BY <1>2, <2>1, KeptRoutesAreSound DEF StopBegin
<1>3. ASSUME StopEnd PROVE RouteSound'
  <2>1. \A n \in NodeId : tunnel'.remoteNodeIdToPeerIdx[n] = NotFound
    BY <1>3, <1>0, StopClearProperties DEF StopEnd
  <2> QED  BY <2>1 DEF RouteSound, Routes
\* Peers are only appended: a route's entry stays where it is.
<1>4. ASSUME Len(tunnel'.mPeers) >= Len(tunnel.mPeers),
             \A i \in 1..Len(tunnel.mPeers) : tunnel'.mPeers[i] = tunnel.mPeers[i],
             tunnel'.remoteNodeIdToPeerIdx = tunnel.remoteNodeIdToPeerIdx,
             tunnel' \in Tunnel, UNCHANGED <<origin, stale>>
      PROVE  RouteSound'
  <2>1. Len(tunnel.mPeers) \in Nat /\ Len(tunnel'.mPeers) \in Nat
    BY <1>0, <1>4 DEF Tunnel
  <2> SUFFICES ASSUME NEW n \in NodeId,
                      tunnel'.remoteNodeIdToPeerIdx[n] # NotFound, n \notin stale'
               PROVE  LET idx == tunnel'.remoteNodeIdToPeerIdx[n]
                      IN  /\ idx \in 1..Len(tunnel'.mPeers)
                          /\ tunnel'.mPeers[idx].endpoint = origin'[n]
                          /\ Connected(tunnel', idx)
    BY DEF RouteSound, Routes, Connected
  <2> DEFINE idx == tunnel.remoteNodeIdToPeerIdx[n]
  <2>2. /\ idx \in 1..Len(tunnel.mPeers)
        /\ tunnel.mPeers[idx].endpoint = origin[n]
        /\ Connected(tunnel, idx)
    BY <1>4 DEF RouteSound, Routes
  <2> HIDE DEF idx
  <2>3. idx \in 1..Len(tunnel'.mPeers) /\ tunnel'.mPeers[idx] = tunnel.mPeers[idx]
    BY <1>4, <2>1, <2>2
  <2> QED  BY <1>4, <2>2, <2>3 DEF Connected, idx
<1>5. ASSUME RunAdd PROVE RouteSound'
  <2> DEFINE e == Head(tasks).endpoint
             r == AddPeer(tunnel, e)
  <2>1. e \in Endpoint
    BY <1>5, <1>0, HeadTask DEF RunAdd, NextTask
  <2>2. Apply(r)
    BY <1>5 DEF RunAdd
  <2> HIDE DEF e
  <2>3. /\ r \in Result
        /\ Len(r.tunnel.mPeers) >= Len(tunnel.mPeers)
        /\ \A i \in 1..Len(tunnel.mPeers) : r.tunnel.mPeers[i] = tunnel.mPeers[i]
        /\ r.tunnel.remoteNodeIdToPeerIdx = tunnel.remoteNodeIdToPeerIdx
    BY <1>0, <2>1, AddPeerProperties
  <2> HIDE DEF r
  <2>4. tunnel' = r.tunnel /\ tunnel' \in Tunnel
    BY <1>0, <2>2, <2>3, ApplyType
  <2> QED  BY <1>4, <1>5, <2>3, <2>4 DEF RunAdd
<1>6. ASSUME RunDecision PROVE RouteSound'
  <2> DEFINE e == Head(tasks).endpoint
             r == IF Head(tasks).kind = "accept" THEN Accept(tunnel, e)
                  ELSE Reject(tunnel, e)
  <2>1. e \in Endpoint
    BY <1>6, <1>0, HeadTask DEF RunDecision, NextTask
  <2>2. Apply(r)
    BY <1>6 DEF RunDecision
  <2> HIDE DEF e
  <2>3. Len(tunnel.mPeers) \in Nat
    BY <1>0 DEF Tunnel
  <2>4. /\ r \in Result
        /\ Len(r.tunnel.mPeers) >= Len(tunnel.mPeers)
        /\ \A i \in 1..Len(tunnel.mPeers) : r.tunnel.mPeers[i] = tunnel.mPeers[i]
        /\ r.tunnel.remoteNodeIdToPeerIdx = tunnel.remoteNodeIdToPeerIdx
    <3>1. CASE Head(tasks).kind = "accept"
      BY <1>0, <2>1, <3>1, AcceptProperties
    <3>2. CASE Head(tasks).kind # "accept"
      <4>1. r \in Result /\ r.tunnel.mPeers = tunnel.mPeers
              /\ r.tunnel.remoteNodeIdToPeerIdx = tunnel.remoteNodeIdToPeerIdx
        BY <1>0, <2>1, <3>2, RejectProperties
      <4> HIDE DEF r
      <4> QED  BY <2>3, <4>1
    <3> QED  BY <3>1, <3>2
  <2> HIDE DEF r
  <2>5. tunnel' = r.tunnel /\ tunnel' \in Tunnel
    BY <1>0, <2>2, <2>4, ApplyType
  <2> QED  BY <1>4, <1>6, <2>4, <2>5 DEF RunDecision
\* Routes before the erased entry stay right, those behind it become stale.
<1>7. ASSUME RunRemove PROVE RouteSound'
  <2> DEFINE e   == Head(tasks).endpoint
             r   == RemovePeer(tunnel, e)
             idx == tunnel.mEndpointToPeerIdx[e]
  <2>1. e \in Endpoint
    BY <1>7, <1>0, HeadTask DEF RunRemove, NextTask
  <2>2. Apply(r) /\ TraceRoutes(NoEndpoint)
    BY <1>7 DEF RunRemove
  <2>3. /\ Known(tunnel, e) => AddStale(idx)
        /\ ~Known(tunnel, e) => stale' = stale
    BY <1>7 DEF RunRemove
  <2> HIDE DEF e
  <2>4. /\ r \in Result
        /\ ~Known(tunnel, e) => r = Quiet(tunnel)
        /\ Known(tunnel, e) =>
              /\ idx \in 1..Len(tunnel.mPeers)
              /\ Len(r.tunnel.mPeers) = Len(tunnel.mPeers) - 1
              /\ \A i \in 1..(idx - 1) : r.tunnel.mPeers[i] = tunnel.mPeers[i]
              /\ r.tunnel.remoteNodeIdToPeerIdx =
                     ErasePeerNodeIds(tunnel.remoteNodeIdToPeerIdx, idx)
    BY <1>0, <2>1, RemovePeerProperties
  <2> HIDE DEF r
  <2>5. tunnel' = r.tunnel /\ tunnel' \in Tunnel
    BY <1>0, <2>2, <2>4, ApplyType
  <2>6. CASE ~Known(tunnel, e)
    <3>1. tunnel' = tunnel
      BY <1>0, <2>4, <2>5, <2>6, QuietType
    <3>2. \A n \in NodeId : Routes[n] # NotFound => origin'[n] = origin[n]
      BY <1>0, <2>2, <2>5, <3>1, TraceRoutesType DEF Routes
    <3> QED  BY <2>3, <2>6, <3>1, <3>2 DEF RouteSound, Routes, Connected
  <2>7. CASE Known(tunnel, e)
    <3> SUFFICES ASSUME NEW n \in NodeId,
                        tunnel'.remoteNodeIdToPeerIdx[n] # NotFound, n \notin stale'
                 PROVE  LET i == tunnel'.remoteNodeIdToPeerIdx[n]
                        IN  /\ i \in 1..Len(tunnel'.mPeers)
                            /\ tunnel'.mPeers[i].endpoint = origin'[n]
                            /\ Connected(tunnel', i)
      BY DEF RouteSound, Routes, Connected
    <3> DEFINE i == tunnel.remoteNodeIdToPeerIdx[n]
    <3>1. /\ tunnel'.remoteNodeIdToPeerIdx[n] = i
          /\ i # NotFound /\ i # idx
      <4>1. tunnel.remoteNodeIdToPeerIdx \in [NodeId -> Nat]
        BY <1>0 DEF Tunnel
      <4> QED  BY <2>4, <2>5, <2>7, <4>1, EraseType
    <3>2. n \notin stale /\ ~(i > idx)
      BY <2>3, <2>7, <3>1 DEF AddStale, Routes
    <3>3. /\ i \in 1..Len(tunnel.mPeers)
          /\ tunnel.mPeers[i].endpoint = origin[n]
          /\ Connected(tunnel, i)
      BY <3>1, <3>2 DEF RouteSound, Routes
    <3>4. origin'[n] = origin[n]
      BY <1>0, <2>2, <2>5, <3>1, TraceRoutesType DEF Routes
    <3>5. Len(tunnel.mPeers) \in Nat
      BY <1>0 DEF Tunnel
    <3> HIDE DEF i, idx
    <3>6. i \in 1..(idx - 1) /\ i \in 1..(Len(tunnel.mPeers) - 1)
      BY <2>4, <2>7, <3>1, <3>2, <3>3, <3>5
    <3>7. tunnel'.mPeers[i] = tunnel.mPeers[i] /\ i \in 1..Len(tunnel'.mPeers)
      BY <2>4, <2>5, <2>7, <3>6
    <3> QED  BY <3>1, <3>3, <3>4, <3>7 DEF Connected
  <2> QED  BY <2>6, <2>7
<1>8. ASSUME Maintain PROVE RouteSound'
  <2>0. PICK over \in SUBSET DOMAIN tunnel.mPeers : Apply(RunMaintenance(tunnel, over))
    BY <1>8 DEF Maintain
  <2> DEFINE r == RunMaintenance(tunnel, over)
  <2>1. r \in Result /\ SameTable(tunnel, r.tunnel)
          /\ \A n \in NodeId : RouteKept(tunnel, r.tunnel, n)
    BY <1>0, RunMaintenanceEffect
  <2>2. Apply(r) /\ TraceRoutes(NoEndpoint) /\ KeepStale
    BY <1>8, <2>0 DEF Maintain
  <2> HIDE DEF r
  <2>3. tunnel' = r.tunnel /\ tunnel' \in Tunnel
    BY <1>0, <2>1, <2>2, ApplyType
  <2>4. \A n \in NodeId : tunnel'.remoteNodeIdToPeerIdx[n] # NotFound =>
            origin'[n] = origin[n] /\ (n \in stale => n \in stale')
    BY <1>0, <2>1, <2>2, <2>3, TraceRoutesType DEF KeepStale, RouteKept, Routes
  <2> QED  BY <2>1, <2>3, <2>4, KeptRoutesAreSound
\* A datagram teaches a route to its connected sender, or keeps what there is.
<1>9. ASSUME NEW e \in Endpoint, NEW m \in Incoming, Receive(e, m) PROVE RouteSound'
  <2> DEFINE r == HandleReceive(tunnel, e, m)
  <2>1. ReceiveEffect(tunnel, e, r)
    BY <1>0, IncomingType, HandleReceiveEffect
  <2>2. Apply(r) /\ TraceRoutes(e) /\ KeepStale
    BY <1>9 DEF Receive
  <2> HIDE DEF r
  <2>3. tunnel' = r.tunnel /\ tunnel' \in Tunnel
    BY <1>0, <2>1, <2>2, ApplyType DEF ReceiveEffect
  <2>4. SameTable(tunnel, tunnel')
          /\ \A n \in NodeId : RouteKeptOrLearnt(tunnel, tunnel', e, n)
    BY <2>1, <2>3 DEF ReceiveEffect
  <2> SUFFICES ASSUME NEW n \in NodeId,
                      tunnel'.remoteNodeIdToPeerIdx[n] # NotFound, n \notin stale'
               PROVE  LET i == tunnel'.remoteNodeIdToPeerIdx[n]
                      IN  /\ i \in 1..Len(tunnel'.mPeers)
                          /\ tunnel'.mPeers[i].endpoint = origin'[n]
                          /\ Connected(tunnel', i)
    BY DEF RouteSound, Routes, Connected
  <2> DEFINE i == tunnel'.remoteNodeIdToPeerIdx[n]
  <2>5. origin'[n] = IF Routes[n] = NotFound THEN e ELSE origin[n]
    BY <1>0, <2>2, <2>3, TraceRoutesType
  <2>6. CASE RouteKept(tunnel, tunnel', n)
    <3>1. /\ i = Routes[n]
          /\ \A j \in 1..Len(tunnel.mPeers) :
                j = i /\ Connected(tunnel, j) => Connected(tunnel', j)
      BY <2>6 DEF RouteKept, Routes
    <3>2. n \notin stale
      BY <2>2 DEF KeepStale
    <3> HIDE DEF i
    <3>3. /\ i \in 1..Len(tunnel.mPeers)
          /\ tunnel.mPeers[i].endpoint = origin[n]
          /\ Connected(tunnel, i)
      BY <3>1, <3>2 DEF RouteSound, i
    <3>4. origin'[n] = origin[n]
      BY <2>5, <3>1 DEF i
    <3> QED  BY <2>4, <3>1, <3>3, <3>4 DEF SameTable, i
  <2>7. CASE /\ Routes[n] = NotFound
             /\ Known(tunnel, e)
             /\ i = tunnel.mEndpointToPeerIdx[e]
             /\ Connected(tunnel', tunnel.mEndpointToPeerIdx[e])
    <3>1. i \in 1..Len(tunnel.mPeers) /\ tunnel.mPeers[i].endpoint = e
      BY <1>0, <2>7 DEF InBounds, PeerOf
    <3> HIDE DEF i
    <3> QED  BY <2>4, <2>5, <2>7, <3>1 DEF SameTable, i
  <2> QED  BY <2>4, <2>6, <2>7 DEF RouteKeptOrLearnt, Routes
<1>10. ASSUME Tick PROVE RouteSound'
  <2>1. SameTable(tunnel, tunnel') /\ \A n \in NodeId : RouteKept(tunnel, tunnel', n)
    BY <1>10, <1>0, AgeProperties DEF Tick
  <2> QED  BY <1>10, <2>1, KeptRoutesAreSound DEF Tick
<1>11. ASSUME NEW e \in Endpoint, CallAddPeer(e) \/ CallRemovePeer(e)
                  \/ Decide(e, "accept") \/ Decide(e, "reject")
       PROVE  RouteSound'
  BY <1>1, <1>11 DEF CallAddPeer, CallRemovePeer, Decide
<1>12. ASSUME StopSayBye \/ RunListen PROVE RouteSound'
  BY <1>1, <1>12 DEF StopSayBye, RunListen
<1>13. ASSUME NEW m \in Outgoing, CallForward(m) PROVE RouteSound'
  BY <1>1, <1>13 DEF CallForward
<1>14. ASSUME RunMaintain \/ TimerFires PROVE RouteSound'
  BY <1>8, <1>14 DEF RunMaintain, TimerFires
<1>15. ASSUME UNCHANGED vars PROVE RouteSound'
  BY <1>1, <1>15 DEF vars
<1> QED  BY <1>2, <1>3, <1>5, <1>6, <1>7, <1>9, <1>10, <1>11, <1>12, <1>13, <1>14,
            <1>15 DEF Next, AppStep, IoStep

\* A route that no removePeer left behind leads to the connected peer that taught
\* it, whatever peers are added, removed, time out or say BYE in between.
THEOREM RoutesSound == Spec => []RouteSound
BY TableInvariance, RouteInit, RouteStep, PTL DEF Spec

\* Every step but CallForward sends control messages or nothing.
LEMMA UnicastStep ==
    TableInv /\ RouteSound /\ UnicastToOrigin /\ [Next]_vars => UnicastToOrigin'
<1> SUFFICES ASSUME TableInv, RouteSound, UnicastToOrigin, [Next]_vars
             PROVE  UnicastToOrigin'
  OBVIOUS
<1>0. tunnel \in Tunnel /\ InBounds(tunnel) /\ tasks \in Seq(Task) /\ TypeOK
  BY DEF TableInv, TypeOK, IndexInBounds
<1>1. ASSUME \A d \in sent' : d.msg.type \in ControlType PROVE UnicastToOrigin'
  BY <1>1 DEF UnicastToOrigin, ControlType
<1>2. ASSUME sent' = {} PROVE UnicastToOrigin'
  BY <1>2 DEF UnicastToOrigin
<1>3. ASSUME NEW e \in Endpoint, NEW type \in ControlType, sent' \subseteq {ControlTo(type, e)}
      PROVE  UnicastToOrigin'
  <2>1. ControlTo(type, e).msg.type = type
    BY DEF ControlTo, Control
  <2> QED  BY <1>1, <1>3, <2>1
<1>4. ASSUME StopSayBye PROVE UnicastToOrigin'
  BY <1>0, <1>1, <1>4, StopByesType DEF StopSayBye
<1>5. ASSUME RunAdd PROVE UnicastToOrigin'
  <2> DEFINE e == Head(tasks).endpoint
  <2>1. e \in Endpoint
    BY <1>5, <1>0, HeadTask DEF RunAdd, NextTask
  <2>2. sent' = AddPeer(tunnel, e).sent
    BY <1>5 DEF RunAdd, Apply
  <2> HIDE DEF e
  <2> QED  BY <1>0, <1>3, <2>1, <2>2, AddPeerProperties DEF ControlType
<1>6. ASSUME RunRemove PROVE UnicastToOrigin'
  <2> DEFINE e == Head(tasks).endpoint
  <2>1. e \in Endpoint
    BY <1>6, <1>0, HeadTask DEF RunRemove, NextTask
  <2>2. sent' = RemovePeer(tunnel, e).sent
    BY <1>6 DEF RunRemove, Apply
  <2> HIDE DEF e
  <2> QED  BY <1>0, <1>3, <2>1, <2>2, RemovePeerProperties DEF ControlType
<1>7. ASSUME RunDecision PROVE UnicastToOrigin'
  <2> DEFINE e == Head(tasks).endpoint
  <2>1. e \in Endpoint
    BY <1>7, <1>0, HeadTask DEF RunDecision, NextTask
  <2>2. sent' = IF Head(tasks).kind = "accept" THEN Accept(tunnel, e).sent
                ELSE Reject(tunnel, e).sent
    BY <1>7 DEF RunDecision, Apply
  <2> HIDE DEF e
  <2>3. Accept(tunnel, e).sent \subseteq {ControlTo("TUNNEL_HELLO", e)}
          /\ Reject(tunnel, e).sent = {}
    BY <1>0, <2>1, AcceptProperties, RejectProperties
  <2> QED  BY <1>2, <1>3, <2>1, <2>2, <2>3 DEF ControlType
<1>8. ASSUME Maintain PROVE UnicastToOrigin'
  BY <1>0, <1>1, <1>8, RunMaintenanceEffect DEF Maintain, Apply
<1>9. ASSUME NEW e \in Endpoint, NEW m \in Incoming, Receive(e, m) PROVE UnicastToOrigin'
  <2>1. ReceiveEffect(tunnel, e, HandleReceive(tunnel, e, m))
    BY <1>0, IncomingType, HandleReceiveEffect
  <2> QED  BY <1>1, <1>9, <2>1 DEF Receive, Apply, ReceiveEffect
<1>10. ASSUME NEW m \in Outgoing, CallForward(m) PROVE UnicastToOrigin'
  <2>1. CASE sent' = {}
    BY <1>2, <2>1
  <2>2. CASE sent' = Forward(tunnel, m)
    <3> SUFFICES ASSUME NEW d \in Forward(tunnel, m),
                        d.msg.type \in {"UNICAST", "MEASUREMENT_PING"},
                        d.msg.to \notin stale
                 PROVE  d.dst = origin[d.msg.to]
      BY <1>10, <2>2 DEF UnicastToOrigin, CallForward
    <3>1. /\ d.msg.to = m.to
          /\ m.to # NoNode
          /\ Routes[m.to] \in DOMAIN tunnel.mPeers
          /\ d.dst = tunnel.mPeers[Routes[m.to]].endpoint
      BY <1>0, IncomingType, ForwardProperties DEF Routes
    <3>2. m.to \in NodeId
      BY <3>1 DEF Outgoing
    <3>3. Routes[m.to] # NotFound
      <4>1. DOMAIN tunnel.mPeers = 1..Len(tunnel.mPeers)
        BY <1>0 DEF Tunnel
      <4> QED  BY <3>1, <4>1 DEF NotFound
    <3> QED  BY <3>1, <3>2, <3>3 DEF RouteSound
  <2> QED  BY <1>10, <2>1, <2>2 DEF CallForward
<1>11. ASSUME NEW e \in Endpoint, CallAddPeer(e) \/ CallRemovePeer(e)
                  \/ Decide(e, "accept") \/ Decide(e, "reject")
       PROVE  UnicastToOrigin'
  BY <1>2, <1>11 DEF CallAddPeer, CallRemovePeer, Decide
<1>12. ASSUME StopBegin \/ StopEnd \/ RunListen \/ Tick PROVE UnicastToOrigin'
  BY <1>2, <1>12 DEF StopBegin, StopEnd, RunListen, Tick
<1>13. ASSUME RunMaintain \/ TimerFires PROVE UnicastToOrigin'
  BY <1>8, <1>13 DEF RunMaintain, TimerFires
<1>14. ASSUME UNCHANGED vars PROVE UnicastToOrigin'
  BY <1>14 DEF vars, UnicastToOrigin
<1> QED  BY <1>4, <1>5, <1>6, <1>7, <1>9, <1>10, <1>11, <1>12, <1>13, <1>14
         DEF Next, AppStep, IoStep

\* UNICAST and MEASUREMENT_PING go to the peer their node id was learnt from,
\* except along a stale route.
THEOREM UnicastsReachOrigin == Spec => []UnicastToOrigin
<1>1. Init => UnicastToOrigin
  BY DEF Init, UnicastToOrigin
<1> QED  BY <1>1, TableInvariance, RoutesSound, UnicastStep, PTL DEF Spec

-----------------------------------------------------------------------------
(* The unknown-peer callback.                                              *)

\* A task appended at the end leaves the earlier ones where they are.
LEMMA AppendedTask ==
    ASSUME tasks \in Seq(Task), NEW task \in Task, tasks' = Append(tasks, task)
    PROVE  /\ DOMAIN tasks = 1..Len(tasks) /\ Len(tasks) \in Nat
           /\ DOMAIN tasks' = 1..(Len(tasks) + 1)
           /\ \A i \in DOMAIN tasks : tasks'[i] = tasks[i]
           /\ tasks'[Len(tasks) + 1] = task
OBVIOUS

\* Taking the oldest task moves the others one place to the front.
LEMMA RemainingTasks ==
    ASSUME tasks \in Seq(Task), tasks # <<>>, tasks' = Tail(tasks)
    PROVE  /\ DOMAIN tasks = 1..Len(tasks) /\ Len(tasks) \in Nat /\ Len(tasks) > 0
           /\ DOMAIN tasks' = 1..(Len(tasks) - 1)
           /\ \A i \in DOMAIN tasks' : tasks'[i] = tasks[i + 1]
           /\ Head(tasks) = tasks[1]
OBVIOUS

\* The bookkeeping of prompts looks at three things only; steps that leave them
\* alone keep it.
LEMMA PromptsKept ==
    ASSUME PromptOnce, stopping' # "done" => stopping # "done",
           UNCHANGED <<tasks, asked>>,
           stopping' # "done" => tunnel'.mPendingPeers = tunnel.mPendingPeers
    PROVE  PromptOnce'
BY DEF PromptOnce, OneDecisionPending, DecisionPosted

\* A task that is no decision comes to the queue.
LEMMA PromptsKeptByPost ==
    ASSUME TypeOK, PromptOnce, UNCHANGED <<tunnel, asked, stopping>>,
           NEW task \in Task, task.kind \notin {"accept", "reject"},
           tasks' = Append(tasks, task)
    PROVE  PromptOnce'
<1> SUFFICES ASSUME stopping # "done", NEW e \in Endpoint PROVE OneDecisionPending(e)'
  BY DEF PromptOnce
<1>1. OneDecisionPending(e)
  BY DEF PromptOnce
<1>2. tasks \in Seq(Task)
  BY DEF TypeOK
<1>3. /\ DOMAIN tasks \subseteq DOMAIN tasks'
      /\ \A i \in DOMAIN tasks : DecisionPosted(e, i)' <=> DecisionPosted(e, i)
      /\ \A i \in DOMAIN tasks' : DecisionPosted(e, i)' => i \in DOMAIN tasks
  BY <1>2, AppendedTask DEF DecisionPosted
<1> QED  BY <1>1, <1>3 DEF OneDecisionPending

\* The IO thread takes a task that is no decision and leaves mPendingPeers alone.
LEMMA PromptsKeptByTake ==
    ASSUME TypeOK, PromptOnce, UNCHANGED <<asked, stopping>>,
           tasks # <<>>, Head(tasks).kind \notin {"accept", "reject"},
           tasks' = Tail(tasks), tunnel'.mPendingPeers = tunnel.mPendingPeers
    PROVE  PromptOnce'
<1> SUFFICES ASSUME stopping # "done", NEW e \in Endpoint PROVE OneDecisionPending(e)'
  BY DEF PromptOnce
<1>1. OneDecisionPending(e)
  BY DEF PromptOnce
<1>2. tasks \in Seq(Task)
  BY DEF TypeOK
<1>3. /\ \A i \in DOMAIN tasks' : /\ i \in Nat
                                  /\ i + 1 \in DOMAIN tasks
                                  /\ DecisionPosted(e, i)' <=> DecisionPosted(e, i + 1)
      /\ \A i \in DOMAIN tasks : DecisionPosted(e, i) =>
            /\ i \in Nat /\ i - 1 \in DOMAIN tasks' /\ (i - 1) + 1 = i
  BY <1>2, RemainingTasks DEF DecisionPosted
<1> DEFINE posted == \E i \in DOMAIN tasks : DecisionPosted(e, i)
           left   == \E i \in DOMAIN tasks' : DecisionPosted(e, i)'
<1>4. left <=> posted
  BY <1>3
<1>5. \A i, j \in DOMAIN tasks' : DecisionPosted(e, i)' /\ DecisionPosted(e, j)' => i = j
  BY <1>1, <1>3 DEF OneDecisionPending
<1> QED  BY <1>1, <1>4, <1>5 DEF OneDecisionPending

\* The user answers: the open callback of e becomes a posted decision.
LEMMA PromptsAnswered ==
    ASSUME TypeOK, PromptOnce, NEW f \in Endpoint, NEW d \in {"accept", "reject"},
           Decide(f, d)
    PROVE  PromptOnce'
<1> SUFFICES ASSUME stopping # "done", NEW e \in Endpoint PROVE OneDecisionPending(e)'
  BY DEF PromptOnce, Decide
<1> DEFINE task == [kind |-> d, endpoint |-> f]
<1>1. OneDecisionPending(e) /\ asked[e] \in Nat /\ asked[f] \in Nat /\ asked[f] > 0
  BY DEF PromptOnce, TypeOK, Decide
<1>2. tasks \in Seq(Task) /\ task \in Task /\ tasks' = Append(tasks, task)
  BY DEF TypeOK, Decide, Post, Task, DecisionTask
<1>3. task.endpoint = f /\ task.kind \in {"accept", "reject"}
  OBVIOUS
<1>4. tunnel' = tunnel /\ asked' = [asked EXCEPT ![f] = @ - 1] /\ asked \in [Endpoint -> Nat]
  BY DEF Decide, TypeOK
<1> HIDE DEF task
<1>n. PICK n \in Nat : n = Len(tasks) + 1
  BY <1>2
<1>5. /\ DOMAIN tasks \subseteq DOMAIN tasks'
      /\ n \in DOMAIN tasks' /\ n \notin DOMAIN tasks
      /\ \A i \in DOMAIN tasks : DecisionPosted(e, i)' <=> DecisionPosted(e, i)
      /\ \A i \in DOMAIN tasks' : i \in DOMAIN tasks \/ i = n
      /\ DecisionPosted(e, n)' <=> e = f
  BY <1>2, <1>3, <1>n, AppendedTask DEF DecisionPosted
<1>6. CASE e = f
  <2>1. asked[e] = 1 /\ asked'[e] = 0
    BY <1>1, <1>4, <1>6 DEF OneDecisionPending
  <2>2. \A i \in DOMAIN tasks : ~DecisionPosted(e, i)
    BY <1>1, <2>1 DEF OneDecisionPending
  <2> QED  BY <1>1, <1>4, <1>5, <1>6, <2>1, <2>2 DEF OneDecisionPending
<1>7. CASE e # f
  <2>1. asked'[e] = asked[e]
    BY <1>4, <1>7
  <2> QED  BY <1>1, <1>4, <1>5, <1>7, <2>1 DEF OneDecisionPending
<1> QED  BY <1>6, <1>7

\* The IO thread runs a decision: its endpoint is no longer pending.
LEMMA PromptsSettled ==
    ASSUME TypeOK, PromptOnce, UNCHANGED <<asked, stopping>>, tasks # <<>>,
           Head(tasks).kind \in {"accept", "reject"}, tasks' = Tail(tasks),
           tunnel'.mPendingPeers = tunnel.mPendingPeers \ {Head(tasks).endpoint}
    PROVE  PromptOnce'
<1> SUFFICES ASSUME stopping # "done", NEW e \in Endpoint PROVE OneDecisionPending(e)'
  BY DEF PromptOnce
<1>1. OneDecisionPending(e)
  BY DEF PromptOnce
<1>2. tasks \in Seq(Task)
  BY DEF TypeOK
<1>3. /\ \A i \in DOMAIN tasks' : /\ i \in Nat /\ i # 0
                                  /\ i + 1 \in DOMAIN tasks
                                  /\ DecisionPosted(e, i)' <=> DecisionPosted(e, i + 1)
      /\ \A i \in DOMAIN tasks :
            i \in Nat /\ (i = 1 \/ (i - 1 \in DOMAIN tasks' /\ (i - 1) + 1 = i))
      /\ 1 \in DOMAIN tasks
      /\ DecisionPosted(e, 1) <=> e = Head(tasks).endpoint
  BY <1>2, RemainingTasks DEF DecisionPosted
<1>4. \A i, j \in DOMAIN tasks' : DecisionPosted(e, i)' /\ DecisionPosted(e, j)' => i = j
  BY <1>1, <1>3 DEF OneDecisionPending
<1>5. CASE e = Head(tasks).endpoint
  <2>1. asked[e] # 1
    BY <1>1, <1>3, <1>5 DEF OneDecisionPending
  <2>2. \A i \in DOMAIN tasks' : ~DecisionPosted(e, i)'
    <3> SUFFICES ASSUME NEW i \in DOMAIN tasks', DecisionPosted(e, i)' PROVE FALSE
      OBVIOUS
    <3>1. DecisionPosted(e, i + 1) /\ i + 1 \in DOMAIN tasks /\ DecisionPosted(e, 1)
      BY <1>3, <1>5
    <3>2. i + 1 = 1
      BY <1>1, <1>3, <3>1 DEF OneDecisionPending
    <3> QED  BY <1>3, <3>2
  <2> QED  BY <1>1, <1>4, <1>5, <2>1, <2>2 DEF OneDecisionPending
<1>6. CASE e # Head(tasks).endpoint
  <2> DEFINE posted == \E i \in DOMAIN tasks : DecisionPosted(e, i)
             left   == \E i \in DOMAIN tasks' : DecisionPosted(e, i)'
  <2>1. left <=> posted
    <3>1. \A i \in DOMAIN tasks : DecisionPosted(e, i) => i # 1
      BY <1>3, <1>6
    <3> QED  BY <1>3, <3>1
  <2> QED  BY <1>1, <1>4, <1>6, <2>1 DEF OneDecisionPending
<1> QED  BY <1>5, <1>6

\* A datagram arrives: the callback is called for an endpoint with no decision
\* open, which is then pending.
LEMMA PromptsAsked ==
    ASSUME TypeOK, PromptOnce, UNCHANGED <<tasks, stopping>>, NEW f \in Endpoint,
           NEW r \in Result, Apply(r), PromptRecorded(tunnel, r, f)
    PROVE  PromptOnce'
<1> SUFFICES ASSUME stopping # "done", NEW e \in Endpoint PROVE OneDecisionPending(e)'
  BY DEF PromptOnce
<1>1. OneDecisionPending(e)
  BY DEF PromptOnce
<1>2. /\ tunnel' = r.tunnel /\ asked[e] \in Nat
      /\ asked'[e] = asked[e] + (IF e \in r.prompt THEN 1 ELSE 0)
  BY DEF Apply, TypeOK
<1>3. CASE e \in r.prompt
  <2>1. e \notin tunnel.mPendingPeers /\ e \in tunnel'.mPendingPeers
    BY <1>2, <1>3 DEF PromptRecorded
  <2>2. asked[e] = 0 /\ asked'[e] = 1 /\ \A i \in DOMAIN tasks : ~DecisionPosted(e, i)
    BY <1>1, <1>2, <1>3, <2>1 DEF OneDecisionPending
  <2> QED  BY <2>1, <2>2 DEF OneDecisionPending, DecisionPosted
<1>4. CASE e \notin r.prompt
  <2>1. asked'[e] = asked[e]
    BY <1>2, <1>4
  <2>2. e \in tunnel'.mPendingPeers <=> e \in tunnel.mPendingPeers
    BY <1>2, <1>4 DEF PromptRecorded
  <2> QED  BY <1>1, <2>1, <2>2 DEF OneDecisionPending, DecisionPosted
<1> QED  BY <1>3, <1>4

\* A handler that prompts nobody leaves the open callbacks alone.
LEMMA NoPrompt ==
    ASSUME TypeOK, NEW r \in Result, Apply(r), r.prompt = {}
    PROVE  asked' = asked
BY DEF Apply, TypeOK

\* One step per action; each is an instance of one of the lemmas above.
LEMMA PromptStep == TableInv /\ PromptOnce /\ [Next]_vars => PromptOnce'
<1> SUFFICES ASSUME TableInv, PromptOnce, [Next]_vars PROVE PromptOnce'
  OBVIOUS
<1>0. tunnel \in Tunnel /\ InBounds(tunnel) /\ tasks \in Seq(Task) /\ TypeOK
  BY DEF TableInv, TypeOK, IndexInBounds
<1>1. ASSUME NEW e \in Endpoint, NEW kind \in {"add", "remove"}, tasks' = Post(kind, e),
             UNCHANGED <<tunnel, asked, stopping>>
      PROVE  PromptOnce'
  <2>1. [kind |-> kind, endpoint |-> e] \in Task
    BY DEF Task
  <2> QED  BY <1>0, <1>1, <2>1, PromptsKeptByPost DEF Post
<1>2. ASSUME NEW e \in Endpoint, CallAddPeer(e) \/ CallRemovePeer(e) PROVE PromptOnce'
  BY <1>1, <1>2 DEF CallAddPeer, CallRemovePeer
<1>3. ASSUME NEW e \in Endpoint, NEW d \in {"accept", "reject"}, Decide(e, d)
      PROVE  PromptOnce'
  BY <1>0, <1>3, PromptsAnswered
<1>4. ASSUME StopBegin PROVE PromptOnce'
  <2>1. tunnel'.mPendingPeers = tunnel.mPendingPeers
    BY <1>0, <1>4, StopFlagProperties DEF StopBegin
  <2> QED  BY <1>4, <2>1, PromptsKept DEF StopBegin
<1>5. ASSUME StopSayBye \/ StopEnd PROVE PromptOnce'
  BY <1>5, PromptsKept DEF StopSayBye, StopEnd
<1>6. ASSUME RunAdd PROVE PromptOnce'
  <2> DEFINE e == Head(tasks).endpoint
             r == AddPeer(tunnel, e)
  <2>1. e \in Endpoint
    BY <1>6, <1>0, HeadTask DEF RunAdd, NextTask
  <2>2. Apply(r)
    BY <1>6 DEF RunAdd
  <2> HIDE DEF e
  <2>3. r \in Result /\ r.prompt = {} /\ r.tunnel.mPendingPeers = tunnel.mPendingPeers
    BY <1>0, <2>1, AddPeerProperties
  <2> HIDE DEF r
  <2>4. asked' = asked /\ tunnel' = r.tunnel
    BY <1>0, <2>2, <2>3, NoPrompt DEF Apply
  <2> QED  BY <1>0, <1>6, <2>3, <2>4, PromptsKeptByTake DEF RunAdd, NextTask
<1>7. ASSUME RunRemove PROVE PromptOnce'
  <2> DEFINE e == Head(tasks).endpoint
             r == RemovePeer(tunnel, e)
  <2>1. e \in Endpoint
    BY <1>7, <1>0, HeadTask DEF RunRemove, NextTask
  <2>2. Apply(r)
    BY <1>7 DEF RunRemove
  <2> HIDE DEF e
  <2>3. r \in Result /\ r.prompt = {} /\ r.tunnel.mPendingPeers = tunnel.mPendingPeers
    BY <1>0, <2>1, RemovePeerProperties
  <2> HIDE DEF r
  <2>4. asked' = asked /\ tunnel' = r.tunnel
    BY <1>0, <2>2, <2>3, NoPrompt DEF Apply
  <2> QED  BY <1>0, <1>7, <2>3, <2>4, PromptsKeptByTake DEF RunRemove, NextTask
<1>8. ASSUME RunDecision PROVE PromptOnce'
  <2> DEFINE e == Head(tasks).endpoint
             r == IF Head(tasks).kind = "accept" THEN Accept(tunnel, e)
                  ELSE Reject(tunnel, e)
  <2>1. e \in Endpoint /\ tasks # <<>> /\ Head(tasks).kind \in {"accept", "reject"}
    BY <1>8, <1>0, HeadTask DEF RunDecision, NextTask
  <2>2. Apply(r)
    BY <1>8 DEF RunDecision
  <2> HIDE DEF e
  <2>3. /\ r \in Result /\ r.prompt = {}
        /\ r.tunnel.mPendingPeers = tunnel.mPendingPeers \ {e}
    BY <1>0, <2>1, AcceptProperties, RejectProperties
  <2> HIDE DEF r
  <2>4. asked' = asked /\ tunnel' = r.tunnel
    BY <1>0, <2>2, <2>3, NoPrompt DEF Apply
  <2> QED  BY <1>0, <1>8, <2>1, <2>3, <2>4, PromptsSettled DEF RunDecision, e
<1>9. ASSUME RunListen PROVE PromptOnce'
  BY <1>0, <1>9, PromptsKeptByTake DEF RunListen, NextTask
<1>10. ASSUME Maintain PROVE asked' = asked /\ tunnel'.mPendingPeers = tunnel.mPendingPeers
  BY <1>0, <1>10, RunMaintenanceEffect, NoPrompt DEF Maintain, Apply
<1>11. ASSUME RunMaintain PROVE PromptOnce'
  BY <1>0, <1>10, <1>11, PromptsKeptByTake DEF RunMaintain, Maintain, NextTask
<1>12. ASSUME TimerFires PROVE PromptOnce'
  BY <1>10, <1>12, PromptsKept DEF TimerFires, Maintain
<1>13. ASSUME NEW e \in Endpoint, NEW m \in Incoming, Receive(e, m) PROVE PromptOnce'
  <2> DEFINE r == HandleReceive(tunnel, e, m)
  <2>1. ReceiveEffect(tunnel, e, r)
    BY <1>0, IncomingType, HandleReceiveEffect
  <2>2. Apply(r) /\ UNCHANGED <<tasks, stopping>>
    BY <1>13 DEF Receive
  <2> HIDE DEF r
  <2> QED  BY <1>0, <2>1, <2>2, PromptsAsked DEF ReceiveEffect
<1>14. ASSUME NEW m \in Outgoing, CallForward(m) PROVE PromptOnce'
  BY <1>14, PromptsKept DEF CallForward
<1>15. ASSUME Tick PROVE PromptOnce'
  <2>1. tunnel'.mPendingPeers = tunnel.mPendingPeers
    BY <1>0, <1>15, AgeProperties DEF Tick
  <2> QED  BY <1>15, <2>1, PromptsKept DEF Tick
<1>16. ASSUME UNCHANGED vars PROVE PromptOnce'
  BY <1>16, PromptsKept DEF vars
<1> QED  BY <1>2, <1>3, <1>4, <1>5, <1>6, <1>7, <1>8, <1>9, <1>11, <1>12, <1>13,
            <1>14, <1>15, <1>16 DEF Next, AppStep, IoStep

\* A peer waits for exactly one decision while it is pending: handleUnknownPeer
\* asks nobody twice, and every pending peer has somebody to decide about it.
THEOREM OnePromptPerPeer == Spec => []PromptOnce
<1>1. Init => PromptOnce
  <2> SUFFICES ASSUME Init PROVE PromptOnce
    OBVIOUS
  <2>1. tunnel.mPendingPeers = {}
    BY InitialPeersAssumption, NewTunnelProperties DEF Init
  <2>2. \A e \in Endpoint, i \in DOMAIN tasks : ~DecisionPosted(e, i)
    BY DEF Init, DecisionPosted
  <2> QED  BY <2>1, <2>2 DEF Init, PromptOnce, OneDecisionPending
<1> QED  BY <1>1, TableInvariance, PromptStep, PTL DEF Spec

-----------------------------------------------------------------------------
(* Datagrams after the stop.                                               *)

ListenPosted(i) == tasks[i].kind = "listen"

\* Why one late datagram is the most: there is one receive, either outstanding
\* or to be started by the one listen task; it is started again only while the
\* tunnel runs, so a late datagram uses it up.
LateInv ==
    /\ \A i, j \in DOMAIN tasks : ListenPosted(i) /\ ListenPosted(j) => i = j
    /\ \A i \in DOMAIN tasks : ListenPosted(i) => ~armed /\ late = 0
    /\ armed => late = 0
    /\ tunnel.is_running => late = 0
    /\ OneLateReceive

\* Steps that neither receive nor touch listen tasks keep it.
LEMMA LateKept ==
    ASSUME LateInv, UNCHANGED <<armed, late>>, tunnel'.is_running => tunnel.is_running,
           UNCHANGED tasks
    PROVE  LateInv'
BY DEF LateInv, ListenPosted, OneLateReceive

\* Nobody but the constructor posts a listen task.
LEMMA LateKeptByPost ==
    ASSUME TypeOK, LateInv, UNCHANGED <<tunnel, armed, late>>,
           NEW task \in Task, task.kind # "listen", tasks' = Append(tasks, task)
    PROVE  LateInv'
<1>1. tasks \in Seq(Task)
  BY DEF TypeOK
<1>2. /\ \A i \in DOMAIN tasks : ListenPosted(i)' <=> ListenPosted(i)
      /\ \A i \in DOMAIN tasks' : ListenPosted(i)' => i \in DOMAIN tasks
  BY <1>1, AppendedTask DEF ListenPosted
<1> QED  BY <1>2 DEF LateInv, OneLateReceive

\* The IO thread takes a task other than listen.
LEMMA LateKeptByTake ==
    ASSUME TypeOK, LateInv, UNCHANGED <<armed, late>>,
           tunnel'.is_running => tunnel.is_running,
           tasks # <<>>, tasks' = Tail(tasks)
    PROVE  LateInv'
<1>1. tasks \in Seq(Task)
  BY DEF TypeOK
<1>2. \A i \in DOMAIN tasks' : /\ i \in Nat /\ i + 1 \in DOMAIN tasks
                               /\ ListenPosted(i)' <=> ListenPosted(i + 1)
  BY <1>1, RemainingTasks DEF ListenPosted
<1>3. \A i, j \in DOMAIN tasks' : ListenPosted(i)' /\ ListenPosted(j)' => i = j
  BY <1>2 DEF LateInv
<1> QED  BY <1>2, <1>3 DEF LateInv, OneLateReceive

\* A receive uses up the one that is outstanding; a running tunnel starts another.
LEMMA LateStep == TableInv /\ LateInv /\ [Next]_vars => LateInv'
<1> SUFFICES ASSUME TableInv, LateInv, [Next]_vars PROVE LateInv'
  OBVIOUS
<1>0. tunnel \in Tunnel /\ InBounds(tunnel) /\ tasks \in Seq(Task) /\ TypeOK
  BY DEF TableInv, TypeOK, IndexInBounds
<1>1. ASSUME NEW e \in Endpoint, NEW kind \in {"add", "remove", "accept", "reject"},
             tasks' = Post(kind, e), UNCHANGED <<tunnel, armed, late>>
      PROVE  LateInv'
  <2>1. [kind |-> kind, endpoint |-> e] \in Task
    BY DEF Task, DecisionTask
  <2> QED  BY <1>0, <1>1, <2>1, LateKeptByPost DEF Post
<1>2. ASSUME NEW e \in Endpoint, CallAddPeer(e) \/ CallRemovePeer(e)
                  \/ Decide(e, "accept") \/ Decide(e, "reject")
      PROVE  LateInv'
  BY <1>1, <1>2 DEF CallAddPeer, CallRemovePeer, Decide
<1>3. ASSUME StopBegin PROVE LateInv'
  BY <1>0, <1>3, LateKept, StopFlagProperties DEF StopBegin
<1>4. ASSUME StopSayBye \/ StopEnd PROVE LateInv'
  BY <1>0, <1>4, LateKept, StopClearProperties DEF StopSayBye, StopEnd
<1>5. ASSUME RunAdd PROVE LateInv'
  <2>1. Head(tasks).endpoint \in Endpoint /\ tasks # <<>>
    BY <1>5, <1>0, HeadTask DEF RunAdd, NextTask
  <2>2. tunnel'.is_running = tunnel.is_running
    BY <1>0, <1>5, <2>1, AddPeerProperties DEF RunAdd, Apply
  <2> QED  BY <1>0, <1>5, <2>1, <2>2, LateKeptByTake DEF RunAdd
<1>6. ASSUME RunRemove PROVE LateInv'
  <2>1. Head(tasks).endpoint \in Endpoint /\ tasks # <<>>
    BY <1>6, <1>0, HeadTask DEF RunRemove, NextTask
  <2>2. tunnel'.is_running = tunnel.is_running
    BY <1>0, <1>6, <2>1, RemovePeerProperties DEF RunRemove, Apply
  <2> QED  BY <1>0, <1>6, <2>1, <2>2, LateKeptByTake DEF RunRemove
<1>7. ASSUME RunDecision PROVE LateInv'
  <2>1. Head(tasks).endpoint \in Endpoint /\ tasks # <<>>
    BY <1>7, <1>0, HeadTask DEF RunDecision, NextTask
  <2>2. tunnel'.is_running = tunnel.is_running
    BY <1>0, <1>7, <2>1, AcceptProperties, RejectProperties DEF RunDecision, Apply
  <2> QED  BY <1>0, <1>7, <2>1, <2>2, LateKeptByTake DEF RunDecision
<1>8. ASSUME RunListen PROVE LateInv'
  <2>1. /\ DOMAIN tasks' = 1..(Len(tasks) - 1) /\ Len(tasks) \in Nat
        /\ 1 \in DOMAIN tasks /\ ListenPosted(1)
        /\ \A i \in DOMAIN tasks' : /\ i \in Nat /\ i # 0 /\ i + 1 \in DOMAIN tasks
                                    /\ ListenPosted(i)' <=> ListenPosted(i + 1)
    BY <1>0, <1>8, RemainingTasks DEF RunListen, NextTask, ListenPosted
  <2>2. \A i \in DOMAIN tasks' : ~ListenPosted(i)'
    <3> SUFFICES ASSUME NEW i \in DOMAIN tasks', ListenPosted(i)' PROVE FALSE
      OBVIOUS
    <3>1. i + 1 = 1
      BY <2>1 DEF LateInv
    <3> QED  BY <2>1, <3>1
  <2>3. late = 0
    BY <2>1 DEF LateInv
  <2> QED  BY <1>8, <2>2, <2>3 DEF RunListen, LateInv, OneLateReceive
<1>9. ASSUME Maintain PROVE tunnel'.is_running = tunnel.is_running /\ UNCHANGED <<armed, late>>
  BY <1>0, <1>9, RunMaintenanceEffect DEF Maintain, Apply
<1>10. ASSUME RunMaintain \/ TimerFires PROVE LateInv'
  BY <1>0, <1>9, <1>10, LateKept, LateKeptByTake DEF RunMaintain, TimerFires, NextTask
<1>11. ASSUME NEW e \in Endpoint, NEW m \in Incoming, Receive(e, m) PROVE LateInv'
  <2>1. tunnel'.is_running = tunnel.is_running
    <3>1. ReceiveEffect(tunnel, e, HandleReceive(tunnel, e, m))
      BY <1>0, IncomingType, HandleReceiveEffect
    <3> QED  BY <1>11, <3>1 DEF Receive, Apply, ReceiveEffect
  <2>2. /\ armed /\ late = 0 /\ \A i \in DOMAIN tasks : ~ListenPosted(i)
    BY <1>11 DEF Receive, LateInv
  <2>3. \A i \in DOMAIN tasks' : ~ListenPosted(i)'
    BY <1>11, <2>2 DEF Receive, ListenPosted
  <2>4. /\ armed' <=> tunnel.is_running
        /\ late' = IF tunnel.is_running THEN 0 ELSE 1
    BY <1>11, <2>2, <1>0 DEF Receive, Rearm, TypeOK, Tunnel
  <2> QED  BY <2>1, <2>3, <2>4 DEF LateInv, OneLateReceive
<1>12. ASSUME NEW m \in Outgoing, CallForward(m) PROVE LateInv'
  BY <1>12, LateKept DEF CallForward
<1>13. ASSUME Tick PROVE LateInv'
  BY <1>0, <1>13, LateKept, AgeProperties DEF Tick
<1>14. ASSUME UNCHANGED vars PROVE LateInv'
  BY <1>14, LateKept DEF vars
<1> QED  BY <1>2, <1>3, <1>4, <1>5, <1>6, <1>7, <1>8, <1>10, <1>11, <1>12, <1>13, <1>14
         DEF Next, AppStep, IoStep

\* At most one datagram is handled after is_running was cleared.
THEOREM LateReceiveBound == Spec => []OneLateReceive
<1>1. Init => LateInv
  BY DEF Init, LateInv, ListenPosted, OneLateReceive
<1>2. LateInv => OneLateReceive
  BY DEF LateInv
<1> QED  BY <1>1, <1>2, TableInvariance, LateStep, PTL DEF Spec
=============================================================================
