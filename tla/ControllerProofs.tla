-------------------------- MODULE ControllerProofs --------------------------
(* Construction, discovery, counting and destruction of the Controller, for  *)
(* every set of interfaces, peers and sessions, every scenario and any bound *)
(* on gateways and posted tasks.  The state falls into three parts that each *)
(* have an inductive invariant: what is queued on the io_context, who refers *)
(* to which gateway, and the peer counts.                                    *)
EXTENDS Controller, SequencesExt, Integers, TLAPS, FiniteSetTheorems

\* What is left when the front has been taken.
LEMMA TailPositions ==
    ASSUME NEW S, NEW s \in Seq(S), s # <<>>
    PROVE  /\ Tail(s) \in Seq(S)
           /\ Len(s) \in Nat /\ 1 \in DOMAIN s
           /\ Head(s) = s[1] /\ Head(s) \in S
           /\ DOMAIN s = 1..Len(s)
           /\ DOMAIN Tail(s) = 1..(Len(s) - 1)
           /\ \A p \in DOMAIN Tail(s) : /\ p \in Nat /\ p >= 1
                                        /\ p + 1 \in DOMAIN s
                                        /\ Tail(s)[p] = s[p + 1]
           /\ \A p \in DOMAIN s : p = 1 \/ (p - 1 \in DOMAIN Tail(s) /\ Tail(s)[p - 1] = s[p])
OBVIOUS

\* Append, position by position.
LEMMA AppendPositions ==
    ASSUME NEW S, NEW s \in Seq(S), NEW x \in S
    PROVE  /\ Append(s, x) \in Seq(S)
           /\ Append(s, x) # <<>>
           /\ DOMAIN s = 1..Len(s) /\ Len(s) \in Nat
           /\ DOMAIN Append(s, x) = 1..(Len(s) + 1)
           /\ Append(s, x)[Len(s) + 1] = x
           /\ \A p \in DOMAIN s : p \in DOMAIN Append(s, x) /\ Append(s, x)[p] = s[p]
           /\ Head(Append(s, x)) = IF s = <<>> THEN x ELSE Head(s)
OBVIOUS

\* ~Controller has not posted its task yet.
Early == {"constructing", "constructed", "flagged", "gateways_stopped", "stopped"}

\* The gateways are listening: stop_listening has not come to them yet.
Listening == {"constructing", "constructed", "flagged"}

Kind == TaskKind \cup {"none", "receive", "timer"}

-----------------------------------------------------------------------------
(* The queue of the io_context.                                             *)

QueueTypes ==
    /\ scenario \in Scenarios
    /\ phase \in Phase
    /\ tasks \in Seq(TaskKind)
    /\ io \in [kind : Kind, again : BOOLEAN]
    /\ io.kind = "none" => io = Idle

FlagTypes ==
    /\ running \in BOOLEAN /\ stopped \in BOOLEAN
    /\ armed \in BOOLEAN /\ timer \in BOOLEAN

\* ~Controller's task is in the queue only after it was posted, and what waits
\* for it goes on only after it ran.
BarrierInv ==
    /\ stopped => phase \notin Early
    /\ ~Held => stopped
    /\ phase \in Early => \A k \in DOMAIN tasks : tasks[k] # "barrier"

\* The shared-memory loop is queued or runs, but once at most, and so is
\* ~Controller's task.
ShmInv ==
    scenario.shm =>
        /\ ~armed /\ ~timer
        /\ io.kind \in {"none", "listen"}
        /\ \A k \in DOMAIN tasks : tasks[k] \in {"listen", "barrier"}
        /\ \A j, k \in DOMAIN tasks : tasks[j] = tasks[k] => j = k
        /\ io.kind = "listen" => \A k \in DOMAIN tasks : tasks[k] = "barrier"

\* What a UdpTunnel's constructor and the application have posted stands before
\* ~Controller's task: behind it, and once it has run, there are only decisions.
UdpInv ==
    ~scenario.shm =>
        /\ \A j, k \in DOMAIN tasks : tasks[j] = "barrier" /\ j < k => tasks[k] = "decision"
        /\ stopped => /\ \A k \in DOMAIN tasks : tasks[k] = "decision"
                      /\ io.kind \in {"none", "receive", "timer", "decision"}

\* Nobody posts behind MaxTasks tasks but ~Controller, and that once.
LengthInv ==
    /\ Len(tasks) <= MaxTasks + 1
    /\ phase \in Early => Len(tasks) <= MaxTasks

QueueInv ==
    /\ QueueTypes
    /\ FlagTypes
    /\ BarrierInv
    /\ ShmInv
    /\ UdpInv
    /\ LengthInv
    /\ NoLateTask

-----------------------------------------------------------------------------
(* Who refers to which gateway.                                             *)

DiscoveryTypes ==
    /\ up \subseteq Interface
    /\ created \in [Interface -> 0..MaxGateways]
    /\ discovered = [i \in Interface |-> discovered[i]]
    /\ \A i \in Interface : discovered[i] \in {NoGateway, <<i, created[i]>>}
    /\ gateways \subseteq Gateway
    /\ surrogates \subseteq Gateway
    /\ late \subseteq Gateway
    /\ scanning \in BOOLEAN

\* Only a listed gateway has surrogates; what is left after stop_listening dealt
\* with the surrogates and the list came later.
OwnershipInv ==
    /\ phase \in Listening => surrogates \subseteq gateways
    /\ phase \notin Listening => surrogates \subseteq late
    /\ phase \notin Listening \cup {"gateways_stopped"} => gateways \subseteq late
    /\ stopped => /\ phase \notin Listening
                  /\ \A i \in Interface : discovered[i] # NoGateway => discovered[i] \in late

GatewayInv == DiscoveryTypes /\ OwnershipInv

-----------------------------------------------------------------------------
(* The peer counts.                                                         *)

CountTypes ==
    /\ peers \in [Side -> [Peer -> [Interface -> Session \cup {NoSession}]]]
    /\ sessionId \in [Side -> Session \cup {NoSession}]
    /\ counter \in [Side -> 0..Cardinality(Peer)]
    /\ shown \in [Side -> 0..Cardinality(Peer)]
    /\ recounted \in [Side -> BOOLEAN]
    /\ hears \in BOOLEAN

\* As long as shown is up to date, so is the counter that decides whether the
\* application is told.
CounterInv ==
    \A s \in Side : recounted[s] => counter[s] = CountOf(peers[s], sessionId[s])

CountInv == CountTypes /\ CounterInv /\ CountsShown

ControllerInv == QueueInv /\ GatewayInv /\ CountInv

-----------------------------------------------------------------------------
(* Proofs about the peer counts.                                            *)

\* A count never exceeds the number of peers.
LEMMA CountType ==
    ASSUME NEW registry, NEW session
    PROVE  CountOf(registry, session) \in 0..Cardinality(Peer)
<1> DEFINE S == {p \in Peer : session # NoSession /\ \E i \in Interface :
                                                         registry[p][i] = session}
<1>1. IsFiniteSet(S) /\ Cardinality(S) <= Cardinality(Peer)
  <2>1. S \in SUBSET Peer
    OBVIOUS
  <2> QED  BY <2>1, FS_Subset, PeerAssumption
<1>2. Cardinality(S) \in Nat /\ Cardinality(Peer) \in Nat
  BY <1>1, FS_CardinalityType, PeerAssumption
<1> HIDE DEF S
<1>3. Cardinality(S) \in 0..Cardinality(Peer)
  BY <1>1, <1>2
<1> USE DEF S
<1> QED  BY <1>3 DEF CountOf

\* Nobody was seen and nothing shown.
LEMMA CountInit == Init => CountInv
<1> SUFFICES ASSUME Init PROVE CountInv
  OBVIOUS
<1>1. Cardinality(Peer) \in Nat
  BY FS_CardinalityType, PeerAssumption
<1>2. CountTypes
  <2>1. 0 \in 0..Cardinality(Peer)
    BY <1>1
  <2>2. counter \in [Side -> 0..Cardinality(Peer)] /\ shown \in [Side -> 0..Cardinality(Peer)]
    BY <2>1 DEF Init
  <2>3. recounted \in [Side -> BOOLEAN] /\ hears \in BOOLEAN
    BY DEF Init
  <2>4. /\ peers \in [Side -> [Peer -> [Interface -> Session \cup {NoSession}]]]
        /\ sessionId \in [Side -> Session \cup {NoSession}]
    BY DEF Init
  <2> QED  BY <2>2, <2>3, <2>4 DEF CountTypes
<1>3. ASSUME NEW s \in Side PROVE CountOf(peers[s], sessionId[s]) = 0
  <2>1. {p \in Peer : sessionId[s] # NoSession /\ \E i \in Interface :
                                                   peers[s][p][i] = sessionId[s]} = {}
    BY <1>3 DEF Init
  <2> QED  BY <2>1, FS_EmptySet DEF CountOf
<1>4. CounterInv /\ CountsShown
  BY <1>3 DEF Init, CounterInv, CountsShown
<1> QED  BY <1>2, <1>4 DEF CountInv

\* SessionPeerCounter tells the application, or the counts of the side are no
\* longer vouched for.
LEMMA CountPeersStep ==
    ASSUME CountInv, NEW s \in Side, CountPeers(s), hears' = hears,
           peers' \in [Side -> [Peer -> [Interface -> Session \cup {NoSession}]]],
           sessionId' \in [Side -> Session \cup {NoSession}],
           \A t \in Side : t # s => peers'[t] = peers[t] /\ sessionId'[t] = sessionId[t]
    PROVE  CountInv'
<1> DEFINE count == CountOf(peers'[s], sessionId'[s])
           New(t) == CountOf(peers'[t], sessionId'[t])
<1>1. \A t \in Side : New(t) \in 0..Cardinality(Peer)
  BY CountType
<1>2. \A t \in Side : t # s => New(t) = CountOf(peers[t], sessionId[t])
  OBVIOUS
<1>3. /\ counter' = [counter EXCEPT ![s] = count]
      /\ shown' = IF counter[s] # count /\ hears THEN [t \in Side |-> New(t)] ELSE shown
      /\ recounted' = [recounted EXCEPT ![s] = IF counter[s] # count THEN hears ELSE recounted[s]]
  BY DEF CountPeers, Exchange, Told
<1>4. count = New(s)
  OBVIOUS
<1> HIDE DEF New, count
<1>5. counter' \in [Side -> 0..Cardinality(Peer)] /\ shown' \in [Side -> 0..Cardinality(Peer)]
  BY <1>1, <1>3, <1>4 DEF CountInv, CountTypes
<1>6. recounted' \in [Side -> BOOLEAN] /\ hears' \in BOOLEAN
  BY <1>3 DEF CountInv, CountTypes
<1>7. \A t \in Side : recounted'[t] =>
         counter'[t] = New(t) /\ shown'[t] = New(t)
  <2> SUFFICES ASSUME NEW t \in Side, recounted'[t]
               PROVE  counter'[t] = New(t) /\ shown'[t] = New(t)
    OBVIOUS
  <2>1. CASE t = s /\ counter[s] # count
    <3>1. hears /\ counter'[t] = count /\ shown'[t] = New(t)
      BY <1>3, <2>1 DEF CountInv, CountTypes
    <3> QED  BY <1>4, <2>1, <3>1
  <2>2. CASE t # s \/ counter[s] = count
    <3>1. recounted[t]
      BY <1>3, <2>2 DEF CountInv, CountTypes
    <3>2. counter[t] = CountOf(peers[t], sessionId[t]) /\ shown[t] = counter[t]
      BY <3>1 DEF CountInv, CounterInv, CountsShown
    <3>3. counter'[t] = counter[t] /\ counter[t] = New(t)
      BY <1>2, <1>3, <1>4, <2>2, <3>2 DEF CountInv, CountTypes
    <3>4. shown'[t] = New(t)
      BY <1>3, <3>2, <3>3
    <3> QED  BY <3>3, <3>4
  <2> QED  BY <2>1, <2>2
<1>8. CounterInv' /\ CountsShown'
  BY <1>7 DEF CounterInv, CountsShown, New
<1> QED  BY <1>5, <1>6, <1>8 DEF CountInv, CountTypes

\* An entry that is set to a session which another entry of the peer has anyway
\* changes no count, unless it took the peer out of a third session.
LEMMA SameCount ==
    ASSUME CountTypes, NEW s \in Side, NEW p \in Peer, NEW i \in Interface,
           NEW session \in Session, NEW j \in Interface, peers[s][p][j] = session,
           peers[s][p][i] \in {NoSession, session},
           peers' = [peers EXCEPT ![s][p][i] = session]
    PROVE  CountOf(peers'[s], sessionId[s]) = CountOf(peers[s], sessionId[s])
<1> DEFINE id == sessionId[s]
           Old(q) == id # NoSession /\ \E k \in Interface : peers[s][q][k] = id
           New(q) == id # NoSession /\ \E k \in Interface : peers'[s][q][k] = id
<1> HIDE DEF id
<1>1. \A q \in Peer, k \in Interface :
         peers'[s][q][k] = IF q = p /\ k = i THEN session ELSE peers[s][q][k]
  BY DEF CountTypes
<1>2. \A q \in Peer : q # p => (Old(q) <=> New(q))
  BY <1>1
<1>3. CASE id = session
  <2>1. peers'[s][p][j] = session
    BY <1>1
  <2> QED  BY <1>2, <1>3, <2>1 DEF CountOf, id
<1>4. CASE id # session
  <2>1. Old(p) <=> New(p)
    BY <1>1, <1>4
  <2> QED  BY <1>2, <2>1 DEF CountOf, id
<1> QED  BY <1>3, <1>4

\* Whoever comes, changes its session or its tempo is counted, or the count of
\* the side is no longer vouched for.
LEMMA SawPeerCount ==
    ASSUME CountInv, NEW s \in Side, NEW p \in Peer, NEW i \in Interface,
           NEW session \in Session, NEW newTimeline \in BOOLEAN,
           SawPeer(s, p, i, session, newTimeline)
    PROVE  CountInv'
<1>1. /\ peers' = [peers EXCEPT ![s][p][i] = session]
      /\ sessionId' = IF newTimeline THEN [sessionId EXCEPT ![s] = session] ELSE sessionId
      /\ hears' = hears
  BY DEF SawPeer
<1>2. /\ peers' \in [Side -> [Peer -> [Interface -> Session \cup {NoSession}]]]
      /\ sessionId' \in [Side -> Session \cup {NoSession}]
      /\ \A t \in Side : t # s => peers'[t] = peers[t] /\ sessionId'[t] = sessionId[t]
  BY <1>1 DEF CountInv, CountTypes
<1>3. CASE \A j \in Interface : peers[s][p][j] # session
  <2>1. CountPeers(s)
    BY <1>3 DEF SawPeer
  <2> QED  BY <1>1, <1>2, <2>1, CountPeersStep
<1>4. CASE \E j \in Interface : peers[s][p][j] = session
  <2>1. /\ recounted' = [recounted EXCEPT ![s] = /\ recounted[s]
                                                 /\ sessionId'[s] = sessionId[s]
                                                 /\ peers[s][p][i] \in {NoSession, session}]
        /\ counter' = counter /\ shown' = shown
    BY <1>4 DEF SawPeer
  <2>2. PICK j \in Interface : peers[s][p][j] = session
    BY <1>4
  <2>3. ASSUME NEW t \in Side, recounted'[t]
        PROVE  recounted[t] /\ CountOf(peers'[t], sessionId'[t]) = CountOf(peers[t], sessionId[t])
    <3>1. recounted[t]
      BY <2>1, <2>3 DEF CountInv, CountTypes
    <3>2. CASE t = s
      <4>1. sessionId'[s] = sessionId[s] /\ peers[s][p][i] \in {NoSession, session}
        BY <2>1, <2>3, <3>2 DEF CountInv, CountTypes
      <4>2. CountOf(peers'[s], sessionId[s]) = CountOf(peers[s], sessionId[s])
        BY <1>1, <2>2, <4>1, SameCount DEF CountInv
      <4> QED  BY <3>1, <3>2, <4>1, <4>2
    <3>3. CASE t # s
      BY <1>2, <3>1, <3>3
    <3> QED  BY <3>2, <3>3
  <2>4. recounted' \in [Side -> BOOLEAN]
    BY <2>1 DEF CountInv, CountTypes
  <2>5. CountTypes'
    BY <1>1, <1>2, <2>1, <2>4 DEF CountInv, CountTypes
  <2>6. CounterInv' /\ CountsShown'
    BY <2>1, <2>3 DEF CountInv, CounterInv, CountsShown
  <2> QED  BY <2>5, <2>6 DEF CountInv
<1> QED  BY <1>3, <1>4

\* Whoever goes is counted.
LEMMA PeerGoneCount ==
    ASSUME CountInv, NEW s \in Side, NEW p \in Peer, NEW i \in Interface, PeerGone(s, p, i)
    PROVE  CountInv'
<1>1. /\ peers' = [peers EXCEPT ![s][p][i] = NoSession]
      /\ sessionId' = sessionId /\ hears' = hears /\ CountPeers(s)
  BY DEF PeerGone
<1>2. /\ peers' \in [Side -> [Peer -> [Interface -> Session \cup {NoSession}]]]
      /\ sessionId' \in [Side -> Session \cup {NoSession}]
      /\ \A t \in Side : t # s => peers'[t] = peers[t] /\ sessionId'[t] = sessionId[t]
  BY <1>1 DEF CountInv, CountTypes
<1> QED  BY <1>1, <1>2, CountPeersStep

\* Steps that do not count leave the counts right.
LEMMA CountKept == CountInv /\ UNCHANGED counting => CountInv'
BY DEF counting, CountInv, CountTypes, CounterInv, CountsShown

\* The callback is set; the counts stay.
LEMMA CallbackCount == CountInv /\ SetNumPeersCallback => CountInv'
<1> SUFFICES ASSUME CountInv, SetNumPeersCallback PROVE CountInv'
  OBVIOUS
<1>1. hears' \in BOOLEAN /\ UNCHANGED <<peers, sessionId, counter, shown, recounted>>
  BY DEF SetNumPeersCallback
<1> QED  BY <1>1 DEF CountInv, CountTypes, CounterInv, CountsShown

\* Peers that come, go and change session keep what was counted and what was shown in step.
LEMMA CountNext == CountInv /\ [Next]_vars => CountInv'
<1> SUFFICES ASSUME CountInv, [Next]_vars PROVE CountInv'
  OBVIOUS
<1>1. ASSUME NEW s \in Side, NEW p \in Peer, NEW i \in Interface, NEW session \in Session,
             NEW newTimeline \in BOOLEAN, SawPeer(s, p, i, session, newTimeline)
      PROVE  CountInv'
  BY <1>1, SawPeerCount
<1>2. ASSUME NEW s \in Side, NEW p \in Peer, NEW i \in Interface, PeerGone(s, p, i)
      PROVE  CountInv'
  BY <1>2, PeerGoneCount
<1>3. CASE SetNumPeersCallback
  BY <1>3, CallbackCount
<1>4. CASE Construct \/ Rescan \/ RescanTooLate \/ \E i \in Interface : InterfaceChanges(i)
  BY <1>4, CountKept DEF Construct, Rescan, RescanTooLate, InterfaceChanges
<1>5. CASE BeginTask \/ BeginReceive \/ BeginTimer
  BY <1>5, CountKept DEF BeginTask, BeginReceive, BeginTimer, Begin
<1>6. CASE Finish \/ RunBarrier \/ \E g \in Gateway : SurrogatesExpire(g)
  BY <1>6, CountKept DEF Finish, RunBarrier, SurrogatesExpire
<1>7. CASE CallPeer \/ Decide
  BY <1>7, CountKept DEF CallPeer, Decide
<1>8. CASE Destructor
  BY <1>8, CountKept DEF Destructor, StopFlag, StopGateways, StopClear, PostBarrier,
                         Reset, StopIo, Join
<1>9. CASE UNCHANGED vars
  BY <1>9, CountKept DEF vars
<1> QED  BY <1>1, <1>2, <1>3, <1>4, <1>5, <1>6, <1>7, <1>8, <1>9 DEF Next, Ended

-----------------------------------------------------------------------------
(* Proofs about the queue.                                                  *)

\* The first task is taken.
LEMMA TakeTask ==
    ASSUME QueueInv, tasks # <<>>, tasks' = Tail(tasks)
    PROVE  /\ tasks' \in Seq(TaskKind) /\ Head(tasks) \in TaskKind
           /\ 1 \in DOMAIN tasks /\ Head(tasks) = tasks[1]
           /\ \A k \in DOMAIN tasks' : /\ k \in Nat /\ k >= 1 /\ k + 1 \in DOMAIN tasks
                                       /\ tasks'[k] = tasks[k + 1]
           /\ Len(tasks) \in Nat /\ Len(tasks') = Len(tasks) - 1
<1>1. tasks \in Seq(TaskKind)
  BY DEF QueueInv, QueueTypes
<1>2. Len(Tail(tasks)) = Len(tasks) - 1
  BY <1>1
<1> QED  BY <1>1, <1>2, TailPositions

\* A task is posted.
LEMMA PostTask ==
    ASSUME QueueInv, NEW task \in TaskKind, tasks' = Append(tasks, task)
    PROVE  /\ tasks' \in Seq(TaskKind) /\ Len(tasks) \in Nat
           /\ Len(tasks') = Len(tasks) + 1
           /\ \A k \in DOMAIN tasks' : \/ k \in DOMAIN tasks /\ tasks'[k] = tasks[k]
                                       \/ k = Len(tasks) + 1 /\ tasks'[k] = task
           /\ \A k \in DOMAIN tasks : k \in Nat /\ k < Len(tasks) + 1
<1>1. tasks \in Seq(TaskKind)
  BY DEF QueueInv, QueueTypes
<1>2. Len(Append(tasks, task)) = Len(tasks) + 1
  BY <1>1
<1> QED  BY <1>1, <1>2, AppendPositions

\* The shared-memory loop leaves room for ~Controller's task.
LEMMA ShmLength == QueueTypes /\ ShmInv /\ BarrierInv /\ scenario.shm => LengthInv
<1> SUFFICES ASSUME QueueTypes, ShmInv, BarrierInv, scenario.shm PROVE LengthInv
  OBVIOUS
<1> DEFINE n == Len(tasks)
<1>1. n \in Nat /\ DOMAIN tasks = 1..n
  BY DEF QueueTypes
<1>2. MaxTasks \in Nat /\ MaxTasks >= 2
  BY BoundsAssumption
<1> HIDE DEF n
<1>3. n <= 2
  <2> SUFFICES ASSUME n >= 3 PROVE FALSE
    BY <1>1
  <2>1. 1 \in DOMAIN tasks /\ 2 \in DOMAIN tasks /\ 3 \in DOMAIN tasks
    BY <1>1
  <2> QED  BY <2>1 DEF ShmInv
<1>4. ASSUME phase \in Early PROVE n <= 1
  <2> SUFFICES ASSUME n >= 2 PROVE FALSE
    BY <1>1
  <2>1. 1 \in DOMAIN tasks /\ 2 \in DOMAIN tasks
    BY <1>1
  <2> QED  BY <1>4, <2>1 DEF ShmInv, BarrierInv
<1>5. n <= MaxTasks + 1 /\ (phase \in Early => n <= MaxTasks)
  BY <1>1, <1>2, <1>3, <1>4
<1> QED  BY <1>5 DEF LengthInv, n

\* Nothing is posted before the constructor runs.
LEMMA QueueInit == Init => QueueInv
<1> SUFFICES ASSUME Init PROVE QueueInv
  OBVIOUS
<1>1. QueueTypes
  <2>1. io \in [kind : Kind, again : BOOLEAN]
    BY DEF Init, Idle, Kind
  <2>2. <<"listen">> \in Seq(TaskKind) /\ <<"listen", "maintain">> \in Seq(TaskKind)
    BY DEF TaskKind
  <2> QED  BY <2>1, <2>2 DEF Init, QueueTypes, Phase
<1>2. FlagTypes
  BY DEF Init, FlagTypes
<1>3. /\ scenario.shm => tasks = <<"listen">>
      /\ ~scenario.shm => tasks = <<"listen", "maintain">>
  BY DEF Init
<1>4. BarrierInv
  BY <1>3 DEF Init, BarrierInv, Early, Held
<1>5. ShmInv
  BY <1>3 DEF Init, ShmInv, Idle
<1>6. UdpInv
  BY <1>3 DEF Init, UdpInv, Idle
<1>7. LengthInv
  <2>1. Len(<<"listen">>) = 1 /\ Len(<<"listen", "maintain">>) = 2
    OBVIOUS
  <2>2. Len(tasks) = 1 \/ Len(tasks) = 2
    BY <1>3, <2>1
  <2>3. MaxTasks \in Nat /\ MaxTasks >= 2
    BY BoundsAssumption
  <2> DEFINE n == Len(tasks)
  <2>4. n = 1 \/ n = 2
    BY <2>2
  <2> HIDE DEF n
  <2>5. n <= MaxTasks /\ n <= MaxTasks + 1
    BY <2>3, <2>4
  <2> QED  BY <2>5 DEF LengthInv, n
<1>8. NoLateTask
  BY DEF Init, NoLateTask
<1> QED  BY <1>1, <1>2, <1>4, <1>5, <1>6, <1>7, <1>8 DEF QueueInv

\* The application thread goes on and leaves the queue alone.
LEMMA QueueKept ==
    ASSUME QueueInv, UNCHANGED <<scenario, tunnelVars, stopped, unsafe>>, phase' \in Phase,
           phase \in Early <=> phase' \in Early, Held' => Held, Held => Held'
    PROVE  QueueInv'
BY DEF QueueInv, tunnelVars, QueueTypes, FlagTypes, BarrierInv, ShmInv, UdpInv, LengthInv,
       NoLateTask, Held

\* A destroyed tunnel means that ~Controller's task has run.
LEMMA DestroyedLate == QueueInv /\ ~TunnelAlive => stopped
BY DEF QueueInv, BarrierInv, TunnelAlive

\* A handler that runs on a destroyed tunnel is one of those that nothing waits
\* for.
LEMMA BeginUnsafe ==
    ASSUME QueueInv, NEW kind, Begin(kind),
           scenario.shm => kind = "listen",
           ~scenario.shm /\ stopped => kind \in {"receive", "timer", "decision"}
    PROVE  NoLateTask'
<1>1. /\ scenario' = scenario
      /\ unsafe' = IF TunnelAlive THEN unsafe ELSE unsafe \cup {kind}
  BY DEF Begin
<1>2. CASE TunnelAlive
  BY <1>1, <1>2 DEF QueueInv, NoLateTask
<1>3. CASE ~TunnelAlive
  BY <1>1, <1>3, DestroyedLate DEF QueueInv, NoLateTask
<1> QED  BY <1>2, <1>3

\* What Begin does to the queue's part of the state.
LEMMA BeginFacts ==
    ASSUME QueueInv, NEW kind \in Kind \ {"none"}, Begin(kind)
    PROVE  /\ io'.kind = kind /\ kind # "none" /\ io' \in [kind : Kind, again : BOOLEAN]
           /\ scenario' = scenario /\ phase' = phase /\ running' = running /\ stopped' = stopped
<1>1. io' = [kind |-> kind, again |-> running] /\ running \in BOOLEAN
  BY DEF Begin, QueueInv, FlagTypes
<1> QED  BY <1>1 DEF Begin

\* A posted task begins.
LEMMA BeginTaskQueue == QueueInv /\ BeginTask => QueueInv'
<1> SUFFICES ASSUME QueueInv, BeginTask PROVE QueueInv'
  OBVIOUS
<1> DEFINE kind == Head(tasks)
<1>1. /\ io = Idle /\ tasks # <<>> /\ kind # "barrier" /\ tasks' = Tail(tasks)
      /\ Begin(kind) /\ armed' = armed /\ timer' = timer
  BY DEF BeginTask, IoRuns
<1>2. /\ tasks' \in Seq(TaskKind) /\ kind \in TaskKind
      /\ 1 \in DOMAIN tasks /\ kind = tasks[1]
      /\ \A k \in DOMAIN tasks' : /\ k \in Nat /\ k >= 1 /\ k + 1 \in DOMAIN tasks
                                  /\ tasks'[k] = tasks[k + 1]
      /\ Len(tasks) \in Nat /\ Len(tasks') = Len(tasks) - 1
  BY <1>1, TakeTask
<1> HIDE DEF kind
<1>3. kind \in Kind \ {"none"}
  BY <1>2 DEF Kind, TaskKind
<1>4. /\ io'.kind = kind /\ kind # "none" /\ io' \in [kind : Kind, again : BOOLEAN]
      /\ scenario' = scenario /\ phase' = phase /\ running' = running /\ stopped' = stopped
  BY <1>1, <1>3, BeginFacts
<1>5. /\ scenario.shm => kind = "listen"
      /\ ~scenario.shm /\ stopped => kind = "decision"
  BY <1>1, <1>2 DEF QueueInv, ShmInv, UdpInv
<1>6. QueueTypes' /\ FlagTypes'
  BY <1>1, <1>2, <1>4 DEF QueueInv, QueueTypes, FlagTypes
<1>7. BarrierInv'
  BY <1>2, <1>4 DEF QueueInv, BarrierInv, Held
<1>8. ShmInv'
  <2> SUFFICES ASSUME scenario.shm PROVE ShmInv'
    BY <1>4 DEF ShmInv
  <2>1. ~armed' /\ ~timer' /\ io'.kind \in {"none", "listen"}
    BY <1>1, <1>4, <1>5 DEF QueueInv, ShmInv
  <2>2. \A k \in DOMAIN tasks' : tasks'[k] \in {"listen", "barrier"}
    BY <1>2 DEF QueueInv, ShmInv
  <2>3. \A j, k \in DOMAIN tasks' : tasks'[j] = tasks'[k] => j = k
    <3> SUFFICES ASSUME NEW j \in DOMAIN tasks', NEW k \in DOMAIN tasks', tasks'[j] = tasks'[k]
                 PROVE  j = k
      OBVIOUS
    <3>1. j + 1 = k + 1
      BY <1>2 DEF QueueInv, ShmInv
    <3> QED  BY <1>2, <3>1
  <2>4. ASSUME NEW k \in DOMAIN tasks' PROVE tasks'[k] = "barrier"
    <3>1. k + 1 # 1 /\ tasks'[k] = tasks[k + 1] /\ k + 1 \in DOMAIN tasks
      BY <1>2
    <3> QED  BY <1>2, <1>5, <3>1 DEF QueueInv, ShmInv
  <2> QED  BY <2>1, <2>2, <2>3, <2>4 DEF ShmInv
<1>9. UdpInv'
  <2> SUFFICES ASSUME ~scenario.shm PROVE UdpInv'
    BY <1>4 DEF UdpInv
  <2>1. ASSUME NEW j \in DOMAIN tasks', NEW k \in DOMAIN tasks', tasks'[j] = "barrier", j < k
        PROVE  tasks'[k] = "decision"
    <3>1. j + 1 < k + 1
      BY <1>2, <2>1
    <3> QED  BY <1>2, <2>1, <3>1 DEF QueueInv, UdpInv
  <2>2. ASSUME stopped PROVE \A k \in DOMAIN tasks' : tasks'[k] = "decision"
    BY <1>2, <2>2 DEF QueueInv, UdpInv
  <2> QED  BY <1>4, <1>5, <2>1, <2>2 DEF UdpInv
<1>10. LengthInv'
  <2> DEFINE n == Len(tasks)
             m == Len(tasks')
  <2>1. /\ n \in Nat /\ m = n - 1 /\ n <= MaxTasks + 1 /\ (phase \in Early => n <= MaxTasks)
        /\ MaxTasks \in Nat
    BY <1>2, BoundsAssumption DEF QueueInv, LengthInv
  <2> HIDE DEF n, m
  <2>2. m <= MaxTasks + 1 /\ (phase \in Early => m <= MaxTasks)
    BY <2>1
  <2> QED  BY <1>4, <2>2 DEF LengthInv, m
<1>11. NoLateTask'
  BY <1>1, <1>5, BeginUnsafe
<1> QED  BY <1>6, <1>7, <1>8, <1>9, <1>10, <1>11 DEF QueueInv

\* A datagram or the end of a wait: only a UdpTunnel has these.
LEMMA BeginOtherQueue == QueueInv /\ (BeginReceive \/ BeginTimer) => QueueInv'
<1> SUFFICES ASSUME QueueInv, BeginReceive \/ BeginTimer PROVE QueueInv'
  OBVIOUS
<1>1. PICK kind \in {"receive", "timer"} : Begin(kind)
  BY DEF BeginReceive, BeginTimer
<1>2. armed' \in BOOLEAN /\ timer' \in BOOLEAN /\ tasks' = tasks
  BY DEF BeginReceive, BeginTimer, QueueInv, FlagTypes
<1>3. ~scenario.shm
  BY DEF BeginReceive, BeginTimer, QueueInv, ShmInv
<1>4. kind \in Kind \ {"none"}
  BY DEF Kind
<1>5. /\ io'.kind = kind /\ kind # "none" /\ io' \in [kind : Kind, again : BOOLEAN]
      /\ scenario' = scenario /\ phase' = phase /\ running' = running /\ stopped' = stopped
  BY <1>1, <1>4, BeginFacts
<1>6. QueueTypes' /\ FlagTypes'
  BY <1>2, <1>5 DEF QueueInv, QueueTypes, FlagTypes
<1>7. BarrierInv' /\ ShmInv' /\ LengthInv'
  BY <1>2, <1>3, <1>5 DEF QueueInv, BarrierInv, ShmInv, LengthInv, Held
<1>8. UdpInv'
  BY <1>2, <1>5 DEF QueueInv, UdpInv
<1>9. NoLateTask'
  BY <1>1, <1>3, BeginUnsafe
<1> QED  BY <1>6, <1>7, <1>8, <1>9 DEF QueueInv

\* A handler ends and starts itself again.
LEMMA FinishQueue == QueueInv /\ Finish => QueueInv'
<1> SUFFICES ASSUME QueueInv, Finish PROVE QueueInv'
  OBVIOUS
<1>1. PICK again \in {io.again, running} :
         /\ armed' = (armed \/ (TunnelAlive /\ \/ io.kind = "listen" /\ ~scenario.shm
                                               \/ io.kind = "receive" /\ again))
         /\ tasks' = IF scenario.shm /\ io.kind = "listen" /\ again
                     THEN tasks \o Repost ELSE tasks
  BY DEF Finish
<1>2. /\ io' = Idle /\ UNCHANGED <<scenario, phase, running, stopped, unsafe>>
      /\ timer' = (timer \/ (TunnelAlive /\ io.kind \in {"maintain", "timer"} /\ io.again))
  BY DEF Finish
<1>3. io' \in [kind : Kind, again : BOOLEAN] /\ io'.kind = "none"
  BY <1>2 DEF Idle, Kind
<1>4. armed' \in BOOLEAN /\ timer' \in BOOLEAN
  BY <1>1, <1>2
<1>5. FlagTypes' /\ NoLateTask'
  BY <1>2, <1>4 DEF QueueInv, FlagTypes, NoLateTask
<1>6. ASSUME scenario.shm PROVE ~armed' /\ ~timer'
  BY <1>1, <1>2, <1>6 DEF QueueInv, ShmInv
<1>7. CASE tasks' = tasks
  <2>1. QueueTypes' /\ BarrierInv' /\ LengthInv'
    BY <1>2, <1>3, <1>7 DEF QueueInv, QueueTypes, BarrierInv, LengthInv, Held
  <2>2. ShmInv' /\ UdpInv'
    BY <1>2, <1>3, <1>6, <1>7 DEF QueueInv, ShmInv, UdpInv
  <2> QED  BY <1>5, <2>1, <2>2 DEF QueueInv
<1>8. CASE tasks' # tasks
  <2>1. scenario.shm /\ io.kind = "listen" /\ tasks' = tasks \o <<"listen">>
    BY <1>1, <1>8 DEF Repost
  <2>2. tasks' = Append(tasks, "listen")
    BY <2>1 DEF QueueInv, QueueTypes
  <2>3. /\ tasks' \in Seq(TaskKind) /\ Len(tasks) \in Nat
        /\ \A k \in DOMAIN tasks' : \/ k \in DOMAIN tasks /\ tasks'[k] = tasks[k]
                                    \/ k = Len(tasks) + 1 /\ tasks'[k] = "listen"
        /\ \A k \in DOMAIN tasks : tasks[k] = "barrier"
    <3>1. "listen" \in TaskKind
      BY DEF TaskKind
    <3> QED  BY <2>1, <2>2, <3>1, PostTask DEF QueueInv, ShmInv
  <2>4. QueueTypes' /\ BarrierInv'
    BY <1>2, <1>3, <2>3 DEF QueueInv, QueueTypes, BarrierInv, Held
  <2>5. UdpInv'
    BY <1>2, <2>1 DEF UdpInv
  <2>6. ShmInv'
    <3>1. \A k \in DOMAIN tasks' : tasks'[k] \in {"listen", "barrier"}
      BY <2>3
    <3>2. \A j, k \in DOMAIN tasks' : tasks'[j] = tasks'[k] => j = k
      BY <2>1, <2>3 DEF QueueInv, ShmInv
    <3> QED  BY <1>3, <1>6, <2>1, <3>1, <3>2 DEF ShmInv
  <2>7. LengthInv'
    <3>1. scenario'.shm
      BY <1>2, <2>1
    <3>2. QueueTypes' /\ ShmInv' /\ BarrierInv' /\ (scenario.shm)' => LengthInv'
      BY ShmLength, PTL
    <3> QED  BY <2>4, <2>6, <3>1, <3>2
  <2> QED  BY <1>5, <2>4, <2>5, <2>6, <2>7 DEF QueueInv
<1> QED  BY <1>7, <1>8

\* ~Controller's task runs: of a UdpTunnel, only decisions were behind it.
LEMMA BarrierQueue == QueueInv /\ RunBarrier => QueueInv'
<1> SUFFICES ASSUME QueueInv, RunBarrier PROVE QueueInv'
  OBVIOUS
<1>1. /\ io = Idle /\ tasks # <<>> /\ Head(tasks) = "barrier" /\ tasks' = Tail(tasks)
      /\ stopped' = TRUE /\ UNCHANGED <<scenario, phase, running, armed, timer, io, unsafe>>
  BY DEF RunBarrier, IoRuns
<1>2. /\ tasks' \in Seq(TaskKind)
      /\ 1 \in DOMAIN tasks /\ tasks[1] = "barrier"
      /\ \A k \in DOMAIN tasks' : /\ k \in Nat /\ k >= 1 /\ k + 1 \in DOMAIN tasks
                                  /\ tasks'[k] = tasks[k + 1]
      /\ Len(tasks) \in Nat /\ Len(tasks') = Len(tasks) - 1
  BY <1>1, TakeTask
<1>3. io.kind = "none"
  BY <1>1 DEF Idle
<1>4. QueueTypes' /\ FlagTypes' /\ NoLateTask'
  BY <1>1, <1>2 DEF QueueInv, QueueTypes, FlagTypes, NoLateTask
<1>5. phase \notin Early
  BY <1>2 DEF QueueInv, BarrierInv
<1>6. BarrierInv'
  BY <1>1, <1>5 DEF BarrierInv, Held
<1>7. ShmInv'
  <2> SUFFICES ASSUME scenario.shm PROVE ShmInv'
    BY <1>1 DEF ShmInv
  <2>1. \A k \in DOMAIN tasks' : tasks'[k] \in {"listen", "barrier"}
    BY <1>2 DEF QueueInv, ShmInv
  <2>2. \A j, k \in DOMAIN tasks' : tasks'[j] = tasks'[k] => j = k
    <3> SUFFICES ASSUME NEW j \in DOMAIN tasks', NEW k \in DOMAIN tasks', tasks'[j] = tasks'[k]
                 PROVE  j = k
      OBVIOUS
    <3>1. j + 1 = k + 1
      BY <1>2 DEF QueueInv, ShmInv
    <3> QED  BY <1>2, <3>1
  <2>3. ~armed' /\ ~timer' /\ io'.kind = "none"
    BY <1>1, <1>3 DEF QueueInv, ShmInv
  <2> QED  BY <2>1, <2>2, <2>3 DEF ShmInv
<1>8. UdpInv'
  <2> SUFFICES ASSUME ~scenario.shm PROVE UdpInv'
    BY <1>1 DEF UdpInv
  <2>1. ASSUME NEW k \in DOMAIN tasks' PROVE tasks'[k] = "decision"
    <3>1. 1 < k + 1
      BY <1>2
    <3> QED  BY <1>2, <3>1 DEF QueueInv, UdpInv
  <2> QED  BY <1>1, <1>3, <2>1 DEF UdpInv
<1>9. LengthInv'
  <2> DEFINE n == Len(tasks)
             m == Len(tasks')
  <2>1. n \in Nat /\ m = n - 1 /\ n <= MaxTasks + 1 /\ MaxTasks \in Nat
    BY <1>2, BoundsAssumption DEF QueueInv, LengthInv
  <2> HIDE DEF n, m
  <2>2. m <= MaxTasks + 1
    BY <2>1
  <2> QED  BY <1>1, <1>5, <2>2 DEF LengthInv, m
<1> QED  BY <1>4, <1>6, <1>7, <1>8, <1>9 DEF QueueInv

\* A task is posted to a UdpTunnel: a call while the Controller is constructed,
\* a decision at any time.
LEMMA PostQueue ==
    ASSUME QueueInv, NEW task \in {"call", "decision"}, tasks' = Append(tasks, task),
           ~scenario.shm, Len(tasks) < MaxTasks, task = "call" => phase = "constructed",
           UNCHANGED <<scenario, phase, stopped, unsafe, running, armed, timer, io>>
    PROVE  QueueInv'
<1>1. task \in TaskKind
  BY DEF TaskKind
<1>2. /\ tasks' \in Seq(TaskKind) /\ Len(tasks) \in Nat
      /\ Len(tasks') = Len(tasks) + 1
      /\ \A k \in DOMAIN tasks' : \/ k \in DOMAIN tasks /\ tasks'[k] = tasks[k]
                                  \/ k = Len(tasks) + 1 /\ tasks'[k] = task
      /\ \A k \in DOMAIN tasks : k \in Nat /\ k < Len(tasks) + 1
  BY <1>1, PostTask
<1>3. QueueTypes' /\ FlagTypes' /\ NoLateTask' /\ ShmInv'
  BY <1>2 DEF QueueInv, QueueTypes, FlagTypes, NoLateTask, ShmInv
<1>4. BarrierInv'
  BY <1>2 DEF QueueInv, BarrierInv, Held
<1>5. LengthInv'
  <2> DEFINE n == Len(tasks)
             m == Len(tasks')
  <2>1. n \in Nat /\ m = n + 1 /\ n < MaxTasks /\ MaxTasks \in Nat
    BY <1>2, BoundsAssumption
  <2> HIDE DEF n, m
  <2>2. m <= MaxTasks + 1 /\ m <= MaxTasks
    BY <2>1
  <2> QED  BY <2>2 DEF LengthInv, m
<1>6. UdpInv'
  <2>1. ASSUME task = "call"
        PROVE  ~stopped /\ \A k \in DOMAIN tasks : tasks[k] # "barrier"
    BY <2>1 DEF QueueInv, BarrierInv, Early
  <2>2. ASSUME NEW j \in DOMAIN tasks', NEW k \in DOMAIN tasks', tasks'[j] = "barrier", j < k
        PROVE  tasks'[k] = "decision"
    <3>1. j \in DOMAIN tasks /\ tasks[j] = "barrier"
      BY <1>2, <2>2
    <3>2. task = "decision"
      BY <2>1, <3>1
    <3>3. CASE k \in DOMAIN tasks /\ tasks'[k] = tasks[k]
      BY <2>2, <3>1, <3>3 DEF QueueInv, UdpInv
    <3>4. CASE tasks'[k] = task
      BY <3>2, <3>4
    <3> QED  BY <1>2, <3>3, <3>4
  <2>3. ASSUME stopped, NEW k \in DOMAIN tasks' PROVE tasks'[k] = "decision"
    BY <1>2, <2>1, <2>3 DEF QueueInv, UdpInv
  <2> QED  BY <2>2, <2>3 DEF QueueInv, UdpInv
<1> QED  BY <1>3, <1>4, <1>5, <1>6 DEF QueueInv

\* ~Controller posts its task.
LEMMA PostBarrierQueue == QueueInv /\ PostBarrier => QueueInv'
<1> SUFFICES ASSUME QueueInv, PostBarrier PROVE QueueInv'
  OBVIOUS
<1>1. /\ phase = "stopped" /\ phase' = "waiting" /\ tasks' = Append(tasks, "barrier")
      /\ UNCHANGED <<scenario, stopped, unsafe, running, armed, timer, io>>
  BY DEF PostBarrier, Async
<1>2. "barrier" \in TaskKind
  BY DEF TaskKind
<1>3. /\ tasks' \in Seq(TaskKind) /\ Len(tasks) \in Nat
      /\ Len(tasks') = Len(tasks) + 1
      /\ \A k \in DOMAIN tasks' : \/ k \in DOMAIN tasks /\ tasks'[k] = tasks[k]
                                  \/ k = Len(tasks) + 1 /\ tasks'[k] = "barrier"
      /\ \A k \in DOMAIN tasks : k \in Nat /\ k < Len(tasks) + 1
  BY <1>1, <1>2, PostTask
<1>4. /\ ~stopped /\ \A k \in DOMAIN tasks : tasks[k] # "barrier"
      /\ Len(tasks) <= MaxTasks
  BY <1>1 DEF QueueInv, BarrierInv, LengthInv, Early
<1>5. QueueTypes' /\ FlagTypes' /\ NoLateTask'
  BY <1>1, <1>3 DEF QueueInv, QueueTypes, FlagTypes, NoLateTask, Phase
<1>6. BarrierInv'
  BY <1>1, <1>4 DEF BarrierInv, Held, Early
<1>7. LengthInv'
  <2> DEFINE n == Len(tasks)
             m == Len(tasks')
  <2>1. n \in Nat /\ m = n + 1 /\ n <= MaxTasks /\ MaxTasks \in Nat
    BY <1>3, <1>4, BoundsAssumption
  <2> HIDE DEF n, m
  <2>2. m <= MaxTasks + 1
    BY <2>1
  <2> QED  BY <1>1, <2>2 DEF LengthInv, Early, m
<1>8. UdpInv'
  <2>1. ASSUME NEW j \in DOMAIN tasks', NEW k \in DOMAIN tasks', tasks'[j] = "barrier", j < k
        PROVE  FALSE
    <3>1. j = Len(tasks) + 1
      BY <1>3, <1>4, <2>1
    <3>2. k <= Len(tasks) + 1 /\ k \in Nat
      BY <1>3
    <3> QED  BY <1>3, <2>1, <3>1, <3>2
  <2> QED  BY <1>1, <1>4, <2>1 DEF UdpInv
<1>9. ShmInv'
  <2> SUFFICES ASSUME scenario.shm PROVE ShmInv'
    BY <1>1 DEF ShmInv
  <2>1. \A k \in DOMAIN tasks' : tasks'[k] \in {"listen", "barrier"}
    BY <1>3 DEF QueueInv, ShmInv
  <2>2. \A j, k \in DOMAIN tasks' : tasks'[j] = tasks'[k] => j = k
    BY <1>3, <1>4 DEF QueueInv, ShmInv
  <2>3. ~armed' /\ ~timer' /\ io'.kind \in {"none", "listen"}
    BY <1>1 DEF QueueInv, ShmInv
  <2>4. ASSUME io'.kind = "listen", NEW k \in DOMAIN tasks' PROVE tasks'[k] = "barrier"
    BY <1>1, <1>3, <2>4 DEF QueueInv, ShmInv
  <2> QED  BY <2>1, <2>2, <2>3, <2>4 DEF ShmInv
<1> QED  BY <1>5, <1>6, <1>7, <1>8, <1>9 DEF QueueInv

\* mTunnel.reset(), which may catch a handler in the middle.
LEMMA ResetQueue == QueueInv /\ Reset => QueueInv'
<1> SUFFICES ASSUME QueueInv, Reset PROVE QueueInv'
  OBVIOUS
<1>1. /\ phase = "waiting" /\ stopped /\ phase' = "reset"
      /\ UNCHANGED <<scenario, stopped, running, tasks, io>>
  BY DEF Reset
<1>2. /\ armed' \in {armed, FALSE} /\ timer' \in {timer, FALSE}
      /\ unsafe' = unsafe \/ (io # Idle /\ unsafe' = unsafe \cup {io.kind})
  BY DEF Reset
<1>3. QueueTypes' /\ LengthInv' /\ BarrierInv' /\ UdpInv'
  BY <1>1 DEF QueueInv, QueueTypes, LengthInv, BarrierInv, UdpInv, Phase, Early, Held
<1>4. FlagTypes'
  <2>1. armed' \in BOOLEAN /\ timer' \in BOOLEAN
    BY <1>2 DEF QueueInv, FlagTypes
  <2> QED  BY <1>1, <2>1 DEF QueueInv, FlagTypes
<1>5. ShmInv'
  <2>1. ASSUME scenario.shm PROVE ~armed' /\ ~timer'
    <3>1. ~armed /\ ~timer
      BY <2>1 DEF QueueInv, ShmInv
    <3>2. ~armed'
      BY <1>2, <3>1
    <3>3. ~timer'
      BY <1>2, <3>1
    <3> QED  BY <3>2, <3>3
  <2> QED  BY <1>1, <2>1 DEF QueueInv, ShmInv
<1>6. NoLateTask'
  <2>1. CASE unsafe' = unsafe
    BY <1>1, <2>1 DEF QueueInv, NoLateTask
  <2>2. CASE io # Idle /\ unsafe' = unsafe \cup {io.kind}
    <3>1. io.kind # "none"
      BY <2>2 DEF QueueInv, QueueTypes
    <3> QED  BY <1>1, <2>2, <3>1 DEF QueueInv, NoLateTask, UdpInv, ShmInv
  <2> QED  BY <1>2, <2>1, <2>2
<1> QED  BY <1>3, <1>4, <1>5, <1>6 DEF QueueInv

\* stop_listening clears is_running and may be too late for the timer.
LEMMA StopFlagQueue == QueueInv /\ StopFlag => QueueInv'
<1> SUFFICES ASSUME QueueInv, StopFlag PROVE QueueInv'
  OBVIOUS
<1>1. /\ phase = "constructed" /\ phase' = "flagged" /\ running' = FALSE
      /\ timer' \in {timer, FALSE} /\ UNCHANGED <<scenario, stopped, unsafe, tasks, armed, io>>
  BY DEF StopFlag
<1>2. (timer' => timer) /\ timer' \in BOOLEAN
  <2>1. timer' = timer \/ timer' = FALSE
    BY <1>1
  <2>2. CASE timer' = timer
    BY <2>2 DEF QueueInv, FlagTypes
  <2>3. CASE timer' = FALSE
    BY <2>3
  <2> QED  BY <2>1, <2>2, <2>3
<1>3. FlagTypes'
  BY <1>1, <1>2 DEF QueueInv, FlagTypes
<1>4. QueueTypes' /\ BarrierInv' /\ LengthInv' /\ NoLateTask' /\ UdpInv'
  BY <1>1 DEF QueueInv, QueueTypes, BarrierInv, LengthInv, NoLateTask, UdpInv, Phase, Early, Held
<1>5. ShmInv'
  BY <1>1, <1>2 DEF QueueInv, ShmInv
<1> QED  BY <1>3, <1>4, <1>5 DEF QueueInv

\* Whatever posts, starts again or is served: the queue stays as QueueInv says.
LEMMA QueueNext == QueueInv /\ [Next]_vars => QueueInv'
<1> SUFFICES ASSUME QueueInv, [Next]_vars PROVE QueueInv'
  OBVIOUS
<1>1. phase \in Phase
  BY DEF QueueInv, QueueTypes
<1>2. CASE Construct
  BY <1>2, QueueKept DEF Construct, Phase, Early, Held
<1>3. CASE Rescan \/ \E i \in Interface : InterfaceChanges(i)
  BY <1>1, <1>3, QueueKept DEF Rescan, InterfaceChanges, Held
<1>15. CASE RescanTooLate
  BY <1>15 DEF RescanTooLate, tunnelVars, QueueInv, QueueTypes, FlagTypes, BarrierInv, ShmInv,
               UdpInv, LengthInv, NoLateTask, Held
<1>4. CASE BeginTask
  BY <1>4, BeginTaskQueue
<1>5. CASE BeginReceive \/ BeginTimer
  BY <1>5, BeginOtherQueue
<1>6. CASE Finish
  BY <1>6, FinishQueue
<1>7. CASE RunBarrier
  BY <1>7, BarrierQueue
<1>8. CASE \E g \in Gateway : SurrogatesExpire(g)
  BY <1>1, <1>8, QueueKept DEF SurrogatesExpire, Held
<1>9. CASE CallPeer
  BY <1>9, PostQueue DEF CallPeer, Async
<1>10. CASE Decide
  BY <1>10, PostQueue DEF Decide, Async
<1>11. CASE Destructor
  <2>1. CASE StopFlag
    BY <2>1, StopFlagQueue
  <2>2. CASE StopGateways \/ StopClear
    BY <2>2, QueueKept DEF StopGateways, StopClear, Phase, Early, Held
  <2>3. CASE PostBarrier
    BY <2>3, PostBarrierQueue
  <2>4. CASE Reset
    BY <2>4, ResetQueue
  <2>5. CASE StopIo \/ Join
    BY <2>5, QueueKept DEF StopIo, Join, Phase, Early, Held
  <2> QED  BY <1>11, <2>1, <2>2, <2>3, <2>4, <2>5 DEF Destructor
<1>12. CASE \E s \in Side, p \in Peer, i \in Interface :
               \/ \E session \in Session, newTimeline \in BOOLEAN :
                     SawPeer(s, p, i, session, newTimeline)
               \/ PeerGone(s, p, i)
  BY <1>1, <1>12, QueueKept DEF SawPeer, PeerGone, Held
<1>13. CASE SetNumPeersCallback
  BY <1>1, <1>13, QueueKept DEF SetNumPeersCallback, Held
<1>14. CASE UNCHANGED vars
  BY <1>1, <1>14, QueueKept DEF vars, Held
<1> QED  BY <1>2, <1>3, <1>4, <1>5, <1>6, <1>7, <1>8, <1>9, <1>10, <1>11, <1>12, <1>13,
            <1>14, <1>15 DEF Next, Ended

-----------------------------------------------------------------------------
(* Proofs about the gateways.                                               *)

\* There is no gateway before the first scan.
LEMMA GatewayInit == Init => GatewayInv
<1> SUFFICES ASSUME Init PROVE GatewayInv
  OBVIOUS
<1>1. /\ phase = "constructing" /\ up = Interface /\ created = [i \in Interface |-> 0]
      /\ discovered = [i \in Interface |-> NoGateway] /\ gateways = {} /\ surrogates = {}
      /\ late = {} /\ scanning = FALSE /\ stopped = FALSE
  BY DEF Init
<1>2. DiscoveryTypes
  <2>1. 0 \in 0..MaxGateways
    BY BoundsAssumption
  <2> QED  BY <1>1, <2>1 DEF DiscoveryTypes
<1>4. OwnershipInv
  BY <1>1 DEF OwnershipInv, Listening
<1> QED  BY <1>2, <1>4 DEF GatewayInv

\* Nothing happens to the gateways, whatever the application thread does.
LEMMA GatewayKept ==
    ASSUME GatewayInv, UNCHANGED <<stopped, late, discovery>>,
           phase' \in Listening <=> phase \in Listening,
           phase' = "gateways_stopped" <=> phase = "gateways_stopped"
    PROVE  GatewayInv'
BY DEF GatewayInv, discovery, DiscoveryTypes, OwnershipInv

\* What a scan gives up and what it makes.
Given == {i \in Interface \ up : discovered[i] # NoGateway}
Made == {<<i, created[i] + 1>> : i \in Found}

\* A scan makes a gateway for each interface that it finds and gives up those it does not.
LEMMA ScanTypes ==
    ASSUME GatewayInv, Scan
    PROVE  /\ DiscoveryTypes' /\ Made \subseteq Gateway
           /\ \A i \in Interface : created'[i] = IF i \in Found THEN created[i] + 1 ELSE created[i]
           /\ \A i \in Interface : discovered'[i] = CASE i \in Found -> <<i, created[i] + 1>>
                                                      [] i \in Given -> NoGateway
                                                      [] OTHER       -> discovered[i]
           /\ gateways' = gateways \cup Made /\ surrogates' = surrogates
           /\ late' = IF phase \in Listening THEN late ELSE late \cup Made
<1>1. /\ created' = [i \in Interface |-> IF i \in Found THEN created[i] + 1 ELSE created[i]]
      /\ discovered' = [i \in Interface |-> CASE i \in Found -> <<i, created[i] + 1>>
                                              [] i \in Given -> NoGateway
                                              [] OTHER       -> discovered[i]]
      /\ gateways' = gateways \cup Made
      /\ late' = IF phase \in Listening THEN late ELSE late \cup Made
      /\ up' = up /\ surrogates' = surrogates /\ scanning' = TRUE
  BY DEF Scan, GatewayFactory, Found, Given, Made, Listening
<1>2. DiscoveryTypes /\ MaxGateways \in Nat
  BY BoundsAssumption DEF GatewayInv
<1>3. \A i \in Interface : /\ created[i] \in 0..MaxGateways
                           /\ discovered[i] \in {NoGateway, <<i, created[i]>>}
  BY <1>2 DEF DiscoveryTypes
<1>4. \A i \in Found : i \in Interface /\ created[i] + 1 \in 1..MaxGateways
  BY <1>2, <1>3 DEF Found, DiscoveryTypes
<1>5. Made \subseteq Gateway
  BY <1>4 DEF Made, Gateway
<1>6. created' \in [Interface -> 0..MaxGateways]
  <2>1. \A i \in Found : created[i] + 1 \in 0..MaxGateways
    BY <1>2, <1>4
  <2> QED  BY <1>1, <1>3, <2>1
<1>8. \A i \in Interface : discovered'[i] \in {NoGateway, <<i, created'[i]>>}
  <2> SUFFICES ASSUME NEW i \in Interface
               PROVE  discovered'[i] \in {NoGateway, <<i, created'[i]>>}
    OBVIOUS
  <2>1. CASE i \in Found
    <3>1. i \notin Given
      BY <2>1 DEF Found, Given
    <3> QED  BY <1>1, <2>1, <3>1
  <2>2. CASE i \notin Found
    BY <1>1, <1>3, <2>2
  <2> QED  BY <2>1, <2>2
<1>9. discovered' = [i \in Interface |-> discovered'[i]]
  BY <1>1
<1>10. DiscoveryTypes'
  BY <1>1, <1>2, <1>5, <1>6, <1>8, <1>9 DEF DiscoveryTypes
<1> QED  BY <1>1, <1>5, <1>10

\* A scan lists what it makes; after stop_listening, that came late.
LEMMA ScanStep ==
    ASSUME GatewayInv, Scan, stopped' = stopped,
           phase' \in Listening <=> phase \in Listening,
           phase' = "gateways_stopped" <=> phase = "gateways_stopped"
    PROVE  GatewayInv'
<1>1. /\ DiscoveryTypes' /\ Made \subseteq Gateway
      /\ \A i \in Interface : created'[i] = IF i \in Found THEN created[i] + 1 ELSE created[i]
      /\ \A i \in Interface : discovered'[i] = CASE i \in Found -> <<i, created[i] + 1>>
                                                 [] i \in Given -> NoGateway
                                                 [] OTHER       -> discovered[i]
      /\ gateways' = gateways \cup Made /\ surrogates' = surrogates
      /\ late' = IF phase \in Listening THEN late ELSE late \cup Made
  BY ScanTypes
<1>2. ASSUME stopped, NEW i \in Interface, discovered'[i] # NoGateway
      PROVE  discovered'[i] \in late'
  <2>1. late' = late \cup Made
    BY <1>1, <1>2 DEF GatewayInv, OwnershipInv
  <2>2. CASE i \in Found
    <3>1. i \notin Given
      BY <2>2 DEF Found, Given
    <3> QED  BY <1>1, <2>1, <2>2, <3>1 DEF Made
  <2>3. CASE i \notin Found
    <3>1. discovered'[i] = discovered[i]
      BY <1>1, <1>2, <2>3
    <3> QED  BY <1>2, <2>1, <3>1 DEF GatewayInv, OwnershipInv
  <2> QED  BY <2>2, <2>3
<1>3. OwnershipInv'
  BY <1>1, <1>2 DEF GatewayInv, OwnershipInv
<1> QED  BY <1>1, <1>3 DEF GatewayInv

\* A message that came through the tunnel gives surrogates to the listed gateways.
LEMMA BeginGateways ==
    ASSUME GatewayInv, NEW kind, Begin(kind)
    PROVE  GatewayInv'
<1>1. UNCHANGED <<phase, stopped, up, created, discovered, gateways, scanning>>
  BY DEF Begin
<1>2. \/ surrogates' = surrogates /\ late' = late
      \/ /\ surrogates' = surrogates \cup gateways
         /\ late' = IF phase \in Listening THEN late ELSE late \cup gateways
  BY DEF Begin, Listening
<1>3. DiscoveryTypes'
  BY <1>1, <1>2 DEF GatewayInv, DiscoveryTypes
<1>4. OwnershipInv'
  BY <1>1, <1>2 DEF GatewayInv, OwnershipInv
<1> QED  BY <1>3, <1>4 DEF GatewayInv

\* ~Controller's task disables discovery.
LEMMA BarrierGateways ==
    ASSUME QueueInv, GatewayInv, RunBarrier
    PROVE  GatewayInv'
<1>1. /\ discovered' = [i \in Interface |-> NoGateway]
      /\ scanning' \in {scanning, FALSE}
      /\ UNCHANGED <<phase, late, up, created, gateways, surrogates>>
  BY DEF RunBarrier
<1>2. phase \notin Listening
  <2>1. tasks # <<>> /\ Head(tasks) = "barrier" /\ tasks \in Seq(TaskKind)
    BY DEF RunBarrier, QueueInv, QueueTypes
  <2>2. 1 \in DOMAIN tasks /\ tasks[1] = "barrier"
    BY <2>1, TailPositions
  <2> QED  BY <2>2 DEF QueueInv, BarrierInv, Early, Listening
<1>3. DiscoveryTypes' /\ OwnershipInv'
  BY <1>1, <1>2 DEF GatewayInv, DiscoveryTypes, OwnershipInv
<1> QED  BY <1>3 DEF GatewayInv

\* stop_listening takes the surrogates, then the list.
LEMMA StopGatewaysStep ==
    ASSUME GatewayInv, StopGateways \/ StopClear
    PROVE  GatewayInv'
<1>1. CASE StopGateways
  <2>1. /\ phase = "flagged" /\ phase' = "gateways_stopped" /\ surrogates' = surrogates \ gateways
        /\ UNCHANGED <<stopped, late, up, created, discovered, gateways, scanning>>
    BY <1>1 DEF StopGateways
  <2>2. surrogates' = {}
    BY <2>1 DEF GatewayInv, OwnershipInv, Listening
  <2> QED  BY <2>1, <2>2 DEF GatewayInv, DiscoveryTypes, OwnershipInv, Listening
<1>2. CASE StopClear
  <2>1. /\ phase = "gateways_stopped" /\ phase' = "stopped" /\ gateways' = {}
        /\ UNCHANGED <<stopped, late, up, created, discovered, surrogates, scanning>>
    BY <1>2 DEF StopClear, ClearGateways
  <2> QED  BY <2>1 DEF GatewayInv, DiscoveryTypes, OwnershipInv, Listening
<1> QED  BY <1>1, <1>2

\* References to gateways change only as the phase allows.
LEMMA GatewayNext == QueueInv /\ GatewayInv /\ [Next]_vars => GatewayInv'
<1> SUFFICES ASSUME QueueInv, GatewayInv, [Next]_vars PROVE GatewayInv'
  OBVIOUS
<1>1. CASE Construct
  <2>1. /\ phase = "constructing" /\ phase' = "constructed" /\ Scan /\ stopped' = stopped
        /\ ~stopped
    BY <1>1 DEF Construct, QueueInv, BarrierInv, Early
  <2> QED  BY <2>1, ScanStep DEF Listening
<1>2. CASE Rescan
  BY <1>2, ScanStep DEF Rescan
<1>13. CASE RescanTooLate
  BY <1>13, GatewayKept DEF RescanTooLate
<1>3. ASSUME NEW i \in Interface, InterfaceChanges(i) PROVE GatewayInv'
  <2>1. /\ up' = IF i \in up THEN up \ {i} ELSE up \cup {i}
        /\ UNCHANGED <<phase, stopped, late, created, discovered, gateways, surrogates, scanning>>
    BY <1>3 DEF InterfaceChanges
  <2>2. up' \subseteq Interface
    BY <2>1 DEF GatewayInv, DiscoveryTypes
  <2> QED  BY <2>1, <2>2 DEF GatewayInv, DiscoveryTypes, OwnershipInv
<1>4. CASE BeginTask \/ BeginReceive \/ BeginTimer
  BY <1>4, BeginGateways DEF BeginTask, BeginReceive, BeginTimer
<1>5. CASE Finish
  BY <1>5, GatewayKept DEF Finish
<1>6. CASE RunBarrier
  BY <1>6, BarrierGateways
<1>7. ASSUME NEW g \in Gateway, SurrogatesExpire(g) PROVE GatewayInv'
  <2>1. /\ surrogates' = surrogates \ {g}
        /\ UNCHANGED <<phase, stopped, late, up, created, discovered, gateways, scanning>>
    BY <1>7 DEF SurrogatesExpire
  <2> QED  BY <2>1 DEF GatewayInv, DiscoveryTypes, OwnershipInv
<1>8. CASE CallPeer \/ Decide
  BY <1>8, GatewayKept DEF CallPeer, Decide
<1>9. CASE Destructor
  <2>1. CASE StopFlag
    BY <2>1, GatewayKept DEF StopFlag, Listening
  <2>2. CASE StopGateways \/ StopClear
    BY <2>2, StopGatewaysStep
  <2>3. CASE PostBarrier
    BY <2>3, GatewayKept DEF PostBarrier, Listening
  <2>4. CASE Reset
    BY <2>4, GatewayKept DEF Reset, Listening
  <2>5. CASE StopIo \/ Join
    BY <2>5, GatewayKept DEF StopIo, Join, Listening
  <2> QED  BY <1>9, <2>1, <2>2, <2>3, <2>4, <2>5 DEF Destructor
<1>10. CASE \E s \in Side, p \in Peer, i \in Interface :
               \/ \E session \in Session, newTimeline \in BOOLEAN :
                     SawPeer(s, p, i, session, newTimeline)
               \/ PeerGone(s, p, i)
  BY <1>10, GatewayKept DEF SawPeer, PeerGone
<1>11. CASE SetNumPeersCallback
  BY <1>11, GatewayKept DEF SetNumPeersCallback
<1>12. CASE UNCHANGED vars
  BY <1>12, GatewayKept DEF vars
<1> QED  BY <1>1, <1>2, <1>3, <1>4, <1>5, <1>6, <1>7, <1>8, <1>9, <1>10, <1>11, <1>12,
            <1>13 DEF Next, Ended

-----------------------------------------------------------------------------
(* The theorems.                                                            *)

\* The three parts hold together throughout.
LEMMA ControllerInvariance == Spec => []ControllerInv
<1>1. Init => ControllerInv
  BY QueueInit, GatewayInit, CountInit DEF ControllerInv
<1>2. ControllerInv /\ [Next]_vars => ControllerInv'
  BY QueueNext, GatewayNext, CountNext DEF ControllerInv
<1> QED  BY <1>1, <1>2, PTL DEF Spec

\* Every variable of the Controller keeps its type; the io_context never holds
\* more than the application's tasks and ~Controller's own.
THEOREM ControllerTypes == Spec => []TypeOK
<1>1. ControllerInv => TypeOK
  <2> SUFFICES ASSUME ControllerInv PROVE TypeOK
    OBVIOUS
  <2>1. /\ running \in BOOLEAN /\ armed \in BOOLEAN /\ timer \in BOOLEAN
        /\ stopped \in BOOLEAN /\ hears \in BOOLEAN /\ scanning \in BOOLEAN
    BY DEF ControllerInv, QueueInv, FlagTypes, CountInv, CountTypes, GatewayInv, DiscoveryTypes
  <2>2. io.again \in BOOLEAN /\ io.kind \in TaskKind \cup {"none", "receive", "timer"}
    BY DEF ControllerInv, QueueInv, QueueTypes, Kind
  <2>3. {running, armed, timer, stopped, scanning, hears, io.again} \subseteq BOOLEAN
    BY <2>1, <2>2
  <2>4. \A k \in DOMAIN tasks : tasks[k] \in TaskKind
    BY DEF ControllerInv, QueueInv, QueueTypes
  <2>5. gateways \cup surrogates \cup late \subseteq Gateway
    BY DEF ControllerInv, GatewayInv, DiscoveryTypes
  <2>6. /\ scenario \in Scenarios /\ phase \in Phase /\ Len(tasks) <= MaxTasks + 1
    BY DEF ControllerInv, QueueInv, QueueTypes, LengthInv
  <2>7. /\ up \subseteq Interface /\ created \in [Interface -> 0..MaxGateways]
        /\ \A i \in Interface : discovered[i] \in {NoGateway, <<i, created[i]>>}
    BY DEF ControllerInv, GatewayInv, DiscoveryTypes
  <2>8. CountTypes
    BY DEF ControllerInv, CountInv
  <2> QED  BY <2>2, <2>3, <2>4, <2>5, <2>6, <2>7, <2>8 DEF TypeOK, CountTypes
<1> QED  BY <1>1, ControllerInvariance, PTL

\* No task of the constructor, addPeer or removePeer runs on a destroyed tunnel.
THEOREM NoTaskAfterDestruction == Spec => []NoLateTask
<1>1. ControllerInv => NoLateTask
  BY DEF ControllerInv, QueueInv
<1> QED  BY <1>1, ControllerInvariance, PTL

\* The cycles of shared_ptrs are cut: after mTunnel.reset() only gateways that
\* came behind the back of stop_listening are still referred to.
THEOREM TunnelReleased == Spec => []Released
<1>1. ControllerInv => Released
  <2> SUFFICES ASSUME ControllerInv, phase \in {"reset", "stopping_io", "joined"}
               PROVE  Referenced \subseteq late
    BY DEF Released
  <2>1. stopped
    BY DEF ControllerInv, QueueInv, BarrierInv, Held
  <2>2. surrogates \subseteq late /\ gateways \subseteq late
    BY DEF ControllerInv, GatewayInv, OwnershipInv, Listening
  <2>3. \A i \in Interface : discovered[i] # NoGateway => discovered[i] \in late
    BY <2>1 DEF ControllerInv, GatewayInv, OwnershipInv
  <2> QED  BY <2>2, <2>3 DEF Referenced
<1> QED  BY <1>1, ControllerInvariance, PTL

\* From a call for one side on, the application knows the count of that side's
\* session, until a change that nobody counts.
THEOREM CountsAreShown == Spec => []CountsShown
<1>1. ControllerInv => CountsShown
  BY DEF ControllerInv, CountInv
<1> QED  BY <1>1, ControllerInvariance, PTL
=============================================================================
