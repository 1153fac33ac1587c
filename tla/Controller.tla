----------------------------- MODULE Controller -----------------------------
(***************************************************************************)
(* The Controller behind LinkExtender: construction, the gateways that     *)
(* interface discovery creates, the peer counts it reports, and the        *)
(* destructor, which takes everything apart on the application thread      *)
(* while the IO thread of the asio Context still runs.                     *)
(*                                                                         *)
(* The tunnel, the gateways and their surrogates own each other through    *)
(* shared_ptrs; here they are present or not, and a gateway lives as long  *)
(* as something refers to it.  A handler of the IO thread is two steps,    *)
(* its body and its tail, in which it starts itself again.                 *)
(***************************************************************************)
EXTENDS Integers, Sequences, FiniteSets

CONSTANTS
    Interface,     \* network interfaces of the host
    MaxGateways,   \* bound: gateways created per interface
    MaxTasks,      \* bound: nobody posts a task behind this many
    Peer,          \* Link peers, per side
    Session,
    NoSession,
    NoGateway,
    Scenarios      \* [shm, flapping, calls, stops, peers]: what happens; peers
                   \* says which interfaces a peer is seen through

ASSUME BoundsAssumption == MaxGateways \in Nat \ {0} /\ MaxTasks \in Nat \ {0, 1}
ASSUME PeerAssumption == IsFiniteSet(Peer)
ASSUME NoSessionAssumption == NoSession \notin Session
Side == {"local", "remote"}

ASSUME ScenariosAssumption ==
    Scenarios \subseteq [shm : BOOLEAN, flapping : SUBSET Interface, calls : BOOLEAN,
                         stops : BOOLEAN, peers : SUBSET (Side \X Peer \X Interface)]

Gateway == Interface \X (1..MaxGateways)
ASSUME NoGatewayAssumption == NoGateway \notin Gateway

VARIABLES
    scenario,
    phase,        \* how far the application thread is
    running,      \* is_running of the tunnel
    tasks,        \* closures posted to the io_context
    armed,        \* the tunnel's socket has a receive outstanding
    timer,        \* the tunnel's maintenance timer has a wait outstanding
    io,           \* what the IO thread executes: a handler and if it goes on
    stopped,      \* the flag that ~Controller waits for
    scanning,     \* the scanner's timer is set, or has expired
    up,           \* the interfaces that are up
    created,      \* per interface: how many gateways were made for it
    discovered,   \* per interface: the gateway of gatewayDiscovery
    gateways,     \* the gateways in the tunnel's list
    surrogates,   \* the gateways that have surrogates, which hold their gateway
    peers,        \* per side, peer and interface: the session in the Peers registry
    sessionId,    \* mLocalSessionId, mRemoteSessionId
    counter,      \* mSessionPeerCount of either SessionPeerCounter
    hears,        \* the application has set its callback
    shown,        \* the counts the application was told
    (* History, never read by the model:                                   *)
    unsafe,       \* handlers of the tunnel that ran on a destroyed one
    late,         \* gateways that got a reference after they were stopped
    recounted     \* per side: no change of the count was missed since the last call

discovery == <<scanning, up, created, discovered, gateways, surrogates>>
counting == <<peers, sessionId, counter, hears, shown, recounted>>
tunnelVars == <<running, tasks, armed, timer, io>>
vars == <<scenario, phase, stopped, unsafe, late, tunnelVars, discovery, counting>>

Idle == [kind |-> "none", again |-> FALSE]

\* The constructor up to its body: the tunnel has posted its first tasks.
Init ==
    /\ scenario \in Scenarios
    /\ phase = "constructing"
    /\ running = TRUE
    /\ tasks = IF scenario.shm THEN <<"listen">> ELSE <<"listen", "maintain">>
    /\ armed = FALSE
    /\ timer = FALSE
    /\ io = Idle
    /\ stopped = FALSE
    /\ scanning = FALSE
    /\ up = Interface
    /\ created = [i \in Interface |-> 0]
    /\ discovered = [i \in Interface |-> NoGateway]
    /\ gateways = {}
    /\ surrogates = {}
    /\ peers = [s \in Side |-> [p \in Peer |-> [i \in Interface |-> NoSession]]]
    /\ sessionId = [s \in Side |-> NoSession]
    /\ counter = [s \in Side |-> 0]
    /\ hears = FALSE
    /\ shown = [s \in Side |-> 0]
    /\ unsafe = {}
    /\ late = {}
    /\ recounted = [s \in Side |-> TRUE]

\* mTunnel of Controller.
Held == phase \notin {"reset", "stopping_io", "joined"}

Referenced ==
    gateways \cup surrogates \cup {discovered[i] : i \in {j \in Interface :
                                                         discovered[j] # NoGateway}}

\* Every gateway holds the tunnel.
TunnelAlive == Held \/ Referenced # {}

\* The IO thread is free for the next handler.
IoRuns == io = Idle /\ phase \notin {"stopping_io", "joined"}

-----------------------------------------------------------------------------
(* Discovery.                                                              *)

\* The factory creates a TunnelGateway and lets it listen, which enters it into
\* the tunnel's list.
GatewayFactory(new) == gateways \cup new

\* The interfaces that a scan finds without a gateway.
Found == {i \in up : discovered[i] = NoGateway /\ created[i] < MaxGateways}

\* What interface scanning does: gateways for the new interfaces, and no more
\* reference to the gateways of those that have gone.  The tunnel keeps its own.
\* It sets the timer for the next scan.
Scan ==
    LET found == Found
        gone  == {i \in Interface \ up : discovered[i] # NoGateway}
        new   == {<<i, created[i] + 1>> : i \in found}
    IN  /\ created' = [i \in Interface |-> IF i \in found THEN created[i] + 1 ELSE created[i]]
        /\ discovered' = [i \in Interface |->
              CASE i \in found -> <<i, created[i] + 1>>
                [] i \in gone  -> NoGateway
                [] OTHER       -> discovered[i]]
        /\ gateways' = GatewayFactory(new)
        /\ late' = IF phase \in {"constructing", "constructed", "flagged"} THEN late
                   ELSE late \cup new
        /\ scanning' = TRUE
        /\ UNCHANGED <<up, surrogates>>

\* gatewayDiscovery.enable(true), the body of the constructor.
Construct ==
    /\ phase = "constructing"
    /\ phase' = "constructed"
    /\ Scan
    /\ UNCHANGED <<scenario, stopped, unsafe, tunnelVars, counting>>

\* The scanner's timer.
Rescan ==
    /\ IoRuns
    /\ scanning
    /\ Held
    /\ Scan
    /\ UNCHANGED <<scenario, phase, stopped, unsafe, tunnelVars, counting>>

\* The same after mTunnel.reset(): a new gateway gets an empty pointer to the
\* tunnel, and listen() follows it.
RescanTooLate ==
    /\ IoRuns
    /\ scanning
    /\ ~Held
    /\ Found # {}
    /\ unsafe' = unsafe \cup {"scan"}
    /\ UNCHANGED <<scenario, phase, stopped, late, tunnelVars, discovery, counting>>

InterfaceChanges(i) ==
    /\ i \in scenario.flapping
    /\ up' = IF i \in up THEN up \ {i} ELSE up \cup {i}
    /\ i \notin up => created[i] < MaxGateways
    /\ UNCHANGED <<scenario, phase, stopped, unsafe, late, tunnelVars, counting,
                   scanning, created, discovered, gateways, surrogates>>

-----------------------------------------------------------------------------
(* The IO thread.                                                          *)

\* Puts the task ahead of what was posted before it.
Async_Bad(task) == <<task>> \o tasks

\* Context::async posts: tasks run in the order in which they were posted.
Async(task) == Append(tasks, task)

\* The body of a handler of the tunnel.  It may pass a message on to the
\* gateways, which then have surrogates.
Begin(kind) ==
    /\ io' = [kind |-> kind, again |-> running]
    /\ unsafe' = IF TunnelAlive THEN unsafe ELSE unsafe \cup {kind}
    /\ \/ UNCHANGED <<surrogates, late>>
       \/ /\ kind \in {"receive", "listen"}
          /\ TunnelAlive
          /\ surrogates' = surrogates \cup gateways
          /\ late' = IF phase \in {"constructing", "constructed", "flagged"} THEN late
                     ELSE late \cup gateways
    /\ UNCHANGED <<scenario, phase, running, stopped, counting,
                   scanning, up, created, discovered, gateways>>

BeginTask ==
    /\ IoRuns
    /\ tasks # <<>>
    /\ Head(tasks) # "barrier"
    /\ tasks' = Tail(tasks)
    /\ Begin(Head(tasks))
    /\ UNCHANGED <<armed, timer>>

BeginReceive ==
    /\ IoRuns
    /\ armed
    /\ armed' = FALSE
    /\ Begin("receive")
    /\ UNCHANGED <<tasks, timer>>

BeginTimer ==
    /\ IoRuns
    /\ timer
    /\ timer' = FALSE
    /\ Begin("timer")
    /\ UNCHANGED <<tasks, armed>>

\* Posts itself for the messages that are left and once more at its end.
Repost_Bad == <<"listen", "listen">>

Repost == <<"listen">>

\* The tail of a handler: the receive and the timer are started again, the
\* shared-memory loop posts itself.  runMaintenance looks at is_running when it
\* begins, the other two look at it at some time before they go on.
Finish ==
    /\ io # Idle
    /\ io' = Idle
    /\ timer' = (timer \/ (TunnelAlive /\ io.kind \in {"maintain", "timer"} /\ io.again))
    /\ \E again \in {io.again, running} :
          /\ armed' = (armed \/ (TunnelAlive /\ \/ io.kind = "listen" /\ ~scenario.shm
                                                \/ io.kind = "receive" /\ again))
          /\ tasks' = IF scenario.shm /\ io.kind = "listen" /\ again
                      THEN tasks \o Repost ELSE tasks
    /\ UNCHANGED <<scenario, phase, running, stopped, unsafe, late, discovery, counting>>

\* Waits until no receive is outstanding and posts itself again as long as one is.
RunBarrier_Bad ==
    /\ IoRuns
    /\ tasks # <<>>
    /\ Head(tasks) = "barrier"
    /\ tasks' = IF armed THEN Append(Tail(tasks), "barrier") ELSE Tail(tasks)
    /\ stopped' = ~armed
    /\ UNCHANGED <<scenario, phase, running, armed, timer, io, unsafe, late, discovery, counting>>

\* The task ~Controller waits for: gatewayDiscovery.enable(false) drops the
\* gateways and cancels the scanner's timer, which is too late for a scan that is
\* in the queue already.
RunBarrier ==
    /\ IoRuns
    /\ tasks # <<>>
    /\ Head(tasks) = "barrier"
    /\ tasks' = Tail(tasks)
    /\ discovered' = [i \in Interface |-> NoGateway]
    /\ scanning' \in {scanning, FALSE}
    /\ stopped' = TRUE
    /\ UNCHANGED <<scenario, phase, running, armed, timer, io, unsafe, late, counting,
                   up, created, gateways, surrogates>>

\* The last remote node of a gateway times out.
SurrogatesExpire(g) ==
    /\ IoRuns
    /\ g \in surrogates
    /\ surrogates' = surrogates \ {g}
    /\ UNCHANGED <<scenario, phase, stopped, unsafe, late, tunnelVars, counting,
                   scanning, up, created, discovered, gateways>>

-----------------------------------------------------------------------------
(* The application thread.                                                 *)

\* addPeer and removePeer do nothing unless the tunnel is a UdpTunnel.
CallPeer ==
    /\ phase = "constructed"
    /\ scenario.calls /\ ~scenario.shm
    /\ Len(tasks) < MaxTasks
    /\ tasks' = Async("call")
    /\ UNCHANGED <<scenario, phase, stopped, unsafe, late, running, armed, timer, io,
                   discovery, counting>>

\* accept() or reject() of an unknown peer, from any thread.
Decide ==
    /\ scenario.calls /\ ~scenario.shm
    /\ TunnelAlive
    /\ Len(tasks) < MaxTasks
    /\ tasks' = Async("decision")
    /\ UNCHANGED <<scenario, phase, stopped, unsafe, late, running, armed, timer, io,
                   discovery, counting>>

\* ~Controller: Tunnel::stop_listening clears is_running and cancels the timer,
\* which is too late for a wait that is over and whose handler is in the queue,
StopFlag ==
    /\ phase = "constructed"
    /\ scenario.stops
    /\ phase' = "flagged"
    /\ running' = FALSE
    /\ timer' \in {timer, FALSE}
    /\ UNCHANGED <<scenario, stopped, unsafe, late, tasks, armed, io, discovery, counting>>

\* stops the gateways, which drop their surrogates,
StopGateways ==
    /\ phase = "flagged"
    /\ phase' = "gateways_stopped"
    /\ surrogates' = surrogates \ gateways
    /\ UNCHANGED <<scenario, stopped, unsafe, late, tunnelVars, counting,
                   scanning, up, created, discovered, gateways>>

\* Keeps the list of gateways.
ClearGateways_Bad == gateways

ClearGateways == {}

\* and clears the list of gateways.
StopClear ==
    /\ phase = "gateways_stopped"
    /\ phase' = "stopped"
    /\ gateways' = ClearGateways
    /\ UNCHANGED <<scenario, stopped, unsafe, late, tunnelVars, counting,
                   scanning, up, created, discovered, surrogates>>

PostBarrier ==
    /\ phase = "stopped"
    /\ phase' = "waiting"
    /\ tasks' = Async("barrier")
    /\ UNCHANGED <<scenario, stopped, unsafe, late, running, armed, timer, io,
                   discovery, counting>>

\* mTunnel.reset(): with the last reference the tunnel goes, and with it its
\* socket and its timer, whatever the IO thread is doing.  A handler that is in
\* the queue by then still runs.
Reset ==
    /\ phase = "waiting"
    /\ stopped
    /\ phase' = "reset"
    /\ IF Referenced = {}
       THEN /\ armed' \in {armed, FALSE}
            /\ timer' \in {timer, FALSE}
            /\ unsafe' = IF io = Idle THEN unsafe ELSE unsafe \cup {io.kind}
       ELSE UNCHANGED <<armed, timer, unsafe>>
    /\ UNCHANGED <<scenario, stopped, late, running, tasks, io, discovery, counting>>

\* mIo->stop(): the io_context starts no other handler,
StopIo ==
    /\ phase = "reset"
    /\ phase' = "stopping_io"
    /\ UNCHANGED <<scenario, stopped, unsafe, late, tunnelVars, discovery, counting>>

\* and the IO thread ends.
Join ==
    /\ phase = "stopping_io"
    /\ io = Idle
    /\ phase' = "joined"
    /\ UNCHANGED <<scenario, stopped, unsafe, late, tunnelVars, discovery, counting>>

-----------------------------------------------------------------------------
(* Peer counts.                                                            *)

\* uniqueSessionPeerCount: a peer counts once, however many gateways see it.
CountOf(registry, session) ==
    Cardinality({p \in Peer : session # NoSession /\ \E i \in Interface :
                                                        registry[p][i] = session})

\* Compares with the count and does not store it.
Exchange_Bad(s, count) == counter

Exchange(s, count) == [counter EXCEPT ![s] = count]

\* notifyPeerCount: both sides are counted anew.
Told == [t \in Side |-> CountOf(peers'[t], sessionId'[t])]

\* SessionPeerCounter::operator().
CountPeers(s) ==
    LET count == CountOf(peers'[s], sessionId'[s])
    IN  /\ counter' = Exchange(s, count)
        /\ shown' = IF counter[s] # count /\ hears THEN Told ELSE shown
        /\ recounted' = [recounted EXCEPT ![s] = IF counter[s] # count THEN hears ELSE @]

\* sawPeer on the gateway of interface i, whose entry of the peer is set.  The
\* timeline callback takes over the session before the membership callback
\* counts; that is called only if no entry of the peer had the session.  Nobody
\* counts when the session changes with a member's timeline, or when the second
\* of two gateways sees that a peer has moved from one session to another.
SawPeer(s, p, i, session, newTimeline) ==
    LET joins == \A j \in Interface : peers[s][p][j] # session
    IN  /\ IoRuns
        /\ <<s, p, i>> \in scenario.peers
        /\ \E g \in Referenced : g[1] = i
        /\ (\A q \in Peer, j \in Interface : peers[s][q][j] # session) => newTimeline
        /\ peers' = [peers EXCEPT ![s][p][i] = session]
        /\ sessionId' = IF newTimeline THEN [sessionId EXCEPT ![s] = session] ELSE sessionId
        /\ IF joins THEN CountPeers(s)
           ELSE /\ recounted' = [recounted EXCEPT ![s] =
                                    /\ @
                                    /\ sessionId'[s] = sessionId[s]
                                    /\ peers[s][p][i] \in {NoSession, session}]
                /\ UNCHANGED <<counter, shown>>
        /\ UNCHANGED <<scenario, phase, stopped, unsafe, late, tunnelVars, discovery, hears>>

\* peerLeft and peerTimedOut on the gateway of interface i.
PeerGone(s, p, i) ==
    /\ IoRuns
    /\ peers[s][p][i] # NoSession
    /\ peers' = [peers EXCEPT ![s][p][i] = NoSession]
    /\ UNCHANGED sessionId
    /\ CountPeers(s)
    /\ UNCHANGED <<scenario, phase, stopped, unsafe, late, tunnelVars, discovery, hears>>

SetNumPeersCallback ==
    /\ phase = "constructed"
    /\ scenario.peers # {}
    /\ hears' = TRUE
    /\ UNCHANGED <<scenario, phase, stopped, unsafe, late, tunnelVars, discovery,
                   peers, sessionId, counter, shown, recounted>>

-----------------------------------------------------------------------------
Destructor ==
    StopFlag \/ StopGateways \/ StopClear \/ PostBarrier \/ Reset \/ StopIo \/ Join

Ended == phase = "joined" /\ UNCHANGED vars

Next ==
    \/ Construct \/ Rescan \/ RescanTooLate \/ \E i \in Interface : InterfaceChanges(i)
    \/ BeginTask \/ BeginReceive \/ BeginTimer \/ Finish \/ RunBarrier
    \/ \E g \in Gateway : SurrogatesExpire(g)
    \/ CallPeer \/ Decide \/ Destructor
    \/ \E s \in Side, p \in Peer, i \in Interface :
          \/ \E session \in Session, newTimeline \in BOOLEAN :
                SawPeer(s, p, i, session, newTimeline)
          \/ PeerGone(s, p, i)
    \/ SetNumPeersCallback
    \/ Ended

\* The IO thread takes up posted tasks in their order and finishes what it has
\* begun; a destructor that has begun goes on.
Fairness ==
    /\ WF_vars(BeginTask \/ RunBarrier)
    /\ WF_vars(Finish)
    /\ WF_vars(phase # "constructed" /\ Destructor)

Spec == Init /\ [][Next]_vars /\ Fairness

-----------------------------------------------------------------------------
Phase == {"constructing", "constructed", "flagged", "gateways_stopped", "stopped",
          "waiting", "reset", "stopping_io", "joined"}
TaskKind == {"listen", "maintain", "call", "decision", "barrier"}

(* The types, and what the bounds stand on: the queue of the io_context     *)
(* holds no more than the application's tasks and ~Controller's own, since  *)
(* the shared-memory loop is in it once at most, and an interface that is   *)
(* discovered has the newest of the gateways that were made for it.         *)
TypeOK ==
    /\ scenario \in Scenarios
    /\ phase \in Phase
    /\ {running, armed, timer, stopped, scanning, hears, io.again} \subseteq BOOLEAN
    /\ io.kind \in TaskKind \cup {"none", "receive", "timer"}
    /\ \A k \in DOMAIN tasks : tasks[k] \in TaskKind
    /\ Len(tasks) <= MaxTasks + 1
    /\ up \subseteq Interface
    /\ created \in [Interface -> 0..MaxGateways]
    /\ \A i \in Interface : discovered[i] \in {NoGateway, <<i, created[i]>>}
    /\ gateways \cup surrogates \cup late \subseteq Gateway
    /\ peers \in [Side -> [Peer -> [Interface -> Session \cup {NoSession}]]]
    /\ sessionId \in [Side -> Session \cup {NoSession}]
    /\ counter \in [Side -> 0..Cardinality(Peer)]
    /\ shown \in [Side -> 0..Cardinality(Peer)]
    /\ recounted \in [Side -> BOOLEAN]

(* ~Controller waits for a task of its own before it destroys the tunnel,   *)
(* so that what the constructor, addPeer and removePeer have posted never   *)
(* runs on a destroyed UdpTunnel, although every closure captures a bare    *)
(* `this`.  It does not cover handlers that another handler starts after    *)
(* the wait (the receive, the timer, the shared-memory loop), decisions on  *)
(* unknown peers that are posted late and a scan that enable(false) came    *)
(* too late for.                                                            *)
NoLateTask ==
    unsafe \subseteq {"scan"} \cup IF scenario.shm THEN {"listen"}
                                  ELSE {"receive", "timer", "decision"}

(* Tunnel, gateways and surrogates own each other in cycles, which          *)
(* stop_listening and the disabled discovery cut: when mTunnel has been     *)
(* reset, the only gateways still referred to (and the tunnel with them)    *)
(* are those that were created, or got a surrogate, behind the back of      *)
(* stop_listening, which had dealt with the gateways before.                *)
Released ==
    phase \in {"reset", "stopping_io", "joined"} => Referenced \subseteq late

(* "One TunnelGateway per local interface": no interface has two gateways in *)
(* the tunnel's list, as each of them gets and forwards every message.      *)
OneGatewayPerInterface ==
    \A g, h \in gateways : g[1] = h[1] => g = h

(* The callback "when either the local or remote peer count changes": from   *)
(* a call for one side on, the count the application was told of that side  *)
(* is the one of the current session, until a change nobody counts: one     *)
(* before the application has set its callback, one of the session without  *)
(* one of its members, or a peer seen through two gateways that moves from  *)
(* one known session to another.  The next change that is counted makes up  *)
(* for it.                                                                  *)
CountsShown ==
    \A s \in Side : recounted[s] => shown[s] = CountOf(peers[s], sessionId[s])

(* ~Controller ends: the IO thread gets to the task it waits for, however   *)
(* long it is kept busy, and ends after it.                                 *)
DestructorEnds == phase = "flagged" ~> phase = "joined"
=============================================================================
