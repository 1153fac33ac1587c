------------------------------ MODULE UdpTunnel ------------------------------
(***************************************************************************)
(* One UdpTunnel object: the IO thread running posted tasks, socket        *)
(* receives and the maintenance timer, the application thread calling      *)
(* addPeer, removePeer and stop_listening, and the user answering the      *)
(* unknown-peer callback.  Peers are an open environment that may send any *)
(* message at any time; time is open too (a Tick may happen at any point), *)
(* so every property here holds whatever the peers and the clock do.       *)
(***************************************************************************)
EXTENDS TunnelCore

CONSTANTS
    InitialPeers,   \* the peer lists the constructor may be given
    MaxPeers,       \* bound: no call adds a peer to a table this long
    MaxTasks,       \* bound: no thread posts a task behind this many
    NoEndpoint      \* the origin of a node id that has no route

ASSUME InitialPeersAssumption == InitialPeers \subseteq Seq(Endpoint)
ASSUME BoundsAssumption == MaxPeers \in Nat /\ MaxTasks \in Nat
ASSUME NoEndpointAssumption == NoEndpoint \notin Endpoint

VARIABLES
    tunnel,     \* the data members of UdpTunnel
    tasks,      \* closures posted with mIo->async, oldest first
    armed,      \* a socket receive is outstanding
    timer,      \* a maintenance wait is outstanding
    asked,      \* per endpoint: callbacks that were not answered yet
    stopping,   \* how far stop_listening has come
    sent,       \* datagrams sent by the last step
    (* History, never read by the model:                                   *)
    origin,     \* the endpoint whose datagram created the route of a node id
    stale,      \* node ids whose route a removePeer left at its old index
    late        \* datagrams handled after stop_listening cleared is_running

vars == <<tunnel, tasks, armed, timer, asked, stopping, sent, origin, stale, late>>

DecisionTask == [kind : {"accept", "reject"}, endpoint : Endpoint]
Task == [kind : {"add", "remove"}, endpoint : Endpoint] \cup DecisionTask
            \cup [kind : {"listen", "maintain"}, endpoint : {NoEndpoint}]

Post(kind, e) == Append(tasks, [kind |-> kind, endpoint |-> e])

Routes == tunnel.remoteNodeIdToPeerIdx

Init ==
    /\ \E peers \in InitialPeers : tunnel = NewTunnel(peers)
    /\ tasks = << [kind |-> "listen",   endpoint |-> NoEndpoint],
                  [kind |-> "maintain", endpoint |-> NoEndpoint] >>
    /\ armed = FALSE
    /\ timer = FALSE
    /\ asked = [e \in Endpoint |-> 0]
    /\ stopping = "no"
    /\ sent = {}
    /\ origin = [n \in NodeId |-> NoEndpoint]
    /\ stale = {}
    /\ late = 0

\* Takes over what a handler returned.
Apply(r) ==
    /\ tunnel' = r.tunnel
    /\ sent' = r.sent
    /\ asked' = [e \in Endpoint |-> asked[e] + (IF e \in r.prompt THEN 1 ELSE 0)]

\* A route that appears came from e; one that disappears has no origin.
TraceRoutes(e) ==
    LET routes == tunnel'.remoteNodeIdToPeerIdx
    IN  origin' = [n \in NodeId |->
            CASE routes[n] = NotFound                         -> NoEndpoint
              [] routes[n] # NotFound /\ Routes[n] = NotFound -> e
              [] OTHER                                        -> origin[n]]

KeepStale == stale' = {n \in stale : tunnel'.remoteNodeIdToPeerIdx[n] # NotFound}

\* removePeer shifted the entries behind idx; their routes were not renumbered.
AddStale(idx) ==
    stale' = {n \in NodeId : /\ tunnel'.remoteNodeIdToPeerIdx[n] # NotFound
                             /\ n \in stale \/ Routes[n] > idx}

-----------------------------------------------------------------------------
(* The application thread and the user.                                    *)

\* Nobody calls into a Controller whose destructor is running.
CallAddPeer(e) ==
    /\ stopping = "no"
    /\ Len(tasks) < MaxTasks
    /\ Len(tunnel.mPeers) < MaxPeers
    /\ tasks' = Post("add", e)
    /\ sent' = {}
    /\ UNCHANGED <<tunnel, armed, timer, asked, stopping, origin, stale, late>>

CallRemovePeer(e) ==
    /\ stopping = "no"
    /\ Len(tasks) < MaxTasks
    /\ tasks' = Post("remove", e)
    /\ sent' = {}
    /\ UNCHANGED <<tunnel, armed, timer, asked, stopping, origin, stale, late>>

\* Answers a callback that was answered already.
Decide_Bad(e, decision) ==
    /\ Len(tasks) < MaxTasks
    /\ asked' = [asked EXCEPT ![e] = @ - 1]
    /\ tasks' = Post(decision, e)
    /\ sent' = {}
    /\ UNCHANGED <<tunnel, armed, timer, stopping, origin, stale, late>>

\* The accept or the reject function of an outstanding callback is called.
Decide(e, decision) ==
    /\ asked[e] > 0
    /\ Len(tasks) < MaxTasks
    /\ asked' = [asked EXCEPT ![e] = @ - 1]
    /\ tasks' = Post(decision, e)
    /\ sent' = {}
    /\ UNCHANGED <<tunnel, armed, timer, stopping, origin, stale, late>>

\* stop_listening runs on the application thread, in steps that the handlers
\* of the IO thread may fall between.
StopBegin ==
    /\ stopping = "no"
    /\ stopping' = "flagged"
    /\ tunnel' = StopFlag(tunnel)
    /\ timer' = FALSE
    /\ sent' = {}
    /\ UNCHANGED <<tasks, armed, asked, origin, stale, late>>

StopSayBye ==
    /\ stopping = "flagged"
    /\ stopping' = "said_bye"
    /\ sent' = StopByes(tunnel)
    /\ UNCHANGED <<tunnel, tasks, armed, timer, asked, origin, stale, late>>

StopEnd ==
    /\ stopping = "said_bye"
    /\ stopping' = "done"
    /\ tunnel' = StopClear(tunnel)
    /\ TraceRoutes(NoEndpoint)
    /\ KeepStale
    /\ sent' = {}
    /\ UNCHANGED <<tasks, armed, timer, asked, late>>

-----------------------------------------------------------------------------
(* The IO thread.                                                          *)

NextTask(kind) == tasks # <<>> /\ Head(tasks).kind = kind

RunAdd ==
    /\ NextTask("add")
    /\ tasks' = Tail(tasks)
    /\ Apply(AddPeer(tunnel, Head(tasks).endpoint))
    /\ UNCHANGED <<armed, timer, stopping, origin, stale, late>>

RunRemove ==
    /\ NextTask("remove")
    /\ tasks' = Tail(tasks)
    /\ Apply(RemovePeer(tunnel, Head(tasks).endpoint))
    /\ TraceRoutes(NoEndpoint)
    /\ IF Known(tunnel, Head(tasks).endpoint)
       THEN AddStale(tunnel.mEndpointToPeerIdx[Head(tasks).endpoint])
       ELSE UNCHANGED stale
    /\ UNCHANGED <<armed, timer, stopping, late>>

RunDecision ==
    /\ NextTask("accept") \/ NextTask("reject")
    /\ tasks' = Tail(tasks)
    /\ Apply(IF Head(tasks).kind = "accept"
             THEN Accept(tunnel, Head(tasks).endpoint)
             ELSE Reject(tunnel, Head(tasks).endpoint))
    /\ UNCHANGED <<armed, timer, stopping, origin, stale, late>>

\* listen() does not look at is_running: only its completion handler does.
RunListen ==
    /\ NextTask("listen")
    /\ tasks' = Tail(tasks)
    /\ armed' = TRUE
    /\ sent' = {}
    /\ UNCHANGED <<tunnel, timer, asked, stopping, origin, stale, late>>

\* A pass of a running tunnel starts the next wait.
Maintain ==
    /\ \E over \in SUBSET DOMAIN tunnel.mPeers : Apply(RunMaintenance(tunnel, over))
    /\ timer' = tunnel.is_running
    /\ TraceRoutes(NoEndpoint)
    /\ KeepStale
    /\ UNCHANGED <<armed, stopping, late>>

RunMaintain ==
    /\ NextTask("maintain")
    /\ tasks' = Tail(tasks)
    /\ Maintain

TimerFires ==
    /\ timer
    /\ tunnel.is_running
    /\ Maintain
    /\ UNCHANGED tasks

\* Starts the next receive of a stopped tunnel too.
Rearm_Bad == TRUE

Rearm == tunnel.is_running

\* The completion handler: the datagram is handled, then the receive is
\* started again unless the tunnel was stopped.
Receive(e, m) ==
    /\ armed
    /\ Apply(HandleReceive(tunnel, e, m))
    /\ armed' = Rearm
    /\ TraceRoutes(e)
    /\ KeepStale
    /\ late' = IF tunnel.is_running THEN late ELSE late + 1
    /\ UNCHANGED <<tasks, timer, stopping>>

\* A gateway calls forward(); the duplicate filter (DedupCache.tla) may drop it.
\* Once stop_listening has cleared the gateways nobody calls it.
CallForward(m) ==
    /\ stopping # "done"
    /\ \/ sent' = Forward(tunnel, m)
       \/ m.type \in DedupType /\ sent' = {}
    /\ UNCHANGED <<tunnel, tasks, armed, timer, asked, stopping, origin, stale, late>>

Tick ==
    /\ tunnel' = Age(tunnel)
    /\ sent' = {}
    /\ UNCHANGED <<tasks, armed, timer, asked, stopping, origin, stale, late>>

\* What decapsulate() can return: control messages carry the default node id.
Incoming ==
    {Control(type) : type \in ControlType}
        \cup [type : DataType \ AddressedType, from : NodeId, to : {NoNode}]
        \cup [type : AddressedType, from : NodeId, to : NodeId]

Outgoing == [type : DataType, from : NodeId, to : NodeId \cup {NoNode}]

AppStep ==
    \/ \E e \in Endpoint :
          CallAddPeer(e) \/ CallRemovePeer(e) \/ Decide(e, "accept") \/ Decide(e, "reject")
    \/ StopBegin \/ StopSayBye \/ StopEnd

IoStep ==
    \/ RunAdd \/ RunRemove \/ RunDecision \/ RunListen \/ RunMaintain
    \/ TimerFires
    \/ \E e \in Endpoint, m \in Incoming : Receive(e, m)
    \/ \E m \in Outgoing : CallForward(m)

Next == AppStep \/ IoStep \/ Tick

Spec == Init /\ [][Next]_vars
-----------------------------------------------------------------------------
(* Properties.                                                             *)

\* Every variable has its type; the tunnel record is a well-formed UdpTunnel.
TypeOK ==
    /\ tunnel \in Tunnel
    /\ tasks \in Seq(Task)
    /\ armed \in BOOLEAN
    /\ timer \in BOOLEAN
    /\ asked \in [Endpoint -> Nat]
    /\ stopping \in {"no", "flagged", "said_bye", "done"}
    /\ sent \in SUBSET Datagram
    /\ origin \in [NodeId -> Endpoint \cup {NoEndpoint}]
    /\ stale \in SUBSET NodeId
    /\ late \in Nat

\* mEndpointToPeerIdx never points outside mPeers or at another peer's entry,
\* also with repeated configured peers, while peers are removed from the middle
\* of the vector and after stop_listening: mPeers[idxIt->second] in
\* handleReceive is in bounds and is the sender's entry.
IndexInBounds == InBounds(tunnel)

\* Until stop_listening clears the index every entry of mPeers can be found
\* through it: no peer is dialled by runMaintenance and yet unknown to
\* handleReceive, which would ask the user about a peer that is configured.
IndexComplete == stopping # "done" => Indexed(tunnel)

DecisionPosted(e, i) ==
    tasks[i].kind \in {"accept", "reject"} /\ tasks[i].endpoint = e

OneDecisionPending(e) ==
    LET posted == \E i \in DOMAIN tasks : DecisionPosted(e, i)
    IN  /\ asked[e] <= 1
        /\ ~(asked[e] = 1 /\ posted)
        /\ \A i, j \in DOMAIN tasks : DecisionPosted(e, i) /\ DecisionPosted(e, j) => i = j
        /\ e \in tunnel.mPendingPeers <=> asked[e] = 1 \/ posted

\* mPendingPeers holds exactly the endpoints with one decision still to come,
\* either from the user or as a posted task: the callback is not repeated while
\* one is open, and no endpoint stays pending with nobody left to decide.
PromptOnce == stopping # "done" => \A e \in Endpoint : OneDecisionPending(e)

\* The route of a node id leads to the connected peer whose datagram taught it,
\* unless a removePeer earlier in the vector left the route at its old index.
RouteSound ==
    \A n \in NodeId :
        Routes[n] # NotFound /\ n \notin stale =>
            /\ Routes[n] \in 1..Len(tunnel.mPeers)
            /\ tunnel.mPeers[Routes[n]].endpoint = origin[n]
            /\ Connected(tunnel, Routes[n])

\* forward() sends a UNICAST or MEASUREMENT_PING for a node id whose route is
\* not stale only to the peer that the node id was learnt from.
UnicastToOrigin ==
    \A d \in sent :
        d.msg.type \in {"UNICAST", "MEASUREMENT_PING"} /\ d.msg.to \notin stale =>
            d.dst = origin[d.msg.to]

\* After stop_listening has cleared is_running at most one more datagram is
\* handled, even when the constructor's listen task had not run yet.
OneLateReceive == late <= 1

\* What doc/diagrams/seq_manual.puml says of the NodeId to peer map: "Used later to
\* route unicasts addressed to NodeID1 back to Tunnel1".
UnicastAlwaysToOrigin ==
    \A d \in sent :
        d.msg.type \in {"UNICAST", "MEASUREMENT_PING"} => d.dst = origin[d.msg.to]
=============================================================================
