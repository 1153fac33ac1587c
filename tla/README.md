# A TLA+ verification of Ableton Link Extender

Ableton Link Extender (ALE) joins Link networks at different sites. Each site
runs one extender: it listens to the Link discovery and measurement messages of
the local network, carries them through a tunnel to the other extenders, and
plays them there through surrogate sockets, so that remote nodes look local.
This directory models the parts of ALE that keep state and have to get it right
under concurrency and an unreliable network. TLC checks the models on small
instances; TLAPS proves nearly all safety properties, and both refinements, for
every instance.

`PROJECT.json` lists components, runs, mutants, findings, hazards and theorems,
and for every definition the source lines it stands for.

## 1. Inventory

Paths are relative to `src/include/ableton/extender/` unless they say otherwise.

| Component | State | Operations | Hard behaviour |
|---|---|---|---|
| `UdpTunnel.hpp` | `mPeers` (a vector of endpoint, state, last_seen), `mEndpointToPeerIdx` and `remoteNodeIdToPeerIdx` (indices into it), `mPendingPeers`, `mRejectedPeers`, `is_running` | `addPeer`, `removePeer`, `handleReceive` per message type, `handleUnknownPeer` with its accept and reject functions, `runMaintenance`, `forward`, `listen`, `stop_listening` | indices into a vector that shrinks in the middle; tasks posted by other threads; a stop while the IO thread works; HELLO, KEEPALIVE and BYE over UDP; timeouts, crashes, restarts |
| `Tunnel.hpp` | gateway list, `mDedupCache` | `addGateway`, `shouldForward`, `encapsulate`, `decapsulate`, `forward_locally` | which messages are filtered; sizes of the 512-byte buffer |
| `DedupCache.hpp` | LRU list of keys with timestamps, map into the list, mutex | `isDuplicate` | the clock is read before the lock; capacity; the window's boundary |
| `ShmTunnel.hpp` | a shared memory object: `num_clients`, five ring buffers; per process a client id, routes, client states | constructor, `forward`, `listen`, `stop_listening`, destructor | processes share unlocked counters; `clear()` without the mutex; constructors that throw half way; crashes |
| `TunnelGateway.hpp` | surrogates per remote node and per remote ping, local node and measurement endpoints, two `PeerTracker`s | receive and translate Link messages, `forwardMessageLocally`, timeouts, `stop_listening` | surrogates that are erased while a receive is outstanding; BYEBYE against timeout; gateways that hear each other's surrogates; made-up ids for measurements |
| `Controller.hpp`, `src/include/LinkExtender.hpp` | tunnel, gateway discovery, session ids, peer counts, callbacks | construction, destruction, `addPeer`, `removePeer`, callbacks | the order of destruction across two threads; cycles of shared pointers; counts that depend on two registries and two session ids |
| `src/source/main.cpp` | queue of pending approvals, timer threads, terminal | unknown-peer callback, the user's `a`, `d` and `q`, 60 s auto-reject, `~State` | four kinds of threads race for one entry; a mutex that is released between taking an entry and resolving it |
| `src/include/ableton/platforms/asio/Context.hpp` | asio `io_context` and its thread | `async`, sockets, timers | tasks run in the order they were posted, on one thread |

How they interact. A gateway calls `tunnel->forward()` for each local message;
the tunnel filters duplicates (`shouldForward`, `DedupCache`) and sends to one
peer (`UNICAST`, `MEASUREMENT_PING`, along a learnt route) or to all. A datagram
that arrives is handled by `handleReceive`; control messages change the peer
table, data messages teach the route of their node and go to the gateways
through `forward_locally`. A HELLO of a stranger calls the unknown-peer
callback; `main.cpp` queues it, and the answer comes back as a posted task.
`Controller` forwards the application's calls and, in its destructor, calls
`stop_listening` from the application thread. Interface discovery creates a
gateway per interface, which enters itself into the tunnel's list; gateways tell
two `Peers` registries about local and remote nodes, from which `Controller`
counts peers. With `use_shm` the tunnel is a `ShmTunnel` between processes of
one host instead.

What makes each part correct: the peer table and its two indices agree whatever
is added, removed or stopped; each unknown peer is asked about once and each
question answered once; unicasts follow the route they were learnt from; the
handshake ends connected on both sides and its echoes die out; a dead peer is
noticed in time and a live one is not dropped for a lost datagram; only
repetitions are filtered; a ring buffer is a bounded queue that nothing overruns;
a remote node that a surrogate plays on the LAN is never taken for a local one;
nodes that fall silent are given up in time and not before; what is taken apart
on one thread is not used afterwards on the other.

## 2. Modules

| Module | Models | Notes |
|---|---|---|
| `TunnelCore` | every handler of `UdpTunnel` as a function from the tunnel before to the tunnel after and what was sent or asked | shared by the next two |
| `UdpTunnel` | one tunnel object: task queue, receive, timer, application calls, user, `stop_listening` | peers and clock are an open environment |
| `TunnelNet` | the tunnels of several sites over UDP with crash, exit, restart | the handlers of `TunnelCore` on both ends |
| `DedupCache` | `DedupCache` and `shouldForward`, with overlapping callers | implements `RecentFilter` |
| `RecentFilter` | what `DedupCache` promises: an atomic filter of recent keys | abstract |
| `PeerApproval` | the approval queue of `main.cpp` and its threads | |
| `ShmRing` | `SharedMessages`, the ring buffer | operators only |
| `ShmTunnel` | processes on one shared memory object | extends `ShmRing` |
| `PeerTracker` | `TunnelGateway::PeerTracker`, the sorted timeouts and their timer | operators only |
| `TunnelGateway` | the gateways of one extender between the LAN and the tunnel | extends `PeerTracker`, implements `PeerExpiry` |
| `PeerExpiry` | what a gateway promises the observer of one side | abstract |
| `Controller` | `Controller` and its IO thread from construction to destruction | |
| `MCUdpTunnel`, `MCTunnelNet`, `MCDedupCache`, `MCShmTunnel`, `MCTunnelGateway`, `MCController` | constants for TLC | |
| `TunnelCoreProofs` | lemmas on sequences and on the handlers | checked by TLAPS |
| `UdpTunnelProofs`, `TunnelNetProofs`, `PeerApprovalProofs`, `DedupCacheProofs`, `ControllerProofs`, `TunnelGatewayProofs`, `ShmTunnelProofs` | the theorems about the module of that name | checked by TLAPS |

### TunnelCore and UdpTunnel

`tunnel` is the record of the data members. The IO thread runs one handler at a
time, so a handler is one step. `tasks` is the queue behind `mIo->async`, served
in order; `armed` and `timer` say that a receive or a maintenance wait is
outstanding. `stop_listening` runs on the application thread and is three steps
(`StopBegin`: flag and timer; `StopSayBye`; `StopEnd`: clear), between which the
IO thread may run anything. It does not cancel the receive, and the listen task
of the constructor may not even have run; hence the property on late receives.
A torn vector or map, the possible outcome of that data race inside one
handler, has no counterpart in the model.

Indices start at 1 and 0 means absent. `last_seen` is kept as its age in
maintenance intervals. A handler's datagrams are a set: order and multiplicity
within one handler are not looked at by any property. `decapsulate` never fails
here, as `listen` always gives it a whole 512-byte buffer, and a message of an
unknown type takes the branch of data messages, which the model's data types
already take. `origin`, `stale` and `late` are history variables: the endpoint
that taught a route, the routes that a `removePeer` left at an old index, and
the datagrams handled after the stop.

### TunnelNet

Time passes in maintenance intervals of 5 s. In each interval a running site has
one maintenance pass at any moment of it, and datagrams arrive within the
interval they were sent in, or never; they can be lost, duplicated and
overtaken. `Crash` loses the site's state without a word, `Quit` says BYE;
`Start` runs the constructor again.

An age counts the interval boundaries since `last_seen`, so an age of 3 is any
real time between 10 and 20 s. A pass that finds a peer at that age may find
`now - last_seen > 15 s` or not: `TimedOut` takes the outcome from a set `over`
that `Maintain` (and the timer of `UdpTunnel`) chooses freely. Above that age the
difference is above 15 s, below it is not. The choice allows more than real time
does (two passes of one site are 5 s apart), never less.

### DedupCache

A call is two steps, `ReadClock` before the mutex and `Hit` or `Miss` inside it.
The payload's hash stands for the payload. `forwarded` and `usedSince` are
history. `RecentFilter` has neither list nor map nor lock: it
remembers per key when it was let pass, forgets one key when it is full, and
answers in one step. The refinement mapping reads the remembered time of a key
from the entry that the map leads to, so it says more than the single
properties: which time is compared, that a drop changes nothing that is
remembered, and that a full cache loses exactly one key.

### PeerApproval

The steps are the stretches between taking and releasing `SharedPending`'s
mutex: taking an entry, calling its accept or reject, printing the next prompt.
A timer thread runs within one clock unit after its deadline.

### ShmRing and ShmTunnel

`push` and `pop` hold the mutex, `clear()` does not and is two steps. A push or
pop is therefore either one step (`PushWhole`, `PopWhole`: nothing comes between)
or two: `BeginPush` and `BeginPop` lock the mutex and read the indices, `EndPush`
and `EndPop` write. Each index that is written comes from the value that was read
at the beginning or from one that was read again, as nothing in the code decides
it (`Landed`, `Popped`); so does the cell, and `pop`, which copies the source and
the message one after the other, may return those of two packets. A cell itself
is read and written whole, and the message of a push in two steps is written at
its end. `splits` bounds the operations in two steps. `op[h].lock` says what the
operation's mutex is still worth: "held", "torn" once `clear()` has written to the
ring, "loose" once the mutex itself no longer keeps others out, because a first
client constructed the object anew or an operation whose mutex was not its own
has unlocked it.

Each process has an application and an IO thread with an operation each, and
letters still to push (`todo`). `say_in_tunnel` reads `num_clients` again in every
turn of its loop, so the letters of the application thread are addressed to all
ids and `Due` takes them as long as they are below `num_clients`.

The constructor reads `num_clients` (`Open`), increments it (`JoinCounts`) and
tests it (`JoinNext`, `JoinFails`); the destructor reads it (`DestroyReads`) and
decrements it (`DestroyCounts`). Every one of these may go on from the value of
the last one or read `num_clients` again, so updates are lost, counted twice, and
0 is decremented to `SIZE_MAX`. The mapped region (1 MB) is larger than the array:
`Slot` is the array, `Place` the rings that the region has room for (zeroed memory
behind the array), and an index that is not in `Place` ends the process (`Fault`).
`mishaps` is history: that `num_clients` was counted out of the array ("count"), a
ring outside of it used ("overrun"), a source returned with another's message
("mixed"). A process that ends, by `Crash` or `Fault`, leaves its mutex locked.
The destructor is taken to run when `listen()` has ended (`Controller` shows that
it need not). `Budgets` are alternative bounds on constructors, stops, messages,
crashes and splits, so that one part of the run has tunnels that come and go and
another tunnels that talk.

### PeerTracker, TunnelGateway and PeerExpiry

`gw[g]` is the record of a gateway's data members; the maps of surrogates are
the sets of their keys. All gateways of an extender are on one LAN here, which
is the hard case: each hears what the others' surrogates multicast. A handler of
the IO thread is one step, but for the state socket of a surrogate, whose
handler looks its surrogate up a second time (`RearmSurrogate`): `stop_listening`
on the application thread may come between. Nodes on the LAN and the far end of
the tunnel may send any message of the scenario at any time; a multicast of a
surrogate is under way for up to `MaxTransit` seconds, during which every other
gateway may hear it, never, once or several times, also one that starts to listen
in the meantime; `present` remembers who listened when it was sent. Sockets may fail to open (`noSocket`).
Times are seconds from now; a timer fires between its time and `MaxLate` seconds
later. Messages are well-formed, as the sending extender has parsed them;
payload bytes, the /24 test on addresses (`inSubnet` decides it either way) and
what is sent on failing sockets are left out.

`PeerExpiry` is what `Peers` may rely on, for one gateway and one side: a node
that is announced stays for its time to live and is given up no later than a
second and a timer's delay after that, unless it says goodbye (`byes`) or the
gateway is stopped (`closed`). The mapping reads the remaining lifetime of a node from its tracker
entry; a node that was announced and has no entry would have no lifetime and
break it. `ObserversServed` states the initial condition and the step formula of
the four instances rather than four specifications, which TLC does not take
under a quantifier.

### Controller

The application thread goes through `phase`; `stop_listening` is three steps of
it. A handler of the IO thread is its body (`Begin...`) and its tail (`Finish`),
in which it starts itself again; for the receive and the shared-memory loop the
test of `is_running` lies anywhere between. A gateway lives as long as the
tunnel's list, discovery, or one of its surrogates refers to it, and every
gateway holds the tunnel, so `Reset` destroys the tunnel only without them.
A completion that asio has queued is not recalled by `cancel` or by closing the
socket, hence the two outcomes in `StopFlag` and `Reset`. Steps of the two
threads on the gateway list are atomic; the data race inside them is not
represented. `scanning` says that the scanner's timer is set or has expired:
`enable(false)` cancels it too late for a scan that is in the queue already
(`RunBarrier`), which then makes gateways again, or after `mTunnel.reset()` follows
an empty pointer (`RescanTooLate`). That `enable(false)` drops the gateways at once,
inside the task, is taken from how the code uses it. `unsafe`, `late` and
`recounted` are history.

Counting: `link::Peers` has one entry per peer and gateway, here per peer and
interface. A peer is seen through one of them, with the session it is in and with
a timeline that is new to the registry or not; a new timeline makes its session
the current one, and membership changes, and is counted, only if no entry of the
peer had the session. `gatewayClosed`, with which an observer drops the entries of
its gateway, is left out: they stay until the peer leaves or times out.

## 3. Runs

| Run | Checks | Instance |
|---|---|---|
| `udp_tunnel` | `TypeOK`, `IndexInBounds`, `IndexComplete`, `PromptOnce`, `RouteSound`, `UnicastToOrigin`, `OneLateReceive` | 2 endpoints, 1 node, peer lists with order and repetition, 2 posted tasks |
| `udp_stale_route` (violation) | `UnicastAlwaysToOrigin` | the same |
| `tunnel_net` | `TypeOK`, `HandshakeDone`, `DetectionBound`, `SurvivesLosses`, `EchoesEnd`, `DeadPeerDropped` | 2 sites, one- and two-sided peer lists, 3 losses, 1 duplicate or overtaking, 1 crash, 1 exit |
| `tunnel_half_open` (violation) | `Recovers` | 2 sites, 1 loss |
| `dedup_cache` | `TypeOK`, `CacheCoherent`, `NoFalseDrop`, `NoEarlyRepeat`, `ImplementsRecentFilter` | 2 threads, 3 keys for 2 entries, window 2, clock to 3 |
| `peer_approval` | `TypeOK`, `ResolvedOnce`, `NoEarlyReject`, `PromptIsFront`, `OverstayNeedsTie` | 3 callbacks, delay 2, clock to 4 |
| `approval_dangling` (violation) | `NoDanglingCall` | the same |
| `shm_tunnel` | `TypeOK`, `NoOwnMessage`, `ArrayBounds`, `RingIsQueue`, `HellosEnd` | 2 processes, 2 objects, 3 slots, rings for 2 messages, 1 operation in two steps; 3 constructors with 2 stops, or with a stop and a crash, or 2 constructors with 1 or 2 forwarded messages; and 3 processes from two late states, see below |
| `shm_own_buffer` (violation) | `OwnBuffer` | 2 processes |
| `tunnel_gateway` | `TypeOK`, `NoEcho`, `UntrackedHasLeft`, `MapsAgree`, `NoNullRearm`, `ObserversServed` | 4 scenarios, see below |
| `controller` | `TypeOK`, `NoLateTask`, `Released`, `CountsShown`, `DestructorEnds` | 3 scenarios, see below |
| `controller_one_gateway` (violation) | `OneGatewayPerInterface` | the same |

Why these bounds. *UdpTunnel*: an index goes wrong with two entries, one in
front of the other, or with one endpoint listed twice; both are initial states.
Ages distinguish only "may be timed out" and "is", so a timeout of 0 and a largest
age of 1 lose nothing. Symmetry exchanges the two endpoints; the set of peer lists
is closed under it. *TunnelNet* keeps the real ratio of timeout to interval (3)
and lets ages run to 5, so that the boundary (alive at 2, either way at 3, gone at
4) is inside; the second loss is the first that may cost a connection. *DedupCache*: the
capacity is smaller than the number of keys and the window shorter than the
clock; one key stands for two messages with different destinations.
*PeerApproval*: with three entries a timer can be due while another entry is in
front, and a tie can have an entry behind it. *ShmTunnel*:
with three slots the code grants two, and after a crash or a lost update the
constructor counts to three and throws; the region has room for one ring more and
`SIZE_MAX` lies behind it, so that an id can be in the array, behind it and behind
the region. A second object is there for clients that start after the last one
removed the name. Rings hold two messages, enough to be empty, full and wrapped
around; two forwarded messages are enough to teach a route and to use or to end
it. One operation in two steps is enough for `clear()`, a second construction, a
crash or another operation to come between. Two hazards need three processes,
whose interleavings from the start are too many; `MCSpec` adds the states shortly
before them, which two constructors that read 0 together lead to: `LateFirst`, a
first client that constructs the object under two others that are exchanging
HELLO, and `LateDestructors`, two destructors that have read 2 of a counter that
was set to 1 since, which wrap it. `Spec`, of which the theorems speak, starts
from `Init` only. *TunnelGateway*: the scenarios are two gateways and a node that is
announced on the LAN and comes and leaves through the tunnel (`MovingNode`); two
gateways, a local node and a remote one that broadcasts and answers it
(`TwoGateways`); one gateway with nodes of different times to live, messages it
cannot use, and a stop (`Stopped`); one gateway with measurements, a node that
moves to another endpoint, and a ping from an endpoint that a node has used
(`Measurements`). Times to live are 1 and 2 s, a multicast takes at most 1 s, a
timer is at most 1 s late, one socket fails: entries can be due together, in
either order, and be renewed while the timer is due. Symmetry exchanges the
gateways; the set of scenarios is closed under it. *Controller*: a `UdpTunnel`
with one of two interfaces coming and going and up to three queued tasks; a
`ShmTunnel` with both; two peers and two sessions, the smallest numbers with which
a session switch can change a count, with one peer seen through both interfaces.

Deadlock is checked for `UdpTunnel`, `TunnelNet`, `DedupCache`, `TunnelGateway` and
`Controller` (the last two say by a step of their own that a crashed process, or
a destroyed controller, stays so). `PeerApproval`
really ends (the application quits, the timers are done), and so does
`ShmTunnel` (all processes have left).

Fairness. `UdpTunnel`, `DedupCache`, `PeerApproval` and `TunnelGateway` state safety
only; in the last one `Tick` does not pass a timer that is overdue, so that the
bounds of `PeerExpiry` are real-time bounds.
`TunnelNet` assumes weak fairness of `Maintain` (a running asio context serves
its timer), of `Deliver` (a datagram is delivered or lost, not kept for ever)
and of `Tick` (time passes). Nobody has to start a site or answer a prompt.
`ShmTunnel` assumes weak fairness of `PopWhole` and of the IO thread's `PushWhole`
(`listen()` is called again and again while the tunnel is up), and of `EndPush` and
`EndPop` (a thread that has a mutex goes on). `Controller` assumes that the IO thread
takes up posted tasks and ends what it has begun, and that a destructor that has
begun goes on; nothing is assumed about receives, the timer, or the application.

### What the violations show

- `udp_stale_route`: `removePeer` erases an entry in the middle of `mPeers`,
  rebuilds the endpoint index and leaves the node routes behind it at their old
  numbers. A unicast then goes to the peer that moved into the place.
  `RouteSound` and `UnicastToOrigin` state what still holds.
- `tunnel_half_open`: a CONNECTED side does not echo a HELLO, and a side that is
  not CONNECTED ignores a KEEPALIVE. After one lost echo one side is CONNECTED
  and the other CONNECTING for ever.
- `approval_dangling`: a timer thread that took its entry calls `reject()` after
  the tunnel is gone.
- `shm_own_buffer`: two constructors read the same `num_clients` and share a ring.
- `controller_one_gateway`: when an interface goes, discovery lets go of its
  gateway, but the tunnel's list keeps it (the TODO in `~TunnelGateway`, which does
  not run for it); when the interface comes back there are two.

### What the passing properties leave open

Some properties state exactly how far the code goes; the exceptions they name do
occur in the models.

- `OverstayNeedsTie`: the prompt's "(auto-reject in 60s)" fails for a timer that
  finds another entry in front; it takes two entries that are due together.
- `PromptIsFront`: a timer takes its entry and prints the next prompt only after it
  has called `reject()`. The user can answer in between, to the prompt that is still
  on the screen, and the answer goes to the next entry, which was not shown.
- `SurvivesLosses`: with two losses the third keepalive can come just after the
  pass that finds the last one more than 15 s old.
- `NoFalseDrop`: a repetition is one of the filter's key, which has no destination:
  a message that differs from a recent one only in its addressee is dropped.
- `NoEcho`: a gateway that could not open the sockets of a surrogate, or that began
  to listen while the multicast was under way and so has no surrogate, takes
  the multicast of another gateway for a local node.
- `UntrackedHasLeft`: the surrogate of a node that said BYEBYE, or that only
  answered a ping, has no timeout and stays until the gateway stops.
- `MapsAgree`: the maps between nodes and measurement endpoints disagree once two
  nodes were seen at one endpoint, or one at two.
- `NoNullRearm`: a stop from the other thread can leave the receive handler of a
  surrogate with an empty pointer.
- `NoLateTask`: a receive, the timer, a late decision on an unknown peer, the loop
  of `ShmTunnel` and a scan that was queued before `enable(false)` can run on a
  destroyed tunnel.
- `Released`: a gateway or surrogate that is made while `stop_listening` runs is
  not stopped and keeps the tunnel.
- `CountsShown`: `LinkExtender.hpp` promises a call "when either the local or
  remote peer count changes". There is none when a member's timeline switches the
  session, when the second of two gateways sees that a peer moved from one known
  session to another, and for what was counted before the callback was set.
- `ArrayBounds`: once `num_clients` was counted up to `MAX_CLIENTS` (constructors that
  throw leave it incremented) or below 0, clients do use rings behind the array,
  and processes end.
- `RingIsQueue`: `clear()`, a second construction, and pushes and pops that these
  came between may do anything to a ring: bring messages back, lose them, or let
  two operations have it at once. What the others do is a queue's step even then.
- `NoOwnMessage`: a pop that `clear()` came between can return the zero source of a
  cell that was never written with another's message. From then on a client of
  slot 0 may learn a route to itself.
- `HellosEnd`: a process that ends with a mutex locked stops whoever needs the ring.

## 4. Proofs

A theorem holds for every value of the constants that the named assumptions of
the modules allow, in particular for every number of endpoints, nodes, threads,
processes and gateways and for every bound. The inductive invariants are defined
in the proof modules; TLC checked each of them on the instance of its run before
it was proved.

| Module | Theorem | States |
|---|---|---|
| `UdpTunnelProofs` | `TypeCorrect` | `Spec => []TypeOK` |
| | `IndexSafe` | `Spec => []IndexInBounds` |
| | `IndexTotal` | `Spec => []IndexComplete` |
| | `RoutesSound` | `Spec => []RouteSound` |
| | `UnicastsReachOrigin` | `Spec => []UnicastToOrigin` |
| | `OnePromptPerPeer` | `Spec => []PromptOnce` |
| | `LateReceiveBound` | `Spec => []OneLateReceive` |
| `TunnelNetProofs` | `NetTypesCorrect` | `Spec => []TypeOK` |
| | `DeadPeersNoticed` | `Spec => []DetectionBound` |
| | `HandshakeCompletes` | `Spec => []HandshakeDone` |
| | `ConnectionsSurviveLosses` | `Spec => SurvivesLosses` |
| | `ConnectedPeersAreKnown` | `Spec => []FriendInv` |
| `PeerApprovalProofs` | `ApprovalTypes` | `Spec => []TypeOK` |
| | `EveryApprovalResolvedOnce` | `Spec => []ResolvedOnce` |
| | `NobodyRejectedEarly` | `Spec => []NoEarlyReject` |
| | `AnswersGoToPrompt` | `Spec => []PromptIsFront` |
| | `OverstayExplained` | `Spec => []OverstayNeedsTie` |
| `DedupCacheProofs` | `CacheTypes` | `Spec => []TypeOK` |
| | `MapMatchesList` | `Spec => []CacheCoherent` |
| | `OnlyRepetitionsDropped` | `Spec => NoFalseDrop` |
| | `RepetitionNeedsEviction` | `Spec => NoEarlyRepeat` |
| | `DedupCacheIsRecentFilter` | `Spec => ImplementsRecentFilter` |
| `ControllerProofs` | `ControllerTypes` | `Spec => []TypeOK` |
| | `NoTaskAfterDestruction` | `Spec => []NoLateTask` |
| | `TunnelReleased` | `Spec => []Released` |
| | `CountsAreShown` | `Spec => []CountsShown` |
| `TunnelGatewayProofs` | `GatewayTypes` | `Spec => []TypeOK` |
| | `NoRemoteNodeEchoed` | `Spec => []NoEcho` |
| | `OrphansHaveLeft` | `Spec => []UntrackedHasLeft` |
| | `EndpointMapsAgree` | `Spec => []MapsAgree` |
| | `RearmFindsSurrogate` | `Spec => []NoNullRearm` |
| | `PeersExpireAsPromised` | `Spec => ObserversServed` |
| `ShmTunnelProofs` | `ShmTypes` | `Spec => []TypeOK` |
| | `OwnMessagesNeverComeBack` | `Spec => []NoOwnMessage` |
| | `SlotsStayInArray` | `Spec => []ArrayBounds` |
| | `MutexGuards` | `Spec => []LockInv` |
| | `RingsAreQueues` | `Spec => RingIsQueue` |

Assumptions. Bounds, capacities and times are naturals, with the relations that
the code's constants have (a timeout below the largest age, more than one slot,
more than one cell, a keepalive timeout of two intervals or more,
`IntervalAssumption`; the array no larger than the region, and that no larger than
an id, `RegionAssumption`, `SizeAssumption`). Marks for "nothing" are not values of the kind they mark:
`NoNode`, `NoEndpoint`, `NoSlot`, `Off`, and `Idle`, which must not be a record of
a pending call. Peers of a session, gateways and processes are finite sets, since
they are counted. A multicast travels no longer than the time to live of the node
that it announces (`TtlAssumption`; milliseconds against 5 s in Link). Cells of a
shared ring hold a source and a message (`PacketAssumption`), and a cell
that was never written reads as a message of no known type from slot 0
(`BlankAssumption`).

### UdpTunnel

The inductive invariant is `TableInv`: types, `IndexInBounds`,
`IndexComplete`, and that `is_running` is true exactly until `stop_listening`
has begun. The parts need each other: `removePeer` and `handleReceive` use the
index to pick an entry, so types alone are not inductive; and completeness is
what lets `addPeer` conclude from "not found" that a pushed entry is new.
`TunnelCoreProofs` has one lemma per handler that says what it does to table,
index, routes and pending set; `RebuildProperties` and `RemoveAtProperties`
carry the case where entries move. `RouteSound` is inductive
together with `TableInv`: each handler either keeps table and routes, drops the
routes of the entry it disconnects, or creates a route from the sender's own
connected entry. `UnicastToOrigin` follows step by step from `RouteSound`.
`PromptOnce` is inductive: a prompt is open with the user or in the task queue,
and the lemmas `PromptsAsked`, `PromptsAnswered`, `PromptsSettled` and
`PromptsKept...` follow it through its life. `OneLateReceive` needs `LateInv`,
which ties the outstanding receive to the listen task that was not run: there is
one of the two at most, and after a late receive there is none.

### TunnelNet

Tunnels and channels are looked at through two views. Of a tunnel, only what it
believes about each peer counts: known or not, `Live` (CONNECTED) or not, and the
age; one lemma per handler says how it changes that view and what it sends. Of a
channel, only the types of the messages in it count (`Flow`): duplicates and
overtaking leave them as they are, so nothing that is proved depends on order or
number. Since a site may list an endpoint twice, the view needs `SoleConnected`:
of the entries of one endpoint only the one that the index names ever becomes
CONNECTED.

`Inv` consists of `TypeOK` and six parts, none of which the properties state:

- `SitesInv`: every tunnel is sound, and nobody asks the user of a site that is down.
- `AgeInv`: a CONNECTED peer is at most one interval past the timeout, and that
  one only while the site's pass of the interval is to come. The second half
  makes `DetectionBound` inductive: `Tick` happens after all passes.
- `FlowInv`: while no site has gone away, who has a message under way is up and
  knows the addressee, and nobody says BYE.
- `FriendInv`: while no site has gone away, a CONNECTED peer is up and knows the
  site. It needs `FlowInv`, as a HELLO connects its receiver; and the next part needs it,
  as somebody has to send the keepalives.
- `FreshInv`: with at least two losses fewer than the timeout has intervals, a connection's
  age is at most the number of losses, and one more only while the peer is still
  to write or has a datagram under way. Every interval that passes without news
  has cost one datagram; so no pass finds a peer even at the age at which it may be
  timed out, which is `SurvivesLosses`.
- `ShakeInv`: without losses, a site that is not connected to a peer that knows it has a HELLO
  of the peer coming, or both are not connected and one of them is to write, or has
  written, a HELLO. The first case is the echo of `handle_hello`, the second is the one where
  both dial. At the end of an interval both are excluded: `HandshakeDone`.

Without the condition on losses `ShakeInv` is false, which is the half-open
connection of `tunnel_half_open`. There is one lemma per action that shows `Inv`
and that connections are kept; `FlowStep`, `FriendStep`, `FreshStep` and `AgeStep`
are what these have in common. The theorems hold for peer lists that repeat an
endpoint as well, but there `Transmit` sends one datagram where the code sends one per entry.

### PeerApproval

`ResolvedOnce` is not inductive: nothing in it keeps a timer thread and the input
thread from holding the same entry, after which one of them would resolve it a
second time. `ApprovalInv` adds that what a thread holds is held by it alone
(`ThreadsInv`). That the queue is in the order of the ids, and
deadlines with it, gives `NoEarlyReject` and `OverstayNeedsTie`: a timer that finds
itself in front is at its own deadline, and one that does not has an earlier
entry in front that is due as well. `PromptIsFront` is inductive together with
`PromptInv`: what is shown is the id of an entry that was made (`prompt < nextId`), so
that a new entry is never taken for one that is on the screen.

### DedupCache

`CacheInv` has, beside types and coherence, that an entry's timestamp is the time
its key was last let pass (`StampsInv`), that the list is in the order of last use
(`LruOrder`), and that a key that was let pass and is not in the list had as many
other keys used since as there are entries (`EvictedInv`). The first gives
`NoFalseDrop`, although the times of two callers may be out of order; the other
two give `NoEarlyRepeat`. The refinement is one lemma per step: `ReadClock` is a
call of `RecentFilter`, `Hit` and `Miss` are its answers, an eviction forgets the
one key that left the list.

### Controller

The state falls into three parts with an invariant each. `QueueInv`: behind the
task that the destructor waits for there is nothing in the queue but decisions
on unknown peers, and the loop of `ShmTunnel` is queued once at most. `GatewayInv`:
who refers to a gateway, as a function of the phase; surrogates belong to
gateways in the list until `stop_listening` has dealt with them, and after that
to gateways that came late, as do those that a late scan discovers. `CountInv`: the
counter that membership changes are compared with equals what was shown, as long
as the count is one that the application was told; without that, equal counts
would suppress a notification that is due. `SameCount` is the lemma on a peer seen
through several gateways: an entry set to a session that another entry of the peer
has already changes no count, unless it held a third session before.

### TunnelGateway

`Inv` has seven parts. `NoEcho` is the hardest of them: a gateway ignores the
multicast of a remote node as long as it has a surrogate of the node, so it must
not give it up while a multicast is under way. `EchoInv` says that no tracked
node's remaining time is below the transit time left of any multicast that names
it and that the gateway was there for, and `BackedInv` that a tracked remote node has its surrogate. `MapsAgree` needs
that every pair that either map holds was recorded as a claim (`ClaimsInv`);
`NoNullRearm` that a handler between its two lookups is on a surrogate that only
a stop can have erased (`RearmInv`). `ObserversServed` needs that a tracker's
vector is sorted, has one entry per node, and that its timer is set no later
than one second after every time in it (`Scheduled`), together with the equality of what an observer was told and what
is tracked. About `PeerTracker` there is a lemma per operator; `Retain` is written
by ranks (the j-th kept position) rather than with a selection operator of the
library, whose definition the provers cannot unfold.

### ShmTunnel

`Inv` says where every id, source, route, letter and cell can come from, given what
has gone wrong so far; as `mishaps` only grows, a weaker and weaker statement. The
types alone are not inductive, since ids index the array. `ArrayBounds` needs, while
no "count" has happened, that not only `num_clients` is a slot but also the values
that constructors and destructors have read and may write back long after, the
source in every cell, every route, and every letter of the IO thread, since
answers and unicasts index the array with them; the letters of the application
thread need not be, as its loop looks at `num_clients`. `NoOwnMessage` speaks of what
a ring holds; the invariant has to speak of all its cells, as `clear()` can
bring any of them back, of the packets that operations under way have read, and of
the routes: without "no route to oneself" a unicast could go into the sender's own
ring. The zeroes of a cell that was never written do name slot 0 to slot 0, but for
the default node id only, to which nothing is routed; combined with another's
message they would teach a route, hence the exception.

`RingIsQueue` rests on two lemmas about the ring as a sequence, `PushAppends` and
`PopTakesHead`, and on `LockInv` (`MutexGuards`): of the operations under way on a
ring one at most is not "loose", the mutex is locked for it, and as long as it is
"held" the indices it read are those of the ring, which is still not full for a
push and not empty for a pop. It is inductive for two reasons: whoever takes the
mutex finds nobody else's operation there but loose ones, and an operation that
ends without holding its mutex makes all others there loose. `LockStep` reduces a
step to what it does to each operation that still has its mutex; the kinds of
steps (`QuietStep`, `WholeStep`, `BeginStep`, `EndStep`, `DisturbStep`) have a lemma
each.

### Only model-checked

Everything temporal (`EchoesEnd`, `DeadPeerDropped`, `HellosEnd`,
`DestructorEnds`), since liveness under fairness and `ENABLED` are outside of
what the prover handles, as is induction over recursive definitions. The five
violations are counterexamples and need no proof.

## 5. Not modelled

The byte layout of `encapsulate` and `decapsulate`; the models have the fields of
a message instead. Data races inside one operation on a vector or a map, whose
outcome is undefined. Jumps of the wall clock. `repairGateway`: the handler for
`UdpSendException` cannot be reached, as `forwardMessageLocally` catches every
exception. The tempo and start/stop callbacks, which hand a value on, and
`LinkExtender`, which delegates every call to `Controller`. Socket options
except for the multicast loopback. Argument parsing, terminal output and
logging, the Wireshark dissector, tests and build files have no state that the
other parts depend on. asio, boost::interprocess and the Link library are
external; the models rely on posted tasks running in order on one thread, and on
`link::Peers` and the interface scanner as described above.

## 6. Plan

Done: all modules of section 2, and a theorem for every safety property that a
passing run checks. What could come next:

1. A `TunnelNet` with data messages: that a unicast reaches the site of its node
   combines `RouteSound` with `FriendInv`.
2. Two extenders with their gateways over one tunnel, now that either half is
   proved alone.
3. A bound in place of `DeadPeerDropped`: `DetectionBound` and the pass of every
   interval together say when at the latest a dead peer is dropped.
