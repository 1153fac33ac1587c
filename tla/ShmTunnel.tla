----------------------------- MODULE ShmTunnel -----------------------------
(***************************************************************************)
(* The shared memory tunnel (ShmTunnel.hpp): processes on one host that    *)
(* open the shared memory object by its name, take the number of clients   *)
(* as their slot, and push messages into each other's ring.  Nothing but   *)
(* push and pop is locked: constructors and destructors read num_clients   *)
(* in one step and write it in another, or read it again, and clear()      *)
(* takes no mutex, so a push or a pop may be two steps that it comes       *)
(* between.  Each process has an application thread, which constructs,     *)
(* stops and destroys its tunnel, and an IO thread.                        *)
(*                                                                         *)
(* An object whose name was removed lives on for the processes that mapped *)
(* it, so objects are numbered.  The mapped region (1 MB) is larger than   *)
(* the array of MAX_CLIENTS rings: an index behind the array finds zeroed  *)
(* memory, a ring nobody constructs, and one behind the region ends the    *)
(* process.                                                                *)
(***************************************************************************)
EXTENDS ShmRing, FiniteSets, SequencesExt

CONSTANTS
    Process,
    NodeId,
    NoNode,         \* the default constructed node id, and an empty optional
    NoSlot,         \* a node id that has no route
    MAX_CLIENTS,    \* slots of an object (5 in the code)
    REGION,         \* rings that the mapped region has room for (SHM_SIZE)
    SIZE_MAX,       \* the largest size_t, to which 0 - 1 wraps
    Outgoing,       \* what gateways forward
    MaxObjects,     \* bound: objects created
    Budgets         \* bounds: who runs, and how many constructors, stops, messages, crashes
                    \* and operations on a ring in two steps there may be

ASSUME ClientsAssumption == MAX_CLIENTS \in Nat /\ MAX_CLIENTS > 1
ASSUME RegionAssumption == REGION \in Nat /\ MAX_CLIENTS <= REGION
ASSUME SizeAssumption == SIZE_MAX \in Nat /\ REGION <= SIZE_MAX
ASSUME ObjectsAssumption == MaxObjects \in Nat
Budget == [who : SUBSET Process, opens : Nat, stops : Nat, forwards : Nat, crashes : Nat,
           splits : Nat]
ASSUME BudgetsAssumption == Budgets \subseteq Budget
ASSUME NoSlotAssumption == NoSlot \notin Nat
\* Zeroes read as a message: no known type, source 0, the default node id.
ASSUME BlankAssumption ==
    Blank = [source |-> 0, message |-> [type |-> "ZERO", from |-> NoNode, to |-> NoNode]]

Slot == 0..(MAX_CLIENTS - 1)
Place == 0..(REGION - 1)        \* rings in the mapped region, of which Slot is the array
Id == 0..SIZE_MAX
Object == 1..MaxObjects
NoObject == 0

ClientState == {"UNKNOWN", "HELLO", "CONNECTED"}

\* Types that are sent to one slot, that of the destination's route.
RoutedType == {"UNICAST", "MEASUREMENT_PING"}
\* forward() gets these from gateways; encapsulate writes a to_node for the first set.
AddressedType == RoutedType \cup {"MEASUREMENT_PONG"}
DataType == AddressedType \cup {"BROADCAST", "BYEBYE"}
Message == [type : DataType \cup {"TUNNEL_HELLO", "TUNNEL_BYE", "ZERO"},
            from : NodeId \cup {NoNode}, to : NodeId \cup {NoNode}]

ASSUME PacketAssumption == Packet = [source : Id, message : Message]

ASSUME OutgoingAssumption ==
    Outgoing \subseteq [type : DataType, from : NodeId, to : NodeId \cup {NoNode}]

VARIABLES
    memory,     \* per object: num_clients and the rings
    name,       \* the object that SHM_NAME leads to
    created,    \* objects created so far
    proc,       \* per process: the data members of its ShmTunnel, and what its threads do
    budget,     \* what is still to come of that
    mishaps     \* history, never read by the model: what went wrong so far

vars == <<memory, name, created, proc, budget, mishaps>>

(* "count": num_clients was counted up to MAX_CLIENTS or more, or below 0.  *)
(* "overrun": a ring behind the last slot was used.  "mixed": a pop returned *)
(* the source of one message with the text of another.                      *)
Mishap == {"count", "overrun", "mixed"}

Thread == {"app", "io"}

(* A push or pop under way.  Its lock is "torn" once clear() has written to *)
(* the ring meanwhile, and "loose" once the mutex no longer keeps others    *)
(* out: it was constructed anew, or unlocked by one for which it was.       *)
Op == [kind : {"none", "push", "pop"}, ring : Place, front : Cell, back : Cell,
       packet : Packet, lock : {"held", "torn", "loose"}]

NoOp == [kind |-> "none", ring |-> 0, front |-> 0, back |-> 0, packet |-> Blank,
         lock |-> "held"]

Control(type) == [type |-> type, from |-> NoNode, to |-> NoNode]

Letter == [ring : Id, message : Message]

Letters(m, rings) == {[ring |-> k, message |-> m] : k \in rings}

Tunnel == [step : {"down", "opened", "counted", "greeting", "up", "flagged", "clearing",
                   "bye", "stopped", "leaving"},
           object : Object \cup {NoObject}, mClientId : Id,
           seen : Id,       \* num_clients, as the constructor wrote or the destructor read it
           is_running : BOOLEAN, listening : BOOLEAN,
           nodes : [NodeId \cup {NoNode} -> Id \cup {NoSlot}],
           clients : [Id -> ClientState],
           todo : [Thread -> SUBSET Letter],    \* what to push, and to which ring
           op : [Thread -> Op]]

NoTunnel == [step |-> "down", object |-> NoObject, mClientId |-> 0, seen |-> 0,
             is_running |-> FALSE, listening |-> FALSE,
             nodes |-> [n \in NodeId \cup {NoNode} |-> NoSlot],
             clients |-> [k \in Id |-> "UNKNOWN"],
             todo |-> [h \in Thread |-> {}],
             op |-> [h \in Thread |-> NoOp]]

Init ==
    /\ memory = [o \in Object |->
                    [num_clients |-> 0, broadcast |-> [k \in Place |-> EmptyRing]]]
    /\ name = NoObject
    /\ created = 0
    /\ proc = [p \in Process |-> NoTunnel]
    /\ budget \in Budgets
    /\ mishaps = {}

MemoryOf(p) == memory[proc[p].object]
OwnRing(p) == MemoryOf(p).broadcast[proc[p].mClientId]

\* size_t arithmetic.
Inc(n) == IF n = SIZE_MAX THEN 0 ELSE n + 1
Dec(n) == IF n = 0 THEN SIZE_MAX ELSE n - 1

Counted(num) == mishaps' = IF num \in Slot THEN mishaps ELSE mishaps \cup {"count"}
Touches(k) == mishaps' = IF k \in Slot THEN mishaps ELSE mishaps \cup {"overrun"}

\* The ring of a process's object that it replaces.
SetRing(p, k, r) == memory' = [memory EXCEPT ![proc[p].object].broadcast[k] = r]

\* What a write to the rings S of object o without the mutex makes of the operations
\* under way there.
Disturbed(o, S, lock) ==
    [q \in Process |->
        [proc[q] EXCEPT !.op = [h \in Thread |->
            IF proc[q].object = o /\ @[h].kind # "none" /\ @[h].ring \in S
               /\ @[h].lock # "loose"
            THEN [@[h] EXCEPT !.lock = lock]
            ELSE @[h]]]]

-----------------------------------------------------------------------------
(* The constructor.                                                        *)

\* Opens or creates the object and reads num_clients.
Open(p) ==
    /\ proc[p].step = "down"
    /\ p \in budget.who
    /\ budget.opens > 0
    /\ budget' = [budget EXCEPT !.opens = @ - 1]
    /\ name # NoObject \/ created < MaxObjects
    /\ LET o == IF name = NoObject THEN created + 1 ELSE name
       IN  /\ name' = o
           /\ created' = IF name = NoObject THEN o ELSE created
           /\ proc' = [proc EXCEPT ![p] =
                          [NoTunnel EXCEPT !.step = "opened", !.object = o,
                                           !.mClientId = memory[o].num_clients]]
    /\ UNCHANGED <<memory, mishaps>>

Running(t) == [t EXCEPT !.step = "up", !.is_running = TRUE, !.listening = TRUE]

\* The first client constructs the object in place: every ring is blank again and
\* its mutex new.
JoinFirst(p) ==
    /\ proc[p].step = "opened"
    /\ proc[p].mClientId = 0
    /\ memory' = [memory EXCEPT ![proc[p].object] =
          [num_clients |-> 1,
           broadcast |-> [k \in Place |-> IF k \in Slot THEN EmptyRing
                                          ELSE @.broadcast[k]]]]
    /\ proc' = [Disturbed(proc[p].object, Slot, "loose") EXCEPT ![p] = Running(@)]
    /\ UNCHANGED <<name, created, budget, mishaps>>

\* num_clients++ is neither atomic nor locked: it reads num_clients again, or goes
\* on from the value that became the client id.
Incremented(p) == {Inc(MemoryOf(p).num_clients), Inc(proc[p].mClientId)}

\* The others count themselves.
JoinCounts(p) ==
    /\ proc[p].step = "opened"
    /\ proc[p].mClientId # 0
    /\ \E num \in Incremented(p) :
           /\ memory' = [memory EXCEPT ![proc[p].object].num_clients = num]
           /\ proc' = [proc EXCEPT ![p].step = "counted", ![p].seen = num]
           /\ Counted(num)
    /\ UNCHANGED <<name, created, budget>>

\* The test that follows looks at what was written, or at num_clients again.
Tested(p) == {proc[p].seen, MemoryOf(p).num_clients}

Refused(num) == num >= MAX_CLIENTS

\* say_in_tunnel without a target pushes to the rings below num_clients but its own.
Others_Bad(t) == Id

Others(t) == Id \ {t.mClientId}

Says(t, type) == [t EXCEPT !.todo["app"] = Letters(Control(type), Others(t))]

\* A client that is accepted says HELLO.
JoinNext(p) ==
    /\ proc[p].step = "counted"
    /\ \E num \in Tested(p) : ~Refused(num)
    /\ proc' = [proc EXCEPT ![p] =
                   Says([proc[p] EXCEPT !.step = "greeting", !.seen = 0], "TUNNEL_HELLO")]
    /\ UNCHANGED <<memory, name, created, budget, mishaps>>

\* Too many: the constructor throws and num_clients stays incremented.
JoinFails(p) ==
    /\ proc[p].step = "counted"
    /\ \E num \in Tested(p) : Refused(num)
    /\ proc' = [proc EXCEPT ![p] = NoTunnel]
    /\ UNCHANGED <<memory, name, created, budget, mishaps>>

\* What a thread pushes next, one letter at most: loops go by the index, and that of
\* say_in_tunnel reads num_clients each time.
Due(p, h) ==
    {l \in proc[p].todo[h] : /\ \A j \in proc[p].todo[h] : l.ring <= j.ring
                             /\ h = "app" => l.ring < MemoryOf(p).num_clients}

Idle(p, h) == proc[p].op[h].kind = "none" /\ Due(p, h) = {}

JoinEnds(p) ==
    /\ proc[p].step = "greeting"
    /\ Idle(p, "app")
    /\ proc' = [proc EXCEPT ![p] = Running([@ EXCEPT !.todo["app"] = {}])]
    /\ UNCHANGED <<memory, name, created, budget, mishaps>>

-----------------------------------------------------------------------------
(* push and pop.                                                           *)

Begun(kind, k, r, packet) ==
    [kind |-> kind, ring |-> k, front |-> r.front, back |-> r.back, packet |-> packet,
     lock |-> "held"]

\* push has the ring of the letter l and its mutex.
MayPush(p, h, l) ==
    /\ proc[p].op[h].kind = "none"
    /\ l.ring \in Place
    /\ Free(MemoryOf(p).broadcast[l.ring])
    /\ Touches(l.ring)

Sent(p, l) == [source |-> proc[p].mClientId, message |-> l.message]

\* pop has the process's own ring and its mutex, in one turn of the loop in listen().
MayPop(p) ==
    /\ proc[p].listening
    /\ Idle(p, "io")
    /\ proc[p].mClientId \in Place
    /\ Free(OwnRing(p))
    /\ ~IsEmpty(OwnRing(p))

\* push and nothing comes between.
PushWhole(p, h) ==
    /\ \E l \in Due(p, h) :
          /\ MayPush(p, h, l)
          /\ SetRing(p, l.ring, Push(MemoryOf(p).broadcast[l.ring], Sent(p, l)))
          /\ proc' = [proc EXCEPT ![p].todo[h] = @ \ {l}]
    /\ UNCHANGED <<name, created, budget>>

\* push up to where it has read the indices.
BeginPush(p, h) ==
    /\ budget.splits > 0
    /\ budget' = [budget EXCEPT !.splits = @ - 1]
    /\ \E l \in Due(p, h) :
          LET r == MemoryOf(p).broadcast[l.ring]
          IN  /\ MayPush(p, h, l)
              /\ ~IsFull(r)
              /\ SetRing(p, l.ring, Lock(r))
              /\ proc' = [proc EXCEPT ![p].todo[h] = @ \ {l},
                                      ![p].op[h] = Begun("push", l.ring, r, Sent(p, l))]
    /\ UNCHANGED <<name, created>>

\* The processes once the operation x of p has unlocked its mutex, which may be in
\* the hands of another by now.
Unlocked(p, x) ==
    IF x.lock = "held" THEN proc ELSE Disturbed(proc[p].object, {x.ring}, "loose")

EndPush(p, h) ==
    LET x == proc[p].op[h]
        r == MemoryOf(p).broadcast[x.ring]
    IN  /\ x.kind = "push"
        /\ \E m \in Landed(r, x, x.lock = "loose"), b \in {x.back, r.back} :
              SetRing(p, x.ring, Pushed(r, m, b))
        /\ proc' = [Unlocked(p, x) EXCEPT ![p].op[h] = NoOp]
        /\ UNCHANGED <<name, created, budget, mishaps>>

\* The process after it handled one message of its ring.
Handled(t, source, m) ==
    CASE m.type = "TUNNEL_HELLO" ->
            [t EXCEPT !.clients[source] = IF @ = "UNKNOWN" THEN "HELLO" ELSE "CONNECTED"]
      [] m.type = "TUNNEL_BYE" -> [t EXCEPT !.clients[source] = "UNKNOWN"]
      [] m.type = "BYEBYE"     -> [t EXCEPT !.nodes[m.from] = NoSlot]
      [] OTHER -> [t EXCEPT !.nodes[m.from] = IF @ = NoSlot THEN source ELSE @]

\* Answers every HELLO.
Answers_Bad(t, source, m) == IF m.type = "TUNNEL_HELLO" THEN {source} ELSE {}

\* The slots that get a HELLO in return: that of a client not seen before.
Answers(t, source, m) ==
    IF m.type = "TUNNEL_HELLO" /\ t.clients[source] = "UNKNOWN" THEN {source} ELSE {}

\* The message is popped before is_running is looked at: a stopped tunnel loses it
\* and does not post listen() again.
Heard(t, source, m) ==
    IF t.is_running
    THEN [Handled(t, source, m) EXCEPT !.op["io"] = NoOp,
                                       !.todo["io"] =
                                           Letters(Control("TUNNEL_HELLO"), Answers(t, source, m))]
    ELSE [t EXCEPT !.op["io"] = NoOp, !.listening = FALSE]

PopWhole(p) ==
    /\ MayPop(p)
    /\ Touches(proc[p].mClientId)
    /\ SetRing(p, proc[p].mClientId, Pop(OwnRing(p)))
    /\ proc' = [proc EXCEPT ![p] = Heard(@, Top(OwnRing(p)).source, Top(OwnRing(p)).message)]
    /\ UNCHANGED <<name, created, budget>>

BeginPop(p) ==
    /\ budget.splits > 0
    /\ budget' = [budget EXCEPT !.splits = @ - 1]
    /\ MayPop(p)
    /\ Touches(proc[p].mClientId)
    /\ SetRing(p, proc[p].mClientId, Lock(OwnRing(p)))
    /\ proc' = [proc EXCEPT ![p].op["io"] =
                   Begun("pop", proc[p].mClientId, OwnRing(p), Top(OwnRing(p)))]
    /\ UNCHANGED <<name, created>>

EndPop(p) ==
    LET x == proc[p].op["io"]
        r == MemoryOf(p).broadcast[x.ring]
    IN  /\ x.kind = "pop"
        /\ \E popped \in Popped(r, x) : SetRing(p, x.ring, popped)
        /\ \E s, m \in Tops(r, x) :
              /\ proc' = [Unlocked(p, x) EXCEPT ![p] = Heard(@, s.source, m.message)]
              /\ mishaps' = IF Returned(s, m) \in Tops(r, x) THEN mishaps
                            ELSE mishaps \cup {"mixed"}
        /\ UNCHANGED <<name, created, budget>>

\* listen() finds nothing and does not post itself again.
ListenEnds(p) ==
    /\ proc[p].listening
    /\ Idle(p, "io")
    /\ proc[p].mClientId \in Place
    /\ Free(OwnRing(p))
    /\ IsEmpty(OwnRing(p))
    /\ ~proc[p].is_running
    /\ proc' = [proc EXCEPT ![p].listening = FALSE]
    /\ UNCHANGED <<memory, name, created, budget, mishaps>>

\* The loop takes in one ring too many.
Targets_Bad(p, m) ==
    CASE m.type \in AddressedType /\ m.to = NoNode -> {}
      [] m.type \in RoutedType /\ m.to # NoNode    -> {proc[p].nodes[m.to]} \ {NoSlot}
      [] OTHER                                     -> (0..MAX_CLIENTS) \ {proc[p].mClientId}

\* The slots forward() pushes m to, once the duplicate filter let it pass.
Targets(p, m) ==
    CASE m.type \in AddressedType /\ m.to = NoNode -> {}
      [] m.type \in RoutedType /\ m.to # NoNode    -> {proc[p].nodes[m.to]} \ {NoSlot}
      [] OTHER                                     -> Slot \ {proc[p].mClientId}

\* forward(), called by a gateway on the IO thread.
Forward(p, m) ==
    /\ proc[p].step \in {"up", "flagged"}
    /\ Idle(p, "io")
    /\ budget.forwards > 0
    /\ budget' = [budget EXCEPT !.forwards = @ - 1]
    /\ proc' = [proc EXCEPT ![p].todo["io"] =
                   Letters(IF m.type \in AddressedType THEN m ELSE [m EXCEPT !.to = NoNode],
                           Targets(p, m))]
    /\ UNCHANGED <<memory, name, created, mishaps>>

-----------------------------------------------------------------------------
(* stop_listening, on the application thread, and the destructor.          *)

StopFlag(p) ==
    /\ proc[p].step = "up"
    /\ budget.stops > 0
    /\ budget' = [budget EXCEPT !.stops = @ - 1]
    /\ proc' = [proc EXCEPT ![p].step = "flagged", ![p].is_running = FALSE]
    /\ UNCHANGED <<memory, name, created, mishaps>>

\* A write of clear(), which does not lock the mutex.
Clears(p, r) ==
    /\ proc[p].mClientId \in Place
    /\ Touches(proc[p].mClientId)
    /\ SetRing(p, proc[p].mClientId, r)
    /\ UNCHANGED <<name, created, budget>>

Cleared(p) == Disturbed(proc[p].object, {proc[p].mClientId}, "torn")

\* The front first.
StopClearFront(p) ==
    /\ proc[p].step = "flagged"
    /\ Clears(p, ClearFront(OwnRing(p)))
    /\ proc' = [Cleared(p) EXCEPT ![p].step = "clearing"]

\* Then the back, and BYE to everyone.
StopClearBack(p) ==
    /\ proc[p].step = "clearing"
    /\ Clears(p, ClearBack(OwnRing(p)))
    /\ proc' = [Cleared(p) EXCEPT ![p] = Says([@ EXCEPT !.step = "bye"], "TUNNEL_BYE")]

StopEnds(p) ==
    /\ proc[p].step = "bye"
    /\ Idle(p, "app")
    /\ proc' = [proc EXCEPT ![p].step = "stopped", ![p].todo["app"] = {}]
    /\ UNCHANGED <<memory, name, created, budget, mishaps>>

\* The destructor looks at num_clients. Controller runs it when a task posted behind
\* listen() was served, which is taken to mean that listen() has ended.
DestroyReads(p) ==
    /\ proc[p].step = "stopped"
    /\ ~proc[p].listening
    /\ Idle(p, "io")
    /\ proc' = [proc EXCEPT ![p].step = "leaving", ![p].seen = MemoryOf(p).num_clients]
    /\ UNCHANGED <<memory, name, created, budget, mishaps>>

\* num_clients--, from the value that was tested or from num_clients read again.
Decremented(p) == {proc[p].seen - 1, Dec(MemoryOf(p).num_clients)}

DestroyCounts(p) ==
    /\ proc[p].step = "leaving"
    /\ proc[p].seen > 1
    /\ \E num \in Decremented(p) :
           /\ memory' = [memory EXCEPT ![proc[p].object].num_clients = num]
           /\ Counted(num)
    /\ proc' = [proc EXCEPT ![p] = NoTunnel]
    /\ UNCHANGED <<name, created, budget>>

\* The last one out removes the name, whatever object it leads to by then.
DestroyLast(p) ==
    /\ proc[p].step = "leaving"
    /\ proc[p].seen <= 1
    /\ name' = NoObject
    /\ proc' = [proc EXCEPT ![p] = NoTunnel]
    /\ UNCHANGED <<memory, created, budget, mishaps>>

-----------------------------------------------------------------------------
(* The end of a process.  A mutex that it holds stays locked.              *)

Crash(p) ==
    /\ proc[p].step # "down"
    /\ budget.crashes > 0
    /\ budget' = [budget EXCEPT !.crashes = @ - 1]
    /\ proc' = [proc EXCEPT ![p] = NoTunnel]
    /\ UNCHANGED <<memory, name, created, mishaps>>

\* The rings that the threads of p use next.
Used(p) ==
    {l.ring : l \in Due(p, "app") \cup Due(p, "io")}
        \cup {k \in {proc[p].mClientId} :
                 \/ proc[p].listening /\ Idle(p, "io")
                 \/ proc[p].step \in {"flagged", "clearing"}}

\* A ring that is not in the mapped region.
Fault(p) ==
    /\ \E k \in Used(p) : k \notin Place
    /\ proc' = [proc EXCEPT ![p] = NoTunnel]
    /\ mishaps' = mishaps \cup {"overrun"}
    /\ UNCHANGED <<memory, name, created, budget>>

Next ==
    \E p \in Process :
        \/ Open(p) \/ JoinFirst(p) \/ JoinCounts(p) \/ JoinNext(p) \/ JoinFails(p)
        \/ JoinEnds(p)
        \/ \E h \in Thread : PushWhole(p, h) \/ BeginPush(p, h) \/ EndPush(p, h)
        \/ PopWhole(p) \/ BeginPop(p) \/ EndPop(p) \/ ListenEnds(p)
        \/ \E m \in Outgoing : Forward(p, m)
        \/ StopFlag(p) \/ StopClearFront(p) \/ StopClearBack(p) \/ StopEnds(p)
        \/ DestroyReads(p) \/ DestroyCounts(p) \/ DestroyLast(p)
        \/ Crash(p) \/ Fault(p)

\* The IO thread of a process that is up keeps calling listen(), and a thread that
\* has a mutex goes on.
Fairness ==
    \A p \in Process :
        /\ WF_vars(PopWhole(p)) /\ WF_vars(EndPop(p))
        /\ WF_vars(PushWhole(p, "io"))
        /\ \A h \in Thread : WF_vars(EndPush(p, h))

Spec == Init /\ [][Next]_vars /\ Fairness

-----------------------------------------------------------------------------
(* Properties.                                                             *)

\* Every variable has its type.
TypeOK ==
    /\ memory \in [Object -> [num_clients : Id, broadcast : [Place -> Ring]]]
    /\ name \in Object \cup {NoObject}
    /\ created \in 0..MaxObjects
    /\ proc \in [Process -> Tunnel]
    /\ budget \in Budget
    /\ mishaps \subseteq Mishap

Alive(p) == proc[p].step \notin {"down", "opened", "counted"}

\* No ring holds a message that was pushed from its own slot, not even one that an
\* unlocked clear() brought back or a slot's former owner left: listen() never
\* handles its own broadcast, answers its own HELLO or learns a route to itself.
\* The exceptions are a cell that was never written, whose zeroes name slot 0, and
\* what follows when a pop that clear() disturbed took those for a message's source.
NoOwnMessage ==
    "mixed" \notin mishaps =>
        \A o \in Object, k \in Place :
            \A p \in ToSet(Contents(memory[o].broadcast[k])) : p # Blank => p.source # k

\* A client uses a ring behind the last slot only once num_clients was wrong: until
\* constructors have counted to MAX_CLIENTS or destructors below 0, every id,
\* route, answer and loop stays within the array.
ArrayBounds ==
    "count" \notin mishaps =>
        /\ "overrun" \notin mishaps
        /\ \A o \in Object : memory[o].num_clients < MAX_CLIENTS

\* What changes the ring k of object o behind the mutex: construction, clear(), and
\* the end of a push or pop that one of them came between.
Unguarded(o, k) ==
    \E p \in Process :
        /\ proc[p].object = o
        /\ \/ proc[p].step = "opened" /\ proc'[p].step = "up"
           \/ /\ proc[p].mClientId = k
              /\ proc[p].step \in {"flagged", "clearing"} /\ proc'[p].step # proc[p].step
           \/ \E h \in Thread : /\ proc[p].op[h].ring = k /\ proc[p].op[h].lock # "held"
                                 /\ proc'[p].op[h] = NoOp

\* But for that a ring is a bounded queue: a step takes the oldest message, appends
\* one, or does nothing.  push and pop read the indices in one step and write them
\* in another, and no push, pop or process that starts or ends comes between.
RingIsQueue ==
    [][\A o \in Object, k \in Place :
          LET old == Contents(memory[o].broadcast[k])
              new == Contents(memory'[o].broadcast[k])
          IN  \/ Unguarded(o, k)
              \/ new = old
              \/ old # <<>> /\ new = Tail(old)
              \/ /\ Len(new) = Len(old) + 1
                 /\ SubSeq(new, 1, Len(old)) = old]_vars

HelloPending(p) ==
    /\ proc[p].step = "up"
    /\ proc[p].mClientId \in Place
    /\ \E i \in DOMAIN Contents(OwnRing(p)) :
          Contents(OwnRing(p))[i].message.type = "TUNNEL_HELLO"

\* A mutex that a process held when it ended: whoever waits for it waits for ever.
Abandoned(o) ==
    \E k \in Place :
        /\ memory[o].broadcast[k].mutex
        /\ \A p \in Process, h \in Thread :
              ~(proc[p].object = o /\ proc[p].op[h].kind # "none" /\ proc[p].op[h].ring = k)

\* HELLO is answered with HELLO, but not for ever, also between clients that
\* share a slot: with no more clients coming the exchange ends, unless a process
\* ended with a mutex locked.
HellosEnd ==
    \A p \in Process : <>[](HelloPending(p) => Abandoned(proc[p].object))

\* The comment on SharedMemory (ShmTunnel.hpp): "Each client has a 'broadcast'
\* buffer": no two running clients use the same ring.
OwnBuffer ==
    \A p, q \in Process :
        p # q /\ Alive(p) /\ Alive(q) /\ proc[p].object = proc[q].object =>
            proc[p].mClientId # proc[q].mClientId
=============================================================================
