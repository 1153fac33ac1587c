-------------------------- MODULE ShmTunnelProofs --------------------------
(* The shared memory tunnel for any set of processes, any number of slots,   *)
(* cells, objects and messages.  Inv says where every id, route, letter and  *)
(* cell can come from: while num_clients was right, from the slots, and      *)
(* while no pop mixed two messages, never from the ring's own slot.  LockInv *)
(* says what the mutex is good for: of the operations under way on a ring    *)
(* one at most is not "loose", and if it is "held" the ring is as it read it.*)
EXTENDS ShmTunnel, SequencesExt, Integers, TLAPS

-----------------------------------------------------------------------------
(* Packets and rings.                                                       *)

\* What may be in a cell of ring k when the mishaps M have happened.
PacketOk(x, k, M) ==
    /\ x \in Packet
    /\ "mixed" \notin M => x = Blank \/ x.source # k
    /\ "count" \notin M => x.source \in Slot

\* The ring k, in the cells too that cannot be popped: clear() can bring them back.
RingOk(r, k, M) == r \in Ring /\ \A c \in Cell : PacketOk(r.messages[c], k, M)

\* The cell behind a cell is a cell.
LEMMA SuccIsCell ==
    ASSUME NEW c \in Cell
    PROVE  Succ(c) \in Cell
BY CellsAssumption DEF Cell, Succ

\* Slots are places and places are ids.
LEMMA IdFacts ==
    /\ Slot \subseteq Place /\ Place \subseteq Id /\ Slot \subseteq Id /\ Id \subseteq Nat
    /\ 0 \in Slot /\ 1 \in Slot /\ 0 \in Place /\ 0 \in Id /\ 1 \in Id /\ SIZE_MAX \in Id
    /\ NoSlot \notin Id
BY ClientsAssumption, RegionAssumption, SizeAssumption, NoSlotAssumption DEF Slot, Place, Id

\* Zeroes are a packet, of slot 0.
LEMMA BlankIsPacket ==
    Blank \in Packet /\ Blank.source = 0 /\ Blank.message.type = "ZERO"
    /\ Blank.message.from = NoNode
BY IdFacts, BlankAssumption, PacketAssumption DEF Message

\* And they may be in any ring.
LEMMA BlankOk == \A k, M : PacketOk(Blank, k, M)
BY BlankIsPacket, IdFacts DEF PacketOk

\* A cell of a ring holds a packet.
LEMMA CellHoldsPacket ==
    ASSUME NEW r \in Ring, NEW c \in Cell
    PROVE  /\ r.messages[c] \in Packet
           /\ r.messages[c].source \in Id
           /\ r.messages[c].message \in Message
<1>1. r.messages[c] \in Packet
  BY BlankIsPacket DEF Ring
<1> QED
  BY <1>1, PacketAssumption

\* A mishap forbids nothing.
LEMMA PacketOkMonotone ==
    ASSUME NEW x, NEW k, NEW M, NEW N, M \subseteq N, PacketOk(x, k, M)
    PROVE  PacketOk(x, k, N)
BY DEF PacketOk

LEMMA RingOkMonotone ==
    ASSUME NEW r, NEW k, NEW M, NEW N, M \subseteq N, RingOk(r, k, M)
    PROVE  RingOk(r, k, N)
BY PacketOkMonotone DEF RingOk

\* A ring that was just constructed.
LEMMA EmptyRingOk == EmptyRing \in Ring /\ \A k, M : RingOk(EmptyRing, k, M)
<1>1. 0 \in Cell
  BY CellsAssumption DEF Cell
<1>2. EmptyRing \in Ring
  BY <1>1 DEF EmptyRing, Ring
<1>3. \A c \in Cell : EmptyRing.messages[c] = Blank
  BY DEF EmptyRing
<1> QED
  BY <1>2, <1>3, BlankOk DEF RingOk

\* A ring whose cells hold what they held, or a packet that they may hold.
LEMMA CellsOk ==
    ASSUME NEW r, NEW k, NEW M, RingOk(r, k, M), NEW x, PacketOk(x, k, M), NEW s \in Ring,
           \A c \in Cell : s.messages[c] = r.messages[c] \/ s.messages[c] = x
    PROVE  RingOk(s, k, M)
BY DEF RingOk

\* push() of a message.
LEMMA PushOk ==
    ASSUME NEW r, NEW k, NEW M, RingOk(r, k, M), NEW x, PacketOk(x, k, M)
    PROVE  RingOk(Push(r, x), k, M)
<1>1. CASE IsFull(r)
  BY <1>1 DEF Push
<1>2. CASE ~IsFull(r)
  <2>1. r \in Ring /\ r.back \in Cell /\ x \in Packet
    BY DEF RingOk, Ring, PacketOk
  <2>2. Succ(r.back) \in Cell
    BY <2>1, SuccIsCell
  <2>3. Push(r, x) = [r EXCEPT !.messages[r.back] = x, !.back = Succ(r.back)]
    BY <1>2 DEF Push
  <2>4. Push(r, x) \in Ring
    BY <2>1, <2>2, <2>3 DEF Ring
  <2>5. \A c \in Cell : Push(r, x).messages[c] = IF c = r.back THEN x ELSE r.messages[c]
    BY <2>1, <2>3 DEF Ring
  <2> QED
    BY <2>4, <2>5, CellsOk
<1> QED
  BY <1>1, <1>2

\* The end of a push that something may have come between.
LEMMA PushedOk ==
    ASSUME NEW r, NEW k, NEW M, RingOk(r, k, M), NEW x, PacketOk(x.packet, k, M),
           x.back \in Cell, NEW w, NEW m \in Landed(r, x, w), NEW b \in {x.back, r.back}
    PROVE  RingOk(Pushed(r, m, b), k, M)
<1>1. r \in Ring /\ r.back \in Cell /\ x.packet \in Packet
      /\ r.messages \in [Cell -> Packet \cup {Blank}]
  BY DEF RingOk, Ring, PacketOk
<1>2. Succ(b) \in Cell
  BY <1>1, SuccIsCell
<1>3. m = r.messages \/ \E c \in Cell : m = [r.messages EXCEPT ![c] = x.packet]
  BY <1>1 DEF Landed
<1>4. m \in [Cell -> Packet \cup {Blank}]
      /\ \A c \in Cell : m[c] = r.messages[c] \/ m[c] = x.packet
  BY <1>1, <1>3
<1>5. Pushed(r, m, b) \in Ring /\ Pushed(r, m, b).messages = m
  BY <1>1, <1>2, <1>4 DEF Ring, Pushed
<1> QED
  BY <1>4, <1>5, CellsOk

\* pop(), its end, the mutex and the halves of clear() leave the cells alone.
LEMMA IndexOk ==
    ASSUME NEW r, NEW k, NEW M, RingOk(r, k, M)
    PROVE  /\ RingOk(Pop(r), k, M) /\ RingOk(Lock(r), k, M)
           /\ RingOk(ClearFront(r), k, M) /\ RingOk(ClearBack(r), k, M)
           /\ \A x : x.front \in Cell => \A s \in Popped(r, x) : RingOk(s, k, M)
<1>1. r \in Ring /\ r.front \in Cell
  BY DEF RingOk, Ring
<1>2. Succ(r.front) \in Cell /\ 0 \in Cell
  BY <1>1, SuccIsCell, CellsAssumption DEF Cell
<1>3. Pop(r) \in Ring /\ Pop(r).messages = r.messages
  BY <1>1, <1>2 DEF Pop, Ring
<1>4. ClearFront(r) \in Ring /\ ClearFront(r).messages = r.messages
  BY <1>1, <1>2 DEF ClearFront, Ring
<1>5. ClearBack(r) \in Ring /\ ClearBack(r).messages = r.messages
  BY <1>1, <1>2 DEF ClearBack, Ring
<1>6. Lock(r) \in Ring /\ Lock(r).messages = r.messages
  BY <1>1 DEF Lock, Ring
<1>7. ASSUME NEW x, x.front \in Cell, NEW s \in Popped(r, x)
      PROVE  s \in Ring /\ s.messages = r.messages
  <2>1. PICK f \in {x.front, r.front} : s = [r EXCEPT !.mutex = FALSE, !.front = Succ(f)]
    BY <1>7 DEF Popped
  <2>2. Succ(f) \in Cell
    BY <1>1, <1>7, <2>1, SuccIsCell
  <2> QED
    BY <1>1, <2>1, <2>2 DEF Ring
<1> QED
  BY <1>3, <1>4, <1>5, <1>6, <1>7 DEF RingOk

\* What a pop finds at the front may be there.
LEMMA TopsOk ==
    ASSUME NEW r, NEW k, NEW M, RingOk(r, k, M), NEW x, PacketOk(x.packet, k, M),
           x.front \in Cell
    PROVE  /\ PacketOk(Top(r), k, M)
           /\ \A y \in Tops(r, x) : PacketOk(y, k, M)
BY DEF RingOk, Ring, Top, Tops

-----------------------------------------------------------------------------
(* A ring as a queue.                                                       *)

\* The contents of a ring are a sequence, and its entries are cells of the ring.
LEMMA ContentsProperties ==
    ASSUME NEW r \in Ring
    PROVE  /\ Count(r) \in Cell
           /\ Contents(r) \in Seq(Packet)
           /\ Len(Contents(r)) = Count(r)
           /\ DOMAIN Contents(r) = 1..Count(r)
           /\ \A i \in 1..Count(r) :
                 /\ CellAt(r, i - 1) \in Cell
                 /\ Contents(r)[i] = r.messages[CellAt(r, i - 1)]
<1>1. r.front \in Cell /\ r.back \in Cell
  BY DEF Ring
<1>2. Count(r) \in Cell
  BY <1>1, CellsAssumption DEF Count, Cell
<1>3. \A i \in 1..Count(r) : CellAt(r, i - 1) \in Cell
  BY <1>1, <1>2, CellsAssumption DEF CellAt, Cell
<1>4. \A i \in 1..Count(r) : r.messages[CellAt(r, i - 1)] \in Packet
  BY <1>3, CellHoldsPacket
<1>5. Count(r) \in Nat
  BY <1>2, CellsAssumption DEF Cell
<1>6. Contents(r) \in [1..Count(r) -> Packet]
  BY <1>4 DEF Contents
<1>7. Contents(r) \in Seq(Packet) /\ Len(Contents(r)) = Count(r)
  BY <1>5, <1>6
<1> QED
  BY <1>2, <1>3, <1>7 DEF Contents

\* A message that is pushed is the last of the queue, and a full ring drops it.
LEMMA PushAppends ==
    ASSUME NEW r \in Ring, NEW p \in Packet
    PROVE  /\ IsFull(r) => Contents(Push(r, p)) = Contents(r)
           /\ ~IsFull(r) => /\ Push(r, p) \in Ring
                            /\ Contents(Push(r, p)) = Append(Contents(r), p)
<1>1. CASE IsFull(r)
  BY <1>1 DEF Push
<1>2. CASE ~IsFull(r)
  <2> DEFINE s == Push(r, p)
             n == Count(r)
  <2>1. r.front \in Cell /\ r.back \in Cell /\ Succ(r.back) \in Cell /\ Succ(r.back) # r.front
    BY <1>2, SuccIsCell DEF Ring, IsFull
  <2>2. s = [r EXCEPT !.messages[r.back] = p, !.back = Succ(r.back)]
    BY <1>2 DEF Push
  <2>3. s \in Ring
    BY <2>1, <2>2 DEF Ring
  <2>4. /\ s.front = r.front /\ s.back = Succ(r.back)
        /\ \A c \in Cell : s.messages[c] = IF c = r.back THEN p ELSE r.messages[c]
    BY <2>1, <2>2 DEF Ring
  <2>5. Count(s) = n + 1
    BY <2>1, <2>4, CellsAssumption DEF Count, Cell, Succ
  <2>6. \A i \in 1..(n + 1) : CellAt(s, i - 1) = CellAt(r, i - 1)
    BY <2>4 DEF CellAt
  <2>7. n \in Nat /\ n \in Cell
    BY <2>1, CellsAssumption DEF Count, Cell
  <2>8. \A i \in 1..n : CellAt(r, i - 1) # r.back
    BY <2>1, CellsAssumption DEF Count, Cell, CellAt
  <2>9. CellAt(r, (n + 1) - 1) = r.back
    BY <2>1, CellsAssumption DEF Count, Cell, CellAt
  <2>10. \A i \in 1..n : Contents(s)[i] = Contents(r)[i]
    <3> TAKE i \in 1..n
    <3>1. i \in 1..(n + 1)
      BY <2>7
    <3> QED
      BY <3>1, <2>3, <2>4, <2>5, <2>6, <2>8, ContentsProperties, SMTT(30)
  <2>11. Contents(s)[n + 1] = p
    <3>1. n + 1 \in 1..(n + 1)
      BY <2>7
    <3> QED
      BY <3>1, <2>1, <2>3, <2>4, <2>5, <2>6, <2>9, ContentsProperties
  <2>12. /\ Contents(s) \in Seq(Packet) /\ Len(Contents(s)) = n + 1
         /\ Contents(r) \in Seq(Packet) /\ Len(Contents(r)) = n
    BY <2>3, <2>5, ContentsProperties
  <2>13. Contents(s) = Append(Contents(r), p)
    BY <2>7, <2>10, <2>11, <2>12
  <2> QED
    BY <1>2, <2>3, <2>13
<1> QED
  BY <1>1, <1>2

\* The message that is popped is the first of the queue.
LEMMA PopTakesHead ==
    ASSUME NEW r \in Ring, ~IsEmpty(r)
    PROVE  /\ Contents(r) # <<>>
           /\ Pop(r) \in Ring
           /\ Contents(Pop(r)) = Tail(Contents(r))
<1> DEFINE s == Pop(r)
           n == Count(r)
<1>1. r.front \in Cell /\ r.back \in Cell /\ Succ(r.front) \in Cell /\ r.front # r.back
  BY SuccIsCell DEF Ring, IsEmpty
<1>2. s \in Ring /\ s.front = Succ(r.front) /\ s.back = r.back /\ s.messages = r.messages
  BY <1>1 DEF Pop, Ring
<1>3. n \in Nat /\ n > 0 /\ Count(s) = n - 1
  BY <1>1, <1>2, CellsAssumption DEF Count, Cell, Succ
<1>4. \A i \in 1..(n - 1) : CellAt(s, i - 1) = CellAt(r, (i + 1) - 1)
  BY <1>1, <1>2, CellsAssumption DEF Count, Cell, CellAt, Succ
<1>5. /\ Contents(s) \in Seq(Packet) /\ Len(Contents(s)) = n - 1
      /\ Contents(r) \in Seq(Packet) /\ Len(Contents(r)) = n
  BY <1>2, <1>3, ContentsProperties
<1>6. \A i \in 1..(n - 1) : Contents(s)[i] = Contents(r)[i + 1]
  <2> TAKE i \in 1..(n - 1)
  <2>1. i + 1 \in 1..n /\ i \in 1..Count(s)
    BY <1>3
  <2>2. Contents(s)[i] = r.messages[CellAt(s, i - 1)]
    BY <2>1, <1>2, ContentsProperties
  <2>3. Contents(r)[i + 1] = r.messages[CellAt(r, (i + 1) - 1)]
    BY <2>1, ContentsProperties
  <2> QED
    BY <2>2, <2>3, <1>4
<1>7. Contents(r) # <<>>
  BY <1>3, <1>5
<1>8. /\ Tail(Contents(r)) \in Seq(Packet)
      /\ Len(Tail(Contents(r))) = n - 1
      /\ \A i \in 1..(n - 1) : Tail(Contents(r))[i] = Contents(r)[i + 1]
  BY <1>3, <1>5, <1>7
<1> QED
  BY <1>2, <1>3, <1>5, <1>6, <1>7, <1>8

-----------------------------------------------------------------------------
(* The invariant.                                                           *)

\* The route k of a node that has an id, at the client id.
RouteOk(k, id, M) ==
    k # NoSlot => /\ "mixed" \notin M => k # id
                  /\ "count" \notin M => k \in Slot

\* A letter that thread h of the client id pushes.
LetterOk(l, h, id, M) ==
    /\ l \in Letter
    /\ "mixed" \notin M => l.ring # id
    /\ "count" \notin M /\ h = "io" => l.ring \in Slot

\* A push or pop under way at the client id.
OpOk(x, id, M) ==
    /\ x \in Op
    /\ PacketOk(x.packet, x.ring, M)
    /\ x.kind = "pop" => x.ring = id

RoutesOk(t, M) == \A n \in NodeId : n # NoNode => RouteOk(t.nodes[n], t.mClientId, M)
TodoOk(t, M) == \A h \in Thread : \A l \in t.todo[h] : LetterOk(l, h, t.mClientId, M)
OpsOk(t, M) == \A h \in Thread : OpOk(t.op[h], t.mClientId, M)
IdsOk(t, M) == "count" \notin M => t.mClientId \in Slot /\ t.seen \in Slot

TunnelOk(t, M) ==
    /\ t \in Tunnel
    /\ t = NoTunnel \/ t.object \in Object
    /\ IdsOk(t, M)
    /\ RoutesOk(t, M)
    /\ TodoOk(t, M)
    /\ OpsOk(t, M)

Shared == [num_clients : Id, broadcast : [Place -> Ring]]

MemoryOk(m, M) ==
    /\ m \in Shared
    /\ "count" \notin M => m.num_clients \in Slot
    /\ \A k \in Place : RingOk(m.broadcast[k], k, M)

SharedTypes ==
    /\ name \in Object \cup {NoObject}
    /\ created \in 0..MaxObjects
    /\ budget \in Budget
    /\ mishaps \subseteq Mishap

MemoryInv == memory \in [Object -> Shared] /\ \A o \in Object : MemoryOk(memory[o], mishaps)
TunnelsInv == proc \in [Process -> Tunnel] /\ \A p \in Process : TunnelOk(proc[p], mishaps)
MishapInv == "count" \notin mishaps => "overrun" \notin mishaps

Inv == SharedTypes /\ MemoryInv /\ TunnelsInv /\ MishapInv

\* A mishap forbids nothing.
LEMMA TunnelOkMonotone ==
    ASSUME NEW t, NEW M, NEW N, M \subseteq N, TunnelOk(t, M)
    PROVE  TunnelOk(t, N)
<1>1. \A k, id : RouteOk(k, id, M) => RouteOk(k, id, N)
  BY DEF RouteOk
<1>2. \A l, h, id : LetterOk(l, h, id, M) => LetterOk(l, h, id, N)
  BY DEF LetterOk
<1>3. \A x, id : OpOk(x, id, M) => OpOk(x, id, N)
  BY PacketOkMonotone DEF OpOk
<1> QED
  BY <1>1, <1>2, <1>3 DEF TunnelOk, IdsOk, RoutesOk, TodoOk, OpsOk

LEMMA MemoryOkMonotone ==
    ASSUME NEW m, NEW M, NEW N, M \subseteq N, MemoryOk(m, M)
    PROVE  MemoryOk(m, N)
BY RingOkMonotone DEF MemoryOk

\* No push or pop under way.
LEMMA NoOpOk ==
    NoOp \in Op /\ NoOp.kind = "none" /\ \A id, M : OpOk(NoOp, id, M)
<1>1. 0 \in Cell
  BY CellsAssumption DEF Cell
<1>2. NoOp \in Op
  BY <1>1, IdFacts, BlankIsPacket DEF NoOp, Op
<1>3. NoOp.packet = Blank /\ NoOp.kind = "none"
  BY DEF NoOp
<1> QED
  BY <1>2, <1>3, BlankOk DEF OpOk

\* A process without a tunnel.
LEMMA NoTunnelOk ==
    /\ \A M : TunnelOk(NoTunnel, M)
    /\ NoTunnel.step = "down" /\ NoTunnel.object = NoObject
    /\ ~NoTunnel.listening
    /\ \A h \in Thread : NoTunnel.todo[h] = {} /\ NoTunnel.op[h] = NoOp
<1>1. NoTunnel \in Tunnel
  BY NoOpOk, IdFacts DEF NoTunnel, Tunnel, ClientState
<1>2. /\ NoTunnel.step = "down" /\ NoTunnel.object = NoObject /\ ~NoTunnel.listening
      /\ NoTunnel.mClientId = 0 /\ NoTunnel.seen = 0
      /\ \A h \in Thread : NoTunnel.todo[h] = {} /\ NoTunnel.op[h] = NoOp
      /\ \A n \in NodeId : NoTunnel.nodes[n] = NoSlot
  BY DEF NoTunnel
<1>3. \A M : TodoOk(NoTunnel, M) /\ OpsOk(NoTunnel, M) /\ IdsOk(NoTunnel, M)
  BY <1>2, NoOpOk, IdFacts DEF TodoOk, OpsOk, IdsOk
<1>4. \A M : RoutesOk(NoTunnel, M)
  BY <1>2 DEF RoutesOk, RouteOk
<1> QED
  BY <1>1, <1>2, <1>3, <1>4 DEF TunnelOk

\* The initial states.
LEMMA InitInv == Init => Inv
<1> SUFFICES ASSUME Init PROVE Inv
  OBVIOUS
<1>1. SharedTypes
  BY BudgetsAssumption, ObjectsAssumption DEF Init, SharedTypes
<1>2. TunnelsInv
  <2>1. \A p \in Process : proc[p] = NoTunnel
    BY DEF Init
  <2>2. NoTunnel \in Tunnel
    BY NoTunnelOk DEF TunnelOk
  <2> QED
    BY <2>1, <2>2, NoTunnelOk DEF Init, TunnelsInv
<1>3. MemoryInv
  <2> DEFINE m == [num_clients |-> 0, broadcast |-> [k \in Place |-> EmptyRing]]
  <2>1. m \in Shared /\ m.num_clients \in Slot
    BY EmptyRingOk, IdFacts DEF Shared
  <2>2. \A k \in Place : m.broadcast[k] = EmptyRing
    OBVIOUS
  <2>3. \A M : MemoryOk(m, M)
    BY <2>1, <2>2, EmptyRingOk DEF MemoryOk
  <2>4. memory = [o \in Object |-> m]
    BY DEF Init
  <2> HIDE DEF m
  <2> QED
    BY <2>1, <2>3, <2>4 DEF MemoryInv
<1>4. MishapInv
  BY DEF Init, MishapInv
<1> QED
  BY <1>1, <1>2, <1>3, <1>4 DEF Inv

-----------------------------------------------------------------------------
(* What the steps have in common.                                           *)

\* Everything about a process that has a tunnel.
LEMMA LiveFacts ==
    ASSUME Inv, NEW p \in Process,
           \/ proc[p].step # "down"
           \/ proc[p].listening
           \/ \E h \in Thread : proc[p].todo[h] # {} \/ proc[p].op[h].kind # "none"
    PROVE  /\ TunnelOk(proc[p], mishaps) /\ proc[p] \in Tunnel
           /\ proc[p].object \in Object
           /\ proc[p].mClientId \in Id
           /\ MemoryOk(MemoryOf(p), mishaps)
           /\ MemoryOf(p) \in Shared
           /\ MemoryOf(p).num_clients \in Id
           /\ \A k \in Place : RingOk(MemoryOf(p).broadcast[k], k, mishaps)
<1>1. TunnelOk(proc[p], mishaps)
  BY DEF Inv, TunnelsInv
<1>2. proc[p] # NoTunnel
  BY NoTunnelOk, NoOpOk
<1>3. proc[p] \in Tunnel /\ proc[p].object \in Object
  BY <1>1, <1>2 DEF TunnelOk
<1>4. MemoryOk(MemoryOf(p), mishaps)
  BY <1>3 DEF Inv, MemoryInv, MemoryOf
<1>5. MemoryOf(p) \in Shared /\ \A k \in Place : RingOk(MemoryOf(p).broadcast[k], k, mishaps)
  BY <1>4 DEF MemoryOk
<1> QED
  BY <1>1, <1>3, <1>4, <1>5 DEF Tunnel, Shared

\* The operations of a tunnel whose locks have changed.
Relocked(t, u) ==
    /\ u.step = t.step /\ u.object = t.object /\ u.mClientId = t.mClientId
    /\ u.seen = t.seen /\ u.is_running = t.is_running /\ u.listening = t.listening
    /\ u.nodes = t.nodes /\ u.clients = t.clients /\ u.todo = t.todo
    /\ \A h \in Thread :
          /\ u.op[h].kind = t.op[h].kind /\ u.op[h].ring = t.op[h].ring
          /\ u.op[h].front = t.op[h].front /\ u.op[h].back = t.op[h].back
          /\ u.op[h].packet = t.op[h].packet

\* The processes after a write without the mutex.
LEMMA DisturbedFacts ==
    ASSUME Inv, NEW o, NEW S, NEW lock \in {"torn", "loose"}
    PROVE  /\ Disturbed(o, S, lock) \in [Process -> Tunnel]
           /\ \A q \in Process :
                 /\ TunnelOk(Disturbed(o, S, lock)[q], mishaps)
                 /\ Relocked(proc[q], Disturbed(o, S, lock)[q])
                 /\ \A g \in Thread :
                       Disturbed(o, S, lock)[q].op[g] =
                          IF proc[q].object = o /\ proc[q].op[g].kind # "none"
                             /\ proc[q].op[g].ring \in S /\ proc[q].op[g].lock # "loose"
                          THEN [proc[q].op[g] EXCEPT !.lock = lock]
                          ELSE proc[q].op[g]
<1> DEFINE New(q, g) == IF proc[q].object = o /\ proc[q].op[g].kind # "none"
                           /\ proc[q].op[g].ring \in S /\ proc[q].op[g].lock # "loose"
                        THEN [proc[q].op[g] EXCEPT !.lock = lock]
                        ELSE proc[q].op[g]
           D == Disturbed(o, S, lock)
<1>1. D = [q \in Process |-> [proc[q] EXCEPT !.op = [g \in Thread |-> New(q, g)]]]
  BY DEF Disturbed
<1>2. ASSUME NEW q \in Process
      PROVE  /\ D[q] \in Tunnel
             /\ TunnelOk(D[q], mishaps)
             /\ Relocked(proc[q], D[q])
             /\ \A g \in Thread : D[q].op[g] = New(q, g)
  <2>1. TunnelOk(proc[q], mishaps) /\ proc[q] \in Tunnel
    BY DEF Inv, TunnelsInv, TunnelOk
  <2>2. proc[q].op \in [Thread -> Op]
    BY <2>1 DEF Tunnel
  <2>3. \A g \in Thread :
           /\ New(q, g) \in Op
           /\ New(q, g).kind = proc[q].op[g].kind /\ New(q, g).ring = proc[q].op[g].ring
           /\ New(q, g).front = proc[q].op[g].front /\ New(q, g).back = proc[q].op[g].back
           /\ New(q, g).packet = proc[q].op[g].packet
    BY <2>2 DEF Op
  <2> DEFINE ops == [g \in Thread |-> New(q, g)]
  <2>4. D[q] = [proc[q] EXCEPT !.op = ops]
    BY <1>1
  <2>5. ops \in [Thread -> Op] /\ \A g \in Thread : ops[g] = New(q, g)
    BY <2>3
  <2>6. proc[q] = NoTunnel => ops = proc[q].op
    <3> SUFFICES ASSUME proc[q] = NoTunnel PROVE ops = proc[q].op
      OBVIOUS
    <3>1. \A g \in Thread : proc[q].op[g].kind = "none"
      BY NoTunnelOk, NoOpOk
    <3>2. \A g \in Thread : New(q, g) = proc[q].op[g]
      BY <3>1
    <3> QED
      BY <3>2, <2>2, <2>5
  <2> HIDE DEF ops, New, D
  <2>7. D[q] \in Tunnel
    BY <2>1, <2>4, <2>5 DEF Tunnel
  <2>8. /\ D[q].step = proc[q].step /\ D[q].object = proc[q].object
        /\ D[q].mClientId = proc[q].mClientId /\ D[q].seen = proc[q].seen
        /\ D[q].is_running = proc[q].is_running /\ D[q].listening = proc[q].listening
        /\ D[q].nodes = proc[q].nodes /\ D[q].clients = proc[q].clients
        /\ D[q].todo = proc[q].todo /\ D[q].op = ops
    BY <2>1, <2>4 DEF Tunnel
  <2>9. Relocked(proc[q], D[q])
    BY <2>3, <2>5, <2>8 DEF Relocked
  <2>10. OpsOk(D[q], mishaps)
    BY <2>1, <2>3, <2>5, <2>8 DEF TunnelOk, OpsOk, OpOk
  <2>11. D[q] = NoTunnel \/ D[q].object \in Object
    <3>1. CASE proc[q] = NoTunnel
      <4>1. D[q] = proc[q]
        BY <3>1, <2>1, <2>4, <2>6 DEF Tunnel
      <4> QED
        BY <3>1, <4>1
    <3>2. CASE proc[q] # NoTunnel
      BY <3>2, <2>1, <2>8 DEF TunnelOk
    <3> QED
      BY <3>1, <3>2
  <2>12. TunnelOk(D[q], mishaps)
    BY <2>1, <2>7, <2>8, <2>10, <2>11 DEF TunnelOk, IdsOk, RoutesOk, TodoOk
  <2> QED
    BY <2>5, <2>7, <2>8, <2>9, <2>12
<1>3. D \in [Process -> Tunnel]
  BY <1>1, <1>2
<1> QED
  BY <1>2, <1>3

\* One process changes, and the operations of others may have been disturbed.
LEMMA TunnelsStep ==
    ASSUME Inv, mishaps \subseteq mishaps', NEW p \in Process,
           NEW f \in [Process -> Tunnel], \A q \in Process : TunnelOk(f[q], mishaps),
           NEW t, TunnelOk(t, mishaps'), proc' = [f EXCEPT ![p] = t]
    PROVE  TunnelsInv'
<1>1. t \in Tunnel
  BY DEF TunnelOk
<1>2. proc' \in [Process -> Tunnel]
  BY <1>1
<1>3. \A q \in Process : TunnelOk(proc'[q], mishaps')
  BY TunnelOkMonotone
<1> QED
  BY <1>2, <1>3 DEF TunnelsInv

\* Nobody else is disturbed.
LEMMA TunnelStep ==
    ASSUME Inv, mishaps \subseteq mishaps', NEW p \in Process,
           NEW t, TunnelOk(t, mishaps'), proc' = [proc EXCEPT ![p] = t]
    PROVE  TunnelsInv'
BY TunnelsStep DEF Inv, TunnelsInv

LEMMA MemoryStays ==
    ASSUME Inv, mishaps \subseteq mishaps', UNCHANGED memory
    PROVE  MemoryInv'
BY MemoryOkMonotone DEF Inv, MemoryInv

\* One object changes.
LEMMA MemoryStep ==
    ASSUME Inv, mishaps \subseteq mishaps', NEW o \in Object, NEW m, MemoryOk(m, mishaps'),
           memory' = [memory EXCEPT ![o] = m]
    PROVE  MemoryInv'
<1>1. m \in Shared
  BY DEF MemoryOk
<1>2. memory' \in [Object -> Shared]
  BY <1>1 DEF Inv, MemoryInv
<1>3. \A i \in Object : MemoryOk(memory'[i], mishaps')
  BY MemoryOkMonotone DEF Inv, MemoryInv
<1> QED
  BY <1>2, <1>3 DEF MemoryInv

\* One ring changes.
LEMMA RingStep ==
    ASSUME Inv, mishaps \subseteq mishaps', NEW p \in Process, proc[p].object \in Object,
           NEW k \in Place, NEW r, RingOk(r, k, mishaps'), SetRing(p, k, r)
    PROVE  MemoryInv'
<1> DEFINE o == proc[p].object
           m == [memory[o] EXCEPT !.broadcast[k] = r]
<1>1. MemoryOk(memory[o], mishaps) /\ memory[o] \in Shared /\ memory \in [Object -> Shared]
  BY DEF Inv, MemoryInv, MemoryOk
<1>2. memory' = [memory EXCEPT ![o] = m]
  BY <1>1 DEF SetRing, Shared
<1>3. r \in Ring
  BY DEF RingOk
<1>4. m \in Shared /\ m.num_clients = memory[o].num_clients
      /\ \A j \in Place : m.broadcast[j] = IF j = k THEN r ELSE memory[o].broadcast[j]
  BY <1>1, <1>3 DEF Shared
<1>5. MemoryOk(m, mishaps')
  BY <1>1, <1>4, RingOkMonotone DEF MemoryOk
<1> HIDE DEF m
<1> QED
  BY <1>2, <1>5, MemoryStep

\* num_clients changes.
LEMMA CountStep ==
    ASSUME Inv, NEW p \in Process, proc[p].object \in Object, NEW num \in Id, Counted(num),
           memory' = [memory EXCEPT ![proc[p].object].num_clients = num]
    PROVE  /\ mishaps \subseteq mishaps' /\ mishaps' \subseteq Mishap
           /\ "count" \notin mishaps' => num \in Slot
           /\ MishapInv'
           /\ MemoryInv'
<1> DEFINE o == proc[p].object
           m == [memory[o] EXCEPT !.num_clients = num]
<1>1. /\ mishaps \subseteq mishaps' /\ mishaps' \subseteq Mishap
      /\ "count" \notin mishaps' => num \in Slot
  BY DEF Counted, Inv, SharedTypes, Mishap
<1>2. MishapInv'
  BY DEF Counted, Inv, MishapInv
<1>3. MemoryOk(memory[o], mishaps) /\ memory[o] \in Shared /\ memory \in [Object -> Shared]
  BY DEF Inv, MemoryInv, MemoryOk
<1>4. memory' = [memory EXCEPT ![o] = m]
  BY <1>3 DEF Shared
<1>5. m \in Shared /\ m.num_clients = num /\ m.broadcast = memory[o].broadcast
  BY <1>3 DEF Shared
<1>6. MemoryOk(m, mishaps')
  BY <1>1, <1>3, <1>5, RingOkMonotone DEF MemoryOk
<1> HIDE DEF m
<1> QED
  BY <1>1, <1>2, <1>4, <1>6, MemoryStep

\* A ring is used.
LEMMA TouchFacts ==
    ASSUME Inv, NEW k, Touches(k), "count" \notin mishaps => k \in Slot
    PROVE  /\ mishaps \subseteq mishaps' /\ mishaps' \subseteq Mishap
           /\ MishapInv'
BY DEF Touches, Inv, SharedTypes, Mishap, MishapInv

\* Nothing goes wrong.
LEMMA NoMishap ==
    ASSUME Inv, UNCHANGED mishaps
    PROVE  mishaps \subseteq mishaps' /\ mishaps' \subseteq Mishap /\ MishapInv'
BY DEF Inv, SharedTypes, MishapInv

-----------------------------------------------------------------------------
(* The constructor keeps Inv.                                               *)

LEMMA OpenInv ==
    ASSUME Inv, NEW p \in Process, Open(p)
    PROVE  Inv'
<1> DEFINE o == IF name = NoObject THEN created + 1 ELSE name
           t == [NoTunnel EXCEPT !.step = "opened", !.object = o,
                                 !.mClientId = memory[o].num_clients]
<1>1. o \in Object
  BY ObjectsAssumption DEF Open, Inv, SharedTypes, Object, NoObject
<1>2. mishaps' = mishaps /\ memory' = memory /\ proc' = [proc EXCEPT ![p] = t]
  BY DEF Open
<1>3. SharedTypes'
  BY <1>1, <1>2, ObjectsAssumption DEF Open, Inv, SharedTypes, Object, NoObject, Budget
<1>4. MemoryOk(memory[o], mishaps)
  BY <1>1 DEF Inv, MemoryInv
<1>5. memory[o].num_clients \in Id /\ ("count" \notin mishaps => memory[o].num_clients \in Slot)
  BY <1>4 DEF MemoryOk, Shared
<1> HIDE DEF o
<1>6. NoTunnel \in Tunnel
  BY NoTunnelOk DEF TunnelOk
<1>7. /\ t \in Tunnel /\ t.object = o /\ t.mClientId = memory[o].num_clients
      /\ t.seen = 0 /\ t.nodes = NoTunnel.nodes /\ t.todo = NoTunnel.todo /\ t.op = NoTunnel.op
  BY <1>1, <1>5, <1>6 DEF Tunnel, NoTunnel
<1> HIDE DEF t
<1>8. IdsOk(t, mishaps)
  BY <1>5, <1>7, IdFacts DEF IdsOk
<1>9. RoutesOk(t, mishaps)
  <2>1. \A n \in NodeId : NoTunnel.nodes[n] = NoSlot
    BY DEF NoTunnel
  <2> QED
    BY <1>7, <2>1 DEF RoutesOk, RouteOk
<1>10. TodoOk(t, mishaps) /\ OpsOk(t, mishaps)
  BY <1>7, NoTunnelOk, NoOpOk DEF TodoOk, OpsOk
<1>11. TunnelOk(t, mishaps')
  BY <1>1, <1>2, <1>7, <1>8, <1>9, <1>10 DEF TunnelOk
<1>12. TunnelsInv'
  BY <1>2, <1>11, TunnelStep
<1> QED
  BY <1>2, <1>3, <1>12, MemoryStays, NoMishap DEF Inv

\* A tunnel that starts to run.
LEMMA RunningOk ==
    ASSUME NEW t, NEW M, TunnelOk(t, M), t.object \in Object
    PROVE  TunnelOk(Running(t), M)
<1>1. t \in Tunnel
  BY DEF TunnelOk
<1>2. /\ Running(t) \in Tunnel /\ Running(t).object = t.object
      /\ Running(t).mClientId = t.mClientId /\ Running(t).seen = t.seen
      /\ Running(t).nodes = t.nodes /\ Running(t).todo = t.todo /\ Running(t).op = t.op
  BY <1>1 DEF Running, Tunnel
<1> QED
  BY <1>2 DEF TunnelOk, IdsOk, RoutesOk, TodoOk, OpsOk

LEMMA JoinFirstInv ==
    ASSUME Inv, NEW p \in Process, JoinFirst(p)
    PROVE  Inv'
<1> DEFINE o == proc[p].object
           D == Disturbed(o, Slot, "loose")
           m == [num_clients |-> 1,
                 broadcast |-> [k \in Place |-> IF k \in Slot THEN EmptyRing
                                                ELSE memory[o].broadcast[k]]]
<1>1. o \in Object /\ MemoryOk(memory[o], mishaps)
  BY LiveFacts DEF JoinFirst, MemoryOf
<1>2. mishaps' = mishaps /\ memory' = [memory EXCEPT ![o] = m]
  BY DEF JoinFirst
<1>3. SharedTypes'
  BY DEF JoinFirst, Inv, SharedTypes
<1>4. MemoryOk(m, mishaps')
  <2>1. memory[o] \in Shared /\ \A k \in Place : RingOk(memory[o].broadcast[k], k, mishaps)
    BY <1>1 DEF MemoryOk
  <2>2. \A k \in Place : m.broadcast[k] = IF k \in Slot THEN EmptyRing
                                          ELSE memory[o].broadcast[k]
    OBVIOUS
  <2>3. m \in Shared /\ m.num_clients = 1
    BY <2>1, IdFacts, EmptyRingOk DEF Shared
  <2> HIDE DEF m
  <2> QED
    BY <1>2, <2>1, <2>2, <2>3, IdFacts, EmptyRingOk DEF MemoryOk
<1>5. MemoryInv'
  <2> HIDE DEF m
  <2> QED
    BY <1>1, <1>2, <1>4, MemoryStep
<1>6. D \in [Process -> Tunnel] /\ \A q \in Process : TunnelOk(D[q], mishaps)
  BY DisturbedFacts
<1>7. D[p].object = o
  BY DisturbedFacts DEF Relocked
<1>8. proc' = [D EXCEPT ![p] = Running(D[p])]
  BY DEF JoinFirst
<1> HIDE DEF D
<1>9. TunnelOk(Running(D[p]), mishaps')
  BY <1>1, <1>2, <1>6, <1>7, RunningOk
<1>10. TunnelsInv'
  BY <1>2, <1>6, <1>8, <1>9, TunnelsStep
<1> QED
  BY <1>2, <1>3, <1>5, <1>10, NoMishap DEF Inv

\* Counting stays within size_t.
LEMMA CountTypes ==
    ASSUME NEW n \in Id
    PROVE  Inc(n) \in Id /\ Dec(n) \in Id
BY SizeAssumption DEF Inc, Dec, Id

LEMMA JoinCountsInv ==
    ASSUME Inv, NEW p \in Process, JoinCounts(p)
    PROVE  Inv'
<1>1. /\ TunnelOk(proc[p], mishaps) /\ proc[p] \in Tunnel /\ proc[p].object \in Object
      /\ proc[p].mClientId \in Id /\ MemoryOf(p).num_clients \in Id
  BY LiveFacts DEF JoinCounts
<1>2. PICK num \in Incremented(p) :
           /\ memory' = [memory EXCEPT ![proc[p].object].num_clients = num]
           /\ proc' = [proc EXCEPT ![p].step = "counted", ![p].seen = num]
           /\ Counted(num)
  BY DEF JoinCounts
<1>3. num \in Id
  BY <1>1, CountTypes DEF Incremented
<1>4. /\ mishaps \subseteq mishaps' /\ mishaps' \subseteq Mishap
      /\ "count" \notin mishaps' => num \in Slot
      /\ MishapInv' /\ MemoryInv'
  BY <1>1, <1>2, <1>3, CountStep
<1> DEFINE t == [proc[p] EXCEPT !.step = "counted", !.seen = num]
<1>5. proc' = [proc EXCEPT ![p] = t]
  BY <1>2 DEF Inv, TunnelsInv
<1>6. /\ t \in Tunnel /\ t.object = proc[p].object /\ t.mClientId = proc[p].mClientId
      /\ t.seen = num /\ t.nodes = proc[p].nodes /\ t.todo = proc[p].todo /\ t.op = proc[p].op
  BY <1>1, <1>3 DEF Tunnel
<1> HIDE DEF t
<1>7. TunnelOk(proc[p], mishaps')
  BY <1>1, <1>4, TunnelOkMonotone
<1>8. TunnelOk(t, mishaps')
  BY <1>1, <1>4, <1>6, <1>7 DEF TunnelOk, IdsOk, RoutesOk, TodoOk, OpsOk
<1>9. TunnelsInv'
  BY <1>4, <1>5, <1>8, TunnelStep
<1>10. SharedTypes'
  BY <1>4 DEF JoinCounts, Inv, SharedTypes
<1> QED
  BY <1>4, <1>9, <1>10 DEF Inv

\* HELLO and BYE are messages.
LEMMA ControlIsMessage ==
    ASSUME NEW type \in {"TUNNEL_HELLO", "TUNNEL_BYE"}
    PROVE  Control(type) \in Message
BY DEF Control, Message

\* The letters of say_in_tunnel.
LEMMA SaysOk ==
    ASSUME NEW t, NEW M, TunnelOk(t, M), t.object \in Object,
           NEW type \in {"TUNNEL_HELLO", "TUNNEL_BYE"}
    PROVE  TunnelOk(Says(t, type), M)
<1> DEFINE L == Letters(Control(type), Others(t))
           u == Says(t, type)
<1>1. t \in Tunnel
  BY DEF TunnelOk
<1>2. \A l \in L : LetterOk(l, "app", t.mClientId, M)
  BY ControlIsMessage DEF Letters, Others, LetterOk, Letter
<1>3. L \in SUBSET Letter
  BY <1>2 DEF LetterOk
<1> HIDE DEF L
<1>4. /\ u \in Tunnel /\ u.object = t.object
      /\ u.mClientId = t.mClientId /\ u.seen = t.seen
      /\ u.nodes = t.nodes /\ u.op = t.op
      /\ u.todo["app"] = L /\ u.todo["io"] = t.todo["io"]
  BY <1>1, <1>3 DEF Says, Tunnel, Thread, L
<1> HIDE DEF u
<1>5. TodoOk(u, M)
  BY <1>2, <1>4 DEF TunnelOk, TodoOk, Thread
<1> QED
  BY <1>4, <1>5 DEF TunnelOk, IdsOk, RoutesOk, OpsOk, u

LEMMA JoinNextInv ==
    ASSUME Inv, NEW p \in Process, JoinNext(p)
    PROVE  Inv'
<1> DEFINE t == [proc[p] EXCEPT !.step = "greeting", !.seen = 0]
<1>1. TunnelOk(proc[p], mishaps) /\ proc[p] \in Tunnel /\ proc[p].object \in Object
  BY LiveFacts DEF JoinNext
<1>2. mishaps' = mishaps /\ memory' = memory /\ proc' = [proc EXCEPT ![p] = Says(t, "TUNNEL_HELLO")]
  BY DEF JoinNext
<1>3. /\ t \in Tunnel /\ t.object = proc[p].object /\ t.mClientId = proc[p].mClientId
      /\ t.seen = 0 /\ t.nodes = proc[p].nodes /\ t.todo = proc[p].todo /\ t.op = proc[p].op
  BY <1>1, IdFacts DEF Tunnel
<1> HIDE DEF t
<1>4. TunnelOk(t, mishaps)
  BY <1>1, <1>3, IdFacts DEF TunnelOk, IdsOk, RoutesOk, TodoOk, OpsOk
<1>5. TunnelOk(Says(t, "TUNNEL_HELLO"), mishaps')
  BY <1>1, <1>2, <1>3, <1>4, SaysOk
<1>6. TunnelsInv'
  BY <1>2, <1>5, TunnelStep
<1>7. SharedTypes'
  BY DEF JoinNext, Inv, SharedTypes
<1> QED
  BY <1>2, <1>6, <1>7, MemoryStays, NoMishap DEF Inv

LEMMA JoinFailsInv ==
    ASSUME Inv, NEW p \in Process, JoinFails(p)
    PROVE  Inv'
<1>1. mishaps' = mishaps /\ memory' = memory /\ proc' = [proc EXCEPT ![p] = NoTunnel]
  BY DEF JoinFails
<1>2. TunnelsInv'
  BY <1>1, NoTunnelOk, TunnelStep
<1>3. SharedTypes'
  BY DEF JoinFails, Inv, SharedTypes
<1> QED
  BY <1>1, <1>2, <1>3, MemoryStays, NoMishap DEF Inv

\* A thread has nothing left to push.
LEMMA EmptiedOk ==
    ASSUME NEW t, NEW M, TunnelOk(t, M), t.object \in Object, NEW h \in Thread
    PROVE  /\ TunnelOk([t EXCEPT !.todo[h] = {}], M)
           /\ [t EXCEPT !.todo[h] = {}].object \in Object
<1> DEFINE u == [t EXCEPT !.todo[h] = {}]
<1>1. t \in Tunnel
  BY DEF TunnelOk
<1>2. /\ u \in Tunnel /\ u.object = t.object
      /\ u.mClientId = t.mClientId /\ u.seen = t.seen
      /\ u.nodes = t.nodes /\ u.op = t.op
      /\ \A g \in Thread : u.todo[g] = IF g = h THEN {} ELSE t.todo[g]
  BY <1>1 DEF Tunnel
<1> HIDE DEF u
<1>3. TodoOk(u, M)
  BY <1>2 DEF TunnelOk, TodoOk
<1>4. TunnelOk(u, M)
  BY <1>2, <1>3 DEF TunnelOk, IdsOk, RoutesOk, OpsOk
<1> QED
  BY <1>2, <1>4 DEF u

LEMMA JoinEndsInv ==
    ASSUME Inv, NEW p \in Process, JoinEnds(p)
    PROVE  Inv'
<1> DEFINE t == [proc[p] EXCEPT !.todo["app"] = {}]
<1>1. TunnelOk(proc[p], mishaps) /\ proc[p].object \in Object
  BY LiveFacts DEF JoinEnds
<1>2. mishaps' = mishaps /\ memory' = memory /\ proc' = [proc EXCEPT ![p] = Running(t)]
  BY DEF JoinEnds
<1>3. TunnelOk(t, mishaps) /\ t.object \in Object
  BY <1>1, EmptiedOk DEF Thread
<1> HIDE DEF t
<1>4. TunnelOk(Running(t), mishaps')
  BY <1>2, <1>3, RunningOk
<1>5. TunnelsInv'
  BY <1>2, <1>4, TunnelStep
<1>6. SharedTypes'
  BY DEF JoinEnds, Inv, SharedTypes
<1> QED
  BY <1>2, <1>5, <1>6, MemoryStays, NoMishap DEF Inv

-----------------------------------------------------------------------------
(* push and pop keep Inv.                                                   *)

\* The letter that a thread pushes next.
LEMMA DueFacts ==
    ASSUME Inv, NEW p \in Process, NEW h \in Thread, NEW l \in Due(p, h)
    PROVE  /\ l \in proc[p].todo[h] /\ l \in Letter
           /\ l.ring \in Id /\ l.message \in Message
           /\ "count" \notin mishaps => l.ring \in Slot
           /\ Sent(p, l) \in Packet
           /\ PacketOk(Sent(p, l), l.ring, mishaps)
           /\ proc[p].object \in Object
<1>1. l \in proc[p].todo[h] /\ (h = "app" => l.ring < MemoryOf(p).num_clients)
  BY DEF Due
<1>2. /\ TunnelOk(proc[p], mishaps) /\ proc[p].object \in Object /\ proc[p].mClientId \in Id
      /\ MemoryOk(MemoryOf(p), mishaps)
  BY <1>1, LiveFacts
<1>3. LetterOk(l, h, proc[p].mClientId, mishaps)
  BY <1>1, <1>2 DEF TunnelOk, TodoOk
<1>4. l \in Letter /\ l.ring \in Id /\ l.message \in Message
  BY <1>3 DEF LetterOk, Letter
<1>5. ASSUME "count" \notin mishaps PROVE l.ring \in Slot
  <2>1. MemoryOf(p).num_clients \in Slot
    BY <1>2, <1>5 DEF MemoryOk
  <2>2. CASE h = "app"
    BY <1>1, <1>4, <2>1, <2>2, IdFacts, ClientsAssumption, SizeAssumption DEF Slot, Id
  <2>3. CASE h = "io"
    BY <1>3, <1>5, <2>3 DEF LetterOk
  <2> QED
    BY <2>2, <2>3 DEF Thread
<1>6. Sent(p, l) \in Packet /\ Sent(p, l).source = proc[p].mClientId
  BY <1>2, <1>4, PacketAssumption DEF Sent
<1>7. PacketOk(Sent(p, l), l.ring, mishaps)
  BY <1>2, <1>3, <1>6 DEF PacketOk, LetterOk, TunnelOk, IdsOk
<1> QED
  BY <1>1, <1>2, <1>4, <1>5, <1>6, <1>7

\* A letter is on its way, and an operation may have begun.
LEMMA PostedOk ==
    ASSUME NEW t, NEW M, TunnelOk(t, M), t.object \in Object, NEW h \in Thread, NEW l,
           NEW x, OpOk(x, t.mClientId, M)
    PROVE  /\ TunnelOk([t EXCEPT !.todo[h] = @ \ {l}], M)
           /\ TunnelOk([t EXCEPT !.todo[h] = @ \ {l}, !.op[h] = x], M)
           /\ TunnelOk([t EXCEPT !.op[h] = x], M)
           /\ [t EXCEPT !.op[h] = x].object \in Object
<1> DEFINE u == [t EXCEPT !.todo[h] = @ \ {l}]
           v == [t EXCEPT !.todo[h] = @ \ {l}, !.op[h] = x]
           w == [t EXCEPT !.op[h] = x]
<1>1. t \in Tunnel /\ x \in Op
  BY DEF TunnelOk, OpOk
<1>2. /\ u \in Tunnel /\ u.object = t.object
      /\ u.mClientId = t.mClientId /\ u.seen = t.seen
      /\ u.nodes = t.nodes /\ u.op = t.op
      /\ \A g \in Thread : u.todo[g] \subseteq t.todo[g]
  BY <1>1 DEF Tunnel
<1>3. /\ v \in Tunnel /\ v.object = t.object
      /\ v.mClientId = t.mClientId /\ v.seen = t.seen
      /\ v.nodes = t.nodes
      /\ \A g \in Thread : v.op[g] = IF g = h THEN x ELSE t.op[g]
      /\ \A g \in Thread : v.todo[g] \subseteq t.todo[g]
  BY <1>1 DEF Tunnel
<1>4. /\ w \in Tunnel /\ w.object = t.object
      /\ w.mClientId = t.mClientId /\ w.seen = t.seen
      /\ w.nodes = t.nodes /\ w.todo = t.todo
      /\ \A g \in Thread : w.op[g] = IF g = h THEN x ELSE t.op[g]
  BY <1>1 DEF Tunnel
<1> HIDE DEF u, v, w
<1>5. TunnelOk(u, M)
  BY <1>2 DEF TunnelOk, IdsOk, RoutesOk, TodoOk, OpsOk
<1>6. TunnelOk(v, M)
  BY <1>3 DEF TunnelOk, IdsOk, RoutesOk, TodoOk, OpsOk
<1>7. TunnelOk(w, M)
  BY <1>4 DEF TunnelOk, IdsOk, RoutesOk, TodoOk, OpsOk
<1> QED
  BY <1>4, <1>5, <1>6, <1>7 DEF u, v, w

LEMMA PushWholeInv ==
    ASSUME Inv, NEW p \in Process, NEW h \in Thread, PushWhole(p, h)
    PROVE  Inv'
<1>1. PICK l \in Due(p, h) :
          /\ MayPush(p, h, l)
          /\ SetRing(p, l.ring, Push(MemoryOf(p).broadcast[l.ring], Sent(p, l)))
          /\ proc' = [proc EXCEPT ![p].todo[h] = @ \ {l}]
  BY DEF PushWhole
<1>2. /\ l \in proc[p].todo[h] /\ "count" \notin mishaps => l.ring \in Slot
      /\ PacketOk(Sent(p, l), l.ring, mishaps)
      /\ proc[p].object \in Object
  BY DueFacts
<1>3. l.ring \in Place /\ Touches(l.ring)
  BY <1>1 DEF MayPush
<1>4. mishaps \subseteq mishaps' /\ mishaps' \subseteq Mishap /\ MishapInv'
  BY <1>2, <1>3, TouchFacts, DueFacts
<1>5. TunnelOk(proc[p], mishaps) /\ RingOk(MemoryOf(p).broadcast[l.ring], l.ring, mishaps)
  BY <1>2, <1>3, LiveFacts, DueFacts
<1>6. RingOk(Push(MemoryOf(p).broadcast[l.ring], Sent(p, l)), l.ring, mishaps')
  BY <1>2, <1>4, <1>5, PushOk, RingOkMonotone
<1>7. MemoryInv'
  BY <1>1, <1>2, <1>3, <1>4, <1>6, RingStep
<1>8. proc' = [proc EXCEPT ![p] = [proc[p] EXCEPT !.todo[h] = @ \ {l}]]
  BY <1>1
<1>9. TunnelOk([proc[p] EXCEPT !.todo[h] = @ \ {l}], mishaps')
  BY <1>2, <1>4, <1>5, PostedOk, TunnelOkMonotone, NoOpOk
<1>10. TunnelsInv'
  BY <1>4, <1>8, <1>9, TunnelStep
<1>11. SharedTypes'
  BY <1>4 DEF PushWhole, Inv, SharedTypes
<1> QED
  BY <1>4, <1>7, <1>10, <1>11 DEF Inv

\* An operation that begins.
LEMMA BegunOk ==
    ASSUME NEW k \in Place, NEW r, NEW M, RingOk(r, k, M), NEW x, PacketOk(x, k, M),
           NEW kind \in {"push", "pop"}, NEW id, kind = "pop" => k = id
    PROVE  OpOk(Begun(kind, k, r, x), id, M)
<1>1. r \in Ring /\ x \in Packet
  BY DEF RingOk, PacketOk
<1>2. Begun(kind, k, r, x) \in Op
  BY <1>1 DEF Begun, Op, Ring
<1>3. /\ Begun(kind, k, r, x).kind = kind /\ Begun(kind, k, r, x).ring = k
      /\ Begun(kind, k, r, x).packet = x
  BY DEF Begun
<1> QED
  BY <1>2, <1>3 DEF OpOk

LEMMA BeginPushInv ==
    ASSUME Inv, NEW p \in Process, NEW h \in Thread, BeginPush(p, h)
    PROVE  Inv'
<1>1. PICK l \in Due(p, h) :
          LET r == MemoryOf(p).broadcast[l.ring]
          IN  /\ MayPush(p, h, l)
              /\ ~IsFull(r)
              /\ SetRing(p, l.ring, Lock(r))
              /\ proc' = [proc EXCEPT ![p].todo[h] = @ \ {l},
                                      ![p].op[h] = Begun("push", l.ring, r, Sent(p, l))]
  BY DEF BeginPush
<1> DEFINE r == MemoryOf(p).broadcast[l.ring]
           x == Begun("push", l.ring, r, Sent(p, l))
<1>2. /\ l \in proc[p].todo[h] /\ "count" \notin mishaps => l.ring \in Slot
      /\ PacketOk(Sent(p, l), l.ring, mishaps)
      /\ proc[p].object \in Object
  BY DueFacts
<1>3. l.ring \in Place /\ Touches(l.ring)
  BY <1>1 DEF MayPush
<1>4. mishaps \subseteq mishaps' /\ mishaps' \subseteq Mishap /\ MishapInv'
  BY <1>2, <1>3, TouchFacts, DueFacts
<1>5. TunnelOk(proc[p], mishaps) /\ RingOk(r, l.ring, mishaps)
  BY <1>2, <1>3, LiveFacts, DueFacts
<1>6. RingOk(Lock(r), l.ring, mishaps')
  BY <1>4, <1>5, IndexOk, RingOkMonotone
<1>7. MemoryInv'
  BY <1>1, <1>2, <1>3, <1>4, <1>6, RingStep
<1>8. proc' = [proc EXCEPT ![p] = [proc[p] EXCEPT !.todo[h] = @ \ {l}, !.op[h] = x]]
  BY <1>1 DEF Inv, TunnelsInv
<1>9. OpOk(x, proc[p].mClientId, mishaps)
  BY <1>2, <1>3, <1>5, BegunOk
<1> HIDE DEF x
<1>10. TunnelOk([proc[p] EXCEPT !.todo[h] = @ \ {l}, !.op[h] = x], mishaps')
  <2>1. TunnelOk([proc[p] EXCEPT !.todo[h] = @ \ {l}, !.op[h] = x], mishaps)
    BY <1>2, <1>5, <1>9, PostedOk
  <2> QED
    BY <1>4, <2>1, TunnelOkMonotone
<1>11. TunnelsInv'
  BY <1>4, <1>8, <1>10, TunnelStep
<1>12. SharedTypes'
  BY <1>4 DEF BeginPush, Inv, SharedTypes, Budget
<1> QED
  BY <1>4, <1>7, <1>11, <1>12 DEF Inv

\* The processes when an operation ends.
LEMMA UnlockedFacts ==
    ASSUME Inv, NEW p \in Process, NEW x
    PROVE  /\ Unlocked(p, x) \in [Process -> Tunnel]
           /\ \A q \in Process : /\ TunnelOk(Unlocked(p, x)[q], mishaps)
                                 /\ Relocked(proc[q], Unlocked(p, x)[q])
BY DisturbedFacts DEF Unlocked, Inv, TunnelsInv, Relocked

\* The operation that ends.
LEMMA OpFacts ==
    ASSUME Inv, NEW p \in Process, NEW h \in Thread, proc[p].op[h].kind # "none"
    PROVE  /\ proc[p].op[h] \in Op /\ proc[p].op[h].ring \in Place
           /\ proc[p].op[h].front \in Cell /\ proc[p].op[h].back \in Cell
           /\ PacketOk(proc[p].op[h].packet, proc[p].op[h].ring, mishaps)
           /\ RingOk(MemoryOf(p).broadcast[proc[p].op[h].ring], proc[p].op[h].ring, mishaps)
           /\ proc[p].op[h].kind = "pop" => proc[p].op[h].ring = proc[p].mClientId
           /\ proc[p].object \in Object
<1>1. TunnelOk(proc[p], mishaps) /\ proc[p].object \in Object
  BY LiveFacts
<1>2. OpOk(proc[p].op[h], proc[p].mClientId, mishaps)
  BY <1>1 DEF TunnelOk, OpsOk
<1>3. proc[p].op[h] \in Op
  BY <1>2 DEF OpOk
<1>4. proc[p].op[h].ring \in Place /\ proc[p].op[h].front \in Cell /\ proc[p].op[h].back \in Cell
  BY <1>3 DEF Op
<1> QED
  BY <1>1, <1>2, <1>3, <1>4, LiveFacts DEF OpOk

LEMMA EndPushInv ==
    ASSUME Inv, NEW p \in Process, NEW h \in Thread, EndPush(p, h)
    PROVE  Inv'
<1> DEFINE x == proc[p].op[h]
           r == MemoryOf(p).broadcast[x.ring]
           f == Unlocked(p, x)
<1>1. mishaps' = mishaps /\ x.kind = "push" /\ proc' = [f EXCEPT ![p].op[h] = NoOp]
  BY DEF EndPush
<1>2. /\ x.ring \in Place /\ x.back \in Cell /\ PacketOk(x.packet, x.ring, mishaps)
      /\ RingOk(r, x.ring, mishaps) /\ proc[p].object \in Object
  BY <1>1, OpFacts
<1>3. PICK m \in Landed(r, x, x.lock = "loose"), b \in {x.back, r.back} :
          SetRing(p, x.ring, Pushed(r, m, b))
  BY DEF EndPush
<1>4. RingOk(Pushed(r, m, b), x.ring, mishaps')
  <2> HIDE DEF x, r
  <2>1. RingOk(Pushed(r, m, b), x.ring, mishaps)
    BY <1>2, <1>3, PushedOk
  <2> QED
    BY <1>1, <2>1
<1>5. MemoryInv'
  BY <1>1, <1>2, <1>3, <1>4, RingStep
<1>6. /\ f \in [Process -> Tunnel] /\ \A q \in Process : TunnelOk(f[q], mishaps)
      /\ f[p].object = proc[p].object
  <2>1. /\ f \in [Process -> Tunnel]
        /\ \A q \in Process : TunnelOk(f[q], mishaps) /\ Relocked(proc[q], f[q])
    BY UnlockedFacts, Zenon
  <2> HIDE DEF f, x, r
  <2> QED
    BY <2>1 DEF Relocked
<1> HIDE DEF f
<1>7. TunnelOk([f[p] EXCEPT !.op[h] = NoOp], mishaps')
  BY <1>1, <1>2, <1>6, PostedOk, NoOpOk
<1>8. proc' = [f EXCEPT ![p] = [f[p] EXCEPT !.op[h] = NoOp]]
  BY <1>1, <1>6
<1>9. TunnelsInv'
  BY <1>1, <1>6, <1>7, <1>8, TunnelsStep
<1>10. SharedTypes'
  BY DEF EndPush, Inv, SharedTypes
<1> QED
  BY <1>1, <1>5, <1>9, <1>10, NoMishap DEF Inv

\* What a pop may return to the client id.
ReadOk(source, m, id, M) ==
    /\ source \in Id /\ m \in Message
    /\ "mixed" \notin M => source # id \/ (m.type = "ZERO" /\ m.from = NoNode)
    /\ "count" \notin M => source \in Slot

\* What becomes of the tunnel's tables.
LEMMA HandledFacts ==
    ASSUME NEW t \in Tunnel, NEW source \in Id, NEW m \in Message
    PROVE  /\ Handled(t, source, m) \in Tunnel
           /\ Handled(t, source, m).object = t.object
           /\ Handled(t, source, m).mClientId = t.mClientId
           /\ Handled(t, source, m).seen = t.seen
           /\ Handled(t, source, m).step = t.step
           /\ Handled(t, source, m).todo = t.todo
           /\ Handled(t, source, m).op = t.op
           /\ \A n \in NodeId : \/ Handled(t, source, m).nodes[n] = t.nodes[n]
                                \/ Handled(t, source, m).nodes[n] = NoSlot
                                \/ n = m.from /\ Handled(t, source, m).nodes[n] = source
<1> DEFINE c == IF t.clients[source] = "UNKNOWN" THEN "HELLO" ELSE "CONNECTED"
           k == IF t.nodes[m.from] = NoSlot THEN source ELSE t.nodes[m.from]
<1>1. m.from \in NodeId \cup {NoNode}
  BY DEF Message
<1>2. c \in ClientState /\ k \in Id \cup {NoSlot} /\ "UNKNOWN" \in ClientState
  BY <1>1 DEF ClientState, Tunnel
<1> DEFINE u == Handled(t, source, m)
<1>3. CASE m.type = "TUNNEL_HELLO"
  <2>1. u = [t EXCEPT !.clients[source] = c]
    BY <1>3 DEF Handled
  <2> HIDE DEF u, c
  <2>2. /\ u \in Tunnel /\ u.object = t.object /\ u.mClientId = t.mClientId
        /\ u.seen = t.seen /\ u.step = t.step /\ u.todo = t.todo /\ u.op = t.op /\ u.nodes = t.nodes
    BY <1>2, <2>1 DEF Tunnel
  <2> QED
    BY <2>2 DEF u
<1>4. CASE m.type = "TUNNEL_BYE"
  <2>1. u = [t EXCEPT !.clients[source] = "UNKNOWN"]
    BY <1>4 DEF Handled
  <2> HIDE DEF u, c
  <2>2. /\ u \in Tunnel /\ u.object = t.object /\ u.mClientId = t.mClientId
        /\ u.seen = t.seen /\ u.step = t.step /\ u.todo = t.todo /\ u.op = t.op /\ u.nodes = t.nodes
    BY <1>2, <2>1 DEF Tunnel
  <2> QED
    BY <2>2 DEF u
<1>5. CASE m.type = "BYEBYE"
  <2>1. u = [t EXCEPT !.nodes[m.from] = NoSlot]
    BY <1>5 DEF Handled
  <2> HIDE DEF u
  <2>2. /\ u \in Tunnel /\ u.object = t.object /\ u.mClientId = t.mClientId
        /\ u.seen = t.seen /\ u.step = t.step /\ u.todo = t.todo /\ u.op = t.op
        /\ \A n \in NodeId : u.nodes[n] = IF n = m.from THEN NoSlot ELSE t.nodes[n]
    BY <1>1, <2>1 DEF Tunnel
  <2> QED
    BY <2>2 DEF u
<1>6. CASE m.type \notin {"TUNNEL_HELLO", "TUNNEL_BYE", "BYEBYE"}
  <2>1. u = [t EXCEPT !.nodes[m.from] = k]
    BY <1>6 DEF Handled
  <2> HIDE DEF u, k
  <2>2. /\ u \in Tunnel /\ u.object = t.object /\ u.mClientId = t.mClientId
        /\ u.seen = t.seen /\ u.step = t.step /\ u.todo = t.todo /\ u.op = t.op
        /\ \A n \in NodeId : u.nodes[n] = IF n = m.from THEN k ELSE t.nodes[n]
    BY <1>1, <1>2, <2>1 DEF Tunnel
  <2>3. k = source \/ k = t.nodes[m.from]
    BY DEF k
  <2> QED
    BY <2>2, <2>3 DEF u
<1> QED
  BY <1>3, <1>4, <1>5, <1>6

\* A HELLO in return goes to another slot.
LEMMA AnswersOk ==
    ASSUME NEW t \in Tunnel, NEW M, NEW source, NEW m, ReadOk(source, m, t.mClientId, M)
    PROVE  \A l \in Letters(Control("TUNNEL_HELLO"), Answers(t, source, m)) :
              LetterOk(l, "io", t.mClientId, M)
BY ControlIsMessage DEF Letters, Answers, LetterOk, Letter, ReadOk

LEMMA HeardOk ==
    ASSUME NEW t, NEW M, TunnelOk(t, M), t.object \in Object,
           NEW source, NEW m, ReadOk(source, m, t.mClientId, M)
    PROVE  TunnelOk(Heard(t, source, m), M)
<1>1. t \in Tunnel /\ source \in Id /\ m \in Message
  BY DEF TunnelOk, ReadOk
<1>2. CASE t.is_running
  <2> DEFINE a == Handled(t, source, m)
             L == Letters(Control("TUNNEL_HELLO"), Answers(t, source, m))
             u == [a EXCEPT !.op["io"] = NoOp, !.todo["io"] = L]
  <2>1. Heard(t, source, m) = u
    BY <1>2 DEF Heard
  <2>2. /\ a \in Tunnel /\ a.object = t.object /\ a.mClientId = t.mClientId /\ a.seen = t.seen
        /\ a.todo = t.todo /\ a.op = t.op
        /\ \A n \in NodeId : \/ a.nodes[n] = t.nodes[n]
                             \/ a.nodes[n] = NoSlot
                             \/ n = m.from /\ a.nodes[n] = source
    BY <1>1, HandledFacts
  <2>3. L \in SUBSET Letter /\ \A l \in L : LetterOk(l, "io", t.mClientId, M)
    BY <1>1, AnswersOk DEF LetterOk
  <2> HIDE DEF a, L
  <2>4. /\ u \in Tunnel /\ u.object = t.object /\ u.mClientId = t.mClientId /\ u.seen = t.seen
        /\ u.nodes = a.nodes
        /\ u.op["io"] = NoOp /\ u.op["app"] = t.op["app"]
        /\ u.todo["io"] = L /\ u.todo["app"] = t.todo["app"]
    BY <2>2, <2>3, NoOpOk DEF Tunnel, Thread
  <2> HIDE DEF u
  <2>5. OpsOk(u, M) /\ TodoOk(u, M)
    BY <2>3, <2>4, NoOpOk DEF TunnelOk, OpsOk, TodoOk, Thread
  <2>6. RoutesOk(u, M)
    <3> SUFFICES ASSUME NEW n \in NodeId, n # NoNode
                 PROVE  RouteOk(u.nodes[n], u.mClientId, M)
      BY DEF RoutesOk
    <3>1. CASE a.nodes[n] = t.nodes[n]
      BY <3>1, <2>4 DEF TunnelOk, RoutesOk
    <3>2. CASE a.nodes[n] = NoSlot
      BY <3>2, <2>4 DEF RouteOk
    <3>3. CASE n = m.from /\ a.nodes[n] = source
      BY <3>3, <2>4 DEF RouteOk, ReadOk
    <3> QED
      BY <3>1, <3>2, <3>3, <2>2
  <2> QED
    BY <2>1, <2>4, <2>5, <2>6 DEF TunnelOk, IdsOk
<1>3. CASE ~t.is_running
  <2> DEFINE u == [t EXCEPT !.op["io"] = NoOp, !.listening = FALSE]
  <2>1. Heard(t, source, m) = u
    BY <1>3 DEF Heard
  <2>2. /\ u \in Tunnel /\ u.object = t.object /\ u.mClientId = t.mClientId /\ u.seen = t.seen
        /\ u.nodes = t.nodes /\ u.todo = t.todo
        /\ u.op["io"] = NoOp /\ u.op["app"] = t.op["app"]
    BY <1>1, NoOpOk DEF Tunnel, Thread
  <2> HIDE DEF u
  <2>3. OpsOk(u, M)
    BY <2>2, NoOpOk DEF TunnelOk, OpsOk, Thread
  <2> QED
    BY <2>1, <2>2, <2>3 DEF TunnelOk, IdsOk, RoutesOk, TodoOk
<1> QED
  BY <1>2, <1>3

\* A packet that may be in the client's ring may be read by it.
LEMMA PacketReadOk ==
    ASSUME NEW x, NEW id, NEW M, PacketOk(x, id, M)
    PROVE  ReadOk(x.source, x.message, id, M)
BY PacketAssumption, BlankIsPacket DEF PacketOk, ReadOk

\* The ring that pop gets.
LEMMA MayPopFacts ==
    ASSUME Inv, NEW p \in Process, MayPop(p)
    PROVE  /\ TunnelOk(proc[p], mishaps) /\ proc[p].object \in Object
           /\ proc[p].mClientId \in Place
           /\ "count" \notin mishaps => proc[p].mClientId \in Slot
           /\ OwnRing(p) = MemoryOf(p).broadcast[proc[p].mClientId]
           /\ RingOk(OwnRing(p), proc[p].mClientId, mishaps)
           /\ PacketOk(Top(OwnRing(p)), proc[p].mClientId, mishaps)
<1>1. TunnelOk(proc[p], mishaps) /\ proc[p].object \in Object /\ proc[p].mClientId \in Place
  BY LiveFacts DEF MayPop
<1>2. RingOk(OwnRing(p), proc[p].mClientId, mishaps)
  BY <1>1, LiveFacts DEF MayPop, OwnRing
<1>3. PacketOk(Top(OwnRing(p)), proc[p].mClientId, mishaps)
  BY <1>2 DEF RingOk, Ring, Top
<1> QED
  BY <1>1, <1>2, <1>3 DEF OwnRing, TunnelOk, IdsOk

LEMMA PopWholeInv ==
    ASSUME Inv, NEW p \in Process, PopWhole(p)
    PROVE  Inv'
<1> DEFINE k == proc[p].mClientId
           r == OwnRing(p)
           t == Heard(proc[p], Top(r).source, Top(r).message)
<1>1. MayPop(p) /\ Touches(k) /\ SetRing(p, k, Pop(r)) /\ proc' = [proc EXCEPT ![p] = t]
  BY DEF PopWhole
<1>2. /\ TunnelOk(proc[p], mishaps) /\ proc[p].object \in Object /\ k \in Place
      /\ "count" \notin mishaps => k \in Slot
      /\ RingOk(r, k, mishaps) /\ PacketOk(Top(r), k, mishaps)
  BY <1>1, MayPopFacts
<1>3. mishaps \subseteq mishaps' /\ mishaps' \subseteq Mishap /\ MishapInv'
  BY <1>1, <1>2, TouchFacts, MayPopFacts
<1>4. RingOk(Pop(r), k, mishaps')
  BY <1>2, <1>3, IndexOk, RingOkMonotone
<1>5. MemoryInv'
  BY <1>1, <1>2, <1>3, <1>4, RingStep
<1>6. TunnelOk(t, mishaps)
  BY <1>2, HeardOk, PacketReadOk
<1>7. TunnelsInv'
  <2> HIDE DEF t
  <2> QED
    BY <1>1, <1>3, <1>6, TunnelStep, TunnelOkMonotone
<1>8. SharedTypes'
  BY <1>3 DEF PopWhole, Inv, SharedTypes
<1> QED
  BY <1>3, <1>5, <1>7, <1>8 DEF Inv

LEMMA BeginPopInv ==
    ASSUME Inv, NEW p \in Process, BeginPop(p)
    PROVE  Inv'
<1> DEFINE k == proc[p].mClientId
           r == OwnRing(p)
           x == Begun("pop", k, r, Top(r))
           t == [proc[p] EXCEPT !.op["io"] = x]
<1>1. MayPop(p) /\ Touches(k) /\ SetRing(p, k, Lock(r)) /\ proc' = [proc EXCEPT ![p].op["io"] = x]
  BY DEF BeginPop
<1>2. /\ TunnelOk(proc[p], mishaps) /\ proc[p].object \in Object /\ k \in Place
      /\ "count" \notin mishaps => k \in Slot
      /\ RingOk(r, k, mishaps) /\ PacketOk(Top(r), k, mishaps)
  BY <1>1, MayPopFacts
<1>3. mishaps \subseteq mishaps' /\ mishaps' \subseteq Mishap /\ MishapInv'
  BY <1>1, <1>2, TouchFacts, MayPopFacts
<1>4. RingOk(Lock(r), k, mishaps')
  BY <1>2, <1>3, IndexOk, RingOkMonotone
<1>5. MemoryInv'
  BY <1>1, <1>2, <1>3, <1>4, RingStep
<1>6. OpOk(x, k, mishaps)
  BY <1>2, BegunOk
<1>7. TunnelOk(t, mishaps)
  <2> HIDE DEF x
  <2> QED
    BY <1>2, <1>6, PostedOk DEF Thread
<1>8. proc' = [proc EXCEPT ![p] = t]
  BY <1>1
<1>9. TunnelsInv'
  <2> HIDE DEF t
  <2> QED
    BY <1>3, <1>7, <1>8, TunnelStep, TunnelOkMonotone
<1>10. SharedTypes'
  BY <1>3 DEF BeginPop, Inv, SharedTypes, Budget
<1> QED
  BY <1>3, <1>5, <1>9, <1>10 DEF Inv

LEMMA EndPopInv ==
    ASSUME Inv, NEW p \in Process, EndPop(p)
    PROVE  Inv'
<1> DEFINE x == proc[p].op["io"]
           k == x.ring
           r == MemoryOf(p).broadcast[k]
           f == Unlocked(p, x)
<1>1. x.kind = "pop"
  BY DEF EndPop
<1>2. PICK popped \in Popped(r, x) : SetRing(p, k, popped)
  BY DEF EndPop
<1>3. PICK s \in Tops(r, x), m \in Tops(r, x) :
              /\ proc' = [f EXCEPT ![p] = Heard(@, s.source, m.message)]
              /\ mishaps' = IF Returned(s, m) \in Tops(r, x) THEN mishaps
                            ELSE mishaps \cup {"mixed"}
  BY DEF EndPop
<1>4. /\ k \in Place /\ x.front \in Cell /\ PacketOk(x.packet, k, mishaps)
      /\ RingOk(r, k, mishaps) /\ k = proc[p].mClientId /\ proc[p].object \in Object
  BY <1>1, OpFacts DEF Thread
<1>5. /\ f \in [Process -> Tunnel] /\ \A q \in Process : TunnelOk(f[q], mishaps)
      /\ f[p].object = proc[p].object /\ f[p].mClientId = k
  BY <1>4, UnlockedFacts DEF Relocked
<1>6. UNCHANGED <<name, created, budget>>
  BY DEF EndPop
<1> HIDE DEF x, r, f
<1>7. mishaps \subseteq mishaps' /\ mishaps' \subseteq Mishap /\ MishapInv'
  BY <1>3 DEF Inv, SharedTypes, Mishap, MishapInv
<1>8. RingOk(popped, k, mishaps)
  BY <1>2, <1>4, IndexOk
<1>9. MemoryInv'
  BY <1>2, <1>4, <1>7, <1>8, RingOkMonotone, RingStep
<1>10. \A y \in Tops(r, x) : PacketOk(y, k, mishaps)
  BY <1>4, TopsOk
<1>11. ReadOk(s.source, m.message, k, mishaps')
  <2>1. CASE Returned(s, m) \in Tops(r, x)
    <3>1. PacketOk(Returned(s, m), k, mishaps)
      BY <1>10, <2>1
    <3>2. Returned(s, m).source = s.source /\ Returned(s, m).message = m.message
      BY DEF Returned
    <3>3. mishaps' = mishaps
      BY <1>3, <2>1
    <3> QED
      BY <3>1, <3>2, <3>3, PacketReadOk
  <2>2. CASE Returned(s, m) \notin Tops(r, x)
    <3>1. "mixed" \in mishaps'
      BY <1>3, <2>2
    <3>2. PacketOk(s, k, mishaps') /\ PacketOk(m, k, mishaps')
      BY <1>7, <1>10, PacketOkMonotone
    <3> QED
      BY <3>1, <3>2, PacketAssumption DEF PacketOk, ReadOk
  <2> QED
    BY <2>1, <2>2
<1>12. TunnelOk(f[p], mishaps')
  BY <1>5, <1>7, TunnelOkMonotone
<1>13. TunnelOk(Heard(f[p], s.source, m.message), mishaps')
  BY <1>4, <1>5, <1>11, <1>12, HeardOk
<1>14. proc' = [f EXCEPT ![p] = Heard(f[p], s.source, m.message)]
  BY <1>3
<1>15. TunnelsInv'
  BY <1>5, <1>7, <1>13, <1>14, TunnelsStep
<1>16. SharedTypes'
  BY <1>6, <1>7 DEF Inv, SharedTypes
<1> QED
  BY <1>7, <1>9, <1>15, <1>16 DEF Inv

-----------------------------------------------------------------------------
(* The other steps keep Inv.                                                *)

\* A step that changes only flags of one tunnel.
LEMMA FlagsStep ==
    ASSUME Inv, NEW p \in Process, proc[p].object \in Object, NEW t \in Tunnel,
           t.object = proc[p].object, t.mClientId = proc[p].mClientId,
           t.seen = proc[p].seen \/ t.seen = MemoryOf(p).num_clients,
           t.nodes = proc[p].nodes, t.todo = proc[p].todo, t.op = proc[p].op,
           proc' = [proc EXCEPT ![p] = t], UNCHANGED <<memory, mishaps>>, SharedTypes'
    PROVE  Inv'
<1>1. TunnelOk(proc[p], mishaps)
  BY DEF Inv, TunnelsInv
<1>2. MemoryOk(MemoryOf(p), mishaps)
  BY DEF Inv, MemoryInv, MemoryOf
<1>3. IdsOk(t, mishaps)
  BY <1>1, <1>2 DEF TunnelOk, IdsOk, MemoryOk
<1>4. TunnelOk(t, mishaps)
  BY <1>1, <1>3 DEF TunnelOk, RoutesOk, TodoOk, OpsOk
<1>5. TunnelsInv'
  BY <1>4, TunnelStep
<1> QED
  BY <1>5, MemoryStays, NoMishap DEF Inv

LEMMA ListenEndsInv ==
    ASSUME Inv, NEW p \in Process, ListenEnds(p)
    PROVE  Inv'
<1> DEFINE t == [proc[p] EXCEPT !.listening = FALSE]
<1>1. proc[p] \in Tunnel /\ proc[p].object \in Object
  BY LiveFacts DEF ListenEnds
<1>2. proc' = [proc EXCEPT ![p] = t] /\ UNCHANGED <<memory, name, created, budget, mishaps>>
  BY DEF ListenEnds
<1>3. /\ t \in Tunnel /\ t.object = proc[p].object /\ t.mClientId = proc[p].mClientId
      /\ t.seen = proc[p].seen /\ t.nodes = proc[p].nodes /\ t.todo = proc[p].todo
      /\ t.op = proc[p].op
  BY <1>1 DEF Tunnel
<1> HIDE DEF t
<1>4. SharedTypes'
  BY <1>2 DEF Inv, SharedTypes
<1> QED
  BY <1>1, <1>2, <1>3, <1>4, FlagsStep

LEMMA StopFlagInv ==
    ASSUME Inv, NEW p \in Process, StopFlag(p)
    PROVE  Inv'
<1> DEFINE t == [proc[p] EXCEPT !.step = "flagged", !.is_running = FALSE]
<1>1. proc[p] \in Tunnel /\ proc[p].object \in Object
  BY LiveFacts DEF StopFlag
<1>2. proc' = [proc EXCEPT ![p] = t] /\ UNCHANGED <<memory, mishaps>>
  BY DEF StopFlag, Inv, TunnelsInv
<1>3. /\ t \in Tunnel /\ t.object = proc[p].object /\ t.mClientId = proc[p].mClientId
      /\ t.seen = proc[p].seen /\ t.nodes = proc[p].nodes /\ t.todo = proc[p].todo
      /\ t.op = proc[p].op
  BY <1>1 DEF Tunnel
<1> HIDE DEF t
<1>4. SharedTypes'
  BY DEF StopFlag, Inv, SharedTypes, Budget
<1> QED
  BY <1>1, <1>2, <1>3, <1>4, FlagsStep

LEMMA DestroyReadsInv ==
    ASSUME Inv, NEW p \in Process, DestroyReads(p)
    PROVE  Inv'
<1> DEFINE t == [proc[p] EXCEPT !.step = "leaving", !.seen = MemoryOf(p).num_clients]
<1>1. proc[p] \in Tunnel /\ proc[p].object \in Object /\ MemoryOf(p).num_clients \in Id
  BY LiveFacts DEF DestroyReads
<1>2. proc' = [proc EXCEPT ![p] = t] /\ UNCHANGED <<memory, name, created, budget, mishaps>>
  BY DEF DestroyReads, Inv, TunnelsInv
<1>3. /\ t \in Tunnel /\ t.object = proc[p].object /\ t.mClientId = proc[p].mClientId
      /\ t.seen = MemoryOf(p).num_clients /\ t.nodes = proc[p].nodes /\ t.todo = proc[p].todo
      /\ t.op = proc[p].op
  BY <1>1 DEF Tunnel
<1> HIDE DEF t
<1>4. SharedTypes'
  BY <1>2 DEF Inv, SharedTypes
<1> QED
  BY <1>1, <1>2, <1>3, <1>4, FlagsStep

\* What forward() pushes goes to slots, and not to its own.
LEMMA TargetsOk ==
    ASSUME Inv, NEW p \in Process, NEW m \in Outgoing, NEW k \in Targets(p, m),
           TunnelOk(proc[p], mishaps)
    PROVE  /\ k \in Id
           /\ "mixed" \notin mishaps => k # proc[p].mClientId
           /\ "count" \notin mishaps => k \in Slot
<1>1. proc[p] \in Tunnel /\ RoutesOk(proc[p], mishaps)
  BY DEF TunnelOk
<1>2. m.to \in NodeId \cup {NoNode}
  BY OutgoingAssumption
<1>3. CASE m.type \in AddressedType /\ m.to = NoNode
  BY <1>3 DEF Targets
<1>4. CASE m.type \in RoutedType /\ m.to # NoNode
  <2>1. Targets(p, m) = {proc[p].nodes[m.to]} \ {NoSlot}
    BY <1>4 DEF Targets
  <2>2. k = proc[p].nodes[m.to] /\ k # NoSlot /\ m.to \in NodeId
    BY <1>2, <1>4, <2>1
  <2>3. RouteOk(k, proc[p].mClientId, mishaps)
    BY <1>1, <1>4, <2>2 DEF RoutesOk
  <2>4. k \in Id
    BY <1>1, <2>2 DEF Tunnel
  <2> QED
    BY <2>2, <2>3, <2>4 DEF RouteOk
<1>5. CASE ~(m.type \in AddressedType /\ m.to = NoNode) /\ ~(m.type \in RoutedType /\ m.to # NoNode)
  <2>1. k \in Slot \ {proc[p].mClientId}
    BY <1>5, Zenon DEF Targets
  <2> QED
    BY <2>1, IdFacts
<1> QED
  BY <1>3, <1>4, <1>5

LEMMA ForwardInv ==
    ASSUME Inv, NEW p \in Process, NEW m \in Outgoing, Forward(p, m)
    PROVE  Inv'
<1> DEFINE text == IF m.type \in AddressedType THEN m ELSE [m EXCEPT !.to = NoNode]
           L == Letters(text, Targets(p, m))
           t == [proc[p] EXCEPT !.todo["io"] = L]
<1>1. TunnelOk(proc[p], mishaps) /\ proc[p] \in Tunnel /\ proc[p].object \in Object
  BY LiveFacts DEF Forward
<1>2. proc' = [proc EXCEPT ![p] = t] /\ UNCHANGED <<memory, mishaps>>
  BY DEF Forward
<1>3. text \in Message
  BY OutgoingAssumption DEF Message
<1>4. \A l \in L : LetterOk(l, "io", proc[p].mClientId, mishaps)
  <2> HIDE DEF text
  <2> SUFFICES ASSUME NEW l \in L PROVE LetterOk(l, "io", proc[p].mClientId, mishaps)
    OBVIOUS
  <2>1. PICK k \in Targets(p, m) : l = [ring |-> k, message |-> text]
    BY DEF Letters
  <2>2. l.ring = k /\ l \in Letter
    BY <1>1, <1>3, <2>1, TargetsOk DEF Letter
  <2> QED
    BY <1>1, <2>1, <2>2, TargetsOk DEF LetterOk
<1>5. L \in SUBSET Letter
  BY <1>4 DEF LetterOk
<1> HIDE DEF L
<1>6. /\ t \in Tunnel /\ t.object = proc[p].object /\ t.mClientId = proc[p].mClientId
      /\ t.seen = proc[p].seen /\ t.nodes = proc[p].nodes /\ t.op = proc[p].op
      /\ t.todo["io"] = L /\ t.todo["app"] = proc[p].todo["app"]
  BY <1>1, <1>5 DEF Tunnel, Thread
<1> HIDE DEF t
<1>7. TodoOk(t, mishaps)
  BY <1>1, <1>4, <1>6 DEF TunnelOk, TodoOk, Thread
<1>8. TunnelOk(t, mishaps)
  BY <1>1, <1>6, <1>7 DEF TunnelOk, IdsOk, RoutesOk, OpsOk
<1>9. TunnelsInv'
  BY <1>2, <1>8, TunnelStep
<1>10. SharedTypes'
  BY DEF Forward, Inv, SharedTypes, Budget
<1> QED
  BY <1>2, <1>9, <1>10, MemoryStays, NoMishap DEF Inv

\* The half of clear() that makes the client's ring r.
LEMMA ClearsInv ==
    ASSUME Inv, NEW p \in Process, proc[p].step # "down", NEW r, Clears(p, r),
           r \in {ClearFront(OwnRing(p)), ClearBack(OwnRing(p))},
           NEW t, TunnelOk(t, mishaps), proc' = [Cleared(p) EXCEPT ![p] = t]
    PROVE  Inv'
<1> DEFINE k == proc[p].mClientId
<1>1. TunnelOk(proc[p], mishaps) /\ proc[p].object \in Object
  BY LiveFacts
<1>2. k \in Place /\ Touches(k) /\ SetRing(p, k, r) /\ UNCHANGED <<name, created, budget>>
  BY DEF Clears
<1>3. RingOk(OwnRing(p), k, mishaps)
  BY <1>2, LiveFacts DEF OwnRing
<1>4. "count" \notin mishaps => k \in Slot
  BY <1>1 DEF TunnelOk, IdsOk
<1>5. mishaps \subseteq mishaps' /\ mishaps' \subseteq Mishap /\ MishapInv'
  BY <1>2, <1>4, TouchFacts
<1>6. RingOk(r, k, mishaps')
  BY <1>3, <1>5, IndexOk, RingOkMonotone
<1>7. MemoryInv'
  BY <1>1, <1>2, <1>5, <1>6, RingStep
<1>8. Cleared(p) \in [Process -> Tunnel] /\ \A q \in Process : TunnelOk(Cleared(p)[q], mishaps)
  BY DisturbedFacts DEF Cleared
<1>9. TunnelOk(t, mishaps')
  BY <1>5, TunnelOkMonotone
<1>10. TunnelsInv'
  BY <1>5, <1>8, <1>9, TunnelsStep
<1>11. SharedTypes'
  BY <1>2, <1>5 DEF Inv, SharedTypes
<1> QED
  BY <1>5, <1>7, <1>10, <1>11 DEF Inv

\* The tunnel goes on to another step.
LEMMA SteppedOk ==
    ASSUME Inv, NEW t, TunnelOk(t, mishaps), t.object \in Object,
           NEW step \in {"clearing", "bye", "stopped"}
    PROVE  /\ TunnelOk([t EXCEPT !.step = step], mishaps)
           /\ [t EXCEPT !.step = step].object \in Object
<1> DEFINE u == [t EXCEPT !.step = step]
<1>1. t \in Tunnel
  BY DEF TunnelOk
<1>2. /\ u \in Tunnel /\ u.object = t.object /\ u.mClientId = t.mClientId
      /\ u.seen = t.seen /\ u.nodes = t.nodes /\ u.todo = t.todo /\ u.op = t.op
  BY <1>1 DEF Tunnel
<1> HIDE DEF u
<1>3. TunnelOk(u, mishaps)
  BY <1>2 DEF TunnelOk, IdsOk, RoutesOk, TodoOk, OpsOk
<1> QED
  BY <1>2, <1>3 DEF u

\* The processes in clear().
LEMMA ClearedFacts ==
    ASSUME Inv, NEW p \in Process, proc[p].step # "down"
    PROVE  /\ Cleared(p) \in [Process -> Tunnel]
           /\ TunnelOk(Cleared(p)[p], mishaps)
           /\ Cleared(p)[p].object \in Object
<1>1. proc[p].object \in Object
  BY LiveFacts
<1> QED
  BY <1>1, DisturbedFacts DEF Cleared, Relocked

LEMMA StopClearFrontInv ==
    ASSUME Inv, NEW p \in Process, StopClearFront(p)
    PROVE  Inv'
<1> DEFINE f == Cleared(p)
           t == [f[p] EXCEPT !.step = "clearing"]
<1>1. proc[p].step # "down" /\ Clears(p, ClearFront(OwnRing(p)))
  BY DEF StopClearFront
<1>2. f \in [Process -> Tunnel] /\ TunnelOk(f[p], mishaps) /\ f[p].object \in Object
  BY <1>1, ClearedFacts
<1>3. proc' = [f EXCEPT ![p] = t]
  BY <1>2 DEF StopClearFront
<1>4. TunnelOk(t, mishaps)
  BY <1>2, SteppedOk
<1> HIDE DEF t
<1> QED
  BY <1>1, <1>3, <1>4, ClearsInv

LEMMA StopClearBackInv ==
    ASSUME Inv, NEW p \in Process, StopClearBack(p)
    PROVE  Inv'
<1> DEFINE f == Cleared(p)
           u == [f[p] EXCEPT !.step = "bye"]
           t == Says(u, "TUNNEL_BYE")
<1>1. proc[p].step # "down" /\ Clears(p, ClearBack(OwnRing(p)))
  BY DEF StopClearBack
<1>2. f \in [Process -> Tunnel] /\ TunnelOk(f[p], mishaps) /\ f[p].object \in Object
  BY <1>1, ClearedFacts
<1>3. proc' = [f EXCEPT ![p] = t]
  BY <1>2 DEF StopClearBack
<1>4. TunnelOk(u, mishaps) /\ u.object \in Object
  BY <1>2, SteppedOk
<1>5. TunnelOk(t, mishaps)
  BY <1>4, SaysOk
<1> HIDE DEF t
<1> QED
  BY <1>1, <1>3, <1>5, ClearsInv

LEMMA StopEndsInv ==
    ASSUME Inv, NEW p \in Process, StopEnds(p)
    PROVE  Inv'
<1> DEFINE u == [proc[p] EXCEPT !.step = "stopped"]
           t == [u EXCEPT !.todo["app"] = {}]
<1>1. TunnelOk(proc[p], mishaps) /\ proc[p] \in Tunnel /\ proc[p].object \in Object
  BY LiveFacts DEF StopEnds
<1>2. UNCHANGED <<memory, name, created, budget, mishaps>>
  BY DEF StopEnds
<1>3. proc' = [proc EXCEPT ![p] = t]
  BY <1>1 DEF StopEnds, Inv, TunnelsInv, Tunnel
<1>4. TunnelOk(u, mishaps) /\ u.object \in Object
  BY <1>1, SteppedOk
<1>5. TunnelOk(t, mishaps)
  BY <1>4, EmptiedOk DEF Thread
<1> HIDE DEF t
<1>6. TunnelsInv'
  BY <1>2, <1>3, <1>5, TunnelStep
<1>7. SharedTypes'
  BY <1>2 DEF Inv, SharedTypes
<1> QED
  BY <1>2, <1>6, <1>7, MemoryStays, NoMishap DEF Inv

LEMMA DestroyCountsInv ==
    ASSUME Inv, NEW p \in Process, DestroyCounts(p)
    PROVE  Inv'
<1>1. /\ proc[p] \in Tunnel /\ proc[p].object \in Object /\ MemoryOf(p).num_clients \in Id
  BY LiveFacts DEF DestroyCounts
<1>2. PICK num \in Decremented(p) :
           /\ memory' = [memory EXCEPT ![proc[p].object].num_clients = num]
           /\ Counted(num)
  BY DEF DestroyCounts
<1>3. proc' = [proc EXCEPT ![p] = NoTunnel] /\ proc[p].seen > 1 /\ proc[p].seen \in Id
      /\ UNCHANGED <<name, created, budget>>
  BY <1>1 DEF DestroyCounts, Tunnel
<1>4. proc[p].seen - 1 \in Id
  BY <1>3, SizeAssumption DEF Id
<1>5. num \in Id
  BY <1>1, <1>4, CountTypes DEF Decremented
<1>6. mishaps \subseteq mishaps' /\ mishaps' \subseteq Mishap /\ MishapInv' /\ MemoryInv'
  BY <1>1, <1>2, <1>5, CountStep
<1>7. TunnelsInv'
  BY <1>3, <1>6, NoTunnelOk, TunnelStep
<1>8. SharedTypes'
  BY <1>3, <1>6 DEF Inv, SharedTypes
<1> QED
  BY <1>6, <1>7, <1>8 DEF Inv

LEMMA DestroyLastInv ==
    ASSUME Inv, NEW p \in Process, DestroyLast(p)
    PROVE  Inv'
<1>1. UNCHANGED <<memory, mishaps>> /\ proc' = [proc EXCEPT ![p] = NoTunnel]
  BY DEF DestroyLast
<1>2. TunnelsInv'
  BY <1>1, NoTunnelOk, TunnelStep
<1>3. SharedTypes'
  BY DEF DestroyLast, Inv, SharedTypes
<1> QED
  BY <1>1, <1>2, <1>3, MemoryStays, NoMishap DEF Inv

LEMMA CrashInv ==
    ASSUME Inv, NEW p \in Process, Crash(p)
    PROVE  Inv'
<1>1. UNCHANGED <<memory, mishaps>> /\ proc' = [proc EXCEPT ![p] = NoTunnel]
  BY DEF Crash
<1>2. TunnelsInv'
  BY <1>1, NoTunnelOk, TunnelStep
<1>3. SharedTypes'
  BY DEF Crash, Inv, SharedTypes, Budget
<1> QED
  BY <1>1, <1>2, <1>3, MemoryStays, NoMishap DEF Inv

\* Nobody leaves the mapped region before num_clients was wrong.
LEMMA FaultInv ==
    ASSUME Inv, NEW p \in Process, Fault(p)
    PROVE  Inv'
<1>1. /\ UNCHANGED <<memory, name, created, budget>>
      /\ proc' = [proc EXCEPT ![p] = NoTunnel]
      /\ mishaps' = mishaps \cup {"overrun"}
  BY DEF Fault
<1>2. PICK k \in Used(p) : k \notin Place
  BY DEF Fault
<1>3. k \notin Slot
  BY <1>2, IdFacts
<1>4. "count" \in mishaps
  <2>1. CASE \E h \in Thread : \E l \in Due(p, h) : k = l.ring
    BY <1>3, <2>1, DueFacts
  <2>2. CASE k = proc[p].mClientId
    BY <1>3, <2>2 DEF Inv, TunnelsInv, TunnelOk, IdsOk
  <2> QED
    BY <1>2, <2>1, <2>2 DEF Used, Thread
<1>5. mishaps \subseteq mishaps' /\ mishaps' \subseteq Mishap /\ MishapInv'
  BY <1>1, <1>4 DEF Inv, SharedTypes, Mishap, MishapInv
<1>6. TunnelsInv'
  BY <1>1, <1>5, NoTunnelOk, TunnelStep
<1>7. SharedTypes'
  BY <1>1, <1>5 DEF Inv, SharedTypes
<1> QED
  BY <1>1, <1>5, <1>6, <1>7, MemoryStays DEF Inv

LEMMA StutterInv ==
    ASSUME Inv, UNCHANGED vars
    PROVE  Inv'
BY DEF Inv, SharedTypes, MemoryInv, TunnelsInv, MishapInv, vars

LEMMA NextInv == Inv /\ [Next]_vars => Inv'
<1> SUFFICES ASSUME Inv, [Next]_vars PROVE Inv'
  OBVIOUS
<1>1. CASE UNCHANGED vars
  BY <1>1, StutterInv
<1>2. CASE Next
  BY <1>2, OpenInv, JoinFirstInv, JoinCountsInv, JoinNextInv, JoinFailsInv, JoinEndsInv,
     PushWholeInv, BeginPushInv, EndPushInv, PopWholeInv, BeginPopInv, EndPopInv,
     ListenEndsInv, ForwardInv, StopFlagInv, StopClearFrontInv, StopClearBackInv,
     StopEndsInv, DestroyReadsInv, DestroyCountsInv, DestroyLastInv, CrashInv, FaultInv
     DEF Next
<1> QED
  BY <1>1, <1>2

\* While num_clients was right every id, route, letter and source is a slot, and while no
\* pop mixed two messages no cell, letter or route leads back to its own slot.
THEOREM ShmInvariant == Spec => []Inv
<1>1. Init => Inv
  BY InitInv
<1>2. Inv /\ [Next]_vars => Inv'
  BY NextInv
<1> QED
  BY <1>1, <1>2, PTL DEF Spec

\* Every variable keeps its type: indices stay in the ring, and num_clients in a size_t,
\* whichever of its updates are lost or wrap.
THEOREM ShmTypes == Spec => []TypeOK
<1>1. Inv => TypeOK
  BY DEF Inv, SharedTypes, MemoryInv, TunnelsInv, TypeOK, Shared
<1> QED
  BY <1>1, ShmInvariant, PTL

\* A slot's own messages never come back to it.
THEOREM OwnMessagesNeverComeBack == Spec => []NoOwnMessage
<1>1. Inv => NoOwnMessage
  <2> SUFFICES ASSUME Inv, "mixed" \notin mishaps, NEW o \in Object, NEW k \in Place,
                      NEW y \in ToSet(Contents(memory[o].broadcast[k])), y # Blank
               PROVE  y.source # k
    BY DEF NoOwnMessage
  <2> DEFINE r == memory[o].broadcast[k]
  <2>1. RingOk(r, k, mishaps) /\ r \in Ring
    BY DEF Inv, MemoryInv, MemoryOk, RingOk
  <2> HIDE DEF r
  <2>2. PICK i \in DOMAIN Contents(r) : y = Contents(r)[i]
    BY DEF ToSet, r
  <2>3. CellAt(r, i - 1) \in Cell /\ y = r.messages[CellAt(r, i - 1)]
    BY <2>1, <2>2, ContentsProperties
  <2> QED
    BY <2>1, <2>3 DEF RingOk, PacketOk
<1> QED
  BY <1>1, ShmInvariant, PTL

\* Nobody uses a ring behind the array before num_clients was wrong.
THEOREM SlotsStayInArray == Spec => []ArrayBounds
<1>1. Inv => ArrayBounds
  <2> SUFFICES ASSUME Inv, "count" \notin mishaps
               PROVE  "overrun" \notin mishaps /\ \A o \in Object : memory[o].num_clients < MAX_CLIENTS
    BY DEF ArrayBounds
  <2>1. \A o \in Object : memory[o].num_clients \in Slot
    BY DEF Inv, MemoryInv, MemoryOk
  <2> QED
    BY <2>1, ClientsAssumption DEF Inv, MishapInv, Slot
<1> QED
  BY <1>1, ShmInvariant, PTL

-----------------------------------------------------------------------------
(* What the mutex is good for.                                              *)

\* The operation x has a mutex that keeps others out.
Guards(x) == x.kind # "none" /\ x.lock # "loose"

\* The ring r is as x found it.
Matches(r, x) ==
    /\ x.kind = "push" => x.back = r.back /\ ~IsFull(r)
    /\ x.kind = "pop"  => x.front = r.front /\ ~IsEmpty(r)

RingOf(p, h) == MemoryOf(p).broadcast[proc[p].op[h].ring]

LockOk(p, h) ==
    Guards(proc[p].op[h]) =>
        /\ RingOf(p, h).mutex
        /\ proc[p].op[h].lock = "held" => Matches(RingOf(p, h), proc[p].op[h])
        /\ \A q \in Process, g \in Thread :
              /\ proc[q].object = proc[p].object
              /\ proc[q].op[g].ring = proc[p].op[h].ring
              /\ Guards(proc[q].op[g])
              => q = p /\ g = h

LockInv == \A p \in Process, h \in Thread : LockOk(p, h)

LEMMA InitLock == Init => LockInv
<1> SUFFICES ASSUME Init, NEW p \in Process, NEW h \in Thread PROVE LockOk(p, h)
  BY DEF LockInv
<1>1. proc[p].op[h].kind = "none"
  BY NoTunnelOk, NoOpOk DEF Init
<1> QED
  BY <1>1 DEF LockOk, Guards

\* A step in which an operation that has its mutex had it before, and its ring, if
\* it is still held, is as it was.
Kept(q, g) ==
    Guards(proc'[q].op[g]) =>
        /\ Guards(proc[q].op[g])
        /\ proc'[q].object = proc[q].object
        /\ proc'[q].op[g].kind = proc[q].op[g].kind
        /\ proc'[q].op[g].ring = proc[q].op[g].ring
        /\ proc'[q].op[g].front = proc[q].op[g].front
        /\ proc'[q].op[g].back = proc[q].op[g].back
        /\ RingOf(q, g).mutex => RingOf(q, g)'.mutex
        /\ proc'[q].op[g].lock = "held" =>
              /\ proc[q].op[g].lock = "held"
              /\ RingOf(q, g)'.front = RingOf(q, g).front
              /\ RingOf(q, g)'.back = RingOf(q, g).back

LEMMA LockStep ==
    ASSUME LockInv, \A q \in Process, g \in Thread : Kept(q, g)
    PROVE  LockInv'
<1> SUFFICES ASSUME NEW p \in Process, NEW h \in Thread, Guards(proc'[p].op[h])
             PROVE  /\ RingOf(p, h)'.mutex
                    /\ proc'[p].op[h].lock = "held" => Matches(RingOf(p, h)', proc'[p].op[h])
                    /\ \A q \in Process, g \in Thread :
                          /\ proc'[q].object = proc'[p].object
                          /\ proc'[q].op[g].ring = proc'[p].op[h].ring
                          /\ Guards(proc'[q].op[g])
                          => q = p /\ g = h
  BY DEF LockInv, LockOk
<1>1. Kept(p, h) /\ LockOk(p, h)
  BY DEF LockInv
<1>2. RingOf(p, h)'.mutex
  BY <1>1 DEF Kept, LockOk
<1>3. ASSUME proc'[p].op[h].lock = "held" PROVE Matches(RingOf(p, h)', proc'[p].op[h])
  BY <1>1, <1>3 DEF Kept, LockOk, Matches, IsFull, IsEmpty
<1>4. ASSUME NEW q \in Process, NEW g \in Thread, proc'[q].object = proc'[p].object,
             proc'[q].op[g].ring = proc'[p].op[h].ring, Guards(proc'[q].op[g])
      PROVE  q = p /\ g = h
  <2>1. Kept(q, g)
    OBVIOUS
  <2> QED
    BY <1>1, <1>4, <2>1 DEF Kept, LockOk
<1> QED
  BY <1>2, <1>3, <1>4

\* The operation is what it was, or has ended.
Same(q, g) ==
    proc'[q].op[g].kind # "none" =>
        proc'[q].object = proc[q].object /\ proc'[q].op[g] = proc[q].op[g]

\* Every ring is what it was.
RingsStay ==
    \A o \in Object, k \in Place : memory'[o].broadcast[k] = memory[o].broadcast[k]

\* A ring that one process replaces.
OneRing(o, k, r) ==
    \A i \in Object, j \in Place :
        memory'[i].broadcast[j] = IF i = o /\ j = k THEN r ELSE memory[i].broadcast[j]

LEMMA SetRingFacts ==
    ASSUME Inv, NEW p \in Process, proc[p].object \in Object, NEW k \in Place, NEW r,
           SetRing(p, k, r)
    PROVE  OneRing(proc[p].object, k, r)
<1>1. memory \in [Object -> Shared]
  BY DEF Inv, MemoryInv
<1> QED
  BY <1>1 DEF SetRing, OneRing, Shared

\* Where an operation under way is.
LEMMA RingOfFacts ==
    ASSUME Inv, NEW q \in Process, NEW g \in Thread, Guards(proc[q].op[g])
    PROVE  /\ proc[q].object \in Object /\ proc[q].op[g].ring \in Place
           /\ RingOf(q, g) = memory[proc[q].object].broadcast[proc[q].op[g].ring]
BY OpFacts DEF Guards, RingOf, MemoryOf

\* Steps that leave the rings alone.
LEMMA QuietStep ==
    ASSUME Inv, LockInv, \A q \in Process, g \in Thread : Same(q, g), RingsStay
    PROVE  LockInv'
<1> SUFFICES ASSUME NEW q \in Process, NEW g \in Thread, Guards(proc'[q].op[g])
             PROVE  Kept(q, g)
  BY LockStep DEF Kept
<1>1. proc'[q].object = proc[q].object /\ proc'[q].op[g] = proc[q].op[g]
  BY DEF Same, Guards
<1>2. Guards(proc[q].op[g])
  BY <1>1
<1>3. proc[q].object \in Object /\ proc[q].op[g].ring \in Place
  BY <1>2, RingOfFacts
<1>4. RingOf(q, g)' = RingOf(q, g)
  BY <1>1, <1>3 DEF RingsStay, RingOf, MemoryOf
<1> QED
  BY <1>1, <1>2, <1>4 DEF Kept

\* push and pop in one step, with the mutex.
LEMMA WholeStep ==
    ASSUME Inv, LockInv, \A q \in Process, g \in Thread : Same(q, g),
           NEW o \in Object, NEW k \in Place, NEW r, Free(memory[o].broadcast[k]),
           OneRing(o, k, r)
    PROVE  LockInv'
<1> SUFFICES ASSUME NEW q \in Process, NEW g \in Thread, Guards(proc'[q].op[g])
             PROVE  Kept(q, g)
  BY LockStep DEF Kept
<1>1. proc'[q].object = proc[q].object /\ proc'[q].op[g] = proc[q].op[g]
  BY DEF Same, Guards
<1>2. Guards(proc[q].op[g])
  BY <1>1
<1>3. /\ proc[q].object \in Object /\ proc[q].op[g].ring \in Place
      /\ RingOf(q, g) = memory[proc[q].object].broadcast[proc[q].op[g].ring]
  BY <1>2, RingOfFacts
<1>4. RingOf(q, g).mutex
  BY <1>2 DEF LockInv, LockOk
<1>5. ~(proc[q].object = o /\ proc[q].op[g].ring = k)
  BY <1>3, <1>4 DEF Free
<1>6. RingOf(q, g)' = RingOf(q, g)
  BY <1>1, <1>3, <1>5 DEF OneRing, RingOf, MemoryOf
<1> QED
  BY <1>1, <1>2, <1>6 DEF Kept

\* push and pop up to where they have the mutex and have read the indices.
LEMMA BeginStep ==
    ASSUME Inv, LockInv, NEW p \in Process, NEW h \in Thread, NEW k \in Place, NEW r,
           proc[p].object \in Object, proc'[p].object = proc[p].object,
           \A q \in Process, g \in Thread : q # p \/ g # h => Same(q, g),
           proc'[p].op[h].ring = k, r.mutex, Matches(r, proc'[p].op[h]),
           Free(memory[proc[p].object].broadcast[k]), OneRing(proc[p].object, k, r)
    PROVE  LockInv'
<1> DEFINE o == proc[p].object
<1>1. ASSUME NEW q \in Process, NEW g \in Thread, Guards(proc'[q].op[g]), q # p \/ g # h
      PROVE  /\ proc'[q].object = proc[q].object /\ proc'[q].op[g] = proc[q].op[g]
             /\ Guards(proc[q].op[g]) /\ LockOk(q, g)
             /\ ~(proc[q].object = o /\ proc[q].op[g].ring = k)
             /\ RingOf(q, g)' = RingOf(q, g)
  <2>1. proc'[q].object = proc[q].object /\ proc'[q].op[g] = proc[q].op[g]
    BY <1>1 DEF Same, Guards
  <2>2. Guards(proc[q].op[g]) /\ LockOk(q, g)
    BY <1>1, <2>1 DEF LockInv
  <2>3. /\ proc[q].object \in Object /\ proc[q].op[g].ring \in Place
        /\ RingOf(q, g) = memory[proc[q].object].broadcast[proc[q].op[g].ring]
    BY <2>2, RingOfFacts
  <2>4. RingOf(q, g).mutex
    BY <2>2 DEF LockOk
  <2>5. ~(proc[q].object = o /\ proc[q].op[g].ring = k)
    BY <2>3, <2>4 DEF Free
  <2>6. RingOf(q, g)' = RingOf(q, g)
    BY <2>1, <2>3, <2>5 DEF OneRing, RingOf, MemoryOf
  <2> QED
    BY <2>1, <2>2, <2>5, <2>6
<1>2. RingOf(p, h)' = r
  BY DEF OneRing, RingOf, MemoryOf
<1>3. ASSUME NEW q \in Process, NEW g \in Thread, Guards(proc'[q].op[g])
      PROVE  /\ RingOf(q, g)'.mutex
             /\ proc'[q].op[g].lock = "held" => Matches(RingOf(q, g)', proc'[q].op[g])
             /\ \A i \in Process, j \in Thread :
                   /\ proc'[i].object = proc'[q].object
                   /\ proc'[i].op[j].ring = proc'[q].op[g].ring
                   /\ Guards(proc'[i].op[j])
                   => i = q /\ j = g
  <2>1. CASE q = p /\ g = h
    BY <1>1, <1>2, <2>1
  <2>2. CASE q # p \/ g # h
    <3>1. /\ proc'[q].object = proc[q].object /\ proc'[q].op[g] = proc[q].op[g]
          /\ Guards(proc[q].op[g]) /\ LockOk(q, g)
          /\ ~(proc[q].object = o /\ proc[q].op[g].ring = k)
          /\ RingOf(q, g)' = RingOf(q, g)
      BY <1>1, <1>3, <2>2
    <3>2. /\ RingOf(q, g)'.mutex
          /\ proc'[q].op[g].lock = "held" => Matches(RingOf(q, g)', proc'[q].op[g])
      BY <3>1 DEF LockOk
    <3>3. ASSUME NEW i \in Process, NEW j \in Thread, proc'[i].object = proc'[q].object,
                 proc'[i].op[j].ring = proc'[q].op[g].ring, Guards(proc'[i].op[j])
          PROVE  i = q /\ j = g
      <4>1. i # p \/ j # h
        BY <3>1, <3>3
      <4>2. /\ proc'[i].object = proc[i].object /\ proc'[i].op[j] = proc[i].op[j]
            /\ Guards(proc[i].op[j])
        BY <1>1, <3>3, <4>1
      <4> QED
        BY <3>1, <3>3, <4>2 DEF LockOk
    <3> QED
      BY <3>2, <3>3
  <2> QED
    BY <2>1, <2>2
<1> QED
  BY <1>3 DEF LockInv, LockOk

\* What a push or pop does to the operations of others when it ends: nobody has the mutex.
LEMMA EndStep ==
    ASSUME Inv, LockInv, NEW p \in Process, NEW h \in Thread, NEW r,
           proc[p].op[h].kind # "none", proc'[p].op[h] = NoOp,
           \A q \in Process, g \in Thread : q # p \/ g # h =>
              /\ proc'[q].object = proc[q].object
              /\ proc'[q].op[g] = Unlocked(p, proc[p].op[h])[q].op[g],
           OneRing(proc[p].object, proc[p].op[h].ring, r)
    PROVE  LockInv'
<1> DEFINE x == proc[p].op[h]
           o == proc[p].object
<1> SUFFICES ASSUME NEW q \in Process, NEW g \in Thread, Guards(proc'[q].op[g])
             PROVE  Kept(q, g)
  BY LockStep DEF Kept
<1>1. q # p \/ g # h
  BY NoOpOk DEF Guards
<1>2. proc'[q].object = proc[q].object /\ proc'[q].op[g] = Unlocked(p, x)[q].op[g]
  BY <1>1
<1>3. /\ proc'[q].op[g] = proc[q].op[g]
      /\ ~(proc[q].object = o /\ proc[q].op[g].ring = x.ring)
  <2>1. CASE x.lock = "held"
    <3>1. proc'[q].op[g] = proc[q].op[g]
      BY <1>2, <2>1 DEF Unlocked
    <3>2. Guards(x) /\ LockOk(p, h)
      BY <2>1 DEF Guards, LockInv
    <3> QED
      BY <1>1, <3>1, <3>2 DEF LockOk
  <2>2. CASE x.lock # "held"
    <3> DEFINE hit == proc[q].object = o /\ proc[q].op[g].kind # "none"
                      /\ proc[q].op[g].ring \in {x.ring} /\ proc[q].op[g].lock # "loose"
    <3>1. proc'[q].op[g] = IF hit THEN [proc[q].op[g] EXCEPT !.lock = "loose"]
                           ELSE proc[q].op[g]
      <4>1. Unlocked(p, x) = Disturbed(o, {x.ring}, "loose")
        BY <2>2 DEF Unlocked
      <4>2. Disturbed(o, {x.ring}, "loose")[q].op[g] =
               IF hit THEN [proc[q].op[g] EXCEPT !.lock = "loose"] ELSE proc[q].op[g]
        <5> HIDE DEF x, o
        <5> QED
          BY DisturbedFacts
      <4> QED
        BY <1>2, <4>1, <4>2
    <3>2. proc[q].op[g] \in Op
      BY DEF Inv, TunnelsInv, Tunnel
    <3>3. ~hit
      <4> SUFFICES ASSUME hit PROVE FALSE
        OBVIOUS
      <4>1. proc'[q].op[g].lock = "loose"
        BY <3>1, <3>2 DEF Op
      <4> QED
        BY <4>1 DEF Guards
    <3>4. proc'[q].op[g] = proc[q].op[g]
      BY <3>1, <3>3
    <3> QED
      BY <3>3, <3>4 DEF Guards
  <2> QED
    BY <2>1, <2>2
<1>4. Guards(proc[q].op[g])
  BY <1>3
<1>5. proc[q].object \in Object /\ proc[q].op[g].ring \in Place
  BY <1>4, RingOfFacts
<1>6. RingOf(q, g)' = RingOf(q, g)
  BY <1>2, <1>3, <1>5 DEF OneRing, RingOf, MemoryOf
<1> QED
  BY <1>2, <1>3, <1>4, <1>6 DEF Kept

\* A write without the mutex to the rings S of object o, which sets the locks there.
LEMMA DisturbStep ==
    ASSUME Inv, LockInv, NEW o, NEW S, NEW lock \in {"torn", "loose"},
           \A q \in Process, g \in Thread :
              /\ proc'[q].object = proc[q].object
              /\ proc'[q].op[g] = Disturbed(o, S, lock)[q].op[g],
           \A i \in Object, j \in Place :
              \/ memory'[i].broadcast[j] = memory[i].broadcast[j]
              \/ i = o /\ j \in S /\ lock = "loose"
              \/ /\ i = o /\ j \in S
                 /\ memory[i].broadcast[j].mutex => memory'[i].broadcast[j].mutex
    PROVE  LockInv'
<1> SUFFICES ASSUME NEW q \in Process, NEW g \in Thread, Guards(proc'[q].op[g])
             PROVE  Kept(q, g)
  BY LockStep DEF Kept
<1> DEFINE x == proc[q].op[g]
           y == proc'[q].op[g]
           hit == proc[q].object = o /\ x.kind # "none" /\ x.ring \in S /\ x.lock # "loose"
<1>1. y = IF hit THEN [x EXCEPT !.lock = lock] ELSE x
  <2>1. y = Disturbed(o, S, lock)[q].op[g]
    OBVIOUS
  <2> QED
    BY <2>1, DisturbedFacts
<1>2. x \in Op /\ proc'[q].object = proc[q].object
  BY DEF Inv, TunnelsInv, Tunnel
<1>3. CASE hit
  <2>1. /\ y.kind = x.kind /\ y.ring = x.ring /\ y.front = x.front /\ y.back = x.back
        /\ y.lock = lock
    BY <1>1, <1>2, <1>3 DEF Op
  <2>2. lock = "torn"
    BY <2>1 DEF Guards
  <2>3. Guards(x)
    BY <1>3 DEF Guards
  <2>4. /\ proc[q].object \in Object /\ x.ring \in Place
        /\ RingOf(q, g) = memory[proc[q].object].broadcast[x.ring]
    BY <2>3, RingOfFacts
  <2>5. RingOf(q, g)' = memory'[proc[q].object].broadcast[x.ring]
    BY <1>2, <2>1 DEF RingOf, MemoryOf
  <2>6. RingOf(q, g).mutex => RingOf(q, g)'.mutex
    <3>1. memory[o].broadcast[x.ring].mutex => memory'[o].broadcast[x.ring].mutex
      BY <1>3, <2>2, <2>4
    <3> QED
      BY <1>3, <2>4, <2>5, <3>1
  <2> QED
    BY <1>2, <2>1, <2>2, <2>3, <2>6 DEF Kept
<1>4. CASE ~hit
  <2>1. y = x
    BY <1>1, <1>4
  <2>2. Guards(x) /\ ~(proc[q].object = o /\ x.ring \in S)
    BY <1>4, <2>1 DEF Guards
  <2>3. /\ proc[q].object \in Object /\ x.ring \in Place
        /\ RingOf(q, g) = memory[proc[q].object].broadcast[x.ring]
    BY <2>2, RingOfFacts
  <2>4. RingOf(q, g)' = memory'[proc[q].object].broadcast[x.ring]
    BY <1>2, <2>1 DEF RingOf, MemoryOf
  <2>5. RingOf(q, g)' = RingOf(q, g)
    BY <2>2, <2>3, <2>4
  <2> QED
    BY <1>2, <2>1, <2>2, <2>5 DEF Kept
<1> QED
  BY <1>3, <1>4

-----------------------------------------------------------------------------
(* One step of a ring.                                                      *)

\* The step at the ring k of object o that RingIsQueue allows.
QueueAt(o, k) ==
    LET old == Contents(memory[o].broadcast[k])
        new == Contents(memory'[o].broadcast[k])
    IN  \/ Unguarded(o, k)
        \/ new = old
        \/ old # <<>> /\ new = Tail(old)
        \/ /\ Len(new) = Len(old) + 1
           /\ SubSeq(new, 1, Len(old)) = old

\* The mutex is not part of the queue.
LEMMA SameContents ==
    ASSUME NEW r, NEW s, s.front = r.front, s.back = r.back, s.messages = r.messages
    PROVE  Contents(s) = Contents(r)
BY DEF Contents, Count, CellAt

\* Appending leaves what was there.
LEMMA AppendKeeps ==
    ASSUME NEW q \in Seq(Packet), NEW x \in Packet
    PROVE  /\ Len(Append(q, x)) = Len(q) + 1
           /\ SubSeq(Append(q, x), 1, Len(q)) = q
<1>1. /\ Append(q, x) \in Seq(Packet) /\ Len(Append(q, x)) = Len(q) + 1 /\ Len(q) \in Nat
      /\ \A i \in 1..Len(q) : Append(q, x)[i] = q[i]
  OBVIOUS
<1>2. /\ SubSeq(Append(q, x), 1, Len(q)) \in Seq(Packet)
      /\ Len(SubSeq(Append(q, x), 1, Len(q))) = Len(q)
      /\ \A i \in 1..Len(q) : SubSeq(Append(q, x), 1, Len(q))[i] = q[i]
  BY <1>1
<1> QED
  BY <1>1, <1>2

LEMMA QuietQueue ==
    ASSUME RingsStay
    PROVE  \A o \in Object, k \in Place : QueueAt(o, k)
BY DEF RingsStay, QueueAt

\* One ring changes, as a queue does or unguarded.
LEMMA OneRingQueue ==
    ASSUME NEW o \in Object, NEW k \in Place, NEW r, OneRing(o, k, r), QueueAt(o, k)
    PROVE  \A i \in Object, j \in Place : QueueAt(i, j)
<1> SUFFICES ASSUME NEW i \in Object, NEW j \in Place PROVE QueueAt(i, j)
  OBVIOUS
<1>1. CASE i = o /\ j = k
  BY <1>1
<1>2. CASE ~(i = o /\ j = k)
  <2>1. memory'[i].broadcast[j] = memory[i].broadcast[j]
    BY <1>2 DEF OneRing
  <2> QED
    BY <2>1 DEF QueueAt
<1> QED
  BY <1>1, <1>2

\* A push, whatever becomes of the mutex.
LEMMA PushQueue ==
    ASSUME Inv, NEW o \in Object, NEW k \in Place, NEW x \in Packet, NEW s,
           memory'[o].broadcast[k] = s, ~IsFull(memory[o].broadcast[k]),
           s.front = Push(memory[o].broadcast[k], x).front,
           s.back = Push(memory[o].broadcast[k], x).back,
           s.messages = Push(memory[o].broadcast[k], x).messages
    PROVE  QueueAt(o, k)
<1> DEFINE r == memory[o].broadcast[k]
<1>1. r \in Ring
  BY DEF Inv, MemoryInv, Shared
<1>2. Contents(s) = Contents(Push(r, x))
  BY SameContents
<1>3. Contents(Push(r, x)) = Append(Contents(r), x) /\ Contents(r) \in Seq(Packet)
  BY <1>1, PushAppends, ContentsProperties
<1>4. Len(Contents(s)) = Len(Contents(r)) + 1 /\ SubSeq(Contents(s), 1, Len(Contents(r))) = Contents(r)
  BY <1>2, <1>3, AppendKeeps
<1> QED
  BY <1>4 DEF QueueAt

\* A pop, whatever becomes of the mutex.
LEMMA PopQueue ==
    ASSUME Inv, NEW o \in Object, NEW k \in Place, NEW s,
           memory'[o].broadcast[k] = s, ~IsEmpty(memory[o].broadcast[k]),
           s.front = Pop(memory[o].broadcast[k]).front,
           s.back = Pop(memory[o].broadcast[k]).back,
           s.messages = Pop(memory[o].broadcast[k]).messages
    PROVE  QueueAt(o, k)
<1> DEFINE r == memory[o].broadcast[k]
<1>1. r \in Ring
  BY DEF Inv, MemoryInv, Shared
<1>2. Contents(s) = Contents(Pop(r))
  BY SameContents
<1>3. Contents(Pop(r)) = Tail(Contents(r)) /\ Contents(r) # <<>>
  BY <1>1, PopTakesHead
<1> QED
  BY <1>2, <1>3 DEF QueueAt

-----------------------------------------------------------------------------
(* Every step keeps LockInv, and takes a ring as RingIsQueue says.          *)

QueueStep == \A o \in Object, k \in Place : QueueAt(o, k)

\* Steps that leave the operations and the rings alone, but may end a process.
LEMMA QuietActions ==
    ASSUME Inv, LockInv, NEW p \in Process,
           \/ Open(p) \/ JoinCounts(p) \/ JoinNext(p) \/ JoinFails(p) \/ JoinEnds(p)
           \/ ListenEnds(p) \/ (\E m \in Outgoing : Forward(p, m))
           \/ StopFlag(p) \/ StopEnds(p) \/ DestroyReads(p) \/ DestroyCounts(p)
           \/ DestroyLast(p) \/ Crash(p) \/ Fault(p)
    PROVE  LockInv' /\ QueueStep
<1>1. proc \in [Process -> Tunnel] /\ memory \in [Object -> Shared]
  BY DEF Inv, TunnelsInv, MemoryInv
<1>2. NoTunnel \in Tunnel /\ \A g \in Thread : NoTunnel.op[g].kind = "none"
  BY NoTunnelOk, NoOpOk DEF TunnelOk
<1> DEFINE SameAll == \A q \in Process, g \in Thread : Same(q, g)
<1>3. ASSUME NEW t, proc' = [proc EXCEPT ![p] = t],
             \/ \A g \in Thread : t.op[g].kind = "none"
             \/ t.object = proc[p].object /\ t.op = proc[p].op
      PROVE  SameAll
  BY <1>1, <1>3 DEF Same
<1>4. SameAll
  <2>1. CASE Open(p)
    <3>1. PICK o : proc' = [proc EXCEPT ![p] = [NoTunnel EXCEPT !.step = "opened", !.object = o,
                                                   !.mClientId = memory[o].num_clients]]
      BY <2>1 DEF Open
    <3>2. [NoTunnel EXCEPT !.step = "opened", !.object = o,
                           !.mClientId = memory[o].num_clients].op = NoTunnel.op
      BY DEF NoTunnel
    <3> QED
      BY <1>2, <1>3, <3>1, <3>2
  <2>2. CASE JoinCounts(p)
    <3>1. PICK num : proc' = [proc EXCEPT ![p].step = "counted", ![p].seen = num]
      BY <2>2 DEF JoinCounts
    <3>2. proc' = [proc EXCEPT ![p] = [proc[p] EXCEPT !.step = "counted", !.seen = num]]
      BY <1>1, <3>1
    <3>3. /\ [proc[p] EXCEPT !.step = "counted", !.seen = num].object = proc[p].object
          /\ [proc[p] EXCEPT !.step = "counted", !.seen = num].op = proc[p].op
      BY <1>1 DEF Tunnel
    <3> QED
      BY <1>3, <3>2, <3>3
  <2>3. CASE JoinNext(p)
    <3> DEFINE t == Says([proc[p] EXCEPT !.step = "greeting", !.seen = 0], "TUNNEL_HELLO")
    <3>1. proc' = [proc EXCEPT ![p] = t]
      BY <2>3 DEF JoinNext
    <3>2. t.object = proc[p].object /\ t.op = proc[p].op
      BY <1>1 DEF Says, Tunnel
    <3> QED
      BY <1>3, <3>1, <3>2
  <2>4. CASE JoinFails(p) \/ DestroyCounts(p) \/ DestroyLast(p) \/ Crash(p) \/ Fault(p)
    <3>1. proc' = [proc EXCEPT ![p] = NoTunnel]
      BY <2>4 DEF JoinFails, DestroyCounts, DestroyLast, Crash, Fault
    <3> QED
      BY <1>2, <1>3, <3>1
  <2>5. CASE JoinEnds(p)
    <3> DEFINE t == Running([proc[p] EXCEPT !.todo["app"] = {}])
    <3>1. proc' = [proc EXCEPT ![p] = t]
      BY <2>5 DEF JoinEnds
    <3>2. t.object = proc[p].object /\ t.op = proc[p].op
      BY <1>1 DEF Running, Tunnel
    <3> QED
      BY <1>3, <3>1, <3>2
  <2>6. CASE ListenEnds(p)
    <3> DEFINE t == [proc[p] EXCEPT !.listening = FALSE]
    <3>1. proc' = [proc EXCEPT ![p] = t]
      BY <2>6 DEF ListenEnds
    <3>2. t.object = proc[p].object /\ t.op = proc[p].op
      BY <1>1 DEF Tunnel
    <3> QED
      BY <1>3, <3>1, <3>2
  <2>7. ASSUME NEW m \in Outgoing, Forward(p, m) PROVE SameAll
    <3>1. PICK L : proc' = [proc EXCEPT ![p].todo["io"] = L]
      BY <2>7 DEF Forward
    <3> DEFINE t == [proc[p] EXCEPT !.todo["io"] = L]
    <3>2. proc' = [proc EXCEPT ![p] = t]
      BY <3>1
    <3>3. t.object = proc[p].object /\ t.op = proc[p].op
      BY <1>1 DEF Tunnel
    <3> QED
      BY <1>3, <3>2, <3>3
  <2>8. CASE StopFlag(p)
    <3> DEFINE t == [proc[p] EXCEPT !.step = "flagged", !.is_running = FALSE]
    <3>1. proc' = [proc EXCEPT ![p] = t]
      BY <1>1, <2>8 DEF StopFlag
    <3>2. t.object = proc[p].object /\ t.op = proc[p].op
      BY <1>1 DEF Tunnel
    <3> QED
      BY <1>3, <3>1, <3>2
  <2>9. CASE StopEnds(p)
    <3> DEFINE t == [proc[p] EXCEPT !.step = "stopped", !.todo["app"] = {}]
    <3>1. proc' = [proc EXCEPT ![p] = t]
      BY <1>1, <2>9 DEF StopEnds
    <3>2. t.object = proc[p].object /\ t.op = proc[p].op
      BY <1>1 DEF Tunnel
    <3> QED
      BY <1>3, <3>1, <3>2
  <2>10. CASE DestroyReads(p)
    <3> DEFINE t == [proc[p] EXCEPT !.step = "leaving", !.seen = MemoryOf(p).num_clients]
    <3>1. proc' = [proc EXCEPT ![p] = t]
      BY <1>1, <2>10 DEF DestroyReads
    <3>2. t.object = proc[p].object /\ t.op = proc[p].op
      BY <1>1 DEF Tunnel
    <3> QED
      BY <1>3, <3>1, <3>2
  <2> QED
    BY <2>1, <2>2, <2>3, <2>4, <2>5, <2>6, <2>7, <2>8, <2>9, <2>10
<1>5. RingsStay
  <2>1. CASE UNCHANGED memory
    BY <2>1 DEF RingsStay
  <2>2. CASE JoinCounts(p) \/ DestroyCounts(p)
    <3>1. PICK num : memory' = [memory EXCEPT ![proc[p].object].num_clients = num]
      BY <2>2 DEF JoinCounts, DestroyCounts
    <3> QED
      BY <1>1, <3>1 DEF RingsStay, Shared
  <2> QED
    BY <2>1, <2>2 DEF Open, JoinNext, JoinFails, JoinEnds, ListenEnds, Forward, StopFlag,
       StopEnds, DestroyReads, DestroyLast, Crash, Fault
<1> QED
  BY <1>4, <1>5, QuietStep, QuietQueue DEF QueueStep

LEMMA PushWholeQueue ==
    ASSUME Inv, LockInv, NEW p \in Process, NEW h \in Thread, PushWhole(p, h)
    PROVE  LockInv' /\ QueueStep
<1>1. PICK l \in Due(p, h) :
          /\ MayPush(p, h, l)
          /\ SetRing(p, l.ring, Push(MemoryOf(p).broadcast[l.ring], Sent(p, l)))
          /\ proc' = [proc EXCEPT ![p].todo[h] = @ \ {l}]
  BY DEF PushWhole
<1> DEFINE o == proc[p].object
           k == l.ring
           r == memory[o].broadcast[k]
           s == Push(r, Sent(p, l))
<1>2. o \in Object /\ k \in Place /\ Free(r) /\ Sent(p, l) \in Packet /\ OneRing(o, k, s)
  BY <1>1, DueFacts, SetRingFacts DEF MayPush, MemoryOf
<1>3. \A q \in Process, g \in Thread : Same(q, g)
  BY <1>1 DEF Inv, TunnelsInv, Tunnel, Same
<1>4. LockInv'
  BY <1>2, <1>3, WholeStep
<1>5. memory'[o].broadcast[k] = s
  BY <1>2 DEF OneRing
<1>6. QueueAt(o, k)
  <2>1. CASE IsFull(r)
    <3>1. memory'[o].broadcast[k] = memory[o].broadcast[k]
      BY <1>5, <2>1 DEF Push
    <3> QED
      BY <3>1 DEF QueueAt
  <2>2. CASE ~IsFull(r)
    BY <1>2, <1>5, <2>2, PushQueue
  <2> QED
    BY <2>1, <2>2
<1> QED
  BY <1>2, <1>4, <1>6, OneRingQueue DEF QueueStep

\* The process that has handled a message.
LEMMA HeardOps ==
    ASSUME NEW t \in Tunnel, NEW source \in Id, NEW m \in Message
    PROVE  /\ Heard(t, source, m).object = t.object
           /\ Heard(t, source, m).op["io"] = NoOp
           /\ Heard(t, source, m).op["app"] = t.op["app"]
<1>1. CASE t.is_running
  <2> DEFINE a == Handled(t, source, m)
  <2>1. a \in Tunnel /\ a.object = t.object /\ a.op = t.op
    BY HandledFacts
  <2>2. PICK L : Heard(t, source, m) = [a EXCEPT !.op["io"] = NoOp, !.todo["io"] = L]
    BY <1>1 DEF Heard
  <2> HIDE DEF a
  <2> QED
    BY <2>1, <2>2 DEF Tunnel, Thread
<1>2. CASE ~t.is_running
  BY <1>2 DEF Heard, Tunnel, Thread
<1> QED
  BY <1>1, <1>2

LEMMA PopWholeQueue ==
    ASSUME Inv, LockInv, NEW p \in Process, PopWhole(p)
    PROVE  LockInv' /\ QueueStep
<1> DEFINE o == proc[p].object
           k == proc[p].mClientId
           r == OwnRing(p)
           t == Heard(proc[p], Top(r).source, Top(r).message)
<1>1. MayPop(p) /\ SetRing(p, k, Pop(r)) /\ proc' = [proc EXCEPT ![p] = t]
  BY DEF PopWhole
<1>2. /\ o \in Object /\ k \in Place /\ r = memory[o].broadcast[k] /\ Free(r) /\ ~IsEmpty(r)
      /\ PacketOk(Top(r), k, mishaps) /\ OneRing(o, k, Pop(r))
  BY <1>1, MayPopFacts, SetRingFacts DEF MayPop, MemoryOf
<1>3. Top(r).source \in Id /\ Top(r).message \in Message
  BY <1>2, PacketAssumption DEF PacketOk
<1>4. proc[p] \in Tunnel /\ proc \in [Process -> Tunnel]
  BY DEF Inv, TunnelsInv
<1>5. t.object = proc[p].object /\ t.op["io"] = NoOp /\ t.op["app"] = proc[p].op["app"]
  BY <1>3, <1>4, HeardOps
<1> HIDE DEF t, r
<1>6. \A q \in Process, g \in Thread : Same(q, g)
  BY <1>1, <1>4, <1>5, NoOpOk DEF Same, Thread
<1>7. LockInv'
  BY <1>2, <1>6, WholeStep
<1>8. QueueAt(o, k)
  BY <1>2, PopQueue DEF OneRing
<1> QED
  BY <1>2, <1>7, <1>8, OneRingQueue DEF QueueStep

\* An operation that begins finds the ring as it is.
LEMMA BegunMatches ==
    ASSUME NEW k \in Place, NEW r \in Ring, NEW x, NEW kind \in {"push", "pop"},
           kind = "push" => ~IsFull(r), kind = "pop" => ~IsEmpty(r)
    PROVE  /\ Matches(Lock(r), Begun(kind, k, r, x))
           /\ Begun(kind, k, r, x).ring = k
           /\ Lock(r).mutex /\ Lock(r).front = r.front /\ Lock(r).back = r.back
           /\ Lock(r).messages = r.messages
<1>1. /\ Lock(r).mutex /\ Lock(r).front = r.front /\ Lock(r).back = r.back
      /\ Lock(r).messages = r.messages
  BY DEF Lock, Ring
<1>2. /\ Begun(kind, k, r, x).kind = kind /\ Begun(kind, k, r, x).ring = k
      /\ Begun(kind, k, r, x).front = r.front /\ Begun(kind, k, r, x).back = r.back
  BY DEF Begun
<1>3. Matches(Lock(r), Begun(kind, k, r, x))
  BY <1>1, <1>2 DEF Matches, IsFull, IsEmpty
<1> QED
  BY <1>1, <1>2, <1>3

LEMMA BeginPushQueue ==
    ASSUME Inv, LockInv, NEW p \in Process, NEW h \in Thread, BeginPush(p, h)
    PROVE  LockInv' /\ QueueStep
<1>1. PICK l \in Due(p, h) :
          LET r == MemoryOf(p).broadcast[l.ring]
          IN  /\ MayPush(p, h, l)
              /\ ~IsFull(r)
              /\ SetRing(p, l.ring, Lock(r))
              /\ proc' = [proc EXCEPT ![p].todo[h] = @ \ {l},
                                      ![p].op[h] = Begun("push", l.ring, r, Sent(p, l))]
  BY DEF BeginPush
<1> DEFINE o == proc[p].object
           k == l.ring
           r == memory[o].broadcast[k]
           x == Begun("push", k, r, Sent(p, l))
<1>2. /\ o \in Object /\ k \in Place /\ Free(r) /\ ~IsFull(r) /\ OneRing(o, k, Lock(r))
      /\ proc' = [proc EXCEPT ![p].todo[h] = @ \ {l}, ![p].op[h] = x]
  BY <1>1, DueFacts, SetRingFacts DEF MayPush, MemoryOf
<1>3. r \in Ring
  BY <1>2 DEF Inv, MemoryInv, Shared
<1>4. /\ Matches(Lock(r), x) /\ x.ring = k /\ Lock(r).mutex /\ Lock(r).front = r.front
      /\ Lock(r).back = r.back /\ Lock(r).messages = r.messages
  <2> HIDE DEF k, r
  <2>1. k \in Place /\ r \in Ring /\ ~IsFull(r)
    BY <1>2, <1>3
  <2>2. "push" \in {"push", "pop"} /\ "pop" \in {"push", "pop"} /\ "push" # "pop"
    OBVIOUS
  <2>3. \A y : /\ Matches(Lock(r), Begun("push", k, r, y))
               /\ Begun("push", k, r, y).ring = k
               /\ Lock(r).mutex /\ Lock(r).front = r.front /\ Lock(r).back = r.back
               /\ Lock(r).messages = r.messages
    BY <2>1, <2>2, BegunMatches, Zenon
  <2> QED
    BY <2>3
<1> HIDE DEF x
<1>5. proc \in [Process -> Tunnel]
  BY DEF Inv, TunnelsInv
<1>6. /\ proc'[p].object = o /\ proc'[p].op[h] = x
      /\ \A q \in Process, g \in Thread : q # p \/ g # h => Same(q, g)
  BY <1>2, <1>5 DEF Tunnel, Same
<1> HIDE DEF r
<1>7. LockInv'
  BY <1>2, <1>4, <1>6, BeginStep DEF r
<1>8. Contents(Lock(r)) = Contents(r)
  BY <1>4, SameContents
<1>9. QueueAt(o, k)
  BY <1>2, <1>8 DEF OneRing, QueueAt, r
<1> QED
  BY <1>2, <1>7, <1>9, OneRingQueue DEF QueueStep

LEMMA BeginPopQueue ==
    ASSUME Inv, LockInv, NEW p \in Process, BeginPop(p)
    PROVE  LockInv' /\ QueueStep
<1> DEFINE o == proc[p].object
           k == proc[p].mClientId
           r == OwnRing(p)
           x == Begun("pop", k, r, Top(r))
<1>1. MayPop(p) /\ SetRing(p, k, Lock(r)) /\ proc' = [proc EXCEPT ![p].op["io"] = x]
  BY DEF BeginPop
<1>2. /\ o \in Object /\ k \in Place /\ r = memory[o].broadcast[k] /\ Free(r) /\ ~IsEmpty(r)
      /\ r \in Ring /\ OneRing(o, k, Lock(r))
  BY <1>1, MayPopFacts, SetRingFacts DEF MayPop, MemoryOf, RingOk
<1>3. /\ Matches(Lock(r), x) /\ x.ring = k /\ Lock(r).mutex /\ Lock(r).front = r.front
      /\ Lock(r).back = r.back /\ Lock(r).messages = r.messages
  <2> HIDE DEF k, r
  <2>1. k \in Place /\ r \in Ring /\ ~IsEmpty(r)
    BY <1>2
  <2>2. "push" \in {"push", "pop"} /\ "pop" \in {"push", "pop"} /\ "push" # "pop"
    OBVIOUS
  <2>3. \A y : /\ Matches(Lock(r), Begun("pop", k, r, y))
               /\ Begun("pop", k, r, y).ring = k
               /\ Lock(r).mutex /\ Lock(r).front = r.front /\ Lock(r).back = r.back
               /\ Lock(r).messages = r.messages
    BY <2>1, <2>2, BegunMatches, Zenon
  <2> QED
    BY <2>3
<1> HIDE DEF x, r
<1>4. proc \in [Process -> Tunnel]
  BY DEF Inv, TunnelsInv
<1>5. /\ proc'[p].object = o /\ proc'[p].op["io"] = x
      /\ \A q \in Process, g \in Thread : q # p \/ g # "io" => Same(q, g)
  BY <1>1, <1>4 DEF Tunnel, Same, Thread
<1>6. LockInv'
  BY <1>2, <1>3, <1>5, BeginStep DEF Thread
<1>7. Contents(Lock(r)) = Contents(r)
  BY <1>3, SameContents
<1>8. QueueAt(o, k)
  BY <1>2, <1>7 DEF OneRing, QueueAt
<1> QED
  BY <1>2, <1>6, <1>8, OneRingQueue DEF QueueStep

\* The end of an operation that clear() or a constructor came between.
LEMMA UnguardedEnd ==
    ASSUME NEW p \in Process, NEW h \in Thread, proc[p].op[h].lock # "held",
           proc'[p].op[h] = NoOp
    PROVE  QueueAt(proc[p].object, proc[p].op[h].ring)
<1>1. Unguarded(proc[p].object, proc[p].op[h].ring)
  BY DEF Unguarded
<1> QED
  BY <1>1 DEF QueueAt

LEMMA EndPushQueue ==
    ASSUME Inv, LockInv, NEW p \in Process, NEW h \in Thread, EndPush(p, h)
    PROVE  LockInv' /\ QueueStep
<1> DEFINE x == proc[p].op[h]
           o == proc[p].object
           k == x.ring
           r == memory[o].broadcast[k]
           f == Unlocked(p, x)
<1>1. x.kind = "push" /\ proc' = [f EXCEPT ![p].op[h] = NoOp]
  BY DEF EndPush
<1>2. PICK m \in Landed(r, x, x.lock = "loose"), b \in {x.back, r.back} :
          SetRing(p, k, Pushed(r, m, b))
  BY DEF EndPush, MemoryOf
<1>3. /\ o \in Object /\ k \in Place /\ x \in Op
      /\ OneRing(o, k, Pushed(r, m, b))
  BY <1>1, <1>2, OpFacts, SetRingFacts
<1>4. r \in Ring
  BY <1>3 DEF Inv, MemoryInv, Shared
<1>5. f \in [Process -> Tunnel] /\ \A q \in Process : f[q].object = proc[q].object
  <2> HIDE DEF x
  <2> QED
    BY UnlockedFacts DEF Relocked
<1>6. /\ proc'[p].op[h] = NoOp
      /\ \A q \in Process, g \in Thread : q # p \/ g # h =>
            proc'[q].object = proc[q].object /\ proc'[q].op[g] = f[q].op[g]
  <2> HIDE DEF f
  <2> QED
    BY <1>1, <1>5 DEF Tunnel
<1>7. LockInv'
  BY <1>1, <1>3, <1>6, EndStep
<1>8. QueueAt(o, k)
  <2>1. CASE x.lock # "held"
    BY <1>6, <2>1, UnguardedEnd
  <2>2. CASE x.lock = "held"
    <3>1. x.back = r.back /\ ~IsFull(r)
      BY <1>1, <2>2 DEF LockInv, LockOk, Guards, Matches, RingOf, MemoryOf
    <3>2. x.packet \in Packet
      BY <1>3 DEF Op
    <3>3. m = [r.messages EXCEPT ![r.back] = x.packet] /\ b = r.back
      BY <1>2, <2>2, <3>1 DEF Landed
    <3>4. /\ Pushed(r, m, b).front = Push(r, x.packet).front
          /\ Pushed(r, m, b).back = Push(r, x.packet).back
          /\ Pushed(r, m, b).messages = Push(r, x.packet).messages
      BY <1>4, <3>1, <3>3 DEF Pushed, Push, Ring
    <3>5. memory'[o].broadcast[k] = Pushed(r, m, b)
      BY <1>3 DEF OneRing
    <3> QED
      BY <1>3, <3>1, <3>2, <3>4, <3>5, PushQueue
  <2> QED
    BY <2>1, <2>2
<1> QED
  BY <1>3, <1>7, <1>8, OneRingQueue DEF QueueStep

LEMMA EndPopQueue ==
    ASSUME Inv, LockInv, NEW p \in Process, EndPop(p)
    PROVE  LockInv' /\ QueueStep
<1> DEFINE x == proc[p].op["io"]
           o == proc[p].object
           k == x.ring
           r == memory[o].broadcast[k]
           f == Unlocked(p, x)
<1>1. x.kind = "pop" /\ "io" \in Thread
  BY DEF EndPop, Thread
<1>2. PICK popped \in Popped(r, x) : SetRing(p, k, popped)
  BY DEF EndPop, MemoryOf
<1>3. PICK s \in Tops(r, x), m \in Tops(r, x) :
          proc' = [f EXCEPT ![p] = Heard(@, s.source, m.message)]
  BY DEF EndPop, MemoryOf
<1>4. /\ o \in Object /\ k \in Place /\ x.front \in Cell
      /\ PacketOk(x.packet, k, mishaps) /\ OneRing(o, k, popped)
      /\ RingOk(r, k, mishaps)
  BY <1>1, <1>2, OpFacts, SetRingFacts DEF MemoryOf
<1>5. r \in Ring
  BY <1>4 DEF RingOk
<1>6. PacketOk(s, k, mishaps) /\ PacketOk(m, k, mishaps)
  <2> HIDE DEF x, r
  <2> QED
    BY <1>3, <1>4, TopsOk
<1>7. s.source \in Id /\ m.message \in Message
  BY <1>6, PacketAssumption DEF PacketOk
<1>8. f \in [Process -> Tunnel] /\ \A q \in Process : f[q].object = proc[q].object
  <2> HIDE DEF x
  <2> QED
    BY UnlockedFacts DEF Relocked
<1>9. /\ proc'[p].op["io"] = NoOp
      /\ \A q \in Process, g \in Thread : q # p \/ g # "io" =>
            proc'[q].object = proc[q].object /\ proc'[q].op[g] = f[q].op[g]
  <2> DEFINE t == Heard(f[p], s.source, m.message)
  <2> HIDE DEF f
  <2>1. t.object = f[p].object /\ t.op["io"] = NoOp /\ t.op["app"] = f[p].op["app"]
    BY <1>7, <1>8, HeardOps
  <2>2. proc' = [f EXCEPT ![p] = t]
    BY <1>3
  <2> HIDE DEF t
  <2> QED
    BY <1>8, <2>1, <2>2 DEF Thread
<1>10. LockInv'
  BY <1>1, <1>4, <1>9, EndStep
<1>11. QueueAt(o, k)
  <2>1. CASE x.lock # "held"
    BY <1>1, <1>9, <2>1, UnguardedEnd
  <2>2. CASE x.lock = "held"
    <3>1. x.front = r.front /\ ~IsEmpty(r)
      BY <1>1, <2>2 DEF LockInv, LockOk, Guards, Matches, RingOf, MemoryOf
    <3>2. popped = [r EXCEPT !.mutex = FALSE, !.front = Succ(r.front)]
      BY <1>2, <3>1 DEF Popped
    <3>3. /\ popped.front = Pop(r).front /\ popped.back = Pop(r).back
          /\ popped.messages = Pop(r).messages
      BY <1>5, <3>2 DEF Pop, Ring
    <3>4. memory'[o].broadcast[k] = popped
      BY <1>4 DEF OneRing
    <3> QED
      BY <1>4, <3>1, <3>3, <3>4, PopQueue
  <2> QED
    BY <2>1, <2>2
<1> QED
  BY <1>4, <1>10, <1>11, OneRingQueue DEF QueueStep

LEMMA JoinFirstQueue ==
    ASSUME Inv, LockInv, NEW p \in Process, JoinFirst(p)
    PROVE  LockInv' /\ QueueStep
<1> DEFINE o == proc[p].object
           D == Disturbed(o, Slot, "loose")
<1>1. o \in Object /\ memory \in [Object -> Shared]
  BY LiveFacts DEF JoinFirst, Inv, MemoryInv
<1>2. \A i \in Object, j \in Place :
         memory'[i].broadcast[j] = memory[i].broadcast[j] \/ (i = o /\ j \in Slot)
  BY <1>1 DEF JoinFirst, Shared
<1>3. D \in [Process -> Tunnel] /\ \A q \in Process : D[q].object = proc[q].object
  BY DisturbedFacts DEF Relocked
<1>4. proc' = [D EXCEPT ![p] = Running(D[p])]
  BY DEF JoinFirst
<1>5. /\ proc'[p].step = "up"
      /\ \A q \in Process, g \in Thread :
            proc'[q].object = proc[q].object /\ proc'[q].op[g] = D[q].op[g]
  <2> HIDE DEF D
  <2>1. /\ Running(D[p]).step = "up" /\ Running(D[p]).object = D[p].object
        /\ Running(D[p]).op = D[p].op
    BY <1>3 DEF Running, Tunnel
  <2> QED
    BY <1>3, <1>4, <2>1
<1>6. LockInv'
  BY <1>2, <1>5, DisturbStep
<1>7. \A k : Unguarded(o, k)
  BY <1>5 DEF JoinFirst, Unguarded
<1>8. ASSUME NEW i \in Object, NEW j \in Place PROVE QueueAt(i, j)
  BY <1>2, <1>7 DEF QueueAt
<1> QED
  BY <1>6, <1>8 DEF QueueStep

\* A half of clear().
LEMMA ClearQueue ==
    ASSUME Inv, LockInv, NEW p \in Process, StopClearFront(p) \/ StopClearBack(p)
    PROVE  LockInv' /\ QueueStep
<1> DEFINE o == proc[p].object
           k == proc[p].mClientId
           D == Cleared(p)
<1>1. proc[p].step \in {"flagged", "clearing"}
  BY DEF StopClearFront, StopClearBack
<1>2. PICK r \in {ClearFront(OwnRing(p)), ClearBack(OwnRing(p))} : Clears(p, r)
  BY DEF StopClearFront, StopClearBack
<1>3. o \in Object /\ k \in Place /\ OneRing(o, k, r)
  BY <1>1, <1>2, LiveFacts, SetRingFacts DEF Clears
<1>4. OwnRing(p) = memory[o].broadcast[k] /\ OwnRing(p) \in Ring
  BY <1>3 DEF OwnRing, MemoryOf, Inv, MemoryInv, Shared
<1>5. memory[o].broadcast[k].mutex => memory'[o].broadcast[k].mutex
  BY <1>2, <1>3, <1>4 DEF OneRing, ClearFront, ClearBack, Ring
<1>6. /\ D \in [Process -> Tunnel]
      /\ \A q \in Process : D[q].object = proc[q].object /\ D[q].step = proc[q].step
  BY DisturbedFacts DEF Relocked, Cleared
<1>7. PICK t : /\ proc' = [D EXCEPT ![p] = t]
               /\ t.step # D[p].step /\ t.object = D[p].object /\ t.op = D[p].op
  <2>1. CASE StopClearFront(p)
    <3> DEFINE t == [D[p] EXCEPT !.step = "clearing"]
    <3>1. proc' = [D EXCEPT ![p] = t]
      BY <1>6, <2>1 DEF StopClearFront
    <3>2. t.step # D[p].step /\ t.object = D[p].object /\ t.op = D[p].op
      <4> HIDE DEF D
      <4> QED
        BY <1>6, <2>1 DEF StopClearFront, Tunnel
    <3> QED
      BY <3>1, <3>2
  <2>2. CASE StopClearBack(p)
    <3> DEFINE t == Says([D[p] EXCEPT !.step = "bye"], "TUNNEL_BYE")
    <3>1. proc' = [D EXCEPT ![p] = t]
      BY <1>6, <2>2 DEF StopClearBack
    <3>2. t.step # D[p].step /\ t.object = D[p].object /\ t.op = D[p].op
      <4> HIDE DEF D
      <4> QED
        BY <1>6, <2>2 DEF StopClearBack, Says, Tunnel
    <3> QED
      BY <3>1, <3>2
  <2> QED
    BY <2>1, <2>2
<1>8. /\ proc'[p].step # proc[p].step
      /\ \A q \in Process, g \in Thread :
            proc'[q].object = proc[q].object /\ proc'[q].op[g] = D[q].op[g]
  <2> HIDE DEF D
  <2> QED
    BY <1>6, <1>7
<1>9. \A i \in Object, j \in Place :
         \/ memory'[i].broadcast[j] = memory[i].broadcast[j]
         \/ i = o /\ j \in {k} /\ (memory[i].broadcast[j].mutex => memory'[i].broadcast[j].mutex)
  BY <1>3, <1>5 DEF OneRing
<1>10. LockInv'
  BY <1>8, <1>9, DisturbStep DEF Cleared
<1>11. QueueAt(o, k)
  <2>1. Unguarded(o, k)
    BY <1>1, <1>8 DEF Unguarded
  <2> QED
    BY <2>1 DEF QueueAt
<1> QED
  BY <1>3, <1>10, <1>11, OneRingQueue DEF QueueStep

LEMMA StutterQueue ==
    ASSUME Inv, LockInv, UNCHANGED vars
    PROVE  LockInv' /\ QueueStep
<1>1. RingsStay /\ \A q \in Process, g \in Thread : Same(q, g)
  BY DEF RingsStay, Same, vars
<1> QED
  BY <1>1, QuietStep, QuietQueue DEF QueueStep

LEMMA NextQueue == Inv /\ LockInv /\ [Next]_vars => LockInv' /\ QueueStep
<1> SUFFICES ASSUME Inv, LockInv, [Next]_vars PROVE LockInv' /\ QueueStep
  OBVIOUS
<1>1. CASE UNCHANGED vars
  BY <1>1, StutterQueue
<1>2. ASSUME NEW p \in Process,
             \/ Open(p) \/ JoinFirst(p) \/ JoinCounts(p) \/ JoinNext(p) \/ JoinFails(p)
             \/ JoinEnds(p)
             \/ \E h \in Thread : PushWhole(p, h) \/ BeginPush(p, h) \/ EndPush(p, h)
             \/ PopWhole(p) \/ BeginPop(p) \/ EndPop(p) \/ ListenEnds(p)
             \/ \E m \in Outgoing : Forward(p, m)
             \/ StopFlag(p) \/ StopClearFront(p) \/ StopClearBack(p) \/ StopEnds(p)
             \/ DestroyReads(p) \/ DestroyCounts(p) \/ DestroyLast(p)
             \/ Crash(p) \/ Fault(p)
      PROVE  LockInv' /\ QueueStep
  BY <1>2, QuietActions, JoinFirstQueue, PushWholeQueue, BeginPushQueue, EndPushQueue,
     PopWholeQueue, BeginPopQueue, EndPopQueue, ClearQueue
<1> QED
  BY <1>1, <1>2 DEF Next

\* Of the operations under way on a ring one at most has its mutex, and if nothing was
\* written without the mutex meanwhile, the ring is as that operation read it.
THEOREM MutexGuards == Spec => []LockInv
<1>1. Init => LockInv
  BY InitLock
<1>2. Inv /\ LockInv /\ [Next]_vars => LockInv'
  BY NextQueue
<1> QED
  BY <1>1, <1>2, ShmInvariant, PTL DEF Spec

\* A ring is a bounded queue but for construction, clear() and the end of what they came
\* between.
THEOREM RingsAreQueues == Spec => RingIsQueue
<1>1. Inv /\ LockInv /\ [Next]_vars => [QueueStep]_vars
  BY NextQueue
<1>2. RingIsQueue <=> [][QueueStep]_vars
  BY DEF RingIsQueue, QueueStep, QueueAt
<1> QED
  BY <1>1, <1>2, ShmInvariant, MutexGuards, PTL DEF Spec
=============================================================================
