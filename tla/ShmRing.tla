------------------------------ MODULE ShmRing ------------------------------
(***************************************************************************)
(* SharedMessages of ShmTunnel.hpp: a ring buffer in shared memory that    *)
(* keeps one cell free to tell full from empty.  push and pop lock its     *)
(* mutex, clear() does not and is two operators.  So that clear() can come *)
(* between the reads and the writes of push and pop, these are operators   *)
(* on the ring r at their end and on what they read at their beginning, x: *)
(* each index may have been read again before it was written, or not.      *)
(***************************************************************************)
EXTENDS Naturals, Sequences

CONSTANTS
    MAX_MESSAGES,   \* cells of a ring (100 in the code)
    Packet,         \* [source, message]: what a cell holds
    Blank           \* the zeroes in a cell that was never written

ASSUME CellsAssumption == MAX_MESSAGES \in Nat /\ MAX_MESSAGES > 1

Cell == 0..(MAX_MESSAGES - 1)

Ring == [mutex : BOOLEAN,    \* locked
         messages : [Cell -> Packet \cup {Blank}], front : Cell, back : Cell]

EmptyRing == [mutex |-> FALSE, messages |-> [c \in Cell |-> Blank], front |-> 0, back |-> 0]

\* Runs past the last cell.
Succ_Bad(c) == c + 1

\* (c + 1) % MAX_MESSAGES for a cell c.
Succ(c) == IF c + 1 = MAX_MESSAGES THEN 0 ELSE c + 1

IsEmpty(r) == r.front = r.back

IsFull(r) == Succ(r.back) = r.front

\* Does not wait for the mutex.
Free_Bad(r) == TRUE

\* push and pop get the mutex.
Free(r) == ~r.mutex

Lock(r) == [r EXCEPT !.mutex = TRUE]

\* push: a full ring drops the message.
Push(r, p) ==
    IF IsFull(r) THEN r
    ELSE [r EXCEPT !.messages[r.back] = p, !.back = Succ(r.back)]

\* pop: what it returns, and the ring after it, when there is something to pop.
Top(r) == r.messages[r.front]
Pop(r) == [r EXCEPT !.front = Succ(r.front)]

\* The end of a push: where the message lands, and the back that is written.  With the ring
\* wiped since, the message may be gone.
Landed(r, x, wiped) ==
    {[r.messages EXCEPT ![c] = x.packet] : c \in {x.back, r.back}}
        \cup (IF wiped THEN {r.messages} ELSE {})
Pushed(r, m, b) == [r EXCEPT !.mutex = FALSE, !.messages = m, !.back = Succ(b)]

\* The end of a pop: the front that is written.
Popped(r, x) == {[r EXCEPT !.mutex = FALSE, !.front = Succ(f)] : f \in {x.front, r.front}}

\* The cell at the front, as pop may find it.  The source and the message are read
\* one after the other, so that it may return those of two packets.
Tops(r, x) == {x.packet, r.messages[x.front], r.messages[r.front]}
Returned(s, m) == [source |-> s.source, message |-> m.message]

ClearFront(r) == [r EXCEPT !.front = 0]
ClearBack(r)  == [r EXCEPT !.back = 0]

Count(r) == IF r.back >= r.front THEN r.back - r.front
            ELSE r.back + MAX_MESSAGES - r.front

\* The cell i places behind the front.
CellAt(r, i) == IF r.front + i >= MAX_MESSAGES THEN r.front + i - MAX_MESSAGES
                ELSE r.front + i

\* The ring as the queue it stands for.
Contents(r) == [i \in 1..Count(r) |-> r.messages[CellAt(r, i - 1)]]
=============================================================================
