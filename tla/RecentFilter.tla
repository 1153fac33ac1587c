---------------------------- MODULE RecentFilter ----------------------------
(***************************************************************************)
(* What DedupCache promises its callers, without its list and its map: an  *)
(* atomic filter that "answers have we forwarded this (type, from_node,    *)
(* payload) in the last kDedupWindow".  It remembers when it let a key     *)
(* pass, forgets only when it is full and then one key only, and a drop    *)
(* does not make it remember longer.                                       *)
(***************************************************************************)
EXTENDS Integers, FiniteSets

CONSTANTS Caller, Key, Capacity, Window, Never, Idle

VARIABLES
    clock,
    asked,        \* per caller: the key and the time it asks about
    remembered,   \* per key: when it was let pass
    verdict       \* the answer of the last step

vars == <<clock, asked, remembered, verdict>>

Init ==
    /\ clock = 0
    /\ asked = [c \in Caller |-> Idle]
    /\ remembered = [k \in Key |-> Never]
    /\ verdict = "none"

Held(r) == {k \in Key : r[k] # Never}

Recent(k, now) == k \in Held(remembered) /\ now - remembered[k] < Window

Ask(c) ==
    /\ asked[c] = Idle
    /\ \E k \in Key : asked' = [asked EXCEPT ![c] = [key |-> k, now |-> clock]]
    /\ verdict' = "none"
    /\ UNCHANGED <<clock, remembered>>

Drop(c) ==
    /\ asked[c] # Idle
    /\ Recent(asked[c].key, asked[c].now)
    /\ verdict' = "drop"
    /\ asked' = [asked EXCEPT ![c] = Idle]
    /\ UNCHANGED <<clock, remembered>>

Pass(c) ==
    /\ asked[c] # Idle
    /\ LET k == asked[c].key
           full == k \notin Held(remembered) /\ Cardinality(Held(remembered)) >= Capacity
       IN  /\ ~Recent(k, asked[c].now)
           /\ \E lost \in IF full THEN {{q} : q \in Held(remembered)} ELSE {{}} :
                 remembered' = [q \in Key |-> CASE q = k      -> asked[c].now
                                                [] q \in lost -> Never
                                                [] OTHER      -> remembered[q]]
    /\ verdict' = "forward"
    /\ asked' = [asked EXCEPT ![c] = Idle]
    /\ UNCHANGED clock

\* A message of a type that is not filtered.
Unasked ==
    /\ verdict' = "forward"
    /\ UNCHANGED <<clock, asked, remembered>>

Tick ==
    /\ clock' = clock + 1
    /\ verdict' = "none"
    /\ UNCHANGED <<asked, remembered>>

Next == Unasked \/ Tick \/ \E c \in Caller : Ask(c) \/ Drop(c) \/ Pass(c)

Spec == Init /\ [][Next]_vars
=============================================================================
