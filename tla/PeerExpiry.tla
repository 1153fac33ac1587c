----------------------------- MODULE PeerExpiry -----------------------------
(***************************************************************************)
(* What a peer observer may rely on: a peer is seen from an announcement   *)
(* until it leaves or until nothing was heard of it for its time to live.  *)
(* It is never given up earlier, and not more than 1 + MaxLate seconds     *)
(* later.                                                                  *)
(***************************************************************************)
EXTENDS Integers

CONSTANTS
    Node,
    Lifetime,   \* the times to live that announcements carry
    MaxLate,    \* how late a timer may run
    Gone        \* the node is not seen

VARIABLES
    left,       \* per node: the seconds until it may be given up, or Gone
    byes,       \* input: the nodes that have said goodbye
    closed      \* input: the observer is not served (any more)

Init == left = [n \in Node |-> Gone]

Announce(n) == \E ttl \in Lifetime : left' = [left EXCEPT ![n] = ttl]

Leave(n) ==
    /\ n \in byes'
    /\ left' = [left EXCEPT ![n] = Gone]

\* Everyone whose time is over is given up, and nobody else.
GiveUp ==
    left' = [n \in Node |-> IF left[n] # Gone /\ left[n] < 0 THEN Gone ELSE left[n]]

Close ==
    /\ closed'
    /\ left' = [n \in Node |-> Gone]

Second ==
    /\ \A n \in Node : left[n] # Gone => left[n] >= -MaxLate
    /\ left' = [n \in Node |-> IF left[n] = Gone THEN Gone ELSE left[n] - 1]

Next == (\E n \in Node : Announce(n) \/ Leave(n)) \/ GiveUp \/ Close \/ Second

Step == [Next]_left

Spec == Init /\ [][Next]_left
=============================================================================
