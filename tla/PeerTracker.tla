---------------------------- MODULE PeerTracker ----------------------------
(***************************************************************************)
(* TunnelGateway::PeerTracker as operators on a record: the vector of      *)
(* timeouts, sorted by time, and the timer that prunes it.  Times are      *)
(* seconds from now: an entry times out when its time is below 0, and a    *)
(* timer is due when it is at 0 or below.                                  *)
(***************************************************************************)
EXTENDS Integers, SequencesExt

CONSTANT Off   \* the timer has no wait outstanding

ASSUME OffAssumption == Off \notin Int

NewTracker == [mTimeouts |-> <<>>, mTimer |-> Off]

Tracked(t) == {t.mTimeouts[i].node : i \in DOMAIN t.mTimeouts}

TimeOf(t, n) == LET i == CHOOSE i \in DOMAIN t.mTimeouts : t.mTimeouts[i].node = n
                IN  t.mTimeouts[i].time

\* Whoever is added or pruned, the next wait is for the first entry to be one
\* second over its time.
SchedulePruning(t) ==
    IF t.mTimeouts = <<>> THEN t
    ELSE [t EXCEPT !.mTimer = Head(t.mTimeouts).time + 1]

\* remove_if and erase: the entries at the positions that are kept, in their order.
Retain(s, kept) ==
    [j \in 1..Cardinality(kept) |->
        s[CHOOSE i \in kept : Cardinality({k \in kept : k <= i}) = j]]

Untrack(t, n) ==
    [t EXCEPT !.mTimeouts = Retain(@, {i \in DOMAIN @ : @[i].node # n})]

\* Keeps the old entry of the node.
UpdateTimeout_Bad(t, n, ttl) ==
    LET upper == Cardinality({i \in DOMAIN t.mTimeouts : t.mTimeouts[i].time <= ttl})
    IN  SchedulePruning([t EXCEPT !.mTimeouts =
            InsertAt(@, upper + 1, [time |-> ttl, node |-> n])])

\* Replaces the entry of the node, keeping the vector sorted (upper_bound).
UpdateTimeout(t, n, ttl) ==
    LET others == Untrack(t, n)
        upper  == Cardinality({i \in DOMAIN others.mTimeouts :
                                  others.mTimeouts[i].time <= ttl})
    IN  SchedulePruning([others EXCEPT !.mTimeouts =
            InsertAt(@, upper + 1, [time |-> ttl, node |-> n])])

\* lower_bound of the current time: the entries in front of it are over.
EndExpired(t) == Cardinality({i \in DOMAIN t.mTimeouts : t.mTimeouts[i].time < 0})

Expired(t) == {t.mTimeouts[i].node : i \in 1..EndExpired(t)}

\* The timer has fired: no wait is outstanding unless one is started.
Prune(t) ==
    SchedulePruning([mTimeouts |-> SubSeq(t.mTimeouts, EndExpired(t) + 1, Len(t.mTimeouts)),
                     mTimer    |-> Off])

Clear(t) == [t EXCEPT !.mTimeouts = <<>>]

Due(t) == t.mTimer # Off /\ t.mTimer <= 0

\* A second passes.
Elapse(t) ==
    [mTimeouts |-> [i \in DOMAIN t.mTimeouts |->
                        [t.mTimeouts[i] EXCEPT !.time = @ - 1]],
     mTimer    |-> IF t.mTimer = Off THEN Off ELSE t.mTimer - 1]
=============================================================================
