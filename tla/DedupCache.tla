----------------------------- MODULE DedupCache -----------------------------
(***************************************************************************)
(* The duplicate filter in front of Tunnel::forward: DedupCache, a bounded *)
(* LRU of recently forwarded messages (DedupCache.hpp), and shouldForward  *)
(* (Tunnel.hpp), which decides what passes through it.  isDuplicate reads  *)
(* the clock before it takes the mutex, so a call is two steps and calls   *)
(* of several gateways may overlap between them.                           *)
(*                                                                         *)
(* A payload is represented by its fnv1a64 hash; two payloads with the     *)
(* same hash are the same payload here.                                    *)
(***************************************************************************)
EXTENDS Integers, FiniteSets, SequencesExt

CONSTANTS
    Thread,      \* callers of forward()
    Message,     \* [type, from, payload, to]: what gateways forward
    mCapacity,   \* kDedupCacheCapacity (256 in the code)
    mWindow,     \* kDedupWindow (50 ms in the code), in clock units
    MaxClock,    \* bound: the clock stops here
    Idle,        \* a thread that is not inside isDuplicate
    Never        \* the time of something that has not happened

ASSUME CapacityAssumption == mCapacity \in Nat \ {0}
ASSUME WindowAssumption == mWindow \in Nat \ {0}
ASSUME ClockAssumption == MaxClock \in Nat
ASSUME NeverAssumption == Never \notin Nat
\* std::tuple<uint8_t, NodeId, uint64_t>: the destination is not part of it.
KeyOf(m) == <<m.type, m.from, m.payload>>
Key == {KeyOf(m) : m \in Message}
Entry == [key : Key, timestamp : Nat]

ASSUME IdleAssumption ==
    Idle \notin [msg : Message, now : Nat] /\ Idle \notin [key : Key, now : Nat]

VARIABLES
    clock,       \* steady_clock
    mEntries,    \* the LRU list, most recently used first
    mIndex,      \* the keys of the map into the list
    call,        \* per thread: the message and the time read, before the lock
    result,      \* what shouldForward answered in the last step, if it returned
    (* History, never read by the model:                                   *)
    forwarded,   \* per key: the time of the last call that let it pass
    usedSince    \* per key: the other keys looked up since its last lookup

vars == <<clock, mEntries, mIndex, call, result, forwarded, usedSince>>

Init ==
    /\ clock = 0
    /\ mEntries = <<>>
    /\ mIndex = {}
    /\ call = [th \in Thread |-> Idle]
    /\ result = "none"
    /\ forwarded = [k \in Key |-> Never]
    /\ usedSince = [k \in Key |-> {}]

PositionOf(k) == CHOOSE i \in DOMAIN mEntries : mEntries[i].key = k

\* The boundary counts as inside the window.
Fresh_Bad(now, entry) == now - entry.timestamp <= mWindow

Fresh(now, entry) == now - entry.timestamp < mWindow

\* Every hit restarts the window.
Touched_Bad(now, entry) == now

\* A drop keeps the time of the call that was let pass.
Touched(now, entry) == IF Fresh(now, entry) THEN entry.timestamp ELSE now

\* A hit leaves the entry where it is.
MoveToFront_Bad(i, timestamp) ==
    [mEntries EXCEPT ![i].timestamp = timestamp]

\* mEntries.splice(mEntries.begin(), mEntries, it), then the new timestamp.
MoveToFront(i, timestamp) ==
    <<[mEntries[i] EXCEPT !.timestamp = timestamp]>> \o RemoveAt(mEntries, i)

\* Lets the list grow by one too many.
EvictIfFull_Bad == IF Len(mEntries) > mCapacity THEN Front(mEntries) ELSE mEntries

\* The back of a full list goes.
EvictIfFull == IF Len(mEntries) >= mCapacity THEN Front(mEntries) ELSE mEntries

\* shouldForward lets the other message types pass without a look.
Filtered(m) == m.type \in {"BROADCAST", "UNICAST", "BYEBYE"}

\* Reads the start of the window instead of the time.
ReadClock_Bad(th, m) ==
    /\ call[th] = Idle
    /\ Filtered(m)
    /\ call' = [call EXCEPT ![th] = [msg |-> m, now |-> clock - mWindow]]
    /\ result' = "none"
    /\ UNCHANGED <<clock, mEntries, mIndex, forwarded, usedSince>>

\* isDuplicate up to the lock: the key and the time are fixed.
ReadClock(th, m) ==
    /\ call[th] = Idle
    /\ Filtered(m)
    /\ call' = [call EXCEPT ![th] = [msg |-> m, now |-> clock]]
    /\ result' = "none"
    /\ UNCHANGED <<clock, mEntries, mIndex, forwarded, usedSince>>

PassUnfiltered(th, m) ==
    /\ call[th] = Idle
    /\ ~Filtered(m)
    /\ result' = "forward"
    /\ UNCHANGED <<clock, mEntries, mIndex, call, forwarded, usedSince>>

Return(th, k, verdict) ==
    /\ call' = [call EXCEPT ![th] = Idle]
    /\ result' = verdict
    /\ usedSince' = [q \in Key |-> IF q = k THEN {} ELSE usedSince[q] \cup {k}]
    /\ forwarded' = IF verdict = "forward" THEN [forwarded EXCEPT ![k] = call[th].now]
                    ELSE forwarded
    /\ UNCHANGED clock

\* The locked part, the key is known.
Hit(th) ==
    /\ call[th] # Idle
    /\ LET k     == KeyOf(call[th].msg)
           i     == PositionOf(k)
           fresh == Fresh(call[th].now, mEntries[i])
       IN  /\ k \in mIndex
           /\ mEntries' = MoveToFront(i, Touched(call[th].now, mEntries[i]))
           /\ Return(th, k, IF fresh THEN "drop" ELSE "forward")
    /\ UNCHANGED mIndex

\* The locked part, the key is new.
Miss(th) ==
    /\ call[th] # Idle
    /\ LET k    == KeyOf(call[th].msg)
           kept == EvictIfFull
       IN  /\ k \notin mIndex
           /\ mEntries' = <<[key |-> k, timestamp |-> call[th].now]>> \o kept
           /\ mIndex' = {k} \cup (IF kept = mEntries THEN mIndex
                                  ELSE mIndex \ {Last(mEntries).key})
           /\ Return(th, k, "forward")

Tick ==
    /\ clock < MaxClock
    /\ clock' = clock + 1
    /\ result' = "none"
    /\ UNCHANGED <<mEntries, mIndex, call, forwarded, usedSince>>

Next ==
    \/ \E th \in Thread : Hit(th) \/ Miss(th)
    \/ \E th \in Thread, m \in Message : ReadClock(th, m) \/ PassUnfiltered(th, m)
    \/ Tick

Spec == Init /\ [][Next]_vars

-----------------------------------------------------------------------------
(* Properties.                                                             *)

\* Every variable has its type.
TypeOK ==
    /\ clock \in Nat
    /\ mEntries \in Seq(Entry)
    /\ mIndex \in SUBSET Key
    /\ call \in [Thread -> [msg : Message, now : Nat] \cup {Idle}]
    /\ result \in {"none", "forward", "drop"}
    /\ forwarded \in [Key -> Nat \cup {Never}]
    /\ usedSince \in [Key -> SUBSET Key]

\* The map and the list of DedupCache always hold the same keys, each once, and
\* never more than mCapacity of them.
CacheCoherent ==
    /\ mIndex = {mEntries[i].key : i \in DOMAIN mEntries}
    /\ \A i, j \in DOMAIN mEntries : mEntries[i].key = mEntries[j].key => i = j
    /\ Len(mEntries) <= mCapacity

Returns(th) == call[th] # Idle /\ call'[th] = Idle

\* Only a repetition is dropped: its key was let pass less than mWindow before
\* the time the dropped call read, also when calls overlap and clocks were read
\* in another order than the lock was taken.
NoFalseDrop ==
    [][\A th \in Thread : Returns(th) /\ result' = "drop" =>
          LET k == KeyOf(call[th].msg)
          IN  forwarded[k] # Never /\ call[th].now - forwarded[k] < mWindow]_vars

\* The same key passes twice within mWindow only when at least mCapacity other
\* keys were looked up in between: eviction takes the least recently used key
\* and never one that is still needed.
NoEarlyRepeat ==
    [][\A th \in Thread : Returns(th) /\ result' = "forward" =>
          LET k == KeyOf(call[th].msg)
          IN  forwarded[k] # Never /\ call[th].now - forwarded[k] < mWindow =>
                  Cardinality(usedSince[k]) >= mCapacity]_vars

\* The times of the entries, by key.
Remembered == [k \in Key |-> IF k \in mIndex THEN mEntries[PositionOf(k)].timestamp ELSE Never]

\* The pending calls, by what the filter looks at.
Asked == [th \in Thread |->
             IF call[th] = Idle THEN Idle
             ELSE [key |-> KeyOf(call[th].msg), now |-> call[th].now]]

Filter == INSTANCE RecentFilter WITH
    Caller <- Thread, Capacity <- mCapacity, Window <- mWindow,
    asked <- Asked, remembered <- Remembered, verdict <- result

\* DedupCache with its list, its map and its lock around a part of isDuplicate
\* only is an atomic filter of recent messages with mCapacity places.
ImplementsRecentFilter == Filter!Spec
=============================================================================
