------------------------- MODULE TunnelGatewayProofs -------------------------
(* The gateways of an extender and their peer trackers, for every set of     *)
(* interfaces, nodes, endpoints and lifetimes, every scenario and any bounds *)
(* on delays and faults.  The trackers come first: what their vectors, sorted*)
(* by time, mean as a map from nodes to times.                               *)
EXTENDS TunnelGateway, SequencesExt, Integers, WellFoundedInduction, TLAPS, FiniteSetTheorems

\* The greatest element of a non-empty set of vector indices exists: what
\* rebuildEndpointIndex stores for an endpoint is one of its positions.
LEMMA MaxIsMember ==
    ASSUME NEW n \in Nat, NEW S, S \subseteq 1..n, S # {}
    PROVE  Max(S) \in S /\ \A y \in S : Max(S) >= y
<1> DEFINE T == {n - x : x \in S}
<1>1. T \subseteq Nat /\ T # {}
  <2>1. \A x \in S : n - x \in Nat
    OBVIOUS
  <2>2. PICK x \in S : TRUE
    OBVIOUS
  <2>3. n - x \in T
    OBVIOUS
  <2> QED  BY <2>1, <2>3
<1>2. PICK m \in T : \A y \in T : ~(<<y, m>> \in OpToRel(<, Nat))
  <2> HIDE DEF T
  <2> QED  BY <1>1, NatLessThanWellFounded, WFMin
<1>3. PICK x \in S : m = n - x
  BY <1>2
<1>4. \A y \in S : x >= y
  <2> SUFFICES ASSUME NEW y \in S PROVE x >= y
    OBVIOUS
  <2>1. n - y \in T /\ n - y \in Nat /\ m \in Nat
    BY <1>1, <1>2
  <2>2. ~(n - y < m)
    BY <1>2, <2>1 DEF OpToRel
  <2> QED  BY <1>3, <2>1, <2>2
<1> QED  BY <1>4 DEF Max

\* Two vectors behind each other, position by position.
LEMMA ConcatPositions ==
    ASSUME NEW S, NEW a \in Seq(S), NEW b \in Seq(S)
    PROVE  /\ a \o b \in Seq(S)
           /\ Len(a) \in Nat /\ Len(b) \in Nat
           /\ Len(a \o b) = Len(a) + Len(b)
           /\ DOMAIN (a \o b) = 1..(Len(a) + Len(b))
           /\ \A j \in 1..(Len(a) + Len(b)) :
                 (a \o b)[j] = IF j <= Len(a) THEN a[j] ELSE b[j - Len(a)]
OBVIOUS

Timeout == [time : Int, node : NodeId]

\* At most one entry per node.
UniqueNodes(q) == \A i, j \in DOMAIN q : q[i].node = q[j].node => i = j

SortedTimes(q) == \A i, j \in DOMAIN q : i < j => q[i].time <= q[j].time

\* While a node is tracked, a wait is outstanding that ends no later than one
\* second after the node's time.
Scheduled(t) ==
    \A i \in DOMAIN t.mTimeouts :
        t.mTimer \in Int /\ t.mTimer <= t.mTimeouts[i].time + 1

GoodTracker(t) ==
    /\ t \in Tracker
    /\ UniqueNodes(t.mTimeouts)
    /\ SortedTimes(t.mTimeouts)

-----------------------------------------------------------------------------
(* Operators on vectors.                                                    *)

\* A set of positions that holds everything in front of its members is a prefix.
LEMMA PrefixCount ==
    ASSUME NEW n \in Nat, NEW P \in SUBSET (1..n),
           \A i \in P, j \in 1..n : j < i => j \in P
    PROVE  Cardinality(P) \in 0..n /\ P = 1..Cardinality(P)
<1>1. CASE P = {}
  <2>1. Cardinality(P) = 0
    BY <1>1, FS_EmptySet
  <2> QED  BY <1>1, <2>1
<1>2. CASE P # {}
  <2> DEFINE m == Max(P)
  <2>1. m \in P /\ \A y \in P : m >= y
    BY <1>2, MaxIsMember
  <2> HIDE DEF m
  <2>2. m \in 1..n
    BY <2>1
  <2>3. P = 1..m
    <3>1. \A j \in P : j \in 1..m
      BY <2>1, <2>2
    <3>2. \A j \in 1..m : j \in 1..n /\ (j < m \/ j = m)
      BY <2>2
    <3>3. \A j \in 1..m : j \in P
      BY <2>1, <3>2
    <3> QED  BY <3>1, <3>3
  <2>4. Cardinality(1..m) = m
    BY <2>2, FS_Interval
  <2> QED  BY <2>2, <2>3, <2>4
<1> QED  BY <1>1, <1>2

\* How many of the kept positions are not behind i.
Rank(K, i) == Cardinality({k \in K : k <= i})

\* Ranks count the kept positions through.
LEMMA RankProperties ==
    ASSUME NEW n \in Nat, NEW K \in SUBSET (1..n)
    PROVE  /\ IsFiniteSet(K) /\ Cardinality(K) \in Nat
           /\ \A i \in K : Rank(K, i) \in 1..Cardinality(K)
           /\ \A i, j \in K : i < j => Rank(K, i) < Rank(K, j)
           /\ \A r \in 1..Cardinality(K) : \E i \in K : Rank(K, i) = r
<1>1. IsFiniteSet(K) /\ Cardinality(K) \in Nat
  <2>1. IsFiniteSet(1..n)
    BY FS_Interval
  <2>2. IsFiniteSet(K)
    BY <2>1, FS_Subset
  <2> QED  BY <2>2, FS_CardinalityType
<1> DEFINE Below(i) == {k \in K : k <= i}
<1>2. \A i \in K : /\ IsFiniteSet(Below(i)) /\ Cardinality(Below(i)) \in Nat
                   /\ Cardinality(Below(i)) <= Cardinality(K)
  <2> SUFFICES ASSUME NEW i \in K
               PROVE  /\ IsFiniteSet(Below(i)) /\ Cardinality(Below(i)) \in Nat
                      /\ Cardinality(Below(i)) <= Cardinality(K)
    OBVIOUS
  <2>1. Below(i) \in SUBSET K
    OBVIOUS
  <2> HIDE DEF Below
  <2> QED  BY <1>1, <2>1, FS_Subset, FS_CardinalityType
<1>3. \A i \in K : Cardinality(Below(i)) \in 1..Cardinality(K)
  <2> SUFFICES ASSUME NEW i \in K PROVE Cardinality(Below(i)) \in 1..Cardinality(K)
    OBVIOUS
  <2>1. i \in Below(i)
    OBVIOUS
  <2>2. Cardinality(Below(i)) # 0
    BY <1>2, <2>1, FS_EmptySet
  <2> HIDE DEF Below
  <2> QED  BY <1>1, <1>2, <2>2
<1>4. \A i, j \in K : i < j => Cardinality(Below(i)) < Cardinality(Below(j))
  <2> SUFFICES ASSUME NEW i \in K, NEW j \in K, i < j
               PROVE  Cardinality(Below(i)) < Cardinality(Below(j))
    OBVIOUS
  <2>1. Below(i) \in SUBSET Below(j) /\ Below(i) # Below(j)
    <3>1. i \in Nat /\ j \in Nat /\ \A k \in K : k \in Nat
      OBVIOUS
    <3>2. j \in Below(j) /\ j \notin Below(i)
      BY <3>1
    <3>3. \A k \in K : k <= i => k <= j
      BY <3>1
    <3> QED  BY <3>2, <3>3
  <2> HIDE DEF Below
  <2>2. /\ Cardinality(Below(i)) <= Cardinality(Below(j))
        /\ Cardinality(Below(i)) # Cardinality(Below(j))
    BY <1>2, <2>1, FS_Subset
  <2> QED  BY <1>2, <2>2
<1> DEFINE f == [i \in K |-> Cardinality(Below(i))]
<1>5. f \in Injection(K, 1..Cardinality(K))
  <2>1. f \in [K -> 1..Cardinality(K)]
    BY <1>3
  <2>2. \A i, j \in K : f[i] = f[j] => i = j
    <3> SUFFICES ASSUME NEW i \in K, NEW j \in K, i # j PROVE f[i] # f[j]
      OBVIOUS
    <3>1. i < j \/ j < i
      OBVIOUS
    <3>2. f[i] \in Nat /\ f[j] \in Nat /\ (f[i] < f[j] \/ f[j] < f[i])
      BY <1>2, <1>4, <3>1
    <3> QED  BY <3>2
  <2> HIDE DEF f
  <2> QED  BY <2>1, <2>2 DEF Injection, IsInjective
<1>6. IsFiniteSet(1..Cardinality(K)) /\ Cardinality(1..Cardinality(K)) = Cardinality(K)
  BY <1>1, FS_Interval
<1>7. f \in Surjection(K, 1..Cardinality(K))
  <2> HIDE DEF f
  <2> QED  BY <1>5, <1>6, FS_Injection
<1>8. \A r \in 1..Cardinality(K) : \E i \in K : Cardinality(Below(i)) = r
  <2>1. \A r \in 1..Cardinality(K) : \E i \in K : f[i] = r
    <3> HIDE DEF f
    <3> QED  BY <1>7 DEF Surjection
  <2> QED  BY <2>1
<1> QED  BY <1>1, <1>3, <1>4, <1>8 DEF Rank

\* r holds the entries of s at the positions K, each once and in their order.
KeptIn(r, s, K) ==
    \E f \in [DOMAIN r -> K] :
        /\ \A j \in DOMAIN r : r[j] = s[f[j]]
        /\ \A i, j \in DOMAIN r : i < j => f[i] < f[j]
        /\ \A i, j \in DOMAIN r : f[i] = f[j] => i = j
        /\ \A k \in K : \E j \in DOMAIN r : f[j] = k

\* remove_if and erase keep the kept entries, each once and in their order.
LEMMA RetainProperties ==
    ASSUME NEW S, NEW s \in Seq(S), NEW K \in SUBSET (DOMAIN s)
    PROVE  Retain(s, K) \in Seq(S) /\ KeptIn(Retain(s, K), s, K)
<1> DEFINE n == Len(s)
           c == Cardinality(K)
           f == [j \in 1..c |-> CHOOSE i \in K : Rank(K, i) = j]
<1>1. n \in Nat /\ DOMAIN s = 1..n
  OBVIOUS
<1>2. /\ c \in Nat
      /\ \A i \in K : Rank(K, i) \in 1..c
      /\ \A i, j \in K : i < j => Rank(K, i) < Rank(K, j)
      /\ \A r \in 1..c : \E i \in K : Rank(K, i) = r
  BY <1>1, RankProperties
<1>3. \A j \in 1..c : f[j] \in K /\ Rank(K, f[j]) = j
  BY <1>2
<1>4. Retain(s, K) = [j \in 1..c |-> s[f[j]]]
  BY DEF Retain, Rank
<1>5. \A k \in K : s[k] \in S /\ k \in Nat
  BY <1>1
<1>6. f \in [1..c -> K]
  BY <1>3
<1> HIDE DEF f, c, n
<1>7. \A j \in 1..c : s[f[j]] \in S
  BY <1>3, <1>5
<1>8. Retain(s, K) \in Seq(S) /\ DOMAIN Retain(s, K) = 1..c
  BY <1>2, <1>4, <1>7
<1>9. \A i, j \in 1..c : i < j => f[i] < f[j]
  <2> SUFFICES ASSUME NEW i \in 1..c, NEW j \in 1..c, i < j, ~(f[i] < f[j]) PROVE FALSE
    OBVIOUS
  <2>1. f[i] \in K /\ f[j] \in K /\ f[i] \in Nat /\ f[j] \in Nat
    BY <1>3, <1>5
  <2>2. f[i] = f[j] \/ f[j] < f[i]
    BY <2>1
  <2>3. Rank(K, f[i]) = i /\ Rank(K, f[j]) = j
    BY <1>3
  <2>4. i = j \/ j < i
    BY <1>2, <2>1, <2>2, <2>3
  <2> QED  BY <1>2, <2>4
<1>10. \A i, j \in 1..c : f[i] = f[j] => i = j
  <2> SUFFICES ASSUME NEW i \in 1..c, NEW j \in 1..c, f[i] = f[j] PROVE i = j
    OBVIOUS
  <2> QED  BY <1>3
<1>11. \A k \in K : \E j \in 1..c : f[j] = k
  <2> SUFFICES ASSUME NEW k \in K PROVE \E j \in 1..c : f[j] = k
    OBVIOUS
  <2>1. Rank(K, k) \in 1..c /\ f[Rank(K, k)] \in K
        /\ Rank(K, f[Rank(K, k)]) = Rank(K, k)
    BY <1>2, <1>3
  <2>2. f[Rank(K, k)] = k
    <3> DEFINE i == f[Rank(K, k)]
    <3>1. i \in K /\ Rank(K, i) = Rank(K, k) /\ i \in Nat /\ k \in Nat /\ Rank(K, k) \in Nat
      BY <1>2, <1>5, <2>1
    <3> HIDE DEF i
    <3>2. /\ i < k => Rank(K, i) < Rank(K, k)
          /\ k < i => Rank(K, k) < Rank(K, i)
      BY <1>2, <3>1
    <3>3. i = k
      <4> DEFINE r == Rank(K, k)
      <4>1. r \in Nat /\ (i < k => r < r) /\ (k < i => r < r)
        BY <3>1, <3>2
      <4> HIDE DEF r
      <4> QED  BY <3>1, <4>1
    <3> QED  BY <3>3 DEF i
  <2> QED  BY <2>1, <2>2
<1>12. \A j \in 1..c : Retain(s, K)[j] = s[f[j]]
  BY <1>4
<1> DEFINE r == Retain(s, K)
<1> HIDE DEF r
<1>13. /\ f \in [DOMAIN r -> K]
       /\ \A j \in DOMAIN r : r[j] = s[f[j]]
       /\ \A i, j \in DOMAIN r : i < j => f[i] < f[j]
       /\ \A i, j \in DOMAIN r : f[i] = f[j] => i = j
       /\ \A k \in K : \E j \in DOMAIN r : f[j] = k
  BY <1>6, <1>8, <1>9, <1>10, <1>11, <1>12 DEF r
<1>14. KeptIn(r, s, K)
  BY <1>13 DEF KeptIn
<1> QED  BY <1>8, <1>14 DEF r

\* r is s with e put in at position i.
InsertedIn(r, s, i, e) ==
    /\ DOMAIN r = 1..(Len(s) + 1)
    /\ \A j \in 1..(Len(s) + 1) :
          /\ j < i => r[j] = s[j]
          /\ j = i => r[j] = e
          /\ j > i => r[j] = s[j - 1]

\* vector::insert, position by position.
LEMMA InsertProperties ==
    ASSUME NEW s \in Seq(Timeout), NEW e \in Timeout, NEW i \in 1..(Len(s) + 1)
    PROVE  /\ InsertAt(s, i, e) \in Seq(Timeout)
           /\ InsertedIn(InsertAt(s, i, e), s, i, e)
<1> DEFINE n == Len(s)
           a == SubSeq(s, 1, i - 1)
           b == SubSeq(s, i, n)
           h == <<e>>
<1>1. n \in Nat /\ i \in Nat /\ 1 <= i /\ i <= n + 1
  OBVIOUS
<1>2. a \in Seq(Timeout) /\ Len(a) = i - 1 /\ \A j \in 1..(i - 1) : a[j] = s[j]
  <2>1. \A j \in 1..(i - 1) : s[j] \in Timeout
    OBVIOUS
  <2> QED  BY <1>1, <2>1
<1>3. b \in Seq(Timeout) /\ Len(b) = n + 1 - i /\ \A j \in 1..(n + 1 - i) : b[j] = s[i + j - 1]
  OBVIOUS
<1>4. h \in Seq(Timeout) /\ Len(h) = 1 /\ h[1] = e
  OBVIOUS
<1>5. InsertAt(s, i, e) = (a \o h) \o b
  BY DEF InsertAt
<1> HIDE DEF a, b, h, n
<1> DEFINE c == a \o h
<1>6. c \in Seq(Timeout) /\ Len(c) = i /\ \A j \in 1..i : c[j] = IF j < i THEN s[j] ELSE e
  <2>1. /\ c \in Seq(Timeout) /\ Len(c) = Len(a) + Len(h)
        /\ \A j \in 1..(Len(a) + Len(h)) : c[j] = IF j <= Len(a) THEN a[j] ELSE h[j - Len(a)]
    BY <1>2, <1>4, ConcatPositions
  <2> HIDE DEF c
  <2>2. Len(a) + Len(h) = i
    BY <1>1, <1>2, <1>4
  <2>3. \A j \in 1..i : c[j] = IF j <= i - 1 THEN a[j] ELSE h[j - (i - 1)]
    BY <1>2, <2>1, <2>2
  <2>4. \A j \in 1..i : \/ j <= i - 1 /\ j < i /\ j \in 1..(i - 1)
                        \/ ~(j <= i - 1) /\ ~(j < i) /\ j - (i - 1) = 1
    BY <1>1
  <2> QED  BY <1>2, <1>4, <2>1, <2>2, <2>3, <2>4
<1> HIDE DEF c
<1> DEFINE d == c \o b
<1>7. /\ d \in Seq(Timeout) /\ DOMAIN d = 1..(n + 1)
      /\ \A j \in 1..(n + 1) : d[j] = IF j <= i THEN c[j] ELSE b[j - i]
  <2>1. /\ d \in Seq(Timeout) /\ DOMAIN d = 1..(Len(c) + Len(b))
        /\ \A j \in 1..(Len(c) + Len(b)) : d[j] = IF j <= Len(c) THEN c[j] ELSE b[j - Len(c)]
    BY <1>3, <1>6, ConcatPositions
  <2>2. Len(c) + Len(b) = n + 1
    BY <1>1, <1>3, <1>6
  <2> HIDE DEF d
  <2> QED  BY <1>6, <2>1, <2>2
<1> HIDE DEF d
<1>8. ASSUME NEW j \in 1..(n + 1)
      PROVE  /\ j < i => d[j] = s[j]
             /\ j = i => d[j] = e
             /\ j > i => d[j] = s[j - 1]
  <2>1. CASE j <= i
    <3>1. j \in 1..i /\ d[j] = c[j]
      BY <1>1, <1>7, <2>1
    <3> QED  BY <1>1, <1>6, <2>1, <3>1
  <2>2. CASE j > i
    <3>1. j - i \in 1..(n + 1 - i) /\ i + (j - i) - 1 = j - 1 /\ ~(j <= i) /\ ~(j < i) /\ j # i
      BY <1>1, <2>2
    <3>2. d[j] = b[j - i]
      BY <1>7, <3>1
    <3>3. b[j - i] = s[j - 1]
      BY <1>3, <3>1
    <3> QED  BY <3>1, <3>2, <3>3
  <2> QED  BY <1>1, <2>1, <2>2
<1>9. InsertAt(s, i, e) = d
  BY <1>5 DEF c, d
<1> QED  BY <1>7, <1>8, <1>9 DEF InsertedIn, n

-----------------------------------------------------------------------------
(* The trackers.                                                            *)

\* What an entry says.
LEMMA EntryFacts ==
    ASSUME NEW t, GoodTracker(t)
    PROVE  /\ t.mTimeouts \in Seq(Timeout) /\ t.mTimer \in Int \cup {Off}
           /\ Len(t.mTimeouts) \in Nat /\ DOMAIN t.mTimeouts = 1..Len(t.mTimeouts)
           /\ Tracked(t) \subseteq NodeId
           /\ \A i \in DOMAIN t.mTimeouts :
                 /\ t.mTimeouts[i].node \in NodeId /\ t.mTimeouts[i].time \in Int
                 /\ t.mTimeouts[i].node \in Tracked(t)
                 /\ TimeOf(t, t.mTimeouts[i].node) = t.mTimeouts[i].time
           /\ \A n \in Tracked(t) : \E i \in DOMAIN t.mTimeouts : t.mTimeouts[i].node = n
           /\ \A n \in Tracked(t) : TimeOf(t, n) \in Int
<1> DEFINE q == t.mTimeouts
<1>1. q \in Seq(Timeout) /\ t.mTimer \in Int \cup {Off}
  BY DEF GoodTracker, Tracker, Timeout
<1>2. \A i \in DOMAIN q : q[i] \in Timeout
  BY <1>1
<1>3. \A i \in DOMAIN q : q[i].node \in NodeId /\ q[i].time \in Int
  BY <1>2 DEF Timeout
<1>4. \A i \in DOMAIN q : q[i].node \in Tracked(t)
  BY DEF Tracked
<1>5. \A n \in Tracked(t) : \E i \in DOMAIN q : q[i].node = n
  BY DEF Tracked
<1>6. \A i \in DOMAIN q : TimeOf(t, q[i].node) = q[i].time
  <2> SUFFICES ASSUME NEW i \in DOMAIN q PROVE TimeOf(t, q[i].node) = q[i].time
    OBVIOUS
  <2> DEFINE c == CHOOSE c \in DOMAIN q : q[c].node = q[i].node
  <2>1. c \in DOMAIN q /\ q[c].node = q[i].node
    OBVIOUS
  <2>2. c = i
    BY <2>1 DEF GoodTracker, UniqueNodes
  <2>3. TimeOf(t, q[i].node) = q[c].time
    BY DEF TimeOf
  <2> QED  BY <2>2, <2>3
<1>7. Tracked(t) \subseteq NodeId /\ \A n \in Tracked(t) : TimeOf(t, n) \in Int
  BY <1>3, <1>5, <1>6
<1> QED  BY <1>1, <1>3, <1>4, <1>5, <1>6, <1>7

\* What the entries of another tracker say, when each of them is one of t's.
LEMMA SubTracker ==
    ASSUME NEW t, GoodTracker(t), NEW u, u.mTimeouts \in Seq(Timeout),
           u.mTimer \in Int \cup {Off}, u \in Tracker,
           NEW f \in [DOMAIN u.mTimeouts -> DOMAIN t.mTimeouts],
           \A j \in DOMAIN u.mTimeouts : u.mTimeouts[j] = t.mTimeouts[f[j]],
           \A i, j \in DOMAIN u.mTimeouts : i < j => f[i] < f[j],
           \A i, j \in DOMAIN u.mTimeouts : f[i] = f[j] => i = j
    PROVE  /\ GoodTracker(u)
           /\ \A n \in Tracked(u) : n \in Tracked(t) /\ TimeOf(u, n) = TimeOf(t, n)
<1>1. UniqueNodes(u.mTimeouts)
  BY DEF GoodTracker, UniqueNodes
<1>2. SortedTimes(u.mTimeouts)
  BY DEF GoodTracker, SortedTimes
<1>3. GoodTracker(u)
  BY <1>1, <1>2 DEF GoodTracker
<1>4. ASSUME NEW n \in Tracked(u) PROVE n \in Tracked(t) /\ TimeOf(u, n) = TimeOf(t, n)
  <2>1. PICK j \in DOMAIN u.mTimeouts : u.mTimeouts[j].node = n
    BY <1>3, EntryFacts
  <2>2. TimeOf(u, n) = u.mTimeouts[j].time
    BY <1>3, <2>1, EntryFacts
  <2>3. f[j] \in DOMAIN t.mTimeouts /\ t.mTimeouts[f[j]] = u.mTimeouts[j]
    OBVIOUS
  <2>4. TimeOf(t, t.mTimeouts[f[j]].node) = t.mTimeouts[f[j]].time
        /\ t.mTimeouts[f[j]].node \in Tracked(t)
    BY <2>3, EntryFacts
  <2> QED  BY <2>1, <2>2, <2>3, <2>4
<1> QED  BY <1>3, <1>4

\* A new tracker tracks nobody, and neither does one that was cleared.
LEMMA EmptyTracker ==
    /\ GoodTracker(NewTracker) /\ Tracked(NewTracker) = {} /\ Scheduled(NewTracker)
    /\ \A t : GoodTracker(t) => /\ GoodTracker(Clear(t)) /\ Tracked(Clear(t)) = {}
                                /\ Scheduled(Clear(t))
<1>1. <<>> \in Seq([time : Int, node : NodeId]) /\ DOMAIN <<>> = {}
  OBVIOUS
<1>2. /\ NewTracker \in Tracker /\ NewTracker.mTimeouts = <<>>
  BY <1>1 DEF NewTracker, Tracker
<1>3. GoodTracker(NewTracker) /\ Tracked(NewTracker) = {} /\ Scheduled(NewTracker)
  BY <1>1, <1>2 DEF GoodTracker, Tracked, Scheduled, UniqueNodes, SortedTimes
<1>4. ASSUME NEW t, GoodTracker(t)
      PROVE  GoodTracker(Clear(t)) /\ Tracked(Clear(t)) = {} /\ Scheduled(Clear(t))
  <2>1. Clear(t) \in Tracker /\ Clear(t).mTimeouts = <<>>
    BY <1>1, <1>4 DEF Clear, GoodTracker, Tracker
  <2> QED  BY <1>1, <2>1 DEF GoodTracker, Tracked, Scheduled, UniqueNodes, SortedTimes
<1> QED  BY <1>3, <1>4

\* PeerTracker::remove takes one node out.
LEMMA UntrackFacts ==
    ASSUME NEW t, GoodTracker(t), NEW n
    PROVE  /\ GoodTracker(Untrack(t, n))
           /\ Tracked(Untrack(t, n)) = Tracked(t) \ {n}
           /\ \A m \in Tracked(t) \ {n} : TimeOf(Untrack(t, n), m) = TimeOf(t, m)
           /\ Scheduled(t) => Scheduled(Untrack(t, n))
           /\ Untrack(t, n).mTimer = t.mTimer
<1> DEFINE q == t.mTimeouts
           K == {i \in DOMAIN q : q[i].node # n}
           u == Untrack(t, n)
<1>1. q \in Seq(Timeout) /\ t.mTimer \in Int \cup {Off} /\ K \in SUBSET (DOMAIN q)
  BY EntryFacts
<1>2. u.mTimeouts = Retain(q, K) /\ u.mTimer = t.mTimer
      /\ (Retain(q, K) \in Seq(Timeout) => u \in Tracker)
  BY DEF Untrack, GoodTracker, Tracker, Timeout
<1> HIDE DEF u
<1>3. Retain(q, K) \in Seq(Timeout) /\ KeptIn(u.mTimeouts, q, K)
  <2> HIDE DEF q, K
  <2>1. Retain(q, K) \in Seq(Timeout) /\ KeptIn(Retain(q, K), q, K)
    BY <1>1, RetainProperties
  <2> QED  BY <1>2, <2>1
<1>4. PICK f \in [DOMAIN u.mTimeouts -> K] :
            /\ \A j \in DOMAIN u.mTimeouts : u.mTimeouts[j] = q[f[j]]
            /\ \A i, j \in DOMAIN u.mTimeouts : i < j => f[i] < f[j]
            /\ \A i, j \in DOMAIN u.mTimeouts : f[i] = f[j] => i = j
            /\ \A k \in K : \E j \in DOMAIN u.mTimeouts : f[j] = k
  <2> HIDE DEF q, K
  <2> QED  BY <1>3 DEF KeptIn
<1>5. u \in Tracker /\ u.mTimeouts \in Seq(Timeout) /\ u.mTimer \in Int \cup {Off}
  BY <1>1, <1>2, <1>3
<1>6. /\ GoodTracker(u)
      /\ \A m \in Tracked(u) : m \in Tracked(t) /\ TimeOf(u, m) = TimeOf(t, m)
  BY <1>4, <1>5, SubTracker
<1>7. Tracked(u) = Tracked(t) \ {n}
  <2>1. ASSUME NEW m \in Tracked(u) PROVE m # n
    <3>1. PICK j \in DOMAIN u.mTimeouts : u.mTimeouts[j].node = m
      BY <1>6, EntryFacts
    <3> QED  BY <1>4, <3>1
  <2>2. ASSUME NEW m \in Tracked(t), m # n PROVE m \in Tracked(u)
    <3>1. PICK k \in DOMAIN q : q[k].node = m
      BY EntryFacts
    <3>2. PICK j \in DOMAIN u.mTimeouts : f[j] = k
      BY <1>4, <2>2, <3>1
    <3>3. u.mTimeouts[j].node = m
      BY <1>4, <3>1, <3>2
    <3> QED  BY <1>6, <3>3, EntryFacts
  <2> QED  BY <1>6, <2>1, <2>2
<1>8. ASSUME Scheduled(t), NEW j \in DOMAIN u.mTimeouts
      PROVE  u.mTimer \in Int /\ u.mTimer <= u.mTimeouts[j].time + 1
  <2>1. f[j] \in DOMAIN q /\ u.mTimeouts[j] = q[f[j]]
    BY <1>4
  <2> QED  BY <1>2, <1>8, <2>1 DEF Scheduled
<1> QED  BY <1>2, <1>6, <1>7, <1>8 DEF u, Scheduled

\* Tracking and times are a matter of the entries alone.
LEMMA SameEntries ==
    ASSUME NEW t, NEW u, u.mTimeouts = t.mTimeouts
    PROVE  Tracked(u) = Tracked(t) /\ \A n : TimeOf(u, n) = TimeOf(t, n)
BY DEF Tracked, TimeOf

\* PeerTracker::schedulePruning only touches the timer, and sets it in time.
LEMMA ScheduleFacts ==
    ASSUME NEW t, GoodTracker(t)
    PROVE  /\ GoodTracker(SchedulePruning(t)) /\ Scheduled(SchedulePruning(t))
           /\ SchedulePruning(t).mTimeouts = t.mTimeouts
<1> DEFINE q == t.mTimeouts
           u == SchedulePruning(t)
<1>1. CASE q = <<>>
  <2>1. u = t /\ DOMAIN q = {}
    BY <1>1 DEF SchedulePruning
  <2> QED  BY <2>1 DEF Scheduled
<1>2. CASE q # <<>>
  <2>1. q \in Seq(Timeout) /\ t.mTimer \in Int \cup {Off} /\ Len(q) \in Nat
        /\ DOMAIN q = 1..Len(q) /\ \A i \in DOMAIN q : q[i].time \in Int
    BY EntryFacts
  <2>2. 1 \in DOMAIN q /\ Head(q) = q[1]
    BY <1>2, <2>1
  <2>3. u.mTimeouts = q /\ u.mTimer = q[1].time + 1
    BY <1>2, <2>2 DEF SchedulePruning, GoodTracker, Tracker
  <2>4. u \in Tracker
    <3>1. q[1].time + 1 \in Int
      BY <2>1, <2>2
    <3>2. u = [t EXCEPT !.mTimer = q[1].time + 1]
      BY <1>2, <2>2 DEF SchedulePruning
    <3> QED  BY <3>1, <3>2 DEF GoodTracker, Tracker
  <2>5. GoodTracker(u)
    BY <2>3, <2>4 DEF GoodTracker
  <2>6. ASSUME NEW i \in DOMAIN q PROVE q[1].time <= q[i].time
    <3>1. i = 1 \/ 1 < i
      BY <2>1
    <3> QED  BY <2>1, <2>2, <3>1 DEF GoodTracker, SortedTimes
  <2>7. Scheduled(u)
    BY <2>1, <2>2, <2>3, <2>6 DEF Scheduled
  <2> QED  BY <2>3, <2>5, <2>7
<1> QED  BY <1>1, <1>2

\* PeerTracker::updateTimeout gives one node its new time, and the vector stays
\* sorted: upper_bound is a count of the entries that are not later.
LEMMA UpdateFacts ==
    ASSUME NEW t, GoodTracker(t), NEW n \in NodeId, NEW ttl \in Int
    PROVE  /\ GoodTracker(UpdateTimeout(t, n, ttl)) /\ Scheduled(UpdateTimeout(t, n, ttl))
           /\ Tracked(UpdateTimeout(t, n, ttl)) = Tracked(t) \cup {n}
           /\ TimeOf(UpdateTimeout(t, n, ttl), n) = ttl
           /\ \A m \in Tracked(t) \ {n} : TimeOf(UpdateTimeout(t, n, ttl), m) = TimeOf(t, m)
<1> DEFINE o == Untrack(t, n)
           q == o.mTimeouts
           L == Len(q)
           P == {i \in DOMAIN q : q[i].time <= ttl}
           c == Cardinality(P)
           e == [time |-> ttl, node |-> n]
           r == InsertAt(q, c + 1, e)
           v == [o EXCEPT !.mTimeouts = r]
           u == UpdateTimeout(t, n, ttl)
<1>1. /\ GoodTracker(o) /\ Tracked(o) = Tracked(t) \ {n}
      /\ \A m \in Tracked(t) \ {n} : TimeOf(o, m) = TimeOf(t, m)
  BY UntrackFacts
<1>2. u = SchedulePruning(v)
  BY DEF UpdateTimeout
<1> HIDE DEF o, u
<1>3. /\ q \in Seq(Timeout) /\ o.mTimer \in Int \cup {Off} /\ L \in Nat /\ DOMAIN q = 1..L
      /\ \A i \in 1..L : q[i].node # n /\ q[i].time \in Int /\ q[i].node \in Tracked(o)
                         /\ TimeOf(o, q[i].node) = q[i].time
      /\ \A m \in Tracked(o) : \E i \in 1..L : q[i].node = m
  BY <1>1, EntryFacts, SMTT(30)
<1>4. c \in 0..L /\ P = 1..c
  <2>1. P \in SUBSET (1..L)
    BY <1>3
  <2>2. \A i \in P, j \in 1..L : j < i => j \in P
    <3> SUFFICES ASSUME NEW i \in P, NEW j \in 1..L, j < i PROVE q[j].time <= ttl
      BY <1>3
    <3>1. q[j].time <= q[i].time /\ q[i].time <= ttl /\ q[j].time \in Int /\ q[i].time \in Int
      BY <1>1, <1>3 DEF GoodTracker, SortedTimes
    <3> QED  BY <3>1
  <2> HIDE DEF P, L
  <2> QED  BY <1>3, <2>1, <2>2, PrefixCount
<1>5. /\ \A i \in 1..c : q[i].time <= ttl
      /\ \A i \in 1..L : i > c => q[i].time > ttl
  <2>1. \A i \in 1..c : q[i].time <= ttl
    BY <1>4
  <2>2. \A i \in 1..L : i > c => i \notin P
    BY <1>4
  <2> QED  BY <1>3, <2>1, <2>2
<1>6. e \in Timeout /\ e.time = ttl /\ e.node = n
  BY DEF Timeout
<1> HIDE DEF P, c, e, L, q
<1>7. /\ r \in Seq(Timeout) /\ DOMAIN r = 1..(L + 1)
      /\ \A j \in 1..(L + 1) : /\ j < c + 1 => r[j] = q[j]
                               /\ j = c + 1 => r[j] = e
                               /\ j > c + 1 => r[j] = q[j - 1]
  <2> DEFINE k == c + 1
  <2>1. k \in 1..(Len(q) + 1)
    BY <1>3, <1>4 DEF L
  <2> HIDE DEF k
  <2>2. q \in Seq(Timeout) /\ e \in Timeout
    BY <1>3, <1>6
  <2>3. InsertAt(q, k, e) \in Seq(Timeout) /\ InsertedIn(InsertAt(q, k, e), q, k, e)
    BY <2>1, <2>2, InsertProperties
  <2>4. r = InsertAt(q, k, e) /\ k = c + 1 /\ L = Len(q)
    BY DEF k, L
  <2> HIDE DEF r
  <2> QED  BY <2>3, <2>4 DEF InsertedIn
<1> HIDE DEF r
<1>8. \A j \in 1..(L + 1) :
         \/ j < c + 1 /\ j \in 1..L /\ j \in 1..c /\ r[j] = q[j]
         \/ j = c + 1 /\ r[j] = e
         \/ j > c + 1 /\ j - 1 \in 1..L /\ j - 1 > c /\ r[j] = q[j - 1]
  BY <1>3, <1>4, <1>7
<1>9. SortedTimes(r)
  <2> SUFFICES ASSUME NEW i \in 1..(L + 1), NEW j \in 1..(L + 1), i < j
               PROVE  r[i].time <= r[j].time
    BY <1>7 DEF SortedTimes
  <2>1. \A k, l \in 1..L : k < l => q[k].time <= q[l].time
    BY <1>1, <1>3 DEF GoodTracker, SortedTimes, q
  <2>2. CASE i < c + 1
    <3>1. r[i] = q[i] /\ i \in 1..L /\ q[i].time <= ttl /\ q[i].time \in Int
      BY <1>3, <1>4, <1>5, <1>8, <2>2
    <3>2. CASE j < c + 1
      BY <1>8, <2>1, <3>1, <3>2
    <3>3. CASE j = c + 1
      BY <1>6, <1>8, <3>1, <3>3
    <3>4. CASE j > c + 1
      <4>1. j - 1 \in 1..L /\ i < j - 1 /\ r[j] = q[j - 1]
        BY <1>3, <1>4, <1>8, <2>2, <3>4
      <4> QED  BY <2>1, <3>1, <4>1
    <3> QED  BY <1>4, <3>2, <3>3, <3>4
  <2>3. CASE i >= c + 1
    <3>1. j > c + 1 /\ j - 1 \in 1..L /\ r[j] = q[j - 1] /\ q[j - 1].time > ttl
      BY <1>3, <1>4, <1>5, <1>8, <2>3
    <3>2. CASE i = c + 1
      BY <1>3, <1>6, <1>8, <3>1, <3>2
    <3>3. CASE i > c + 1
      <4>1. i - 1 \in 1..L /\ i - 1 < j - 1 /\ r[i] = q[i - 1]
        BY <1>3, <1>4, <1>8, <3>3
      <4> QED  BY <2>1, <3>1, <4>1
    <3> QED  BY <1>4, <2>3, <3>2, <3>3
  <2> QED  BY <1>4, <2>2, <2>3
<1>10. UniqueNodes(r)
  <2> SUFFICES ASSUME NEW i \in 1..(L + 1), NEW j \in 1..(L + 1), r[i].node = r[j].node
               PROVE  i = j
    BY <1>7 DEF UniqueNodes
  <2>1. \A k, l \in 1..L : q[k].node = q[l].node => k = l
    BY <1>1, <1>3 DEF GoodTracker, UniqueNodes, q
  <2>2. \A k \in 1..L : q[k].node # n
    BY <1>3
  <2>3. (i = c + 1) <=> (j = c + 1)
    BY <1>6, <1>8, <2>2
  <2>4. CASE i < c + 1
    <3>1. i \in 1..L /\ r[i] = q[i] /\ i \in 1..c
      BY <1>4, <1>8, <2>4
    <3>2. CASE j < c + 1
      BY <1>4, <1>8, <2>1, <3>1, <3>2
    <3>3. CASE j > c + 1
      <4>1. j - 1 \in 1..L /\ j - 1 > c /\ r[j] = q[j - 1]
        BY <1>4, <1>8, <3>3
      <4>2. i = j - 1
        BY <2>1, <3>1, <4>1
      <4> QED  BY <1>4, <3>1, <4>1, <4>2
    <3> QED  BY <1>4, <2>3, <2>4, <3>2, <3>3
  <2>5. CASE i > c + 1
    <3>1. i - 1 \in 1..L /\ i - 1 > c /\ r[i] = q[i - 1]
      BY <1>4, <1>8, <2>5
    <3>2. CASE j > c + 1
      <4>1. j - 1 \in 1..L /\ r[j] = q[j - 1]
        BY <1>4, <1>8, <3>2
      <4>2. i - 1 = j - 1
        BY <2>1, <3>1, <4>1
      <4> QED  BY <4>2
    <3>3. CASE j < c + 1
      <4>1. j \in 1..L /\ j \in 1..c /\ r[j] = q[j]
        BY <1>4, <1>8, <3>3
      <4>2. i - 1 = j
        BY <2>1, <3>1, <4>1
      <4> QED  BY <1>4, <3>1, <4>1, <4>2
    <3> QED  BY <1>4, <2>3, <2>5, <3>2, <3>3
  <2> QED  BY <1>4, <2>3, <2>4, <2>5
<1>11. v \in Tracker /\ v.mTimeouts = r
  BY <1>1, <1>7 DEF GoodTracker, Tracker, Timeout
<1> HIDE DEF v
<1>12. GoodTracker(v)
  BY <1>9, <1>10, <1>11 DEF GoodTracker
<1>13. GoodTracker(u) /\ Scheduled(u) /\ u.mTimeouts = r
  BY <1>2, <1>11, <1>12, ScheduleFacts
<1>14. /\ \A i \in 1..(L + 1) : r[i].node \in Tracked(u) /\ TimeOf(u, r[i].node) = r[i].time
       /\ \A m \in Tracked(u) : \E i \in 1..(L + 1) : r[i].node = m
  <2>1. DOMAIN u.mTimeouts = 1..(L + 1)
    BY <1>7, <1>13
  <2>2. /\ \A i \in DOMAIN u.mTimeouts :
              /\ u.mTimeouts[i].node \in Tracked(u)
              /\ TimeOf(u, u.mTimeouts[i].node) = u.mTimeouts[i].time
        /\ \A m \in Tracked(u) : \E i \in DOMAIN u.mTimeouts : u.mTimeouts[i].node = m
    BY <1>13, EntryFacts
  <2> QED  BY <1>13, <2>1, <2>2
<1>15. n \in Tracked(u) /\ TimeOf(u, n) = ttl
  <2>1. c + 1 \in 1..(L + 1)
    BY <1>3, <1>4
  <2>2. r[c + 1] = e
    BY <1>7, <2>1
  <2> QED  BY <1>6, <1>14, <2>1, <2>2
<1>16. ASSUME NEW m \in Tracked(o) PROVE m \in Tracked(u) /\ TimeOf(u, m) = TimeOf(o, m)
  <2>1. PICK i \in 1..L : q[i].node = m
    BY <1>3
  <2>2. \E j \in 1..(L + 1) : r[j] = q[i]
    <3>1. CASE i < c + 1
      <4>1. i \in 1..(L + 1)
        BY <1>3
      <4> QED  BY <1>7, <3>1, <4>1
    <3>2. CASE i >= c + 1
      <4>1. i + 1 \in 1..(L + 1) /\ i + 1 > c + 1 /\ (i + 1) - 1 = i
        BY <1>3, <1>4, <3>2
      <4> QED  BY <1>7, <4>1
    <3> QED  BY <1>4, <3>1, <3>2
  <2>3. PICK j \in 1..(L + 1) : r[j] = q[i]
    BY <2>2
  <2>4. TimeOf(o, m) = q[i].time
    BY <1>3, <2>1
  <2> QED  BY <1>14, <2>1, <2>3, <2>4
<1>17. ASSUME NEW m \in Tracked(u) PROVE m = n \/ m \in Tracked(o)
  <2>1. PICK i \in 1..(L + 1) : r[i].node = m
    BY <1>14
  <2> QED  BY <1>3, <1>6, <1>8, <2>1
<1>18. Tracked(u) = Tracked(t) \cup {n}
  BY <1>1, <1>15, <1>16, <1>17
<1> QED  BY <1>1, <1>13, <1>15, <1>16, <1>18 DEF u

\* PeerTracker::pruneExpired takes out exactly the nodes whose time is over:
\* the vector is sorted, so lower_bound finds all of them.
LEMMA PruneFacts ==
    ASSUME NEW t, GoodTracker(t)
    PROVE  /\ GoodTracker(Prune(t)) /\ Scheduled(Prune(t))
           /\ Expired(t) = {n \in Tracked(t) : TimeOf(t, n) < 0}
           /\ Tracked(Prune(t)) = Tracked(t) \ Expired(t)
           /\ \A n \in Tracked(Prune(t)) : TimeOf(Prune(t), n) = TimeOf(t, n)
<1> DEFINE q == t.mTimeouts
           L == Len(q)
           P == {i \in DOMAIN q : q[i].time < 0}
           m == Cardinality(P)
           r == SubSeq(q, m + 1, L)
           v == [mTimeouts |-> r, mTimer |-> Off]
           u == Prune(t)
<1>1. /\ q \in Seq(Timeout) /\ L \in Nat /\ DOMAIN q = 1..L
      /\ \A i \in 1..L : q[i].time \in Int /\ q[i].node \in Tracked(t)
                         /\ TimeOf(t, q[i].node) = q[i].time
      /\ \A n \in Tracked(t) : \E i \in 1..L : q[i].node = n
  BY EntryFacts
<1>2. m \in 0..L /\ P = 1..m
  <2>1. P \in SUBSET (1..L)
    BY <1>1
  <2>2. \A i \in P, j \in 1..L : j < i => j \in P
    <3> SUFFICES ASSUME NEW i \in P, NEW j \in 1..L, j < i PROVE q[j].time < 0
      BY <1>1
    <3>1. q[j].time <= q[i].time /\ q[i].time < 0 /\ q[j].time \in Int /\ q[i].time \in Int
      BY <1>1 DEF GoodTracker, SortedTimes
    <3> QED  BY <3>1
  <2> HIDE DEF P, L
  <2> QED  BY <1>1, <2>1, <2>2, PrefixCount
<1>3. \A i \in 1..L : q[i].time < 0 <=> i \in 1..m
  BY <1>1, <1>2
<1>4. u = SchedulePruning(v) /\ Expired(t) = {q[i].node : i \in 1..m}
  BY DEF Prune, Expired, EndExpired
<1> HIDE DEF P, m
<1>5. /\ r \in Seq(Timeout) /\ DOMAIN r = 1..(L - m)
      /\ \A j \in 1..(L - m) : r[j] = q[m + j]
  <2> DEFINE k == m + 1
  <2>1. L = Len(q) /\ q \in Seq(Timeout) /\ L \in Nat /\ m \in 0..L
    BY <1>1, <1>2
  <2> HIDE DEF L, q
  <2>2. k \in 1..(L + 1) /\ L + 1 - k = L - m /\ \A j \in 1..(L - m) : k + j - 1 = m + j
    BY <2>1
  <2> HIDE DEF k
  <2>3. /\ SubSeq(q, k, L) \in Seq(Timeout) /\ Len(SubSeq(q, k, L)) = L + 1 - k
        /\ \A j \in 1..(L + 1 - k) : SubSeq(q, k, L)[j] = q[k + j - 1]
    BY <2>1, <2>2
  <2>4. r = SubSeq(q, k, L)
    BY DEF r, k
  <2> HIDE DEF r
  <2>5. DOMAIN r = 1..Len(r)
    BY <2>3, <2>4
  <2> QED  BY <2>1, <2>2, <2>3, <2>4, <2>5
<1> HIDE DEF r, u
<1>6. v \in Tracker /\ v.mTimeouts = r /\ v.mTimer \in Int \cup {Off}
  BY <1>5 DEF Tracker, Timeout
<1> HIDE DEF v
<1> DEFINE f == [j \in 1..(L - m) |-> m + j]
<1>7. f \in [DOMAIN v.mTimeouts -> DOMAIN t.mTimeouts]
  <2>1. \A j \in 1..(L - m) : m + j \in 1..L
    BY <1>1, <1>2
  <2>2. DOMAIN v.mTimeouts = 1..(L - m) /\ DOMAIN t.mTimeouts = 1..L
    BY <1>1, <1>5, <1>6
  <2> HIDE DEF L
  <2> QED  BY <2>1, <2>2
<1>8. /\ GoodTracker(v)
      /\ \A n \in Tracked(v) : n \in Tracked(t) /\ TimeOf(v, n) = TimeOf(t, n)
  <2>1. DOMAIN v.mTimeouts = 1..(L - m) /\ v.mTimeouts \in Seq(Timeout)
    BY <1>5, <1>6
  <2>2. \A j \in DOMAIN v.mTimeouts : v.mTimeouts[j] = t.mTimeouts[f[j]]
    BY <1>5, <1>6, <2>1
  <2>3. \A i, j \in DOMAIN v.mTimeouts : i < j => f[i] < f[j]
    BY <1>1, <1>2, <2>1
  <2>4. \A i, j \in DOMAIN v.mTimeouts : f[i] = f[j] => i = j
    BY <1>1, <1>2, <2>1
  <2> HIDE DEF f, L
  <2> QED  BY <1>6, <1>7, <2>1, <2>2, <2>3, <2>4, SubTracker
<1>9. GoodTracker(u) /\ Scheduled(u) /\ u.mTimeouts = v.mTimeouts
  BY <1>4, <1>8, ScheduleFacts
<1>10. Tracked(u) = Tracked(v) /\ \A n : TimeOf(u, n) = TimeOf(v, n)
  BY <1>9, SameEntries
<1>11. Expired(t) = {n \in Tracked(t) : TimeOf(t, n) < 0}
  <2>1. \A i \in 1..m : i \in 1..L
    BY <1>1, <1>2
  <2>2. ASSUME NEW n \in Expired(t) PROVE n \in Tracked(t) /\ TimeOf(t, n) < 0
    <3>1. PICK i \in 1..m : n = q[i].node
      BY <1>4
    <3> QED  BY <1>1, <1>3, <2>1, <3>1
  <2>3. ASSUME NEW n \in Tracked(t), TimeOf(t, n) < 0 PROVE n \in Expired(t)
    <3>1. PICK i \in 1..L : n = q[i].node
      BY <1>1
    <3>2. i \in 1..m
      BY <1>1, <1>3, <2>3, <3>1
    <3> QED  BY <1>4, <3>1, <3>2
  <2> QED  BY <2>2, <2>3
<1>12. ASSUME NEW n \in Tracked(v) PROVE n \notin Expired(t)
  <2>1. PICK j \in DOMAIN v.mTimeouts : v.mTimeouts[j].node = n
    BY <1>8, EntryFacts
  <2>2. j \in 1..(L - m) /\ n = q[m + j].node
    BY <1>5, <1>6, <2>1
  <2>3. m + j \in 1..L /\ m + j \notin 1..m
    BY <1>1, <1>2, <2>2
  <2>4. ~(q[m + j].time < 0) /\ TimeOf(t, n) = q[m + j].time
    BY <1>1, <1>3, <2>2, <2>3
  <2> QED  BY <1>11, <2>4
<1>13. ASSUME NEW n \in Tracked(t), n \notin Expired(t) PROVE n \in Tracked(v)
  <2>1. PICK i \in 1..L : n = q[i].node
    BY <1>1
  <2>2. i \notin 1..m
    BY <1>4, <1>13, <2>1
  <2>3. i - m \in 1..(L - m) /\ m + (i - m) = i
    BY <1>1, <1>2, <2>2
  <2>4. i - m \in DOMAIN v.mTimeouts /\ v.mTimeouts[i - m] = q[i]
    BY <1>5, <1>6, <2>3
  <2> QED  BY <1>8, <2>1, <2>4, EntryFacts
<1> QED  BY <1>8, <1>9, <1>10, <1>11, <1>12, <1>13 DEF u

\* A second passes for everyone alike.
LEMMA ElapseFacts ==
    ASSUME NEW t, GoodTracker(t)
    PROVE  /\ GoodTracker(Elapse(t)) /\ (Scheduled(t) => Scheduled(Elapse(t)))
           /\ Tracked(Elapse(t)) = Tracked(t)
           /\ \A n \in Tracked(t) : TimeOf(Elapse(t), n) = TimeOf(t, n) - 1
<1> DEFINE q == t.mTimeouts
           u == Elapse(t)
           r == u.mTimeouts
<1>1. /\ q \in Seq(Timeout) /\ Len(q) \in Nat /\ DOMAIN q = 1..Len(q)
      /\ t.mTimer \in Int \cup {Off}
      /\ \A i \in DOMAIN q : q[i].time \in Int /\ q[i].node \in NodeId
                             /\ TimeOf(t, q[i].node) = q[i].time /\ q[i].node \in Tracked(t)
      /\ \A n \in Tracked(t) : \E i \in DOMAIN q : q[i].node = n
  BY EntryFacts
<1>2. \A i \in DOMAIN q : q[i] \in Timeout
  BY <1>1
<1>3. r = [i \in DOMAIN q |-> [q[i] EXCEPT !.time = @ - 1]]
  BY DEF Elapse
<1>4. DOMAIN r = DOMAIN q
  BY <1>3
<1>5. \A i \in DOMAIN q : r[i] \in Timeout /\ r[i].time = q[i].time - 1 /\ r[i].node = q[i].node
  <2> SUFFICES ASSUME NEW i \in DOMAIN q
               PROVE  r[i] \in Timeout /\ r[i].time = q[i].time - 1 /\ r[i].node = q[i].node
    OBVIOUS
  <2>1. r[i] = [q[i] EXCEPT !.time = @ - 1]
    BY <1>3
  <2> HIDE DEF r, q
  <2> QED  BY <1>1, <1>2, <2>1, SMTT(30) DEF Timeout
<1>6. u.mTimer = IF t.mTimer = Off THEN Off ELSE t.mTimer - 1
  BY DEF Elapse
<1>7. r \in Seq(Timeout)
  <2> DEFINE n == Len(q)
  <2>1. r = [i \in 1..n |-> r[i]]
    BY <1>1, <1>3
  <2>2. n \in Nat /\ \A i \in 1..n : r[i] \in Timeout
    BY <1>1, <1>5
  <2> HIDE DEF r, n
  <2>3. r \in [1..n -> Timeout]
    BY <2>1, <2>2
  <2> QED  BY <2>2, <2>3
<1>8. u \in Tracker
  <2>1. u = [mTimeouts |-> r, mTimer |-> u.mTimer] /\ u.mTimer \in Int \cup {Off}
    BY <1>1, <1>6 DEF Elapse
  <2> HIDE DEF r, u
  <2> QED  BY <1>7, <2>1 DEF Tracker, Timeout
<1> HIDE DEF u
<1>9. UniqueNodes(r)
  BY <1>4, <1>5 DEF GoodTracker, UniqueNodes
<1>10. SortedTimes(r)
  <2> SUFFICES ASSUME NEW i \in DOMAIN q, NEW j \in DOMAIN q, i < j
               PROVE  r[i].time <= r[j].time
    BY <1>4 DEF SortedTimes
  <2>1. q[i].time <= q[j].time
    BY DEF GoodTracker, SortedTimes
  <2> QED  BY <1>1, <1>5, <2>1
<1>11. GoodTracker(u)
  BY <1>8, <1>9, <1>10 DEF GoodTracker
<1>12. /\ \A i \in DOMAIN r : r[i].node \in Tracked(u) /\ TimeOf(u, r[i].node) = r[i].time
       /\ \A n \in Tracked(u) : \E i \in DOMAIN r : r[i].node = n
  BY <1>11, EntryFacts
<1>13. ASSUME NEW n \in Tracked(t) PROVE n \in Tracked(u) /\ TimeOf(u, n) = TimeOf(t, n) - 1
  <2>1. PICK i \in DOMAIN q : q[i].node = n
    BY <1>1
  <2> QED  BY <1>1, <1>4, <1>5, <1>12, <2>1
<1>14. ASSUME NEW n \in Tracked(u) PROVE n \in Tracked(t)
  <2>1. PICK i \in DOMAIN r : r[i].node = n
    BY <1>12
  <2> QED  BY <1>1, <1>4, <1>5, <2>1
<1>15. ASSUME Scheduled(t) PROVE Scheduled(u)
  <2> SUFFICES ASSUME NEW i \in DOMAIN q
               PROVE  u.mTimer \in Int /\ u.mTimer <= r[i].time + 1
    BY <1>4 DEF Scheduled
  <2>1. t.mTimer \in Int /\ t.mTimer <= q[i].time + 1
    BY <1>15 DEF Scheduled
  <2>2. u.mTimer = t.mTimer - 1
    BY <1>6, <2>1, OffAssumption
  <2> QED  BY <1>1, <1>5, <2>1, <2>2, SMTT(30)
<1> QED  BY <1>11, <1>13, <1>14, <1>15 DEF u

-----------------------------------------------------------------------------
(* The inductive invariant.                                                 *)

GatewayOK(s) ==
    /\ s \in GatewayState
    /\ GoodTracker(s.local)
    /\ GoodTracker(s.remote)

\* TypeOK without the gateways' own members.
SharedTypes ==
    /\ scenario \in Scenarios
    /\ gateways \subseteq Gateway
    /\ lan \subseteq [hearers : SUBSET Gateway, present : SUBSET Gateway,
                      msg : LanMessage, left : 0..MaxTransit]
    /\ rearm \subseteq Gateway \X NodeId
    /\ dead \in BOOLEAN
    /\ faults \in 0..MaxFaults
    /\ unbacked \subseteq Gateway \X NodeId
    /\ last \in [Gateway -> [NodeId -> {"none", "BROADCAST", "UNICAST", "BYEBYE",
                                        "MEASUREMENT_PONG"}]]
    /\ claims \in [Gateway -> SUBSET (NodeId \X Endpoint)]

OutTypes ==
    forwarded \subseteq [gateway : Gateway,
                         msg : [type : {"BROADCAST", "UNICAST", "BYEBYE",
                                        "MEASUREMENT_PING", "MEASUREMENT_PONG"},
                                from : NodeId, to : NodeId \cup {NoNode}]]

GatewaysInv ==
    /\ gw \in [Gateway -> GatewayState]
    /\ \A g \in Gateway : GatewayOK(gw[g])
    /\ \A g \in Gateway : Running(g) => g \in gateways

\* A remote node that is tracked has its surrogate.
BackedInv == \A g \in Gateway : Tracked(gw[g].remote) \subseteq gw[g].surrogates

\* Nobody who is tracked times out while one of its multicasts is under way.
EchoInv ==
    \A p \in lan : \A g \in p.present :
        p.msg.ident \in Tracked(gw[g].remote) =>
            TimeOf(gw[g].remote, p.msg.ident) >= p.left

\* The current endpoint of a node was recorded for it.
ClaimsInv ==
    \A g \in Gateway, n \in NodeId :
        HasLocalNode(gw[g], n) => <<n, gw[g].endpointOf[n]>> \in claims[g]

\* The surrogate whose handler runs is there until the gateway is stopped.
RearmInv ==
    \A gn \in rearm : gn[2] \in gw[gn[1]].surrogates \/ gw[gn[1]].phase = "stopped"

\* A gateway that does not listen yet knows nobody, and nobody has heard of it.
Fresh(s) ==
    /\ ~s.armed
    /\ s.surrogates = {} /\ s.measurers = {}
    /\ s.localSeen = {} /\ Tracked(s.local) = {}
    /\ s.remoteSeen = {} /\ Tracked(s.remote) = {}

FreshInv ==
    /\ \A g \in Gateway : gw[g].phase = "new" => g \notin gateways /\ Fresh(gw[g])
    /\ \A p \in lan : \A g \in p.present : gw[g].phase # "new"

\* The observers know exactly who is tracked, and a timer is set for each.
LocalServed(s) ==
    /\ s.phase = "running" => s.localSeen = Tracked(s.local)
    /\ Scheduled(s.local)

RemoteServed(s) ==
    /\ s.phase = "running" => s.remoteSeen = Tracked(s.remote)
    /\ Scheduled(s.remote)

SeenInv ==
    /\ FreshInv
    /\ \A g \in Gateway : LocalServed(gw[g]) /\ RemoteServed(gw[g])

RemoteInv == BackedInv /\ EchoInv /\ NoEcho /\ UntrackedHasLeft

MapsInv == ClaimsInv /\ MapsAgree

LifeInv == RearmInv /\ NoNullRearm

Inv == SharedTypes /\ OutTypes /\ GatewaysInv /\ RemoteInv /\ MapsInv /\ LifeInv /\ SeenInv

-----------------------------------------------------------------------------
(* What the handlers do to one gateway.                                     *)

\* Messages from the LAN leave alone what the gateway knows of remote nodes.
LanStep(s, r) ==
    /\ GatewayOK(r)
    /\ r.phase = s.phase
    /\ r.surrogates = s.surrogates /\ r.measurers = s.measurers
    /\ r.remote = s.remote /\ r.remoteSeen = s.remoteSeen
    /\ LocalServed(s) => LocalServed(r)

OutMessage == [type : {"BROADCAST", "UNICAST", "BYEBYE",
                       "MEASUREMENT_PING", "MEASUREMENT_PONG"},
               from : NodeId, to : NodeId \cup {NoNode}]

\* A node and its endpoint are entered in both maps.
Entered(s, r, n, e) ==
    /\ r.endpointOf = [s.endpointOf EXCEPT ![n] = e]
    /\ r.nodeAt = [s.nodeAt EXCEPT ![e] = n]

\* Nodes and whatever is found at their endpoints are erased.
Erased(s, r, nodes) ==
    /\ r.endpointOf = [n \in NodeId |-> IF n \in nodes THEN NoEndpoint ELSE s.endpointOf[n]]
    /\ r.nodeAt = [e \in Endpoint |-> IF \E n \in nodes : s.endpointOf[n] = e THEN NoNode
                                      ELSE s.nodeAt[e]]

SameMaps(s, r) == r.endpointOf = s.endpointOf /\ r.nodeAt = s.nodeAt

\* What a handler may do to the two maps.
MapStep(s, r) ==
    \/ SameMaps(s, r)
    \/ \E n \in NodeId, e \in Endpoint : Entered(s, r, n, e)
    \/ \E nodes \in SUBSET NodeId : Erased(s, r, nodes)

\* The members of a gateway, one by one.
LEMMA GatewayMembers ==
    ASSUME NEW s, GatewayOK(s)
    PROVE  /\ s.phase \in {"new", "running", "stopping", "stopped"} /\ s.armed \in BOOLEAN
           /\ s.surrogates \subseteq NodeId /\ s.measurers \subseteq NodeId
           /\ s.endpointOf \in [NodeId -> Endpoint \cup {NoEndpoint}]
           /\ s.nodeAt \in [Endpoint -> NodeId \cup {NoNode}]
           /\ GoodTracker(s.local) /\ GoodTracker(s.remote)
           /\ s.local \in Tracker /\ s.remote \in Tracker
           /\ s.localSeen \subseteq NodeId /\ s.remoteSeen \subseteq NodeId
<1>1. s \in GatewayState
  BY DEF GatewayOK
<1>2. GoodTracker(s.local) /\ GoodTracker(s.remote)
  BY DEF GatewayOK
<1> QED  BY <1>1, <1>2 DEF GatewayState

\* Local nodes that go take their endpoints along and nothing else.
LEMMA ForgetLocalFacts ==
    ASSUME NEW s, GatewayOK(s), NEW nodes \in SUBSET NodeId
    PROVE  /\ ForgetLocal(s, nodes) \in GatewayState
           /\ Erased(s, ForgetLocal(s, nodes), nodes)
           /\ ForgetLocal(s, nodes).phase = s.phase /\ ForgetLocal(s, nodes).armed = s.armed
           /\ ForgetLocal(s, nodes).surrogates = s.surrogates
           /\ ForgetLocal(s, nodes).measurers = s.measurers
           /\ ForgetLocal(s, nodes).local = s.local
           /\ ForgetLocal(s, nodes).remote = s.remote
           /\ ForgetLocal(s, nodes).localSeen = s.localSeen
           /\ ForgetLocal(s, nodes).remoteSeen = s.remoteSeen
<1> DEFINE E == [n \in NodeId |-> IF n \in nodes THEN NoEndpoint ELSE s.endpointOf[n]]
           N == [e \in Endpoint |-> IF \E n \in nodes : s.endpointOf[n] = e THEN NoNode
                                    ELSE s.nodeAt[e]]
<1>1. E \in [NodeId -> Endpoint \cup {NoEndpoint}] /\ N \in [Endpoint -> NodeId \cup {NoNode}]
  BY GatewayMembers
<1>2. s \in GatewayState
  BY DEF GatewayOK
<1>3. ForgetLocal(s, nodes) = [s EXCEPT !.endpointOf = E, !.nodeAt = N]
  BY DEF ForgetLocal
<1> DEFINE r == ForgetLocal(s, nodes)
<1>4. Erased(s, r, nodes) <=> r.endpointOf = E /\ r.nodeAt = N
  BY DEF Erased
<1> HIDE DEF E, N, r
<1> QED  BY <1>1, <1>2, <1>3, <1>4 DEF GatewayState, r

\* onByeBye of a node on the LAN.
LEMMA ReceiveByeByeFacts ==
    ASSUME NEW s, GatewayOK(s), NEW m \in LanMessage, NEW to \in NodeId \cup {NoNode}
    PROVE  /\ LanStep(s, ReceiveByeBye(s, m, to).gateway)
           /\ MapStep(s, ReceiveByeBye(s, m, to).gateway)
           /\ ReceiveByeBye(s, m, to).out \subseteq OutMessage
           /\ ReceiveByeBye(s, m, to).gateway.local = Untrack(s.local, m.ident)
           /\ ReceiveByeBye(s, m, to).out = {Tunnelled("BYEBYE", m.ident, to)}
<1> DEFINE f == ForgetLocal(s, {m.ident})
           t == Untrack(s.local, m.ident)
           seen == s.localSeen \ {m.ident}
           r == [f EXCEPT !.local = t, !.localSeen = seen]
<1>1. m.ident \in NodeId
  BY DEF LanMessage
<1>2. /\ f \in GatewayState /\ Erased(s, f, {m.ident})
      /\ f.phase = s.phase /\ f.armed = s.armed
      /\ f.surrogates = s.surrogates /\ f.measurers = s.measurers
      /\ f.local = s.local /\ f.remote = s.remote
      /\ f.localSeen = s.localSeen /\ f.remoteSeen = s.remoteSeen
  BY <1>1, ForgetLocalFacts
<1>3. /\ GoodTracker(t) /\ t \in Tracker /\ Tracked(t) = Tracked(s.local) \ {m.ident}
      /\ (Scheduled(s.local) => Scheduled(t))
  BY UntrackFacts, GatewayMembers DEF GoodTracker
<1>4. seen \in SUBSET NodeId /\ GoodTracker(s.remote)
  BY GatewayMembers
<1>5. /\ ReceiveByeBye(s, m, to).gateway = r
      /\ ReceiveByeBye(s, m, to).out = {Tunnelled("BYEBYE", m.ident, to)}
  BY <1>2 DEF ReceiveByeBye, Result
<1> HIDE DEF f, t
<1>6. /\ r \in GatewayState /\ r.local = t /\ r.localSeen = seen
      /\ r.phase = f.phase /\ r.armed = f.armed
      /\ r.surrogates = f.surrogates /\ r.measurers = f.measurers
      /\ r.remote = f.remote /\ r.remoteSeen = f.remoteSeen
      /\ r.endpointOf = f.endpointOf /\ r.nodeAt = f.nodeAt
  BY <1>2, <1>3, <1>4 DEF GatewayState
<1>7. Tracked(t) = Tracked(s.local) \ {m.ident} /\ seen = s.localSeen \ {m.ident}
  BY <1>3
<1> HIDE DEF r, seen
<1>8. GatewayOK(r)
  BY <1>2, <1>3, <1>4, <1>6 DEF GatewayOK
<1>9. LocalServed(s) => LocalServed(r)
  BY <1>2, <1>3, <1>6, <1>7 DEF LocalServed
<1>10. LanStep(s, r)
  BY <1>2, <1>6, <1>8, <1>9 DEF LanStep
<1>11. Erased(s, r, {m.ident})
  BY <1>2, <1>6 DEF Erased
<1>12. MapStep(s, r)
  BY <1>1, <1>11 DEF MapStep
<1>13. {Tunnelled("BYEBYE", m.ident, to)} \subseteq OutMessage
  BY <1>1 DEF Tunnelled, OutMessage
<1> QED  BY <1>5, <1>6, <1>10, <1>12, <1>13 DEF t

\* onPeerState of a node on the LAN.
LEMMA ReceivePeerStateFacts ==
    ASSUME NEW s, GatewayOK(s), NEW m \in LanMessage, NEW to \in NodeId \cup {NoNode}
    PROVE  /\ LanStep(s, ReceivePeerState(s, m, to).gateway)
           /\ MapStep(s, ReceivePeerState(s, m, to).gateway)
           /\ ReceivePeerState(s, m, to).out \subseteq OutMessage
           /\ ReceivePeerState(s, m, to).gateway.local
                  = UpdateTimeout(s.local, m.ident, m.ttl)
<1> DEFINE t == UpdateTimeout(s.local, m.ident, m.ttl)
           seen == s.localSeen \cup {m.ident}
           E == [s.endpointOf EXCEPT ![m.ident] = m.endpoint]
           N == [s.nodeAt EXCEPT ![m.endpoint] = m.ident]
           r == [s EXCEPT !.endpointOf = E, !.nodeAt = N, !.localSeen = seen, !.local = t]
<1>1. m.ident \in NodeId /\ m.endpoint \in Endpoint /\ m.ttl \in Int
  <2>1. m.ident \in NodeId /\ m.endpoint \in Endpoint /\ m.ttl \in Ttl
    BY DEF LanMessage
  <2>2. m.ttl \in Nat
    BY <2>1, TtlAssumption
  <2> QED  BY <2>1, <2>2
<1>2. /\ GoodTracker(t) /\ t \in Tracker /\ Tracked(t) = Tracked(s.local) \cup {m.ident}
      /\ Scheduled(t)
  BY <1>1, UpdateFacts, GatewayMembers DEF GoodTracker
<1>3. /\ seen \in SUBSET NodeId /\ E \in [NodeId -> Endpoint \cup {NoEndpoint}]
      /\ N \in [Endpoint -> NodeId \cup {NoNode}] /\ GoodTracker(s.remote) /\ s \in GatewayState
  BY <1>1, GatewayMembers DEF GatewayOK
<1>4. ReceivePeerState(s, m, to).gateway = r
  BY DEF ReceivePeerState, Result
<1>5. ReceivePeerState(s, m, to).out
        = {Tunnelled(IF to = NoNode THEN "BROADCAST" ELSE "UNICAST", m.ident, to)}
  BY DEF ReceivePeerState, Result
<1>6. seen = s.localSeen \cup {m.ident}
  OBVIOUS
<1>7. Entered(s, r, m.ident, m.endpoint) <=> r.endpointOf = E /\ r.nodeAt = N
  BY DEF Entered
<1> HIDE DEF t, seen, E, N
<1>8. /\ r \in GatewayState /\ r.local = t /\ r.localSeen = seen
      /\ r.phase = s.phase /\ r.armed = s.armed
      /\ r.surrogates = s.surrogates /\ r.measurers = s.measurers
      /\ r.remote = s.remote /\ r.remoteSeen = s.remoteSeen
      /\ r.endpointOf = E /\ r.nodeAt = N
  BY <1>2, <1>3 DEF GatewayState
<1> HIDE DEF r
<1>9. GatewayOK(r)
  BY <1>2, <1>3, <1>8 DEF GatewayOK
<1>10. LocalServed(s) => LocalServed(r)
  BY <1>2, <1>6, <1>8 DEF LocalServed
<1>11. LanStep(s, r)
  BY <1>8, <1>9, <1>10 DEF LanStep
<1>12. MapStep(s, r)
  BY <1>1, <1>7, <1>8 DEF MapStep
<1>13. ReceivePeerState(s, m, to).out \subseteq OutMessage
  BY <1>1, <1>5 DEF Tunnelled, OutMessage
<1> QED  BY <1>4, <1>8, <1>11, <1>12, <1>13 DEF t

\* Nothing happened.
LEMMA LanStepRefl ==
    ASSUME NEW s, GatewayOK(s)
    PROVE  LanStep(s, s) /\ MapStep(s, s)
BY DEF LanStep, MapStep, SameMaps

\* handleStateMessage: a message is ignored, a byebye or a sign of life.
LEMMA StateMessageFacts ==
    ASSUME NEW s, GatewayOK(s), NEW m \in LanMessage, NEW to \in NodeId \cup {NoNode}
    PROVE  /\ LanStep(s, HandleStateMessage(s, m, to).gateway)
           /\ MapStep(s, HandleStateMessage(s, m, to).gateway)
           /\ HandleStateMessage(s, m, to).out \subseteq OutMessage
<1> DEFINE ignored == HasRemoteNodeSurrogate(s, m.ident) \/ m.type = "other"
<1>1. CASE ignored
  <2>1. HandleStateMessage(s, m, to) = Result(s, {})
    BY <1>1 DEF HandleStateMessage
  <2> QED  BY <2>1, LanStepRefl DEF Result
<1>2. CASE ~ignored /\ m.type = "byebye"
  <2>1. HandleStateMessage(s, m, to) = ReceiveByeBye(s, m, to)
    BY <1>2 DEF HandleStateMessage
  <2> QED  BY <2>1, ReceiveByeByeFacts
<1>3. CASE ~ignored /\ m.type # "byebye"
  <2>1. HandleStateMessage(s, m, to) = ReceivePeerState(s, m, to)
    BY <1>3 DEF HandleStateMessage
  <2> QED  BY <2>1, ReceivePeerStateFacts
<1> QED  BY <1>1, <1>2, <1>3

\* A ping enters at most its sender, a pong nobody.
LEMMA MeasurementFacts ==
    ASSUME NEW s, GatewayOK(s), NEW m \in Measurement, NEW to \in NodeId,
           NEW r, r \in IF m.type = "pong" THEN {HandlePong(s, m, to)}
                        ELSE {HandlePing(s, m, to, id) : id \in SendersOf(s, m.from)}
    PROVE  /\ LanStep(s, r.gateway) /\ MapStep(s, r.gateway)
           /\ r.out \subseteq OutMessage
           /\ r.gateway.local = s.local /\ r.gateway.localSeen = s.localSeen
           /\ \A x \in r.out : x.type # "BYEBYE"
<1>1. m.from \in Endpoint /\ s.nodeAt[m.from] \in NodeId \cup {NoNode}
  BY GatewayMembers DEF Measurement
<1>2. CASE m.type = "pong"
  <2>1. r = HandlePong(s, m, to)
    BY <1>2
  <2>2. r.gateway = s
    BY <2>1 DEF HandlePong, Result
  <2>3. r.out = {} \/ (s.nodeAt[m.from] # NoNode
                       /\ r.out = {Tunnelled("MEASUREMENT_PONG", s.nodeAt[m.from], to)})
    BY <2>1 DEF HandlePong, Result
  <2>4. r.out \subseteq OutMessage /\ \A x \in r.out : x.type # "BYEBYE"
    BY <1>1, <2>3 DEF Tunnelled, OutMessage
  <2> QED  BY <2>2, <2>4, LanStepRefl
<1>3. CASE m.type # "pong"
  <2>1. PICK id \in SendersOf(s, m.from) : r = HandlePing(s, m, to, id)
    BY <1>3
  <2>2. id \in NodeId
    BY <1>1, <2>1, MadeUpAssumption DEF SendersOf
  <2>3. r.out = {Tunnelled("MEASUREMENT_PING", id, to)}
    BY <2>1 DEF HandlePing, Result
  <2>4. r.out \subseteq OutMessage /\ \A x \in r.out : x.type # "BYEBYE"
    BY <2>2, <2>3 DEF Tunnelled, OutMessage
  <2>5. CASE id = s.nodeAt[m.from]
    <3>1. r.gateway = s
      BY <2>1, <2>5 DEF HandlePing, Result
    <3> QED  BY <2>4, <3>1, LanStepRefl
  <2>6. CASE id # s.nodeAt[m.from]
    <3> DEFINE E == [s.endpointOf EXCEPT ![id] = m.from]
               N == [s.nodeAt EXCEPT ![m.from] = id]
               u == [s EXCEPT !.nodeAt = N, !.endpointOf = E]
    <3>1. r.gateway = u
      BY <2>1, <2>6 DEF HandlePing, Result
    <3>2. /\ E \in [NodeId -> Endpoint \cup {NoEndpoint}]
          /\ N \in [Endpoint -> NodeId \cup {NoNode}]
          /\ GoodTracker(s.remote) /\ GoodTracker(s.local) /\ s \in GatewayState
      BY <1>1, <2>2, GatewayMembers DEF GatewayOK
    <3>3. Entered(s, u, id, m.from) <=> u.endpointOf = E /\ u.nodeAt = N
      BY DEF Entered
    <3> HIDE DEF E, N
    <3>4. /\ u \in GatewayState /\ u.local = s.local /\ u.localSeen = s.localSeen
          /\ u.phase = s.phase /\ u.armed = s.armed
          /\ u.surrogates = s.surrogates /\ u.measurers = s.measurers
          /\ u.remote = s.remote /\ u.remoteSeen = s.remoteSeen
          /\ u.endpointOf = E /\ u.nodeAt = N
      BY <3>2 DEF GatewayState
    <3> HIDE DEF u
    <3>5. GatewayOK(u) /\ (LocalServed(s) => LocalServed(u))
      BY <3>2, <3>4 DEF GatewayOK, LocalServed
    <3>6. LanStep(s, u)
      BY <3>4, <3>5 DEF LanStep
    <3>7. MapStep(s, u)
      BY <1>1, <2>2, <3>3, <3>4 DEF MapStep
    <3> QED  BY <2>4, <3>1, <3>4, <3>6, <3>7
  <2> QED  BY <2>5, <2>6
<1> QED  BY <1>2, <1>3

\* The timer of the local tracker.
LEMMA PruneLocalFacts ==
    ASSUME NEW s, GatewayOK(s), NEW r,
           r = [ForgetLocal(s, Expired(s.local)) EXCEPT !.local     = Prune(@),
                                                        !.localSeen = @ \ Expired(s.local)]
    PROVE  /\ LanStep(s, r) /\ MapStep(s, r) /\ r.local = Prune(s.local)
           /\ Erased(s, r, Expired(s.local)) /\ r.armed = s.armed
           /\ r.localSeen \subseteq s.localSeen /\ Tracked(r.local) \subseteq Tracked(s.local)
<1> DEFINE over == Expired(s.local)
           f == ForgetLocal(s, over)
           t == Prune(s.local)
           seen == s.localSeen \ over
<1>1. GoodTracker(s.local) /\ GoodTracker(s.remote) /\ Tracked(s.local) \subseteq NodeId
  BY GatewayMembers, EntryFacts
<1>2. /\ GoodTracker(t) /\ t \in Tracker /\ Scheduled(t)
      /\ over \subseteq Tracked(s.local) /\ Tracked(t) = Tracked(s.local) \ over
  BY <1>1, PruneFacts DEF GoodTracker
<1>3. over \in SUBSET NodeId
  BY <1>1, <1>2
<1>4. /\ f \in GatewayState /\ Erased(s, f, over)
      /\ f.phase = s.phase /\ f.armed = s.armed
      /\ f.surrogates = s.surrogates /\ f.measurers = s.measurers
      /\ f.local = s.local /\ f.remote = s.remote
      /\ f.localSeen = s.localSeen /\ f.remoteSeen = s.remoteSeen
  BY <1>3, ForgetLocalFacts
<1>5. seen \in SUBSET NodeId /\ seen = s.localSeen \ over
  BY GatewayMembers
<1>6. r = [f EXCEPT !.local = t, !.localSeen = seen]
  BY <1>4
<1> HIDE DEF f, t, seen, over
<1>7. /\ r \in GatewayState /\ r.local = t /\ r.localSeen = seen
      /\ r.phase = f.phase /\ r.armed = f.armed
      /\ r.surrogates = f.surrogates /\ r.measurers = f.measurers
      /\ r.remote = f.remote /\ r.remoteSeen = f.remoteSeen
      /\ r.endpointOf = f.endpointOf /\ r.nodeAt = f.nodeAt
  BY <1>2, <1>4, <1>5, <1>6 DEF GatewayState
<1>8. GatewayOK(r)
  BY <1>1, <1>2, <1>4, <1>7 DEF GatewayOK
<1>9. LocalServed(s) => LocalServed(r)
  BY <1>2, <1>4, <1>5, <1>7 DEF LocalServed
<1>10. LanStep(s, r)
  BY <1>4, <1>7, <1>8, <1>9 DEF LanStep
<1>11. Erased(s, r, over)
  BY <1>4, <1>7 DEF Erased
<1>12. MapStep(s, r)
  BY <1>3, <1>11 DEF MapStep
<1> QED  BY <1>2, <1>4, <1>5, <1>7, <1>10, <1>11, <1>12 DEF t, over

\* What a message from the tunnel leaves alone, and what it does.
TunnelStep(s, m, r) ==
    /\ GatewayOK(r)
    /\ r.phase = s.phase /\ r.armed = s.armed /\ SameMaps(s, r)
    /\ r.local = s.local /\ r.localSeen = s.localSeen
    /\ RemoteServed(s) => RemoteServed(r)
    /\ r.surrogates = IF m.type = "MEASUREMENT_PING" THEN s.surrogates
                      ELSE s.surrogates \cup {m.from}
    /\ CASE m.type \in {"BROADCAST", "UNICAST"} ->
              r.remote = UpdateTimeout(s.remote, m.from, m.ttl)
         [] m.type = "BYEBYE" -> r.remote = Untrack(s.remote, m.from)
         [] OTHER -> r.remote = s.remote /\ r.remoteSeen = s.remoteSeen

\* forwardMessageLocally of a message that has a destination.
LEMMA ForwardFacts ==
    ASSUME NEW s, GatewayOK(s), NEW m \in TunnelMessage, Routable(s, m)
    PROVE  TunnelStep(s, m, ForwardMessageLocally(s, m))
<1> DEFINE o == OpenSockets(s, m)
           r == ForwardMessageLocally(s, m)
           t == UpdateTimeout(s.remote, m.from, m.ttl)
           v == Untrack(s.remote, m.from)
<1>1. /\ m.from \in NodeId /\ m.ttl \in Int
      /\ m.type \in {"BROADCAST", "BYEBYE", "UNICAST", "MEASUREMENT_PING", "MEASUREMENT_PONG"}
  <2>1. /\ m.from \in NodeId /\ m.ttl \in Ttl
        /\ m.type \in {"BROADCAST", "BYEBYE", "UNICAST", "MEASUREMENT_PING",
                       "MEASUREMENT_PONG"}
    BY DEF TunnelMessage
  <2>2. m.ttl \in Nat
    BY <2>1, TtlAssumption
  <2> QED  BY <2>1, <2>2
<1>2. /\ GoodTracker(s.local) /\ GoodTracker(s.remote)
      /\ s.surrogates \subseteq NodeId /\ s.measurers \subseteq NodeId /\ s.remoteSeen \subseteq NodeId
  BY GatewayMembers
<1>3. /\ GoodTracker(t) /\ t \in Tracker /\ Tracked(t) = Tracked(s.remote) \cup {m.from}
      /\ Scheduled(t)
  BY <1>1, <1>2, UpdateFacts DEF GoodTracker
<1>4. /\ GoodTracker(v) /\ v \in Tracker /\ Tracked(v) = Tracked(s.remote) \ {m.from}
      /\ (Scheduled(s.remote) => Scheduled(v))
  BY <1>2, UntrackFacts DEF GoodTracker
<1>5. s \in GatewayState
  BY DEF GatewayOK
<1>6. /\ o \in GatewayState
      /\ o.phase = s.phase /\ o.armed = s.armed
      /\ o.endpointOf = s.endpointOf /\ o.nodeAt = s.nodeAt
      /\ o.local = s.local /\ o.localSeen = s.localSeen
      /\ o.remote = s.remote /\ o.remoteSeen = s.remoteSeen
      /\ o.surrogates = IF m.type = "MEASUREMENT_PING" THEN s.surrogates
                        ELSE s.surrogates \cup {m.from}
  <2>1. CASE m.type = "MEASUREMENT_PING"
    <3> DEFINE x == s.measurers \cup {m.from}
    <3>1. o = [s EXCEPT !.measurers = x] /\ x \in SUBSET NodeId
      BY <1>1, <1>2, <2>1 DEF OpenSockets
    <3> HIDE DEF x, o
    <3> QED  BY <1>5, <2>1, <3>1 DEF GatewayState
  <2>2. CASE m.type # "MEASUREMENT_PING"
    <3> DEFINE x == s.surrogates \cup {m.from}
    <3>1. o = [s EXCEPT !.surrogates = x] /\ x \in SUBSET NodeId
      BY <1>1, <1>2, <2>2 DEF OpenSockets
    <3>2. x = s.surrogates \cup {m.from}
      OBVIOUS
    <3> HIDE DEF x, o
    <3> QED  BY <1>5, <2>2, <3>1, <3>2 DEF GatewayState
  <2> QED  BY <2>1, <2>2
<1> HIDE DEF o, t, v
<1>7. CASE m.type \in {"BROADCAST", "UNICAST"}
  <2> DEFINE seen == s.remoteSeen \cup {m.from}
  <2>1. r = ObserveRemotePeerState(o, m)
    BY <1>7 DEF ForwardMessageLocally, o
  <2>2. r = [o EXCEPT !.remoteSeen = seen, !.remote = t]
    BY <1>6, <2>1 DEF ObserveRemotePeerState, t
  <2>3. seen \in SUBSET NodeId /\ seen = s.remoteSeen \cup {m.from}
    BY <1>1, <1>2
  <2> HIDE DEF seen, r
  <2>4. /\ r \in GatewayState /\ r.remote = t /\ r.remoteSeen = seen
        /\ r.phase = o.phase /\ r.armed = o.armed /\ r.surrogates = o.surrogates
        /\ r.endpointOf = o.endpointOf /\ r.nodeAt = o.nodeAt
        /\ r.local = o.local /\ r.localSeen = o.localSeen
    BY <1>3, <1>6, <2>2, <2>3 DEF GatewayState
  <2>5. GatewayOK(r)
    BY <1>2, <1>3, <1>6, <2>4 DEF GatewayOK
  <2>6. RemoteServed(s) => RemoteServed(r)
    BY <1>3, <1>6, <2>3, <2>4 DEF RemoteServed
  <2> QED  BY <1>6, <1>7, <2>4, <2>5, <2>6 DEF TunnelStep, SameMaps, t, r
<1>8. CASE m.type = "BYEBYE"
  <2> DEFINE seen == s.remoteSeen \ {m.from}
  <2>1. r = OnRemotePeerLeft(o, m)
    BY <1>8 DEF ForwardMessageLocally, Routable, Multicast, o
  <2>2. r = [o EXCEPT !.remoteSeen = seen, !.remote = v]
    BY <1>6, <2>1 DEF OnRemotePeerLeft, v
  <2>3. seen \in SUBSET NodeId /\ seen = s.remoteSeen \ {m.from}
    BY <1>1, <1>2
  <2> HIDE DEF seen, r
  <2>4. /\ r \in GatewayState /\ r.remote = v /\ r.remoteSeen = seen
        /\ r.phase = o.phase /\ r.armed = o.armed /\ r.surrogates = o.surrogates
        /\ r.endpointOf = o.endpointOf /\ r.nodeAt = o.nodeAt
        /\ r.local = o.local /\ r.localSeen = o.localSeen
    BY <1>4, <1>6, <2>2, <2>3 DEF GatewayState
  <2>5. GatewayOK(r)
    BY <1>2, <1>4, <1>6, <2>4 DEF GatewayOK
  <2>6. RemoteServed(s) => RemoteServed(r)
    BY <1>4, <1>6, <2>3, <2>4 DEF RemoteServed
  <2> QED  BY <1>6, <1>8, <2>4, <2>5, <2>6 DEF TunnelStep, SameMaps, v, r
<1>9. CASE m.type \in {"MEASUREMENT_PING", "MEASUREMENT_PONG"}
  <2>1. r = o
    BY <1>9 DEF ForwardMessageLocally, o
  <2>2. GatewayOK(o) /\ (RemoteServed(s) => RemoteServed(o))
    BY <1>2, <1>6 DEF GatewayOK, RemoteServed
  <2> QED  BY <1>6, <1>9, <2>1, <2>2 DEF TunnelStep, SameMaps
<1> QED  BY <1>1, <1>7, <1>8, <1>9

-----------------------------------------------------------------------------
(* The two maps of a gateway and what was ever recorded in them.            *)

Recorded(s, C) ==
    \A n \in NodeId : HasLocalNode(s, n) => <<n, s.endpointOf[n]>> \in C

Agree(s, C) ==
    \A n \in NodeId, e \in Endpoint :
        (\A c \in C : c[1] = n <=> c[2] = e) => (s.endpointOf[n] = e <=> s.nodeAt[e] = n)

LocalPairs(s) == {<<n, s.endpointOf[n]>> : n \in {q \in NodeId : HasLocalNode(s, q)}}

\* An entry only disturbs the agreement of pairs that are no longer exclusive.
LEMMA MapStepAgrees ==
    ASSUME NEW s, GatewayOK(s), NEW r, GatewayOK(r), MapStep(s, r),
           NEW C, NEW D, C \subseteq D, LocalPairs(r) \subseteq D,
           Recorded(s, C), Agree(s, C)
    PROVE  Recorded(r, D) /\ Agree(r, D)
<1>1. Recorded(r, D)
  BY DEF Recorded, LocalPairs
<1>2. ASSUME NEW n \in NodeId, NEW e \in Endpoint, \A c \in D : c[1] = n <=> c[2] = e
      PROVE  r.endpointOf[n] = e <=> r.nodeAt[e] = n
  <2>1. s.endpointOf[n] = e <=> s.nodeAt[e] = n
    BY <1>2 DEF Agree
  <2>2. /\ s.endpointOf \in [NodeId -> Endpoint \cup {NoEndpoint}]
        /\ s.nodeAt \in [Endpoint -> NodeId \cup {NoNode}]
    BY GatewayMembers
  <2>3. CASE SameMaps(s, r)
    BY <2>1, <2>3 DEF SameMaps
  <2>4. ASSUME NEW a \in NodeId, NEW b \in Endpoint, Entered(s, r, a, b)
        PROVE  r.endpointOf[n] = e <=> r.nodeAt[e] = n
    <3>1. r.endpointOf[a] = b /\ b # NoEndpoint
      BY <2>2, <2>4, NoEndpointAssumption DEF Entered
    <3>2. <<a, b>> \in D
      BY <1>1, <3>1 DEF Recorded, HasLocalNode
    <3>3. a = n <=> b = e
      <4>1. <<a, b>>[1] = a /\ <<a, b>>[2] = b
        OBVIOUS
      <4> QED  BY <1>2, <3>2, <4>1
    <3> QED  BY <2>1, <2>2, <2>4, <3>3 DEF Entered
  <2>5. ASSUME NEW nodes \in SUBSET NodeId, Erased(s, r, nodes)
        PROVE  r.endpointOf[n] = e <=> r.nodeAt[e] = n
    <3>1. e # NoEndpoint /\ n # NoNode
      BY NoEndpointAssumption, NoNodeAssumption
    <3>2. CASE n \in nodes
      <4>1. r.endpointOf[n] # e
        BY <2>5, <3>1, <3>2 DEF Erased
      <4>2. r.nodeAt[e] # n
        BY <2>1, <2>5, <3>1, <3>2 DEF Erased
      <4> QED  BY <4>1, <4>2
    <3>3. CASE n \notin nodes
      <4>1. r.endpointOf[n] = s.endpointOf[n]
        BY <2>5, <3>3 DEF Erased
      <4>2. \A k \in nodes : s.endpointOf[k] # e
        <5> SUFFICES ASSUME NEW k \in nodes, s.endpointOf[k] = e PROVE FALSE
          OBVIOUS
        <5>1. <<k, e>> \in D
          BY <3>1 DEF Recorded, HasLocalNode
        <5>2. <<k, e>>[1] = k /\ <<k, e>>[2] = e
          OBVIOUS
        <5>3. k = n
          BY <1>2, <5>1, <5>2
        <5> QED  BY <3>3, <5>3
      <4>3. r.nodeAt[e] = s.nodeAt[e]
        BY <2>5, <4>2 DEF Erased
      <4> QED  BY <2>1, <4>1, <4>3
    <3> QED  BY <3>2, <3>3
  <2> QED  BY <2>3, <2>4, <2>5 DEF MapStep
<1>3. Agree(r, D)
  BY <1>2 DEF Agree
<1> QED  BY <1>1, <1>3

\* The invariant of the maps, gateway by gateway.
LEMMA MapsByGateway ==
    MapsInv <=> \A g \in Gateway : Recorded(gw[g], claims[g]) /\ Agree(gw[g], claims[g])
BY DEF MapsInv, ClaimsInv, MapsAgree, Recorded, Agree

\* The maps after a step, gateway by gateway.
LEMMA MapsByGatewayNext ==
    MapsInv' <=> \A g \in Gateway : Recorded(gw'[g], claims'[g]) /\ Agree(gw'[g], claims'[g])
BY DEF MapsInv, ClaimsInv, MapsAgree, Recorded, Agree, HasLocalNode

\* Claim(g) adds what g knows now.
LEMMA ClaimFacts ==
    ASSUME SharedTypes, NEW g \in Gateway, Claim(g), GatewayOK(gw'[g])
    PROVE  /\ claims' = [claims EXCEPT ![g] = claims[g] \cup LocalPairs(gw'[g])]
           /\ LocalPairs(gw'[g]) \subseteq NodeId \X Endpoint
<1>1. LocalPairs(gw'[g]) \subseteq NodeId \X Endpoint
  <2> DEFINE s == gw'[g]
  <2>1. s.endpointOf \in [NodeId -> Endpoint \cup {NoEndpoint}]
    BY GatewayMembers
  <2> HIDE DEF s
  <2>2. \A n \in NodeId : HasLocalNode(s, n) => s.endpointOf[n] \in Endpoint
    BY <2>1 DEF HasLocalNode
  <2>3. LocalPairs(s) \subseteq NodeId \X Endpoint
    BY <2>2 DEF LocalPairs
  <2> QED  BY <2>3 DEF s
<1>2. claims' = [claims EXCEPT ![g] = claims[g] \cup LocalPairs(gw'[g])]
  BY DEF Claim, LocalPairs, SharedTypes
<1> QED  BY <1>1, <1>2

-----------------------------------------------------------------------------
(* What a step of one gateway leaves to show.                               *)

\* The invariants that speak of each gateway by itself.
LEMMA OneGateway ==
    ASSUME GatewaysInv, SeenInv, NEW g \in Gateway, NEW r, GatewayOK(r),
           gw' = [gw EXCEPT ![g] = r], lan' = lan,
           gateways \subseteq gateways', gateways' \subseteq gateways \cup {g},
           r.phase = "running" => g \in gateways',
           r.phase = "new" => gw[g].phase = "new" /\ g \notin gateways' /\ Fresh(r),
           LocalServed(r), RemoteServed(r)
    PROVE  /\ GatewaysInv' /\ SeenInv'
           /\ gw'[g] = r /\ \A h \in Gateway : h # g => gw'[h] = gw[h]
<1>1. /\ gw'[g] = r /\ \A h \in Gateway : h # g => gw'[h] = gw[h]
  BY DEF GatewaysInv
<1>2. gw' \in [Gateway -> GatewayState]
  BY DEF GatewaysInv, GatewayOK
<1>3. \A h \in Gateway : GatewayOK(gw'[h])
  BY <1>1 DEF GatewaysInv
<1>4. \A h \in Gateway : gw'[h].phase = "running" => h \in gateways'
  BY <1>1 DEF GatewaysInv, Running
<1>5. GatewaysInv'
  BY <1>2, <1>3, <1>4 DEF GatewaysInv, Running
<1>6. \A h \in Gateway : gw'[h].phase = "new" => h \notin gateways' /\ Fresh(gw'[h])
  <2> SUFFICES ASSUME NEW h \in Gateway, gw'[h].phase = "new"
               PROVE  h \notin gateways' /\ Fresh(gw'[h])
    OBVIOUS
  <2>1. CASE h = g
    BY <1>1, <2>1
  <2>2. CASE h # g
    BY <1>1, <2>2 DEF SeenInv, FreshInv
  <2> QED  BY <2>1, <2>2
<1>7. ASSUME NEW p \in lan, NEW h \in p.present PROVE gw'[h].phase # "new"
  <2>1. gw[h].phase # "new"
    BY <1>7 DEF SeenInv, FreshInv
  <2>2. CASE h = g
    BY <1>1, <2>1, <2>2
  <2>3. CASE h # g
    BY <2>1, <2>3 DEF GatewaysInv
  <2> QED  BY <2>2, <2>3
<1>8. FreshInv'
  BY <1>6, <1>7 DEF FreshInv
<1>9. \A h \in Gateway : LocalServed(gw'[h]) /\ RemoteServed(gw'[h])
  BY <1>1 DEF SeenInv
<1> QED  BY <1>1, <1>5, <1>8, <1>9 DEF SeenInv

\* What gateways know of remote nodes stays as it is.
LEMMA RemoteFrame ==
    ASSUME SharedTypes, RemoteInv, FreshInv,
           lan' = lan, unbacked' = unbacked, last' = last,
           \A g \in Gateway : /\ gw'[g].surrogates = gw[g].surrogates
                              /\ gw'[g].remote = gw[g].remote
                              /\ gw'[g].phase = "running" => gw[g].phase \in {"new", "running"}
    PROVE  RemoteInv'
<1>1. \A p \in lan : p.present \subseteq Gateway
  BY DEF SharedTypes
<1>2. BackedInv'
  BY DEF RemoteInv, BackedInv
<1>3. EchoInv'
  BY <1>1 DEF RemoteInv, EchoInv
<1>4. UntrackedHasLeft'
  BY DEF RemoteInv, UntrackedHasLeft
<1>5. NoEcho'
  <2> SUFFICES ASSUME NEW p \in lan, NEW g \in p.present, gw'[g].phase = "running",
                      <<g, p.msg.ident>> \notin unbacked
               PROVE  p.msg.ident \in gw'[g].surrogates
    BY DEF NoEcho, Running, HasRemoteNodeSurrogate
  <2>1. g \in Gateway /\ gw[g].phase # "new"
    BY <1>1 DEF FreshInv
  <2>2. gw[g].phase = "running"
    BY <2>1
  <2> QED  BY <2>1, <2>2 DEF RemoteInv, NoEcho, Running, HasRemoteNodeSurrogate
<1> QED  BY <1>2, <1>3, <1>4, <1>5 DEF RemoteInv

\* No gateway leaves "stopped", and whoever rearms finds its surrogate.
LEMMA LifeFrame ==
    ASSUME LifeInv, dead' = dead,
           \A g \in Gateway : gw[g].phase = "stopped" => gw'[g].phase = "stopped",
           \A gn \in rearm' : \/ gn[2] \in gw'[gn[1]].surrogates
                              \/ gw'[gn[1]].phase = "stopped"
    PROVE  LifeInv'
<1>1. RearmInv'
  BY DEF RearmInv
<1>2. NoNullRearm'
  BY DEF LifeInv, NoNullRearm
<1> QED  BY <1>1, <1>2 DEF LifeInv

\* The maps of other gateways are as they were.
LEMMA MapsFrame ==
    ASSUME GatewaysInv, SharedTypes, MapsInv, NEW g \in Gateway,
           GatewayOK(gw'[g]), MapStep(gw[g], gw'[g]),
           \A h \in Gateway : h # g => gw'[h] = gw[h],
           \A h \in Gateway : h # g => claims'[h] = claims[h],
           claims[g] \subseteq claims'[g], LocalPairs(gw'[g]) \subseteq claims'[g]
    PROVE  MapsInv'
<1>1. \A h \in Gateway : Recorded(gw[h], claims[h]) /\ Agree(gw[h], claims[h])
  BY MapsByGateway
<1>2. GatewayOK(gw[g])
  BY DEF GatewaysInv
<1>3. Recorded(gw'[g], claims'[g]) /\ Agree(gw'[g], claims'[g])
  BY <1>1, <1>2, MapStepAgrees
<1>4. \A h \in Gateway : Recorded(gw'[h], claims'[h]) /\ Agree(gw'[h], claims'[h])
  BY <1>1, <1>3
<1> QED  BY <1>4, MapsByGatewayNext

\* Whatever a handler of the LAN does to one gateway.
LEMMA LanAction ==
    ASSUME Inv, NEW g \in Gateway, NEW r,
           LanStep(gw[g], r), MapStep(gw[g], r), gw' = [gw EXCEPT ![g] = r],
           r.phase = "new" => Fresh(r),
           NEW D, claims' = [claims EXCEPT ![g] = D],
           claims[g] \subseteq D, LocalPairs(r) \subseteq D, D \subseteq NodeId \X Endpoint,
           rearm' \subseteq {g} \X gw[g].surrogates, OutTypes',
           UNCHANGED <<scenario, gateways, lan, dead, faults, unbacked, last>>
    PROVE  Inv'
<1>1. /\ GatewaysInv /\ SeenInv /\ SharedTypes /\ RemoteInv /\ MapsInv /\ LifeInv
  BY DEF Inv
<1>2. GatewayOK(gw[g]) /\ LocalServed(gw[g]) /\ RemoteServed(gw[g])
  BY <1>1 DEF GatewaysInv, SeenInv
<1>3. /\ GatewayOK(r) /\ r.phase = gw[g].phase /\ r.surrogates = gw[g].surrogates
      /\ r.remote = gw[g].remote /\ r.remoteSeen = gw[g].remoteSeen
      /\ LocalServed(r)
  BY <1>2 DEF LanStep
<1>4. RemoteServed(r)
  BY <1>2, <1>3 DEF RemoteServed
<1>5. r.phase = "running" => g \in gateways
  BY <1>1, <1>3 DEF GatewaysInv, Running
<1>6. r.phase = "new" => g \notin gateways
  BY <1>1, <1>3 DEF SeenInv, FreshInv
<1>7. /\ GatewaysInv' /\ SeenInv'
      /\ gw'[g] = r /\ \A h \in Gateway : h # g => gw'[h] = gw[h]
  <2>1. lan' = lan /\ gateways' = gateways
    OBVIOUS
  <2> QED  BY <1>1, <1>3, <1>4, <1>5, <1>6, <2>1, OneGateway
<1>8. /\ claims' \in [Gateway -> SUBSET (NodeId \X Endpoint)]
      /\ claims'[g] = D /\ \A h \in Gateway : h # g => claims'[h] = claims[h]
  BY <1>1 DEF SharedTypes
<1>9. rearm' \subseteq Gateway \X NodeId
  <2>1. gw[g].surrogates \subseteq NodeId
    BY <1>2, GatewayMembers
  <2> QED  BY <2>1
<1>10. SharedTypes'
  BY <1>1, <1>8, <1>9 DEF SharedTypes
<1>11. RemoteInv'
  <2>1. FreshInv
    BY <1>1 DEF SeenInv
  <2>2. lan' = lan /\ unbacked' = unbacked /\ last' = last
    OBVIOUS
  <2>3. \A h \in Gateway : /\ gw'[h].surrogates = gw[h].surrogates
                           /\ gw'[h].remote = gw[h].remote
                           /\ gw'[h].phase = gw[h].phase
    BY <1>3, <1>7
  <2> QED  BY <1>1, <2>1, <2>2, <2>3, RemoteFrame
<1>12. MapsInv'
  BY <1>1, <1>3, <1>7, <1>8, MapsFrame
<1>13. LifeInv'
  <2>1. \A h \in Gateway : gw[h].phase = "stopped" => gw'[h].phase = "stopped"
    BY <1>3, <1>7
  <2>2. \A gn \in rearm' : gn[2] \in gw'[gn[1]].surrogates
    BY <1>3, <1>7
  <2>3. dead' = dead
    OBVIOUS
  <2> QED  BY <1>1, <2>1, <2>2, <2>3, LifeFrame
<1> QED  BY <1>7, <1>10, <1>11, <1>12, <1>13 DEF Inv

-----------------------------------------------------------------------------
(* The handlers of the LAN.                                                 *)

\* What a handler sends has its type.
LEMMA NoteFacts ==
    ASSUME NEW g \in Gateway, NEW r, r.out \subseteq OutMessage, Note(g, r)
    PROVE  OutTypes'
BY DEF Note, OutTypes, OutMessage

\* Another receive is started or not.
LEMMA ArmFacts ==
    ASSUME NEW s, NEW u, LanStep(s, u), MapStep(s, u), NEW b \in BOOLEAN
    PROVE  LanStep(s, [u EXCEPT !.armed = b]) /\ MapStep(s, [u EXCEPT !.armed = b])
<1> DEFINE r == [u EXCEPT !.armed = b]
<1>1. u \in GatewayState /\ GoodTracker(u.local) /\ GoodTracker(u.remote)
  BY DEF LanStep, GatewayOK
<1>2. /\ r \in GatewayState /\ r.local = u.local /\ r.localSeen = u.localSeen
      /\ r.phase = u.phase /\ r.surrogates = u.surrogates /\ r.measurers = u.measurers
      /\ r.remote = u.remote /\ r.remoteSeen = u.remoteSeen
      /\ r.endpointOf = u.endpointOf /\ r.nodeAt = u.nodeAt
  BY <1>1 DEF GatewayState
<1> HIDE DEF r
<1>3. GatewayOK(r)
  BY <1>1, <1>2 DEF GatewayOK
<1>4. LocalServed(s) => LocalServed(r)
  BY <1>2 DEF LanStep, LocalServed
<1>5. LanStep(s, r)
  BY <1>2, <1>3, <1>4 DEF LanStep
<1>6. MapStep(s, r)
  BY <1>2, ZenonT(40) DEF MapStep, SameMaps, Entered, Erased
<1> QED  BY <1>5, <1>6 DEF r

\* LanAction for the handlers that record what they know.
LEMMA LanHandler ==
    ASSUME Inv, NEW g \in Gateway, NEW r,
           LanStep(gw[g], r), MapStep(gw[g], r), gw' = [gw EXCEPT ![g] = r],
           r.phase # "new", Claim(g),
           rearm' \subseteq {g} \X gw[g].surrogates, OutTypes',
           UNCHANGED <<scenario, gateways, lan, dead, faults, unbacked, last>>
    PROVE  Inv'
<1> DEFINE D == claims[g] \cup LocalPairs(r)
<1>1. SharedTypes /\ gw'[g] = r /\ GatewayOK(r)
  BY DEF Inv, GatewaysInv, LanStep
<1>2. claims' = [claims EXCEPT ![g] = D] /\ LocalPairs(r) \subseteq NodeId \X Endpoint
  BY <1>1, ClaimFacts
<1>3. claims[g] \subseteq NodeId \X Endpoint
  BY <1>1 DEF SharedTypes
<1>4. claims[g] \subseteq D /\ LocalPairs(r) \subseteq D /\ D \subseteq NodeId \X Endpoint
  BY <1>2, <1>3
<1> HIDE DEF D
<1> QED  BY <1>2, <1>4, LanAction

\* A multicast of the LAN reaches a gateway.
LEMMA ReceiveStep ==
    ASSUME Inv, NEW g \in Gateway, NEW m \in LanMessage, NEW inSubnet, Receive(g, m, inSubnet)
    PROVE  Inv'
<1> DEFINE r == IF inSubnet THEN HandleStateMessage(gw[g], m, NoNode) ELSE Result(gw[g], {})
           b == gw[g].phase = "running"
           x == [r.gateway EXCEPT !.armed = b]
<1>1. GatewayOK(gw[g]) /\ FreshInv
  BY DEF Inv, GatewaysInv, SeenInv
<1>2. LanStep(gw[g], r.gateway) /\ MapStep(gw[g], r.gateway) /\ r.out \subseteq OutMessage
  <2>1. CASE inSubnet
    BY <1>1, <2>1, StateMessageFacts
  <2>2. CASE ~inSubnet
    <3>1. r = Result(gw[g], {})
      BY <2>2
    <3>2. r.gateway = gw[g] /\ r.out = {}
      BY <3>1 DEF Result
    <3> HIDE DEF r
    <3> QED  BY <1>1, <3>2, LanStepRefl
  <2> QED  BY <2>1, <2>2
<1>3. gw' = [gw EXCEPT ![g] = x] /\ Note(g, r) /\ Claim(g) /\ gw[g].armed
  BY DEF Receive
<1>4. rearm' = {} /\ UNCHANGED <<scenario, gateways, lan, dead, faults, unbacked, last>>
  BY DEF Receive, IoIdle
<1>5. b \in BOOLEAN
  OBVIOUS
<1> HIDE DEF r, b
<1>6. LanStep(gw[g], x) /\ MapStep(gw[g], x)
  BY <1>2, <1>5, ArmFacts
<1> HIDE DEF x
<1>7. OutTypes'
  BY <1>2, <1>3, NoteFacts
<1>8. x.phase # "new"
  BY <1>1, <1>3, <1>6 DEF LanStep, FreshInv, Fresh
<1>9. rearm' \subseteq {g} \X gw[g].surrogates
  BY <1>4
<1> QED  BY <1>3, <1>4, <1>6, <1>7, <1>8, <1>9, LanHandler

\* A unicast reaches the state socket of a surrogate.
LEMMA ReceiveOnSurrogateStep ==
    ASSUME Inv, NEW g \in Gateway, NEW n \in NodeId, NEW m \in LanMessage,
           ReceiveOnSurrogate(g, n, m)
    PROVE  Inv'
<1> DEFINE r == HandleStateMessage(gw[g], m, n)
           x == r.gateway
<1>1. GatewayOK(gw[g]) /\ FreshInv
  BY DEF Inv, GatewaysInv, SeenInv
<1>2. LanStep(gw[g], x) /\ MapStep(gw[g], x) /\ r.out \subseteq OutMessage
  BY <1>1, StateMessageFacts
<1>3. gw' = [gw EXCEPT ![g] = x] /\ Note(g, r) /\ Claim(g) /\ n \in gw[g].surrogates
  BY DEF ReceiveOnSurrogate
<1>4. /\ rearm' \subseteq {<<g, n>>}
      /\ UNCHANGED <<scenario, gateways, lan, dead, faults, unbacked, last>>
  BY DEF ReceiveOnSurrogate
<1> HIDE DEF r, x
<1>5. OutTypes'
  BY <1>2, <1>3, NoteFacts
<1>6. x.phase # "new"
  BY <1>1, <1>2, <1>3 DEF LanStep, FreshInv, Fresh
<1>7. rearm' \subseteq {g} \X gw[g].surrogates
  BY <1>3, <1>4
<1> QED  BY <1>2, <1>3, <1>4, <1>5, <1>6, <1>7, LanHandler

\* A measurement reaches the socket of a surrogate.
LEMMA ReceiveMeasurementStep ==
    ASSUME Inv, NEW g \in Gateway, NEW n \in NodeId, NEW m \in Measurement,
           ReceiveMeasurement(g, n, m)
    PROVE  Inv'
<1>1. GatewayOK(gw[g]) /\ FreshInv
  BY DEF Inv, GatewaysInv, SeenInv
<1>2. PICK r : /\ r \in IF m.type = "pong" THEN {HandlePong(gw[g], m, n)}
                        ELSE {HandlePing(gw[g], m, n, id) : id \in SendersOf(gw[g], m.from)}
               /\ gw' = [gw EXCEPT ![g] = r.gateway] /\ Note(g, r)
  BY DEF ReceiveMeasurement
<1> DEFINE x == r.gateway
<1>3. LanStep(gw[g], x) /\ MapStep(gw[g], x) /\ r.out \subseteq OutMessage
  BY <1>1, <1>2, MeasurementFacts
<1>4. /\ Claim(g) /\ n \in gw[g].surrogates \cup gw[g].measurers /\ rearm' = {}
      /\ UNCHANGED <<scenario, gateways, lan, dead, faults, unbacked, last>>
  BY DEF ReceiveMeasurement, IoIdle
<1>5. OutTypes'
  BY <1>2, <1>3, NoteFacts
<1>6. gw' = [gw EXCEPT ![g] = x]
  BY <1>2
<1> HIDE DEF x
<1>7. x.phase # "new"
  BY <1>1, <1>3, <1>4 DEF LanStep, FreshInv, Fresh
<1>8. rearm' \subseteq {g} \X gw[g].surrogates
  BY <1>4
<1> QED  BY <1>3, <1>4, <1>5, <1>6, <1>7, <1>8, LanHandler

\* The timer of the local nodes fires.
LEMMA PruneLocalStep ==
    ASSUME Inv, NEW g \in Gateway, PruneLocal(g)
    PROVE  Inv'
<1> DEFINE s == gw[g]
           D == claims[g]
           x == [ForgetLocal(s, Expired(s.local)) EXCEPT !.local     = Prune(@),
                                                         !.localSeen = @ \ Expired(s.local)]
<1>1. GatewayOK(s) /\ FreshInv /\ SharedTypes /\ MapsInv
  BY DEF Inv, GatewaysInv, SeenInv
<1>2. gw' = [gw EXCEPT ![g] = x]
  BY DEF PruneLocal
<1>3. /\ rearm' = {} /\ forwarded' = {} /\ claims' = claims
      /\ UNCHANGED <<scenario, gateways, lan, dead, faults, unbacked, last>>
  BY DEF PruneLocal, IoIdle, history
<1>4. /\ LanStep(s, x) /\ MapStep(s, x) /\ Erased(s, x, Expired(s.local))
      /\ x.armed = s.armed /\ x.localSeen \subseteq s.localSeen
      /\ Tracked(x.local) \subseteq Tracked(s.local)
  BY <1>1, PruneLocalFacts, ZenonT(40)
<1> HIDE DEF x
<1>5. x.phase = "new" => Fresh(x)
  BY <1>1, <1>4 DEF FreshInv, Fresh, LanStep
<1>6. LocalPairs(x) \subseteq D
  <2>1. Recorded(s, D)
    BY <1>1, MapsByGateway
  <2>2. \A n \in NodeId : HasLocalNode(x, n) =>
            HasLocalNode(s, n) /\ x.endpointOf[n] = s.endpointOf[n]
    BY <1>4 DEF Erased, HasLocalNode
  <2> QED  BY <2>1, <2>2 DEF LocalPairs, Recorded
<1>7. claims' = [claims EXCEPT ![g] = D] /\ D \subseteq NodeId \X Endpoint
  BY <1>1, <1>3 DEF SharedTypes
<1>8. OutTypes' /\ rearm' \subseteq {g} \X gw[g].surrogates
  BY <1>3 DEF OutTypes
<1> HIDE DEF s, D
<1> QED  BY <1>2, <1>3, <1>4, <1>5, <1>6, <1>7, <1>8, LanAction DEF s, D

-----------------------------------------------------------------------------
(* Starting, stopping and the timer of the remote tracker.                  *)

\* Steps that do not touch the maps.
LEMMA MapsSame ==
    ASSUME MapsInv, claims' = claims, \A h \in Gateway : SameMaps(gw[h], gw'[h])
    PROVE  MapsInv'
<1>1. \A h \in Gateway : Recorded(gw[h], claims[h]) /\ Agree(gw[h], claims[h])
  BY MapsByGateway
<1>2. \A h \in Gateway : /\ gw'[h].endpointOf = gw[h].endpointOf
                         /\ gw'[h].nodeAt = gw[h].nodeAt
  BY DEF SameMaps
<1>3. \A h \in Gateway : Recorded(gw'[h], claims'[h]) /\ Agree(gw'[h], claims'[h])
  BY <1>1, <1>2 DEF Recorded, Agree, HasLocalNode
<1> QED  BY <1>3, MapsByGatewayNext

\* A gateway starts to listen.
LEMMA ListenStep ==
    ASSUME Inv, NEW g \in Gateway, Listen(g)
    PROVE  Inv'
<1> DEFINE s == gw[g]
           x == [s EXCEPT !.phase = "running", !.armed = TRUE]
<1>1. /\ GatewaysInv /\ SeenInv /\ SharedTypes /\ RemoteInv /\ MapsInv /\ LifeInv
      /\ GatewayOK(s) /\ s \in GatewayState
  BY DEF Inv, GatewaysInv, GatewayOK
<1>2. /\ gw' = [gw EXCEPT ![g] = x] /\ s.phase = "new" /\ gateways' = gateways \cup {g}
      /\ rearm = {} /\ rearm' = {} /\ forwarded' = {} /\ lan' = lan /\ dead' = dead
      /\ scenario' = scenario /\ faults' = faults
      /\ unbacked' = unbacked /\ last' = last /\ claims' = claims
  BY <1>1 DEF Listen, IoIdle, history, GatewaysInv
<1>3. /\ x \in GatewayState /\ x.local = s.local /\ x.localSeen = s.localSeen
      /\ x.phase = "running" /\ x.surrogates = s.surrogates
      /\ x.remote = s.remote /\ x.remoteSeen = s.remoteSeen
      /\ x.endpointOf = s.endpointOf /\ x.nodeAt = s.nodeAt
  BY <1>1 DEF GatewayState
<1>4. Fresh(s) /\ LocalServed(s) /\ RemoteServed(s)
  BY <1>1, <1>2 DEF SeenInv, FreshInv
<1> HIDE DEF x
<1>5. GatewayOK(x)
  BY <1>1, <1>3 DEF GatewayOK
<1>6. LocalServed(x) /\ RemoteServed(x)
  BY <1>3, <1>4 DEF Fresh, LocalServed, RemoteServed
<1>7. /\ GatewaysInv' /\ SeenInv'
      /\ gw'[g] = x /\ \A h \in Gateway : h # g => gw'[h] = gw[h]
  <2>1. x.phase # "new" /\ g \in gateways' /\ gateways \subseteq gateways'
        /\ gateways' \subseteq gateways \cup {g}
    BY <1>2, <1>3
  <2> HIDE DEF s
  <2> QED  BY <1>1, <1>2, <1>5, <1>6, <2>1, OneGateway
<1>8. SharedTypes' /\ OutTypes'
  BY <1>1, <1>2 DEF SharedTypes, OutTypes
<1>9. RemoteInv'
  <2>1. \A h \in Gateway : /\ gw'[h].surrogates = gw[h].surrogates
                           /\ gw'[h].remote = gw[h].remote
                           /\ gw'[h].phase = "running" => gw[h].phase \in {"new", "running"}
    BY <1>2, <1>3, <1>7
  <2>2. FreshInv
    BY <1>1 DEF SeenInv
  <2> QED  BY <1>1, <1>2, <2>1, <2>2, RemoteFrame
<1>10. MapsInv'
  <2>1. \A h \in Gateway : SameMaps(gw[h], gw'[h])
    BY <1>3, <1>7 DEF SameMaps
  <2> QED  BY <1>1, <1>2, <2>1, MapsSame
<1>11. LifeInv'
  <2>1. \A h \in Gateway : gw[h].phase = "stopped" => gw'[h].phase = "stopped"
    BY <1>2, <1>7
  <2> QED  BY <1>1, <1>2, <2>1, LifeFrame
<1> QED  BY <1>7, <1>8, <1>9, <1>10, <1>11 DEF Inv

\* stop_listening clears the flag of a gateway.
LEMMA StopFlagStep ==
    ASSUME Inv, NEW g \in Gateway, StopFlag(g)
    PROVE  Inv'
<1> DEFINE s == gw[g]
           x == [s EXCEPT !.phase = "stopping"]
<1>1. /\ GatewaysInv /\ SeenInv /\ SharedTypes /\ RemoteInv /\ MapsInv /\ LifeInv
      /\ GatewayOK(s) /\ s \in GatewayState
  BY DEF Inv, GatewaysInv, GatewayOK
<1>2. /\ gw' = [gw EXCEPT ![g] = x] /\ s.phase = "running" /\ gateways' = gateways
      /\ rearm' = rearm /\ forwarded' = {} /\ lan' = lan /\ dead' = dead
      /\ scenario' = scenario /\ faults' = faults
      /\ unbacked' = unbacked /\ last' = last /\ claims' = claims
  BY <1>1 DEF StopFlag, history, GatewaysInv
<1>3. /\ x \in GatewayState /\ x.local = s.local
      /\ x.phase = "stopping" /\ x.surrogates = s.surrogates
      /\ x.remote = s.remote
      /\ x.endpointOf = s.endpointOf /\ x.nodeAt = s.nodeAt
  BY <1>1 DEF GatewayState
<1>4. LocalServed(s) /\ RemoteServed(s)
  BY <1>1 DEF SeenInv
<1> HIDE DEF x
<1>5. GatewayOK(x)
  BY <1>1, <1>3 DEF GatewayOK
<1>6. LocalServed(x) /\ RemoteServed(x)
  BY <1>3, <1>4 DEF LocalServed, RemoteServed
<1>7. /\ GatewaysInv' /\ SeenInv'
      /\ gw'[g] = x /\ \A h \in Gateway : h # g => gw'[h] = gw[h]
  <2>1. x.phase # "new" /\ x.phase # "running"
    BY <1>3
  <2> HIDE DEF s
  <2> QED  BY <1>1, <1>2, <1>5, <1>6, <2>1, OneGateway
<1>8. SharedTypes' /\ OutTypes'
  BY <1>1, <1>2 DEF SharedTypes, OutTypes
<1>9. RemoteInv'
  <2>1. \A h \in Gateway : /\ gw'[h].surrogates = gw[h].surrogates
                           /\ gw'[h].remote = gw[h].remote
                           /\ gw'[h].phase = "running" => gw[h].phase \in {"new", "running"}
    BY <1>3, <1>7
  <2>2. FreshInv
    BY <1>1 DEF SeenInv
  <2> QED  BY <1>1, <1>2, <2>1, <2>2, RemoteFrame
<1>10. MapsInv'
  <2>1. \A h \in Gateway : SameMaps(gw[h], gw'[h])
    BY <1>3, <1>7 DEF SameMaps
  <2> QED  BY <1>1, <1>2, <2>1, MapsSame
<1>11. LifeInv'
  <2>1. \A h \in Gateway : gw[h].phase = "stopped" => gw'[h].phase = "stopped"
    BY <1>2, <1>7
  <2>2. ASSUME NEW gn \in rearm
        PROVE  gn[2] \in gw'[gn[1]].surrogates \/ gw'[gn[1]].phase = "stopped"
    <3>1. gn[1] \in Gateway
      BY <1>1 DEF SharedTypes
    <3> QED  BY <1>1, <1>2, <1>3, <1>7, <3>1 DEF LifeInv, RearmInv
  <2> QED  BY <1>1, <1>2, <2>1, <2>2, LifeFrame
<1> QED  BY <1>7, <1>8, <1>9, <1>10, <1>11 DEF Inv

\* The tunnel lets go of its gateways.
LEMMA DropGatewaysStep ==
    ASSUME Inv, DropGateways
    PROVE  Inv'
<1>1. /\ GatewaysInv /\ SeenInv /\ SharedTypes /\ RemoteInv /\ MapsInv /\ LifeInv
  BY DEF Inv
<1>2. /\ gw' = gw /\ gateways' = {} /\ \A g \in gateways : gw[g].phase = "stopped"
      /\ rearm' = rearm /\ forwarded' = {} /\ lan' = lan /\ dead' = dead
      /\ scenario' = scenario /\ faults' = faults
      /\ unbacked' = unbacked /\ last' = last /\ claims' = claims
  BY DEF DropGateways, history
<1>3. GatewaysInv'
  BY <1>1, <1>2 DEF GatewaysInv, Running
<1>4. SeenInv'
  BY <1>1, <1>2 DEF SeenInv, FreshInv
<1>5. SharedTypes' /\ OutTypes'
  BY <1>1, <1>2 DEF SharedTypes, OutTypes
<1>6. RemoteInv'
  <2>1. FreshInv
    BY <1>1 DEF SeenInv
  <2> QED  BY <1>1, <1>2, <2>1, RemoteFrame
<1>7. MapsInv'
  <2>1. \A h \in Gateway : SameMaps(gw[h], gw'[h])
    BY <1>2 DEF SameMaps
  <2> QED  BY <1>1, <1>2, <2>1, MapsSame
<1>8. LifeInv'
  BY <1>1, <1>2, LifeFrame DEF LifeInv, RearmInv
<1> QED  BY <1>3, <1>4, <1>5, <1>6, <1>7, <1>8 DEF Inv

\* The surrogate is missed only if its gateway was stopped.
LEMMA RearmSurrogateStep ==
    ASSUME Inv, RearmSurrogate
    PROVE  Inv'
<1>1. /\ GatewaysInv /\ SeenInv /\ SharedTypes /\ RemoteInv /\ MapsInv /\ LifeInv
  BY DEF Inv
<1>2. /\ gw' = gw /\ gateways' = gateways
      /\ rearm' = {} /\ forwarded' = {} /\ lan' = lan
      /\ scenario' = scenario /\ faults' = faults
      /\ unbacked' = unbacked /\ last' = last /\ claims' = claims
  BY DEF RearmSurrogate, history
<1>3. dead' = \E gn \in rearm : gn[2] \notin gw[gn[1]].surrogates
  BY DEF RearmSurrogate
<1>4. GatewaysInv'
  BY <1>1, <1>2 DEF GatewaysInv, Running
<1>5. SeenInv'
  BY <1>1, <1>2 DEF SeenInv, FreshInv
<1>6. dead' \in BOOLEAN
  BY <1>3
<1>7. SharedTypes' /\ OutTypes'
  BY <1>1, <1>2, <1>6 DEF SharedTypes, OutTypes
<1>8. RemoteInv'
  <2>1. FreshInv
    BY <1>1 DEF SeenInv
  <2> QED  BY <1>1, <1>2, <2>1, RemoteFrame
<1>9. MapsInv'
  <2>1. \A h \in Gateway : SameMaps(gw[h], gw'[h])
    BY <1>2 DEF SameMaps
  <2> QED  BY <1>1, <1>2, <2>1, MapsSame
<1>10. LifeInv'
  <2>1. RearmInv'
    BY <1>2 DEF RearmInv
  <2>2. ASSUME dead' PROVE \E g \in Gateway : gw[g].phase = "stopped"
    <3>1. PICK gn \in rearm : gn[2] \notin gw[gn[1]].surrogates
      BY <1>3, <2>2
    <3>2. gn[1] \in Gateway /\ gw[gn[1]].phase = "stopped"
      BY <1>1, <3>1 DEF LifeInv, RearmInv, SharedTypes
    <3> QED  BY <3>2
  <2>3. NoNullRearm'
    BY <1>2, <2>2 DEF NoNullRearm
  <2> QED  BY <2>1, <2>3 DEF LifeInv
<1> QED  BY <1>4, <1>5, <1>7, <1>8, <1>9, <1>10 DEF Inv

\* What one gateway says about remote nodes, when only that gateway has changed.
LEMMA RemoteOfOne ==
    ASSUME SharedTypes, RemoteInv, NEW g \in Gateway, NEW x,
           gw'[g] = x, \A h \in Gateway : h # g => gw'[h] = gw[h],
           lan' = lan, unbacked' = unbacked, last' = last,
           Tracked(x.remote) \subseteq x.surrogates,
           x.surrogates \ Tracked(x.remote) \subseteq
               gw[g].surrogates \ Tracked(gw[g].remote),
           \A n \in Tracked(x.remote) : /\ n \in Tracked(gw[g].remote)
                                        /\ TimeOf(x.remote, n) = TimeOf(gw[g].remote, n),
           \A p \in lan : g \in p.present /\ x.phase = "running" =>
               /\ gw[g].phase = "running"
               /\ p.msg.ident \in gw[g].surrogates => p.msg.ident \in x.surrogates
    PROVE  RemoteInv'
<1>1. \A p \in lan : p.present \subseteq Gateway
  BY DEF SharedTypes
<1>2. BackedInv'
  BY DEF RemoteInv, BackedInv
<1>3. EchoInv'
  <2> SUFFICES ASSUME NEW p \in lan, NEW h \in p.present,
                      p.msg.ident \in Tracked(gw'[h].remote)
               PROVE  TimeOf(gw'[h].remote, p.msg.ident) >= p.left
    BY DEF EchoInv
  <2>1. h \in Gateway
    BY <1>1
  <2>2. CASE h = g
    BY <2>2 DEF RemoteInv, EchoInv
  <2>3. CASE h # g
    BY <2>1, <2>3 DEF RemoteInv, EchoInv
  <2> QED  BY <2>2, <2>3
<1>4. UntrackedHasLeft'
  <2> SUFFICES ASSUME NEW h \in Gateway, NEW n \in gw'[h].surrogates \ Tracked(gw'[h].remote)
               PROVE  last[h][n] \in {"BYEBYE", "MEASUREMENT_PONG"}
    BY DEF UntrackedHasLeft
  <2>1. n \in gw[h].surrogates \ Tracked(gw[h].remote)
    <3>1. CASE h = g
      BY <3>1
    <3>2. CASE h # g
      BY <3>2
    <3> QED  BY <3>1, <3>2
  <2> QED  BY <2>1 DEF RemoteInv, UntrackedHasLeft
<1>5. NoEcho'
  <2> SUFFICES ASSUME NEW p \in lan, NEW h \in p.present, gw'[h].phase = "running",
                      <<h, p.msg.ident>> \notin unbacked
               PROVE  p.msg.ident \in gw'[h].surrogates
    BY DEF NoEcho, Running, HasRemoteNodeSurrogate
  <2>1. h \in Gateway
    BY <1>1
  <2>2. CASE h = g
    BY <2>2 DEF RemoteInv, NoEcho, Running, HasRemoteNodeSurrogate
  <2>3. CASE h # g
    BY <2>1, <2>3 DEF RemoteInv, NoEcho, Running, HasRemoteNodeSurrogate
  <2> QED  BY <2>2, <2>3
<1> QED  BY <1>2, <1>3, <1>4, <1>5 DEF RemoteInv

\* stop_listening takes a gateway's surrogates away.
LEMMA StopClearStep ==
    ASSUME Inv, NEW g \in Gateway, StopClear(g)
    PROVE  Inv'
<1> DEFINE s == gw[g]
           E == NewGateway.endpointOf
           N == NewGateway.nodeAt
           lt == Clear(s.local)
           rt == Clear(s.remote)
           x == [s EXCEPT !.phase = "stopped", !.surrogates = {}, !.measurers = {},
                          !.endpointOf = E, !.nodeAt = N, !.local = lt, !.remote = rt]
<1>1. /\ GatewaysInv /\ SeenInv /\ SharedTypes /\ RemoteInv /\ MapsInv /\ LifeInv
      /\ GatewayOK(s) /\ s \in GatewayState
  BY DEF Inv, GatewaysInv, GatewayOK
<1>2. /\ gw' = [gw EXCEPT ![g] = x] /\ s.phase = "stopping" /\ gateways' = gateways
      /\ rearm' = rearm /\ forwarded' = {} /\ lan' = lan /\ dead' = dead
      /\ scenario' = scenario /\ faults' = faults
      /\ unbacked' = unbacked /\ last' = last /\ claims' = claims
  BY <1>1 DEF StopClear, history, GatewaysInv
<1>3. E = [n \in NodeId |-> NoEndpoint] /\ N = [e \in Endpoint |-> NoNode]
  BY DEF NewGateway
<1>4. /\ GoodTracker(lt) /\ lt \in Tracker /\ Scheduled(lt)
      /\ GoodTracker(rt) /\ rt \in Tracker /\ Scheduled(rt) /\ Tracked(rt) = {}
  BY <1>1, GatewayMembers, EmptyTracker DEF GoodTracker
<1> HIDE DEF E, N, lt, rt
<1>5. E \in [NodeId -> Endpoint \cup {NoEndpoint}] /\ N \in [Endpoint -> NodeId \cup {NoNode}]
  BY <1>3
<1>6. /\ x \in GatewayState /\ x.local = lt /\ x.remote = rt
      /\ x.phase = "stopped" /\ x.surrogates = {}
      /\ x.endpointOf = E /\ x.nodeAt = N
  BY <1>1, <1>4, <1>5 DEF GatewayState
<1> HIDE DEF x
<1>7. GatewayOK(x) /\ LocalServed(x) /\ RemoteServed(x)
  BY <1>4, <1>6 DEF GatewayOK, LocalServed, RemoteServed
<1>8. /\ GatewaysInv' /\ SeenInv'
      /\ gw'[g] = x /\ \A h \in Gateway : h # g => gw'[h] = gw[h]
  <2>1. x.phase # "new" /\ x.phase # "running"
    BY <1>6
  <2> HIDE DEF s
  <2> QED  BY <1>1, <1>2, <1>7, <2>1, OneGateway
<1>9. SharedTypes' /\ OutTypes'
  BY <1>1, <1>2 DEF SharedTypes, OutTypes
<1>10. RemoteInv'
  <2>1. Tracked(x.remote) = {} /\ x.surrogates = {} /\ x.phase # "running"
    BY <1>4, <1>6
  <2> HIDE DEF s
  <2> QED  BY <1>1, <1>2, <1>8, <2>1, RemoteOfOne
<1>11. MapsInv'
  <2>1. \A h \in Gateway : Recorded(gw[h], claims[h]) /\ Agree(gw[h], claims[h])
    BY <1>1, MapsByGateway
  <2>2. \A n \in NodeId : x.endpointOf[n] = NoEndpoint
    BY <1>3, <1>6
  <2>3. \A e \in Endpoint : x.nodeAt[e] = NoNode
    BY <1>3, <1>6
  <2>4. Recorded(x, claims[g]) /\ Agree(x, claims[g])
    BY <2>2, <2>3, NoNodeAssumption, NoEndpointAssumption DEF Recorded, Agree, HasLocalNode
  <2>5. \A h \in Gateway : Recorded(gw'[h], claims'[h]) /\ Agree(gw'[h], claims'[h])
    BY <1>2, <1>8, <2>1, <2>4
  <2> QED  BY <2>5, MapsByGatewayNext
<1>12. LifeInv'
  <2>1. \A h \in Gateway : gw[h].phase = "stopped" => gw'[h].phase = "stopped"
    BY <1>6, <1>8
  <2>2. ASSUME NEW gn \in rearm
        PROVE  gn[2] \in gw'[gn[1]].surrogates \/ gw'[gn[1]].phase = "stopped"
    <3>1. gn[1] \in Gateway
      BY <1>1 DEF SharedTypes
    <3> QED  BY <1>1, <1>2, <1>6, <1>8, <3>1 DEF LifeInv, RearmInv
  <2> QED  BY <1>1, <1>2, <2>1, <2>2, LifeFrame
<1> QED  BY <1>8, <1>9, <1>10, <1>11, <1>12 DEF Inv

\* onRemotePeerTimedOut: nobody is given up whose multicast is still under way.
LEMMA PruneRemoteStep ==
    ASSUME Inv, NEW g \in Gateway, PruneRemote(g)
    PROVE  Inv'
<1> DEFINE s == gw[g]
           over == Expired(s.remote)
           rt == Prune(s.remote)
           seen == s.remoteSeen \ over
           sur == s.surrogates \ over
           mea == s.measurers \ over
           x == [s EXCEPT !.remote = rt, !.remoteSeen = seen, !.surrogates = sur,
                          !.measurers = mea]
<1>1. /\ GatewaysInv /\ SeenInv /\ SharedTypes /\ RemoteInv /\ MapsInv /\ LifeInv
      /\ GatewayOK(s) /\ s \in GatewayState /\ GoodTracker(s.remote)
  BY DEF Inv, GatewaysInv, GatewayOK
<1>2. /\ gw' = [gw EXCEPT ![g] = x] /\ gateways' = gateways
      /\ rearm = {} /\ rearm' = {} /\ forwarded' = {} /\ lan' = lan /\ dead' = dead
      /\ scenario' = scenario /\ faults' = faults
      /\ unbacked' = unbacked /\ last' = last /\ claims' = claims
  BY <1>1 DEF PruneRemote, IoIdle, history, GatewaysInv
<1>3. /\ GoodTracker(rt) /\ rt \in Tracker /\ Scheduled(rt)
      /\ over = {n \in Tracked(s.remote) : TimeOf(s.remote, n) < 0}
      /\ Tracked(rt) = Tracked(s.remote) \ over
      /\ \A n \in Tracked(rt) : TimeOf(rt, n) = TimeOf(s.remote, n)
  BY <1>1, PruneFacts DEF GoodTracker
<1>4. /\ seen \in SUBSET NodeId /\ sur \in SUBSET NodeId /\ mea \in SUBSET NodeId
      /\ seen = s.remoteSeen \ over /\ sur = s.surrogates \ over /\ mea = s.measurers \ over
  BY <1>1, GatewayMembers
<1> HIDE DEF over, rt, seen, sur, mea
<1>5. /\ x \in GatewayState /\ x.local = s.local /\ x.localSeen = s.localSeen
      /\ x.phase = s.phase /\ x.armed = s.armed /\ x.surrogates = sur /\ x.measurers = mea
      /\ x.remote = rt /\ x.remoteSeen = seen
      /\ x.endpointOf = s.endpointOf /\ x.nodeAt = s.nodeAt
  BY <1>1, <1>3, <1>4 DEF GatewayState
<1> HIDE DEF x
<1>6. GatewayOK(x)
  BY <1>1, <1>3, <1>5 DEF GatewayOK
<1>7. LocalServed(x) /\ RemoteServed(x)
  <2>1. LocalServed(s) /\ RemoteServed(s)
    BY <1>1 DEF SeenInv
  <2>2. LocalServed(x)
    BY <1>5, <2>1 DEF LocalServed
  <2>3. RemoteServed(x)
    BY <1>3, <1>4, <1>5, <2>1 DEF RemoteServed
  <2> QED  BY <2>2, <2>3
<1>8. /\ GatewaysInv' /\ SeenInv'
      /\ gw'[g] = x /\ \A h \in Gateway : h # g => gw'[h] = gw[h]
  <2>1. x.phase = "running" => g \in gateways
    BY <1>1, <1>5 DEF GatewaysInv, Running
  <2>2. x.phase = "new" => s.phase = "new" /\ g \notin gateways /\ Fresh(x)
    BY <1>1, <1>3, <1>4, <1>5 DEF SeenInv, FreshInv, Fresh
  <2> QED  BY <1>1, <1>2, <1>6, <1>7, <2>1, <2>2, OneGateway
<1>9. SharedTypes' /\ OutTypes'
  BY <1>1, <1>2 DEF SharedTypes, OutTypes
<1>10. RemoteInv'
  <2>1. Tracked(s.remote) \subseteq s.surrogates
    BY <1>1 DEF RemoteInv, BackedInv
  <2>2. Tracked(x.remote) \subseteq x.surrogates
    BY <1>3, <1>4, <1>5, <2>1
  <2>3. x.surrogates \ Tracked(x.remote) \subseteq s.surrogates \ Tracked(s.remote)
    BY <1>3, <1>4, <1>5
  <2>4. \A n \in Tracked(x.remote) : /\ n \in Tracked(s.remote)
                                     /\ TimeOf(x.remote, n) = TimeOf(s.remote, n)
    BY <1>3, <1>5
  <2>5. ASSUME NEW p \in lan, g \in p.present PROVE p.msg.ident \notin over
    <3>1. p.left \in Nat
      BY <1>1, BoundsAssumption DEF SharedTypes
    <3>2. p.msg.ident \in Tracked(s.remote) => TimeOf(s.remote, p.msg.ident) >= p.left
      BY <1>1, <2>5 DEF RemoteInv, EchoInv
    <3>3. p.msg.ident \in Tracked(s.remote) => TimeOf(s.remote, p.msg.ident) \in Int
      BY <1>1, EntryFacts
    <3> QED  BY <1>3, <3>1, <3>2, <3>3
  <2>6. \A p \in lan : g \in p.present /\ x.phase = "running" =>
           /\ s.phase = "running"
           /\ p.msg.ident \in s.surrogates => p.msg.ident \in x.surrogates
    BY <1>4, <1>5, <2>5
  <2> QED  BY <1>1, <1>2, <1>8, <2>2, <2>3, <2>4, <2>6, RemoteOfOne
<1>11. MapsInv'
  <2>1. \A h \in Gateway : SameMaps(gw[h], gw'[h])
    BY <1>5, <1>8 DEF SameMaps
  <2> QED  BY <1>1, <1>2, <2>1, MapsSame
<1>12. LifeInv'
  <2>1. \A h \in Gateway : gw[h].phase = "stopped" => gw'[h].phase = "stopped"
    BY <1>5, <1>8
  <2> QED  BY <1>1, <1>2, <2>1, LifeFrame
<1> QED  BY <1>8, <1>9, <1>10, <1>11, <1>12 DEF Inv

-----------------------------------------------------------------------------
(* Time.                                                                    *)

Later(s) == [s EXCEPT !.local = Elapse(@), !.remote = Elapse(@)]

\* A gateway a second later.
LEMMA LaterFacts ==
    ASSUME NEW s, GatewayOK(s)
    PROVE  /\ GatewayOK(Later(s)) /\ SameMaps(s, Later(s))
           /\ Later(s).phase = s.phase /\ Later(s).surrogates = s.surrogates
           /\ Later(s).localSeen = s.localSeen /\ Later(s).remoteSeen = s.remoteSeen
           /\ Later(s).local = Elapse(s.local) /\ Later(s).remote = Elapse(s.remote)
           /\ (LocalServed(s) => LocalServed(Later(s)))
           /\ (RemoteServed(s) => RemoteServed(Later(s)))
           /\ (Fresh(s) => Fresh(Later(s)))
<1> DEFINE lt == Elapse(s.local)
           rt == Elapse(s.remote)
           x == Later(s)
<1>1. s \in GatewayState /\ GoodTracker(s.local) /\ GoodTracker(s.remote)
  BY DEF GatewayOK
<1>2. /\ GoodTracker(lt) /\ lt \in Tracker /\ Tracked(lt) = Tracked(s.local)
      /\ (Scheduled(s.local) => Scheduled(lt))
  BY <1>1, ElapseFacts DEF GoodTracker
<1>3. /\ GoodTracker(rt) /\ rt \in Tracker /\ Tracked(rt) = Tracked(s.remote)
      /\ (Scheduled(s.remote) => Scheduled(rt))
  BY <1>1, ElapseFacts DEF GoodTracker
<1>4. x = [s EXCEPT !.local = lt, !.remote = rt]
  BY DEF Later
<1> HIDE DEF lt, rt, x
<1>5. /\ x \in GatewayState /\ x.local = lt /\ x.localSeen = s.localSeen
      /\ x.phase = s.phase /\ x.armed = s.armed
      /\ x.surrogates = s.surrogates /\ x.measurers = s.measurers
      /\ x.remote = rt /\ x.remoteSeen = s.remoteSeen
      /\ x.endpointOf = s.endpointOf /\ x.nodeAt = s.nodeAt
  BY <1>1, <1>2, <1>3, <1>4 DEF GatewayState
<1>6. GatewayOK(x) /\ SameMaps(s, x)
  BY <1>2, <1>3, <1>5 DEF GatewayOK, SameMaps
<1>7. LocalServed(s) => LocalServed(x)
  BY <1>2, <1>5 DEF LocalServed
<1>8. RemoteServed(s) => RemoteServed(x)
  BY <1>3, <1>5 DEF RemoteServed
<1>9. Fresh(s) => Fresh(x)
  BY <1>2, <1>3, <1>5 DEF Fresh
<1> QED  BY <1>5, <1>6, <1>7, <1>8, <1>9 DEF x, lt, rt

\* A second passes, which no timer that is overdue lets happen.
LEMMA TickStep ==
    ASSUME Inv, Tick
    PROVE  Inv'
<1>1. /\ GatewaysInv /\ SeenInv /\ SharedTypes /\ RemoteInv /\ MapsInv /\ LifeInv
  BY DEF Inv
<1>2. /\ gateways' = gateways /\ rearm' = rearm /\ forwarded' = {} /\ dead' = dead
      /\ scenario' = scenario /\ faults' = faults
      /\ unbacked' = unbacked /\ last' = last /\ claims' = claims
  BY DEF Tick, history
<1>3. gw' = [g \in Gateway |-> Later(gw[g])]
  BY DEF Tick, Later
<1>4. lan' = {[p EXCEPT !.left = @ - 1] : p \in {q \in lan : q.left > 0}}
  BY DEF Tick
<1>5. ASSUME NEW g \in Gateway
      PROVE  /\ GatewayOK(gw'[g]) /\ SameMaps(gw[g], gw'[g])
             /\ gw'[g].phase = gw[g].phase /\ gw'[g].surrogates = gw[g].surrogates
             /\ gw'[g].remote = Elapse(gw[g].remote)
             /\ LocalServed(gw'[g]) /\ RemoteServed(gw'[g])
             /\ (Fresh(gw[g]) => Fresh(gw'[g]))
             /\ Tracked(gw'[g].remote) = Tracked(gw[g].remote)
             /\ \A n \in Tracked(gw[g].remote) :
                   /\ TimeOf(gw[g].remote, n) \in Int
                   /\ TimeOf(gw'[g].remote, n) = TimeOf(gw[g].remote, n) - 1
  <2>1. gw'[g] = Later(gw[g])
    BY <1>3
  <2>2. GatewayOK(gw[g]) /\ LocalServed(gw[g]) /\ RemoteServed(gw[g])
    BY <1>1 DEF GatewaysInv, SeenInv
  <2>3. GoodTracker(gw[g].remote)
    BY <2>2, GatewayMembers
  <2>4. /\ Tracked(Elapse(gw[g].remote)) = Tracked(gw[g].remote)
        /\ \A n \in Tracked(gw[g].remote) :
              /\ TimeOf(gw[g].remote, n) \in Int
              /\ TimeOf(Elapse(gw[g].remote), n) = TimeOf(gw[g].remote, n) - 1
    BY <2>3, ElapseFacts, EntryFacts
  <2> QED  BY <2>1, <2>2, <2>4, LaterFacts
<1>6. ASSUME NEW p \in lan'
      PROVE  \E q \in lan : /\ p.present = q.present /\ p.msg = q.msg
                            /\ q.left \in Int /\ p.left = q.left - 1
                            /\ p.present \subseteq Gateway /\ p.msg \in LanMessage
                            /\ p \in [hearers : SUBSET Gateway, present : SUBSET Gateway,
                                      msg : LanMessage, left : 0..MaxTransit]
  <2>1. PICK q \in lan : q.left > 0 /\ p = [q EXCEPT !.left = @ - 1]
    BY <1>4
  <2>2. q \in [hearers : SUBSET Gateway, present : SUBSET Gateway,
               msg : LanMessage, left : 0..MaxTransit]
    BY <1>1 DEF SharedTypes
  <2>3. q.left \in 0..MaxTransit /\ q.left - 1 \in 0..MaxTransit /\ q.left \in Int
    BY <2>1, <2>2, BoundsAssumption
  <2>4. /\ p.present = q.present /\ p.msg = q.msg /\ p.left = q.left - 1
        /\ p \in [hearers : SUBSET Gateway, present : SUBSET Gateway,
                  msg : LanMessage, left : 0..MaxTransit]
    BY <2>1, <2>2, <2>3
  <2>5. p.present \subseteq Gateway /\ p.msg \in LanMessage
    BY <2>4
  <2> QED  BY <2>3, <2>4, <2>5
<1>7. GatewaysInv'
  <2>1. gw' \in [Gateway -> GatewayState]
    BY <1>3, <1>5 DEF GatewayOK
  <2> QED  BY <1>1, <1>2, <1>5, <2>1 DEF GatewaysInv, Running
<1>8. SeenInv'
  <2>1. \A g \in Gateway : gw'[g].phase = "new" => g \notin gateways' /\ Fresh(gw'[g])
    BY <1>1, <1>2, <1>5 DEF SeenInv, FreshInv
  <2>2. ASSUME NEW p \in lan', NEW g \in p.present PROVE gw'[g].phase # "new"
    <3>1. PICK q \in lan : p.present = q.present /\ p.present \subseteq Gateway
      BY <1>6
    <3> QED  BY <1>1, <1>5, <3>1 DEF SeenInv, FreshInv
  <2>3. FreshInv'
    BY <2>1, <2>2 DEF FreshInv
  <2> QED  BY <1>5, <2>3 DEF SeenInv
<1>9. SharedTypes' /\ OutTypes'
  <2>1. lan' \subseteq [hearers : SUBSET Gateway, present : SUBSET Gateway,
                        msg : LanMessage, left : 0..MaxTransit]
    BY <1>6
  <2> QED  BY <1>1, <1>2, <2>1 DEF SharedTypes, OutTypes
<1>10. RemoteInv'
  <2>1. BackedInv'
    BY <1>1, <1>5 DEF RemoteInv, BackedInv
  <2>2. UntrackedHasLeft'
    BY <1>1, <1>2, <1>5 DEF RemoteInv, UntrackedHasLeft
  <2>3. EchoInv'
    <3> SUFFICES ASSUME NEW p \in lan', NEW g \in p.present,
                        p.msg.ident \in Tracked(gw'[g].remote)
                 PROVE  TimeOf(gw'[g].remote, p.msg.ident) >= p.left
      BY DEF EchoInv
    <3>1. PICK q \in lan : /\ p.present = q.present /\ p.msg = q.msg
                           /\ q.left \in Int /\ p.left = q.left - 1
                           /\ p.present \subseteq Gateway
      BY <1>6
    <3>2. g \in Gateway /\ g \in q.present
      BY <3>1
    <3>3. q.msg.ident \in Tracked(gw[g].remote)
      BY <1>5, <3>1, <3>2
    <3>4. TimeOf(gw[g].remote, q.msg.ident) >= q.left
      BY <1>1, <3>2, <3>3 DEF RemoteInv, EchoInv
    <3>5. /\ TimeOf(gw[g].remote, q.msg.ident) \in Int
          /\ TimeOf(gw'[g].remote, q.msg.ident) = TimeOf(gw[g].remote, q.msg.ident) - 1
      BY <1>5, <3>2, <3>3
    <3> QED  BY <3>1, <3>4, <3>5
  <2>4. NoEcho'
    <3> SUFFICES ASSUME NEW p \in lan', NEW g \in p.present, gw'[g].phase = "running",
                        <<g, p.msg.ident>> \notin unbacked
                 PROVE  p.msg.ident \in gw'[g].surrogates
      BY <1>2 DEF NoEcho, Running, HasRemoteNodeSurrogate
    <3>1. PICK q \in lan : /\ p.present = q.present /\ p.msg = q.msg
                           /\ p.present \subseteq Gateway
      BY <1>6
    <3>2. g \in Gateway /\ g \in q.present /\ gw[g].phase = "running"
      BY <1>5, <3>1
    <3>3. q.msg.ident \in gw[g].surrogates
      BY <1>1, <3>1, <3>2 DEF RemoteInv, NoEcho, Running, HasRemoteNodeSurrogate
    <3> QED  BY <1>5, <3>1, <3>2, <3>3
  <2> QED  BY <2>1, <2>2, <2>3, <2>4 DEF RemoteInv
<1>11. MapsInv'
  BY <1>1, <1>2, <1>5, MapsSame
<1>12. LifeInv'
  <2>1. \A h \in Gateway : gw[h].phase = "stopped" => gw'[h].phase = "stopped"
    BY <1>5
  <2>2. ASSUME NEW gn \in rearm
        PROVE  gn[2] \in gw'[gn[1]].surrogates \/ gw'[gn[1]].phase = "stopped"
    <3>1. gn[1] \in Gateway
      BY <1>1 DEF SharedTypes
    <3> QED  BY <1>1, <1>5, <3>1 DEF LifeInv, RearmInv
  <2> QED  BY <1>1, <1>2, <2>1, <2>2, LifeFrame
<1> QED  BY <1>7, <1>8, <1>9, <1>10, <1>11, <1>12 DEF Inv

-----------------------------------------------------------------------------
(* Messages from the tunnel.                                                *)

\* A message of the tunnel: its node lives longer than a multicast travels.
LEMMA TunnelMessageFacts ==
    ASSUME NEW m \in TunnelMessage
    PROVE  /\ m.from \in NodeId /\ m.ttl \in Nat /\ m.ttl \in Ttl /\ MaxTransit <= m.ttl
           /\ m.type \in {"BROADCAST", "BYEBYE", "UNICAST", "MEASUREMENT_PING",
                          "MEASUREMENT_PONG"}
<1>1. /\ m.from \in NodeId /\ m.ttl \in Ttl
      /\ m.type \in {"BROADCAST", "BYEBYE", "UNICAST", "MEASUREMENT_PING", "MEASUREMENT_PONG"}
  BY DEF TunnelMessage
<1>2. m.ttl \in Nat /\ MaxTransit <= m.ttl
  BY <1>1, TtlAssumption
<1> QED  BY <1>1, <1>2

\* Who is tracked and who has a surrogate behind a message from the tunnel.
LEMMA TunnelStepFacts ==
    ASSUME NEW s, GatewayOK(s), NEW m \in TunnelMessage, NEW r, TunnelStep(s, m, r),
           Tracked(s.remote) \subseteq s.surrogates
    PROVE  /\ Tracked(r.remote) \subseteq r.surrogates
           /\ s.surrogates \subseteq r.surrogates
           /\ m.type # "MEASUREMENT_PING" => m.from \in r.surrogates
           /\ \A n \in Tracked(r.remote) :
                 \/ TimeOf(r.remote, n) \in Int /\ TimeOf(r.remote, n) >= MaxTransit
                 \/ n \in Tracked(s.remote) /\ TimeOf(r.remote, n) = TimeOf(s.remote, n)
           /\ \A n \in r.surrogates \ Tracked(r.remote) :
                 \/ n \in s.surrogates \ Tracked(s.remote)
                    /\ (n # m.from \/ m.type = "MEASUREMENT_PING")
                 \/ n = m.from /\ m.type \in {"BYEBYE", "MEASUREMENT_PONG"}
<1>1. GoodTracker(s.remote) /\ MaxTransit \in Int
  BY GatewayMembers, BoundsAssumption
<1>2. /\ m.from \in NodeId /\ m.ttl \in Int /\ MaxTransit <= m.ttl
      /\ m.type \in {"BROADCAST", "BYEBYE", "UNICAST", "MEASUREMENT_PING", "MEASUREMENT_PONG"}
  BY TunnelMessageFacts
<1>3. r.surrogates = IF m.type = "MEASUREMENT_PING" THEN s.surrogates
                     ELSE s.surrogates \cup {m.from}
  BY DEF TunnelStep
<1>4. CASE m.type \in {"BROADCAST", "UNICAST"}
  <2>1. r.remote = UpdateTimeout(s.remote, m.from, m.ttl)
    BY <1>4 DEF TunnelStep
  <2>2. /\ Tracked(r.remote) = Tracked(s.remote) \cup {m.from}
        /\ TimeOf(r.remote, m.from) = m.ttl
        /\ \A n \in Tracked(s.remote) \ {m.from} : TimeOf(r.remote, n) = TimeOf(s.remote, n)
    BY <1>1, <1>2, <2>1, UpdateFacts
  <2>3. r.surrogates = s.surrogates \cup {m.from}
    BY <1>3, <1>4
  <2> QED  BY <1>2, <2>2, <2>3
<1>5. CASE m.type = "BYEBYE"
  <2>1. r.remote = Untrack(s.remote, m.from)
    BY <1>5 DEF TunnelStep
  <2>2. /\ Tracked(r.remote) = Tracked(s.remote) \ {m.from}
        /\ \A n \in Tracked(s.remote) \ {m.from} : TimeOf(r.remote, n) = TimeOf(s.remote, n)
    BY <1>1, <2>1, UntrackFacts
  <2>3. r.surrogates = s.surrogates \cup {m.from}
    BY <1>3, <1>5
  <2> QED  BY <1>5, <2>2, <2>3
<1>6. CASE m.type \in {"MEASUREMENT_PING", "MEASUREMENT_PONG"}
  <2>1. r.remote = s.remote
    BY <1>6 DEF TunnelStep
  <2>2. m.type = "MEASUREMENT_PING" \/ r.surrogates = s.surrogates \cup {m.from}
    BY <1>3
  <2>3. m.type = "MEASUREMENT_PING" => r.surrogates = s.surrogates
    BY <1>3
  <2> QED  BY <1>6, <2>1, <2>2, <2>3
<1> QED  BY <1>2, <1>4, <1>5, <1>6

\* A message of the tunnel goes to the gateways, whose sockets may fail to open.
LEMMA ForwardLocallyStep ==
    ASSUME Inv, NEW m \in TunnelMessage, NEW noSocket \in SUBSET gateways,
           ForwardLocally(m, noSocket)
    PROVE  Inv'
<1> DEFINE failing == {g \in noSocket : Routable(gw[g], m) /\ NeedsSocket(gw[g], m)}
           handled == {g \in gateways \ failing : Routable(gw[g], m)}
           sent == [msg |-> OnLan(m), hearers |-> Hearers(handled),
                    present |-> Present(handled), left |-> MaxTransit]
<1>1. /\ GatewaysInv /\ SeenInv /\ SharedTypes /\ RemoteInv /\ MapsInv /\ LifeInv
  BY DEF Inv
<1>2. /\ gateways' = gateways /\ rearm = {} /\ rearm' = {} /\ forwarded' = {} /\ dead' = dead
      /\ scenario' = scenario /\ claims' = claims
      /\ faults' = faults + Cardinality(failing) /\ faults' <= MaxFaults
  BY DEF ForwardLocally, IoIdle
<1>3. gw' = [g \in Gateway |-> IF g \in handled THEN ForwardMessageLocally(gw[g], m)
                               ELSE gw[g]]
  BY DEF ForwardLocally
<1>4. lan' = lan \cup {p \in {sent} : Multicast(m) /\ p.hearers # {}}
  BY DEF ForwardLocally
<1>5. unbacked' = (unbacked \cup (failing \X {m.from}))
                     \ {gn \in handled \X {m.from} : gn[2] \in gw'[gn[1]].surrogates}
  BY DEF ForwardLocally
<1>6. last' = [g \in Gateway |-> IF g \in handled /\ m.type # "MEASUREMENT_PING"
                                 THEN [last[g] EXCEPT ![m.from] = m.type] ELSE last[g]]
  BY DEF ForwardLocally
<1>7. gateways \subseteq Gateway /\ failing \subseteq Gateway /\ handled \subseteq gateways
  BY <1>1 DEF SharedTypes
<1>8. \A g \in handled : g \notin failing /\ Routable(gw[g], m)
  OBVIOUS
<1>9. \A g \in failing : g \in gateways /\ NeedsSocket(gw[g], m)
  OBVIOUS
<1>10. \A g \in gateways : Multicast(m) => g \in handled \/ g \in failing
  BY DEF Routable
<1>11. /\ m.from \in NodeId /\ m.ttl \in Nat /\ m.ttl \in Ttl
       /\ m.type \in {"BROADCAST", "BYEBYE", "UNICAST", "MEASUREMENT_PING", "MEASUREMENT_PONG"}
  BY TunnelMessageFacts
<1> HIDE DEF failing, handled
<1>12. ASSUME NEW g \in handled
       PROVE  /\ g \in Gateway /\ TunnelStep(gw[g], m, gw'[g])
              /\ GatewayOK(gw[g]) /\ Tracked(gw[g].remote) \subseteq gw[g].surrogates
  <2>1. g \in Gateway /\ gw'[g] = ForwardMessageLocally(gw[g], m)
    BY <1>3, <1>7
  <2>2. GatewayOK(gw[g]) /\ Tracked(gw[g].remote) \subseteq gw[g].surrogates
    BY <1>1, <2>1 DEF GatewaysInv, RemoteInv, BackedInv
  <2> QED  BY <1>8, <2>1, <2>2, ForwardFacts
<1>13. \A g \in Gateway : g \notin handled => gw'[g] = gw[g]
  BY <1>3
<1>14. ASSUME NEW g \in Gateway
       PROVE  /\ GatewayOK(gw'[g]) /\ SameMaps(gw[g], gw'[g])
              /\ gw'[g].phase = gw[g].phase
              /\ gw[g].surrogates \subseteq gw'[g].surrogates
              /\ LocalServed(gw'[g]) /\ RemoteServed(gw'[g])
              /\ Tracked(gw'[g].remote) \subseteq gw'[g].surrogates
              /\ \A n \in Tracked(gw'[g].remote) :
                    \/ /\ TimeOf(gw'[g].remote, n) \in Int
                       /\ TimeOf(gw'[g].remote, n) >= MaxTransit
                    \/ /\ n \in Tracked(gw[g].remote)
                       /\ TimeOf(gw'[g].remote, n) = TimeOf(gw[g].remote, n)
  <2>1. /\ GatewayOK(gw[g]) /\ LocalServed(gw[g]) /\ RemoteServed(gw[g])
        /\ Tracked(gw[g].remote) \subseteq gw[g].surrogates
    BY <1>1 DEF GatewaysInv, SeenInv, RemoteInv, BackedInv
  <2>2. CASE g \in handled
    <3>1. TunnelStep(gw[g], m, gw'[g])
      BY <1>12, <2>2
    <3>2. /\ GatewayOK(gw'[g]) /\ SameMaps(gw[g], gw'[g]) /\ gw'[g].phase = gw[g].phase
          /\ gw'[g].local = gw[g].local /\ gw'[g].localSeen = gw[g].localSeen
          /\ RemoteServed(gw'[g])
      BY <2>1, <3>1 DEF TunnelStep
    <3>3. LocalServed(gw'[g])
      BY <2>1, <3>2 DEF LocalServed
    <3> QED  BY <2>1, <3>1, <3>2, <3>3, TunnelStepFacts
  <2>3. CASE g \notin handled
    <3>1. gw'[g] = gw[g]
      BY <1>13, <2>3
    <3> QED  BY <2>1, <3>1 DEF SameMaps
  <2> QED  BY <2>2, <2>3
<1>15. \A p \in lan' : p \in lan \/ (p = sent /\ Multicast(m))
  BY <1>4
<1>16. /\ sent.msg = OnLan(m) /\ sent.present = Present(handled) /\ sent.left = MaxTransit
       /\ OnLan(m).ident = m.from
       /\ sent \in [hearers : SUBSET Gateway, present : SUBSET Gateway,
                    msg : LanMessage, left : 0..MaxTransit]
  <2>1. OnLan(m) \in LanMessage /\ OnLan(m).ident = m.from
    BY <1>11, NoEndpointAssumption DEF OnLan, LanMessage
  <2>2. Hearers(handled) \in SUBSET Gateway /\ Present(handled) \in SUBSET Gateway
    BY <1>1, ScenariosAssumption DEF SharedTypes, Hearers, Present
  <2>3. MaxTransit \in 0..MaxTransit
    BY BoundsAssumption
  <2> QED  BY <2>1, <2>2, <2>3
<1>17. ASSUME Multicast(m), NEW g \in Present(handled)
       PROVE  /\ g \in Gateway /\ gw[g].phase = "running"
              /\ g \in handled \/ g \in failing
  <2>1. g \in Gateway /\ gw[g].phase = "running"
    BY <1>1, <1>17, ScenariosAssumption DEF SharedTypes, Hearers, Present
  <2>2. g \in gateways
    BY <1>1, <2>1 DEF GatewaysInv, Running
  <2> QED  BY <1>10, <1>17, <2>1, <2>2
<1> HIDE DEF sent
<1>18. GatewaysInv'
  <2>1. gw' \in [Gateway -> GatewayState]
    BY <1>3, <1>14 DEF GatewayOK
  <2> QED  BY <1>1, <1>2, <1>14, <2>1 DEF GatewaysInv, Running
<1>19. SeenInv'
  <2>1. ASSUME NEW g \in Gateway, gw'[g].phase = "new"
        PROVE  g \notin gateways' /\ Fresh(gw'[g])
    <3>1. g \notin gateways /\ Fresh(gw[g])
      BY <1>1, <1>14, <2>1 DEF SeenInv, FreshInv
    <3>2. gw'[g] = gw[g]
      BY <1>7, <1>13, <3>1
    <3> QED  BY <1>2, <3>1, <3>2
  <2>2. ASSUME NEW p \in lan', NEW g \in p.present PROVE gw'[g].phase # "new"
    <3>1. CASE p \in lan
      <4>1. g \in Gateway /\ gw[g].phase # "new"
        BY <1>1, <3>1 DEF SharedTypes, SeenInv, FreshInv
      <4> QED  BY <1>14, <4>1
    <3>2. CASE p = sent /\ Multicast(m)
      <4>1. g \in Gateway /\ gw[g].phase = "running"
        BY <1>16, <1>17, <3>2
      <4> QED  BY <1>14, <4>1
    <3> QED  BY <1>15, <3>1, <3>2
  <2>3. FreshInv'
    BY <2>1, <2>2 DEF FreshInv
  <2> QED  BY <1>14, <2>3 DEF SeenInv
<1>20. SharedTypes' /\ OutTypes'
  <2>1. lan' \subseteq [hearers : SUBSET Gateway, present : SUBSET Gateway,
                        msg : LanMessage, left : 0..MaxTransit]
    BY <1>1, <1>15, <1>16 DEF SharedTypes
  <2>2. faults' \in 0..MaxFaults
    <3>1. IsFiniteSet(failing)
      BY <1>7, GatewayAssumption, FS_Subset
    <3>2. Cardinality(failing) \in Nat
      BY <3>1, FS_CardinalityType
    <3>3. faults \in Nat /\ MaxFaults \in Nat
      BY <1>1, BoundsAssumption DEF SharedTypes
    <3> QED  BY <1>2, <3>2, <3>3
  <2>3. unbacked' \subseteq Gateway \X NodeId
    <3>1. unbacked' \subseteq unbacked \cup (failing \X {m.from})
      BY <1>5
    <3> QED  BY <1>1, <1>7, <1>11, <3>1 DEF SharedTypes
  <2>4. last' \in [Gateway -> [NodeId -> {"none", "BROADCAST", "UNICAST", "BYEBYE",
                                          "MEASUREMENT_PONG"}]]
    BY <1>1, <1>6, <1>11 DEF SharedTypes
  <2> QED  BY <1>1, <1>2, <2>1, <2>2, <2>3, <2>4 DEF SharedTypes, OutTypes
<1>21. BackedInv'
  BY <1>14 DEF BackedInv
<1>22. EchoInv'
  <2> SUFFICES ASSUME NEW p \in lan', NEW g \in p.present,
                      p.msg.ident \in Tracked(gw'[g].remote)
               PROVE  TimeOf(gw'[g].remote, p.msg.ident) >= p.left
    BY DEF EchoInv
  <2>1. p \in [hearers : SUBSET Gateway, present : SUBSET Gateway,
               msg : LanMessage, left : 0..MaxTransit]
    BY <1>1, <1>15, <1>16 DEF SharedTypes
  <2>2. g \in Gateway /\ p.left \in Int /\ p.left <= MaxTransit /\ MaxTransit \in Int
    BY <2>1, BoundsAssumption
  <2>3. CASE TimeOf(gw'[g].remote, p.msg.ident) \in Int
             /\ TimeOf(gw'[g].remote, p.msg.ident) >= MaxTransit
    BY <2>2, <2>3
  <2>4. CASE /\ p.msg.ident \in Tracked(gw[g].remote)
             /\ TimeOf(gw'[g].remote, p.msg.ident) = TimeOf(gw[g].remote, p.msg.ident)
    <3>1. CASE p \in lan
      BY <1>1, <2>4, <3>1 DEF RemoteInv, EchoInv
    <3>2. CASE p = sent /\ Multicast(m)
      <4>1. g \in handled \/ g \in failing
        BY <1>16, <1>17, <3>2
      <4>2. m.from \in Tracked(gw[g].remote) /\ m.from \in gw[g].surrogates
        BY <1>1, <1>16, <2>2, <2>4, <3>2 DEF RemoteInv, BackedInv
      <4>3. g \notin failing
        BY <1>9, <3>2, <4>2 DEF NeedsSocket, Multicast
      <4>4. g \in handled /\ p.msg.ident = m.from
        BY <1>16, <3>2, <4>1, <4>3
      <4>5. TunnelStep(gw[g], m, gw'[g]) /\ GoodTracker(gw[g].remote)
        BY <1>12, <4>4, GatewayMembers
      <4>6. CASE m.type = "BROADCAST"
        <5>1. gw'[g].remote = UpdateTimeout(gw[g].remote, m.from, m.ttl)
          BY <4>5, <4>6 DEF TunnelStep
        <5>2. TimeOf(gw'[g].remote, m.from) = m.ttl
          BY <1>11, <4>5, <5>1, UpdateFacts
        <5>3. MaxTransit <= m.ttl
          BY TunnelMessageFacts
        <5> QED  BY <1>11, <2>2, <4>4, <5>2, <5>3
      <4>7. CASE m.type = "BYEBYE"
        <5>1. gw'[g].remote = Untrack(gw[g].remote, m.from)
          BY <4>5, <4>7 DEF TunnelStep
        <5>2. m.from \notin Tracked(gw'[g].remote)
          BY <4>5, <5>1, UntrackFacts
        <5> QED  BY <4>4, <5>2
      <4> QED  BY <3>2, <4>6, <4>7 DEF Multicast
    <3> QED  BY <1>15, <3>1, <3>2
  <2> QED  BY <1>14, <2>2, <2>3, <2>4
<1>23. NoEcho'
  <2> SUFFICES ASSUME NEW p \in lan', NEW g \in p.present, gw'[g].phase = "running",
                      <<g, p.msg.ident>> \notin unbacked'
               PROVE  p.msg.ident \in gw'[g].surrogates
    BY DEF NoEcho, Running, HasRemoteNodeSurrogate
  <2>1. CASE p \in lan
    <3>1. g \in Gateway /\ gw[g].phase = "running"
      BY <1>1, <1>14, <2>1 DEF SharedTypes
    <3>2. CASE <<g, p.msg.ident>> \notin unbacked
      <4>1. p.msg.ident \in gw[g].surrogates
        BY <1>1, <2>1, <3>1, <3>2 DEF RemoteInv, NoEcho, Running, HasRemoteNodeSurrogate
      <4> QED  BY <1>14, <3>1, <4>1
    <3>3. CASE <<g, p.msg.ident>> \in unbacked
      BY <1>5, <3>3
    <3> QED  BY <3>2, <3>3
  <2>2. CASE p = sent /\ Multicast(m)
    <3>1. p.msg.ident = m.from /\ (g \in handled \/ g \in failing)
      BY <1>16, <1>17, <2>2
    <3>2. CASE g \in handled
      <4>1. m.type # "MEASUREMENT_PING"
        BY <2>2 DEF Multicast
      <4>2. m.from \in gw'[g].surrogates
        BY <1>12, <3>2, <4>1, TunnelStepFacts
      <4> QED  BY <3>1, <4>2
    <3>3. CASE g \in failing
      <4>1. g \notin handled /\ <<g, m.from>> \in failing \X {m.from}
        BY <1>8, <3>3
      <4>2. <<g, m.from>> \in unbacked'
        BY <1>5, <4>1
      <4> QED  BY <3>1, <4>2
    <3> QED  BY <3>1, <3>2, <3>3
  <2> QED  BY <1>15, <2>1, <2>2
<1>24. UntrackedHasLeft'
  <2> SUFFICES ASSUME NEW g \in Gateway, NEW n \in gw'[g].surrogates \ Tracked(gw'[g].remote)
               PROVE  last'[g][n] \in {"BYEBYE", "MEASUREMENT_PONG"}
    BY DEF UntrackedHasLeft
  <2>1. last[g] \in [NodeId -> {"none", "BROADCAST", "UNICAST", "BYEBYE", "MEASUREMENT_PONG"}]
    BY <1>1 DEF SharedTypes
  <2>2. n \in NodeId
    BY <1>14, GatewayMembers
  <2>3. CASE g \in handled
    <3>1. \/ n \in gw[g].surrogates \ Tracked(gw[g].remote)
             /\ (n # m.from \/ m.type = "MEASUREMENT_PING")
          \/ n = m.from /\ m.type \in {"BYEBYE", "MEASUREMENT_PONG"}
      BY <1>12, <2>3, TunnelStepFacts
    <3>2. CASE n \in gw[g].surrogates \ Tracked(gw[g].remote)
               /\ (n # m.from \/ m.type = "MEASUREMENT_PING")
      <4>1. last[g][n] \in {"BYEBYE", "MEASUREMENT_PONG"}
        BY <1>1, <3>2 DEF RemoteInv, UntrackedHasLeft
      <4>2. last'[g][n] = last[g][n]
        BY <1>6, <2>1, <2>2, <3>2
      <4> QED  BY <4>1, <4>2
    <3>3. CASE n = m.from /\ m.type \in {"BYEBYE", "MEASUREMENT_PONG"}
      <4>1. last'[g][n] = m.type
        BY <1>6, <2>1, <2>2, <2>3, <3>3
      <4> QED  BY <3>3, <4>1
    <3> QED  BY <3>1, <3>2, <3>3
  <2>4. CASE g \notin handled
    <3>1. gw'[g] = gw[g] /\ last'[g] = last[g]
      BY <1>6, <1>13, <2>4
    <3> QED  BY <1>1, <3>1 DEF RemoteInv, UntrackedHasLeft
  <2> QED  BY <2>3, <2>4
<1>25. RemoteInv'
  BY <1>21, <1>22, <1>23, <1>24 DEF RemoteInv
<1>26. MapsInv'
  BY <1>1, <1>2, <1>14, MapsSame
<1>27. LifeInv'
  <2>1. \A h \in Gateway : gw[h].phase = "stopped" => gw'[h].phase = "stopped"
    BY <1>14
  <2> QED  BY <1>1, <1>2, <2>1, LifeFrame
<1> QED  BY <1>18, <1>19, <1>20, <1>25, <1>26, <1>27 DEF Inv

-----------------------------------------------------------------------------
(* The invariant holds in every reachable state.                            *)

\* No gateway listens yet.
LEMMA InitInv == Init => Inv
<1> SUFFICES ASSUME Init PROVE Inv
  OBVIOUS
<1>1. /\ scenario \in Scenarios /\ gw = [g \in Gateway |-> NewGateway]
      /\ gateways = {} /\ lan = {} /\ rearm = {} /\ dead = FALSE /\ forwarded = {}
      /\ faults = 0 /\ unbacked = {}
      /\ last = [g \in Gateway |-> [n \in NodeId |-> "none"]]
      /\ claims = [g \in Gateway |-> {}]
  BY DEF Init
<1> DEFINE x == NewGateway
<1>2. /\ GoodTracker(NewTracker) /\ NewTracker \in Tracker
      /\ Tracked(NewTracker) = {} /\ Scheduled(NewTracker)
  BY EmptyTracker DEF GoodTracker
<1>3. /\ x \in GatewayState /\ x.phase = "new" /\ ~x.armed
      /\ x.surrogates = {} /\ x.measurers = {}
      /\ x.local = NewTracker /\ x.remote = NewTracker
      /\ x.localSeen = {} /\ x.remoteSeen = {}
      /\ x.endpointOf = [n \in NodeId |-> NoEndpoint] /\ x.nodeAt = [e \in Endpoint |-> NoNode]
  BY <1>2 DEF NewGateway, GatewayState
<1>4. \A g \in Gateway : gw[g] = x
  BY <1>1
<1> HIDE DEF x
<1>5. GatewayOK(x) /\ LocalServed(x) /\ RemoteServed(x) /\ Fresh(x)
  BY <1>2, <1>3 DEF GatewayOK, LocalServed, RemoteServed, Fresh
<1>6. GatewaysInv
  <2>1. gw \in [Gateway -> GatewayState]
    BY <1>1, <1>3 DEF x
  <2> QED  BY <1>3, <1>4, <1>5, <2>1 DEF GatewaysInv, Running
<1>7. SeenInv
  BY <1>1, <1>4, <1>5 DEF SeenInv, FreshInv
<1>8. SharedTypes /\ OutTypes
  <2>1. dead \in BOOLEAN
    BY <1>1
  <2>2. faults \in 0..MaxFaults
    BY <1>1, BoundsAssumption
  <2>3. last \in [Gateway -> [NodeId -> {"none", "BROADCAST", "UNICAST", "BYEBYE",
                                         "MEASUREMENT_PONG"}]]
    BY <1>1
  <2>4. claims \in [Gateway -> SUBSET (NodeId \X Endpoint)]
    BY <1>1
  <2> QED  BY <1>1, <2>1, <2>2, <2>3, <2>4 DEF SharedTypes, OutTypes
<1>9. RemoteInv
  BY <1>1, <1>2, <1>3, <1>4 DEF RemoteInv, BackedInv, EchoInv, NoEcho, UntrackedHasLeft
<1>10. MapsInv
  <2>1. \A n \in NodeId : x.endpointOf[n] = NoEndpoint
    BY <1>3
  <2>2. \A e \in Endpoint : x.nodeAt[e] = NoNode
    BY <1>3
  <2>3. \A g \in Gateway : Recorded(gw[g], claims[g]) /\ Agree(gw[g], claims[g])
    BY <1>4, <2>1, <2>2, NoNodeAssumption, NoEndpointAssumption
    DEF Recorded, Agree, HasLocalNode
  <2> QED  BY <2>3, MapsByGateway
<1>11. LifeInv
  BY <1>1 DEF LifeInv, RearmInv, NoNullRearm
<1> QED  BY <1>6, <1>7, <1>8, <1>9, <1>10, <1>11 DEF Inv

\* Nothing changes.
LEMMA StutterInv == Inv /\ UNCHANGED vars => Inv'
<1> SUFFICES ASSUME Inv, UNCHANGED vars PROVE Inv'
  OBVIOUS
<1>1. /\ scenario' = scenario /\ gw' = gw /\ gateways' = gateways /\ lan' = lan
      /\ rearm' = rearm /\ dead' = dead /\ forwarded' = forwarded /\ faults' = faults
      /\ unbacked' = unbacked /\ last' = last /\ claims' = claims
  BY DEF vars
<1>2. SharedTypes' /\ OutTypes'
  BY <1>1 DEF Inv, SharedTypes, OutTypes
<1>3. GatewaysInv'
  BY <1>1 DEF Inv, GatewaysInv, Running
<1>4. RemoteInv'
  BY <1>1, RemoteFrame DEF Inv, SeenInv
<1>5. MapsInv'
  BY <1>1, MapsSame DEF Inv, SameMaps
<1>6. LifeInv'
  BY <1>1, LifeFrame DEF Inv, LifeInv, RearmInv
<1>7. SeenInv'
  BY <1>1 DEF Inv, SeenInv, FreshInv
<1> QED  BY <1>2, <1>3, <1>4, <1>5, <1>6, <1>7 DEF Inv

\* What the scenario allows.
LEMMA ScenarioTypes ==
    ASSUME scenario \in Scenarios
    PROVE  /\ scenario.lan \subseteq LanMessage
           /\ scenario.tunnel \subseteq TunnelMessage
           /\ scenario.measure \subseteq Measurement
<1>1. scenario \in [gateways : SUBSET Gateway, lan : SUBSET LanMessage,
                    tunnel : SUBSET TunnelMessage, measure : SUBSET Measurement,
                    stops : BOOLEAN]
  BY ScenariosAssumption
<1> QED  BY <1>1

\* Every step keeps the invariant.
LEMMA NextInv == Inv /\ [Next]_vars => Inv'
<1> SUFFICES ASSUME Inv, [Next]_vars PROVE Inv'
  OBVIOUS
<1>1. /\ scenario.lan \subseteq LanMessage
      /\ scenario.tunnel \subseteq TunnelMessage
      /\ scenario.measure \subseteq Measurement
  BY ScenarioTypes DEF Inv, SharedTypes
<1>2. \A p \in lan : p.msg \in LanMessage
  BY DEF Inv, SharedTypes
<1>3. ASSUME NEW g \in Gateway, Listen(g) PROVE Inv'
  BY <1>3, ListenStep
<1>4. ASSUME NEW g \in Gateway, HearNode(g) PROVE Inv'
  <2>1. PICK m \in scenario.lan, inSubnet \in BOOLEAN : Receive(g, m, inSubnet)
    BY <1>4 DEF HearNode
  <2>2. m \in LanMessage
    BY <1>1
  <2> QED  BY <2>1, <2>2, ReceiveStep
<1>5. ASSUME NEW g \in Gateway, HearSurrogate(g) PROVE Inv'
  <2>1. PICK p \in lan : Receive(g, p.msg, TRUE)
    BY <1>5 DEF HearSurrogate
  <2>2. p.msg \in LanMessage
    BY <1>2
  <2> QED  BY <2>1, <2>2, ReceiveStep
<1>6. ASSUME NEW g \in Gateway, PruneLocal(g) PROVE Inv'
  BY <1>6, PruneLocalStep
<1>7. ASSUME NEW g \in Gateway, PruneRemote(g) PROVE Inv'
  BY <1>7, PruneRemoteStep
<1>8. ASSUME NEW g \in Gateway, NEW n \in NodeId, NEW m \in scenario.lan,
             ReceiveOnSurrogate(g, n, m)
      PROVE  Inv'
  <2>1. m \in LanMessage
    BY <1>1
  <2> QED  BY <1>8, <2>1, ReceiveOnSurrogateStep
<1>9. ASSUME NEW g \in Gateway, NEW n \in NodeId, NEW m \in scenario.measure,
             ReceiveMeasurement(g, n, m)
      PROVE  Inv'
  <2>1. m \in Measurement
    BY <1>1
  <2> QED  BY <1>9, <2>1, ReceiveMeasurementStep
<1>10. CASE RearmSurrogate
  BY <1>10, RearmSurrogateStep
<1>11. ASSUME NEW m \in scenario.tunnel, NEW noSocket \in SUBSET gateways,
              ForwardLocally(m, noSocket)
       PROVE  Inv'
  <2>1. m \in TunnelMessage
    BY <1>1
  <2> QED  BY <1>11, <2>1, ForwardLocallyStep
<1>12. ASSUME NEW g \in Gateway, StopFlag(g) PROVE Inv'
  BY <1>12, StopFlagStep
<1>13. ASSUME NEW g \in Gateway, StopClear(g) PROVE Inv'
  BY <1>13, StopClearStep
<1>14. CASE DropGateways
  BY <1>14, DropGatewaysStep
<1>15. CASE Tick
  BY <1>15, TickStep
<1>16. CASE UNCHANGED vars
  BY <1>16, StutterInv
<1>17. CASE IoStep
  BY <1>3, <1>4, <1>5, <1>6, <1>7, <1>8, <1>9, <1>10, <1>11, <1>17 DEF IoStep
<1>18. CASE AppStep
  BY <1>12, <1>13, <1>14, <1>18 DEF AppStep
<1> QED  BY <1>15, <1>16, <1>17, <1>18 DEF Next, Crashed

\* Every reachable state satisfies the inductive invariant.
THEOREM GatewayInvariant == Spec => []Inv
BY InitInv, NextInv, PTL DEF Spec

-----------------------------------------------------------------------------
(* What it says about the gateways.                                         *)

\* Type correctness; every node in localNodeIdToEndpointMap has an endpoint of
\* the LAN, and the peer trackers stay vectors of timeouts.
THEOREM GatewayTypes == Spec => []TypeOK
<1>1. Inv => TypeOK
  BY DEF Inv, SharedTypes, OutTypes, GatewaysInv, TypeOK
<1> QED  BY <1>1, GatewayInvariant, PTL

\* No gateway takes the multicast of another gateway's surrogate for a local
\* node, whatever the number of interfaces, the lifetimes and the delays, as
\* long as a multicast is under way no longer than its time to live.
THEOREM NoRemoteNodeEchoed == Spec => []NoEcho
<1>1. Inv => NoEcho
  BY DEF Inv, RemoteInv
<1> QED  BY <1>1, GatewayInvariant, PTL

\* A surrogate that nothing will ever remove belongs to a node that said
\* goodbye or was only heard of in a pong.
THEOREM OrphansHaveLeft == Spec => []UntrackedHasLeft
<1>1. Inv => UntrackedHasLeft
  BY DEF Inv, RemoteInv
<1> QED  BY <1>1, GatewayInvariant, PTL

\* The two maps of measurement endpoints stay inverse to each other for nodes
\* and endpoints that were only recorded with each other.
THEOREM EndpointMapsAgree == Spec => []MapsAgree
<1>1. Inv => MapsAgree
  BY DEF Inv, MapsInv
<1> QED  BY <1>1, GatewayInvariant, PTL

\* Only stop_listening on the application thread can make the handler of a
\* surrogate's socket miss its surrogate.
THEOREM RearmFindsSurrogate == Spec => []NoNullRearm
<1>1. Inv => NoNullRearm
  BY DEF Inv, LifeInv
<1> QED  BY <1>1, GatewayInvariant, PTL

-----------------------------------------------------------------------------
(* The observers get what PeerExpiry promises.                              *)

\* What Lifetimes is when the observer knows who is tracked.
Remaining(phase, t) ==
    [n \in NodeId |-> IF phase = "running" /\ n \in Tracked(t) THEN TimeOf(t, n) ELSE Off]

LocalLeft(s) == Remaining(s.phase, s.local)

RemoteLeft(s) == Remaining(s.phase, s.remote)

\* A step of PeerExpiry from the lifetimes x to the lifetimes y, which
\* leaves the gateway in the phase `after'.
ExpiryStep(x, y, byes, after) ==
    \/ y = x
    \/ \E n \in NodeId, ttl \in Ttl : y = [x EXCEPT ![n] = ttl]
    \/ \E n \in NodeId : n \in byes /\ y = [x EXCEPT ![n] = Off]
    \/ y = [n \in NodeId |-> IF x[n] # Off /\ x[n] < 0 THEN Off ELSE x[n]]
    \/ after # "running" /\ y = [n \in NodeId |-> Off]
    \/ /\ \A n \in NodeId : x[n] # Off => x[n] >= -MaxLate
       /\ y = [n \in NodeId |-> IF x[n] = Off THEN Off ELSE x[n] - 1]

LocalByes(g, out) ==
    {f.msg.from : f \in {x \in out : x.gateway = g /\ x.msg.type = "BYEBYE"}}

RemoteByes(types) == {n \in NodeId : types[n] = "BYEBYE"}

\* What a running gateway tells an observer is what it tracks.
LEMMA LifetimesServed ==
    ASSUME NEW g \in Gateway, NEW seen, NEW t,
           gw[g].phase = "running" => seen = Tracked(t)
    PROVE  Lifetimes(g, seen, t) = Remaining(gw[g].phase, t)
<1>1. CASE gw[g].phase = "running"
  <2>1. seen = Tracked(t)
    BY <1>1
  <2>2. ASSUME NEW n \in NodeId, n \in Tracked(t)
        PROVE  Lifetimes(g, seen, t)[n] = TimeOf(t, n)
    BY <1>1, <2>1, <2>2 DEF Lifetimes, Running
  <2>3. ASSUME NEW n \in NodeId, n \notin Tracked(t)
        PROVE  Lifetimes(g, seen, t)[n] = Off
    BY <1>1, <2>1, <2>3 DEF Lifetimes, Running
  <2>4. Lifetimes(g, seen, t) = [n \in NodeId |-> Lifetimes(g, seen, t)[n]]
    BY DEF Lifetimes
  <2> QED  BY <1>1, <2>2, <2>3, <2>4 DEF Remaining
<1>2. CASE gw[g].phase # "running"
  <2>1. ASSUME NEW n \in NodeId PROVE Lifetimes(g, seen, t)[n] = Off
    BY <1>2 DEF Lifetimes, Running
  <2>2. Lifetimes(g, seen, t) = [n \in NodeId |-> Lifetimes(g, seen, t)[n]]
    BY DEF Lifetimes
  <2> QED  BY <1>2, <2>1, <2>2 DEF Remaining
<1> QED  BY <1>1, <1>2

\* For the observer of the local side.
LEMMA LocalLifetimes ==
    ASSUME SeenInv, NEW g \in Gateway
    PROVE  Lifetimes(g, gw[g].localSeen, gw[g].local) = LocalLeft(gw[g])
<1>1. gw[g].phase = "running" => gw[g].localSeen = Tracked(gw[g].local)
  BY DEF SeenInv, LocalServed
<1> QED  BY <1>1, LifetimesServed DEF LocalLeft

\* For the observer of the remote side.
LEMMA RemoteLifetimes ==
    ASSUME SeenInv, NEW g \in Gateway
    PROVE  Lifetimes(g, gw[g].remoteSeen, gw[g].remote) = RemoteLeft(gw[g])
<1>1. gw[g].phase = "running" => gw[g].remoteSeen = Tracked(gw[g].remote)
  BY DEF SeenInv, RemoteServed
<1> QED  BY <1>1, LifetimesServed DEF RemoteLeft

\* For the observer of the local side, in the next state.
LEMMA LocalLifetimesNext ==
    ASSUME SeenInv', NEW g \in Gateway
    PROVE  Lifetimes(g, gw[g].localSeen, gw[g].local)' = LocalLeft(gw'[g])
<1>1. gw'[g].phase = "running" => gw'[g].localSeen = Tracked(gw'[g].local)
  BY DEF SeenInv, LocalServed
<1>2. CASE gw'[g].phase = "running"
  <2>1. gw'[g].localSeen = Tracked(gw'[g].local)
    BY <1>1, <1>2
  <2> DEFINE x == Lifetimes(g, gw[g].localSeen, gw[g].local)'
             t == gw'[g].local
  <2>2. ASSUME NEW n \in NodeId, n \in Tracked(t)
        PROVE  x[n] = TimeOf(t, n)
    BY <1>2, <2>1, <2>2 DEF Lifetimes, Running
  <2>3. ASSUME NEW n \in NodeId, n \notin Tracked(t)
        PROVE  x[n] = Off
    BY <1>2, <2>1, <2>3 DEF Lifetimes, Running
  <2>4. x = [n \in NodeId |-> x[n]]
    BY DEF Lifetimes
  <2> HIDE DEF x
  <2>5. x = LocalLeft(gw'[g])
    BY <1>2, <2>2, <2>3, <2>4 DEF LocalLeft, Remaining
  <2> QED  BY <2>5 DEF x
<1>3. CASE gw'[g].phase # "running"
  <2> DEFINE x == Lifetimes(g, gw[g].localSeen, gw[g].local)'
  <2>1. ASSUME NEW n \in NodeId PROVE x[n] = Off
    BY <1>3 DEF Lifetimes, Running
  <2>2. x = [n \in NodeId |-> x[n]]
    BY DEF Lifetimes
  <2> HIDE DEF x
  <2>3. x = LocalLeft(gw'[g])
    BY <1>3, <2>1, <2>2 DEF LocalLeft, Remaining
  <2> QED  BY <2>3 DEF x
<1> QED  BY <1>2, <1>3

\* For the observer of the remote side, in the next state.
LEMMA RemoteLifetimesNext ==
    ASSUME SeenInv', NEW g \in Gateway
    PROVE  Lifetimes(g, gw[g].remoteSeen, gw[g].remote)' = RemoteLeft(gw'[g])
<1>1. gw'[g].phase = "running" => gw'[g].remoteSeen = Tracked(gw'[g].remote)
  BY DEF SeenInv, RemoteServed
<1>2. CASE gw'[g].phase = "running"
  <2>1. gw'[g].remoteSeen = Tracked(gw'[g].remote)
    BY <1>1, <1>2
  <2> DEFINE x == Lifetimes(g, gw[g].remoteSeen, gw[g].remote)'
             t == gw'[g].remote
  <2>2. ASSUME NEW n \in NodeId, n \in Tracked(t)
        PROVE  x[n] = TimeOf(t, n)
    BY <1>2, <2>1, <2>2 DEF Lifetimes, Running
  <2>3. ASSUME NEW n \in NodeId, n \notin Tracked(t)
        PROVE  x[n] = Off
    BY <1>2, <2>1, <2>3 DEF Lifetimes, Running
  <2>4. x = [n \in NodeId |-> x[n]]
    BY DEF Lifetimes
  <2> HIDE DEF x
  <2>5. x = RemoteLeft(gw'[g])
    BY <1>2, <2>2, <2>3, <2>4 DEF RemoteLeft, Remaining
  <2> QED  BY <2>5 DEF x
<1>3. CASE gw'[g].phase # "running"
  <2> DEFINE x == Lifetimes(g, gw[g].remoteSeen, gw[g].remote)'
  <2>1. ASSUME NEW n \in NodeId PROVE x[n] = Off
    BY <1>3 DEF Lifetimes, Running
  <2>2. x = [n \in NodeId |-> x[n]]
    BY DEF Lifetimes
  <2> HIDE DEF x
  <2>3. x = RemoteLeft(gw'[g])
    BY <1>3, <2>1, <2>2 DEF RemoteLeft, Remaining
  <2> QED  BY <2>3 DEF x
<1> QED  BY <1>2, <1>3

\* A step on the local side that the lifetimes allow is one of PeerExpiry.
LEMMA LocalExpiryStep ==
    ASSUME SeenInv, SeenInv', NEW g \in Gateway,
           ExpiryStep(LocalLeft(gw[g]), LocalLeft(gw'[g]), LocalByes(g, forwarded'),
                      gw'[g].phase)
    PROVE  LocalExpiry(g)!Step
<1> DEFINE x == LocalLeft(gw[g])
           y == LocalLeft(gw'[g])
<1>1. Lifetimes(g, gw[g].localSeen, gw[g].local) = x
  BY LocalLifetimes
<1>2. Lifetimes(g, gw[g].localSeen, gw[g].local)' = y
  BY LocalLifetimesNext
<1>3. ExpiryStep(x, y, LocalByes(g, forwarded'), gw'[g].phase)
  OBVIOUS
<1> HIDE DEF x, y
<1> QED
  BY <1>1, <1>2, <1>3
  DEF ExpiryStep, LocalByes, Running, LocalExpiry!Step, LocalExpiry!Next,
      LocalExpiry!Announce, LocalExpiry!Leave, LocalExpiry!GiveUp, LocalExpiry!Close,
      LocalExpiry!Second

\* A step on the remote side that the lifetimes allow is one of PeerExpiry.
LEMMA RemoteExpiryStep ==
    ASSUME SeenInv, SeenInv', NEW g \in Gateway,
           ExpiryStep(RemoteLeft(gw[g]), RemoteLeft(gw'[g]), RemoteByes(last'[g]),
                      gw'[g].phase)
    PROVE  RemoteExpiry(g)!Step
<1> DEFINE x == RemoteLeft(gw[g])
           y == RemoteLeft(gw'[g])
<1>1. Lifetimes(g, gw[g].remoteSeen, gw[g].remote) = x
  BY RemoteLifetimes
<1>2. Lifetimes(g, gw[g].remoteSeen, gw[g].remote)' = y
  BY RemoteLifetimesNext
<1>3. ExpiryStep(x, y, RemoteByes(last'[g]), gw'[g].phase)
  OBVIOUS
<1> HIDE DEF x, y
<1> QED
  BY <1>1, <1>2, <1>3
  DEF ExpiryStep, RemoteByes, Running, RemoteExpiry!Step, RemoteExpiry!Next,
      RemoteExpiry!Announce, RemoteExpiry!Leave, RemoteExpiry!GiveUp, RemoteExpiry!Close,
      RemoteExpiry!Second

\* Nothing is promised to an observer that is not served.
LEMMA RemainingOff ==
    ASSUME NEW phase, NEW t, phase # "running" \/ Tracked(t) = {}
    PROVE  Remaining(phase, t) = [n \in NodeId |-> Off]
BY DEF Remaining

\* What the operations of a tracker do to the lifetimes.
LEMMA RemainingUpdate ==
    ASSUME NEW t, GoodTracker(t), NEW n \in NodeId, NEW ttl \in Ttl, NEW phase, NEW byes, NEW after
    PROVE  ExpiryStep(Remaining(phase, t), Remaining(phase, UpdateTimeout(t, n, ttl)),
                      byes, after)
<1> DEFINE x == Remaining(phase, t)
           u == UpdateTimeout(t, n, ttl)
           y == Remaining(phase, u)
<1>1. ttl \in Int
  BY TtlAssumption
<1>2. /\ Tracked(u) = Tracked(t) \cup {n} /\ TimeOf(u, n) = ttl
      /\ \A m \in Tracked(t) \ {n} : TimeOf(u, m) = TimeOf(t, m)
  BY <1>1, UpdateFacts
<1> HIDE DEF u
<1>3. CASE phase = "running"
  <2>1. \A m \in NodeId : y[m] = IF m = n THEN ttl ELSE x[m]
    BY <1>2, <1>3 DEF Remaining
  <2>2. x = [m \in NodeId |-> x[m]] /\ y = [m \in NodeId |-> y[m]]
    BY DEF Remaining
  <2> HIDE DEF x, y
  <2>3. y = [x EXCEPT ![n] = ttl]
    BY <2>1, <2>2
  <2>4. ExpiryStep(x, y, byes, after)
    BY <2>3 DEF ExpiryStep
  <2> QED  BY <2>4 DEF x, y, u
<1>4. CASE phase # "running"
  <2>1. y = x
    BY <1>4, RemainingOff
  <2> HIDE DEF x, y
  <2>2. ExpiryStep(x, y, byes, after)
    BY <2>1 DEF ExpiryStep
  <2> QED  BY <2>2 DEF x, y, u
<1> QED  BY <1>3, <1>4

\* A node that said goodbye may go at once.
LEMMA RemainingUntrack ==
    ASSUME NEW t, GoodTracker(t), NEW byes, NEW n \in NodeId, n \in byes, NEW phase, NEW after
    PROVE  ExpiryStep(Remaining(phase, t), Remaining(phase, Untrack(t, n)), byes, after)
<1> DEFINE x == Remaining(phase, t)
           u == Untrack(t, n)
           y == Remaining(phase, u)
<1>1. /\ Tracked(u) = Tracked(t) \ {n}
      /\ \A m \in Tracked(t) \ {n} : TimeOf(u, m) = TimeOf(t, m)
  BY UntrackFacts
<1> HIDE DEF u
<1>2. \A m \in NodeId : y[m] = IF m = n THEN Off ELSE x[m]
  BY <1>1 DEF Remaining
<1>3. x = [m \in NodeId |-> x[m]] /\ y = [m \in NodeId |-> y[m]]
  BY DEF Remaining
<1> HIDE DEF x, y
<1>4. y = [x EXCEPT ![n] = Off]
  BY <1>2, <1>3
<1>5. ExpiryStep(x, y, byes, after)
  BY <1>4 DEF ExpiryStep
<1> QED  BY <1>5 DEF x, y, u

\* Pruning gives up only nodes that are over their time.
LEMMA RemainingPrune ==
    ASSUME NEW t, GoodTracker(t), NEW phase, NEW byes, NEW after
    PROVE  ExpiryStep(Remaining(phase, t), Remaining(phase, Prune(t)), byes, after)
<1> DEFINE x == Remaining(phase, t)
           u == Prune(t)
           y == Remaining(phase, u)
<1>1. /\ \A m \in Tracked(t) : m \in Tracked(u) <=> ~(TimeOf(t, m) < 0)
      /\ Tracked(u) \subseteq Tracked(t)
      /\ \A m \in Tracked(u) : TimeOf(u, m) = TimeOf(t, m)
  BY PruneFacts
<1>2. \A m \in Tracked(t) : TimeOf(t, m) \in Int /\ TimeOf(t, m) # Off
  BY EntryFacts, OffAssumption
<1> HIDE DEF u
<1>3. \A m \in NodeId : y[m] = IF x[m] # Off /\ x[m] < 0 THEN Off ELSE x[m]
  <2> SUFFICES ASSUME NEW m \in NodeId
               PROVE  y[m] = IF x[m] # Off /\ x[m] < 0 THEN Off ELSE x[m]
    OBVIOUS
  <2>1. CASE phase = "running" /\ m \in Tracked(t)
    <3>1. x[m] = TimeOf(t, m)
      BY <2>1 DEF Remaining
    <3>2. y[m] = IF m \in Tracked(u) THEN TimeOf(u, m) ELSE Off
      BY <2>1 DEF Remaining
    <3> HIDE DEF x, y
    <3> QED  BY <1>1, <1>2, <2>1, <3>1, <3>2
  <2>2. CASE ~(phase = "running" /\ m \in Tracked(t))
    <3>1. x[m] = Off /\ y[m] = Off
      BY <1>1, <2>2 DEF Remaining
    <3> HIDE DEF x, y
    <3> QED  BY <3>1
  <2> QED  BY <2>1, <2>2
<1>4. y = [m \in NodeId |-> y[m]]
  BY DEF Remaining
<1> HIDE DEF x, y
<1>5. y = [m \in NodeId |-> IF x[m] # Off /\ x[m] < 0 THEN Off ELSE x[m]]
  BY <1>3, <1>4
<1>6. ExpiryStep(x, y, byes, after)
  BY <1>5 DEF ExpiryStep
<1> QED  BY <1>6 DEF x, y, u

\* A second passes, and no node is kept beyond the timer's delay.
LEMMA RemainingElapse ==
    ASSUME NEW t, GoodTracker(t), Scheduled(t), OnTime(t), NEW phase, NEW byes, NEW after
    PROVE  ExpiryStep(Remaining(phase, t), Remaining(phase, Elapse(t)), byes, after)
<1> DEFINE x == Remaining(phase, t)
           u == Elapse(t)
           y == Remaining(phase, u)
<1>1. /\ Tracked(u) = Tracked(t)
      /\ \A m \in Tracked(t) : TimeOf(u, m) = TimeOf(t, m) - 1
  BY ElapseFacts
<1>2. ASSUME NEW m \in Tracked(t)
      PROVE  TimeOf(t, m) \in Int /\ TimeOf(t, m) # Off /\ TimeOf(t, m) >= -MaxLate
  <2>1. PICK i \in DOMAIN t.mTimeouts : t.mTimeouts[i].node = m
    BY EntryFacts
  <2>2. TimeOf(t, m) = t.mTimeouts[i].time /\ TimeOf(t, m) \in Int
    BY <2>1, EntryFacts
  <2>3. t.mTimer \in Int /\ t.mTimer <= t.mTimeouts[i].time + 1
    BY DEF Scheduled
  <2>4. t.mTimer > -MaxLate
    BY <2>3, OffAssumption DEF OnTime
  <2>5. MaxLate \in Int
    BY BoundsAssumption
  <2> QED  BY <2>2, <2>3, <2>4, <2>5, OffAssumption
<1> HIDE DEF u
<1>3. ASSUME NEW m \in NodeId
      PROVE  /\ x[m] # Off => x[m] >= -MaxLate
             /\ y[m] = IF x[m] = Off THEN Off ELSE x[m] - 1
  <2>1. CASE phase = "running" /\ m \in Tracked(t)
    <3>1. x[m] = TimeOf(t, m) /\ y[m] = TimeOf(u, m)
      BY <1>1, <2>1 DEF Remaining
    <3> HIDE DEF x, y
    <3> QED  BY <1>1, <1>2, <2>1, <3>1
  <2>2. CASE ~(phase = "running" /\ m \in Tracked(t))
    <3>1. x[m] = Off /\ y[m] = Off
      BY <1>1, <2>2 DEF Remaining
    <3> HIDE DEF x, y
    <3> QED  BY <3>1
  <2> QED  BY <2>1, <2>2
<1>4. y = [m \in NodeId |-> y[m]]
  BY DEF Remaining
<1> HIDE DEF x, y
<1>5. y = [m \in NodeId |-> IF x[m] = Off THEN Off ELSE x[m] - 1]
  BY <1>3, <1>4
<1>6. ExpiryStep(x, y, byes, after)
  BY <1>3, <1>5 DEF ExpiryStep
<1> QED  BY <1>6 DEF x, y, u

LocalAllowed(g) ==
    ExpiryStep(LocalLeft(gw[g]), LocalLeft(gw'[g]), LocalByes(g, forwarded'), gw'[g].phase)

RemoteAllowed(g) ==
    ExpiryStep(RemoteLeft(gw[g]), RemoteLeft(gw'[g]), RemoteByes(last'[g]), gw'[g].phase)

\* Lifetimes that stay as they are, on the local side.
LEMMA LocalUnchanged ==
    ASSUME NEW g, LocalLeft(gw'[g]) = LocalLeft(gw[g])
    PROVE  LocalAllowed(g)
BY DEF LocalAllowed, ExpiryStep

\* Lifetimes that stay as they are, on the remote side.
LEMMA RemoteUnchanged ==
    ASSUME NEW g, RemoteLeft(gw'[g]) = RemoteLeft(gw[g])
    PROVE  RemoteAllowed(g)
BY DEF RemoteAllowed, ExpiryStep

\* A gateway that the step does not touch.
LEMMA OthersAllowed ==
    ASSUME NEW h, gw'[h] = gw[h]
    PROVE  LocalAllowed(h) /\ RemoteAllowed(h)
BY LocalUnchanged, RemoteUnchanged

\* A message of a node on the LAN announces the node, takes it away or does nothing.
LEMMA StateMessageAllowed ==
    ASSUME NEW g \in Gateway, NEW s, GatewayOK(s), NEW m \in LanMessage,
           NEW to \in NodeId \cup {NoNode}, Note(g, HandleStateMessage(s, m, to)), NEW after
    PROVE  ExpiryStep(LocalLeft(s),
                      Remaining(s.phase, HandleStateMessage(s, m, to).gateway.local),
                      LocalByes(g, forwarded'), after)
<1> DEFINE ignored == HasRemoteNodeSurrogate(s, m.ident) \/ m.type = "other"
           r == HandleStateMessage(s, m, to)
<1>1. GoodTracker(s.local) /\ m.ident \in NodeId /\ m.ttl \in Ttl
  BY GatewayMembers DEF LanMessage
<1>2. CASE ignored
  <2>1. r.gateway.local = s.local
    BY <1>2 DEF HandleStateMessage, Result
  <2> HIDE DEF r
  <2> QED  BY <2>1 DEF ExpiryStep, LocalLeft, r
<1>3. CASE ~ignored /\ m.type = "byebye"
  <2>1. r = ReceiveByeBye(s, m, to)
    BY <1>3 DEF HandleStateMessage
  <2> HIDE DEF r
  <2>2. r.gateway.local = Untrack(s.local, m.ident) /\ r.out = {Tunnelled("BYEBYE", m.ident, to)}
    BY <2>1, ReceiveByeByeFacts
  <2>3. forwarded' = {[gateway |-> g, msg |-> x] : x \in r.out}
    BY DEF Note, r
  <2>4. [gateway |-> g, msg |-> Tunnelled("BYEBYE", m.ident, to)] \in forwarded'
    BY <2>2, <2>3
  <2>5. m.ident \in LocalByes(g, forwarded')
    BY <2>4 DEF LocalByes, Tunnelled
  <2> QED  BY <1>1, <2>2, <2>5, RemainingUntrack DEF LocalLeft, r
<1>4. CASE ~ignored /\ m.type # "byebye"
  <2>1. r = ReceivePeerState(s, m, to)
    BY <1>4 DEF HandleStateMessage
  <2> HIDE DEF r
  <2>2. r.gateway.local = UpdateTimeout(s.local, m.ident, m.ttl)
    BY <2>1, ReceivePeerStateFacts
  <2> QED  BY <1>1, <2>2, RemainingUpdate DEF LocalLeft, r
<1> QED  BY <1>2, <1>3, <1>4

\* Both observers of every gateway in one step.
AllAllowed == \A g \in Gateway : LocalAllowed(g) /\ RemoteAllowed(g)

\* A multicast announces a node, renews it or takes its leave.
LEMMA ReceiveAllowed ==
    ASSUME Inv, NEW g \in Gateway, NEW m \in LanMessage, NEW inSubnet, Receive(g, m, inSubnet)
    PROVE  AllAllowed
<1> DEFINE s == gw[g]
           r == IF inSubnet THEN HandleStateMessage(s, m, NoNode) ELSE Result(s, {})
           b == s.phase = "running"
           x == [r.gateway EXCEPT !.armed = b]
<1>1. GatewayOK(s) /\ gw \in [Gateway -> GatewayState]
  BY DEF Inv, GatewaysInv
<1>2. gw' = [gw EXCEPT ![g] = x] /\ Note(g, r)
  BY DEF Receive
<1>3. LanStep(s, r.gateway)
  <2>1. CASE inSubnet
    BY <1>1, <2>1, StateMessageFacts
  <2>2. CASE ~inSubnet
    <3>1. r = Result(s, {})
      BY <2>2
    <3>2. r.gateway = s
      BY <3>1 DEF Result
    <3> HIDE DEF r
    <3> QED  BY <1>1, <3>2, LanStepRefl
  <2> QED  BY <2>1, <2>2
<1>4. ExpiryStep(LocalLeft(s), Remaining(s.phase, r.gateway.local), LocalByes(g, forwarded'),
                 gw'[g].phase)
  <2>1. CASE inSubnet
    BY <1>1, <1>2, <2>1, StateMessageAllowed
  <2>2. CASE ~inSubnet
    <3>1. r = Result(s, {})
      BY <2>2
    <3>2. r.gateway = s
      BY <3>1 DEF Result
    <3> HIDE DEF r
    <3> QED  BY <3>2 DEF LocalLeft, ExpiryStep
  <2> QED  BY <2>1, <2>2
<1> HIDE DEF r, b
<1>5. x.local = r.gateway.local /\ x.phase = s.phase /\ x.remote = s.remote
  BY <1>3 DEF LanStep, GatewayOK, GatewayState
<1>6. gw'[g] = x /\ \A h \in Gateway : h # g => gw'[h] = gw[h]
  BY <1>1, <1>2
<1> HIDE DEF x
<1>7. LocalAllowed(g)
  BY <1>4, <1>5, <1>6 DEF LocalAllowed, LocalLeft
<1>8. RemoteAllowed(g)
  BY <1>5, <1>6, RemoteUnchanged DEF RemoteLeft
<1> QED  BY <1>6, <1>7, <1>8, OthersAllowed DEF AllAllowed

\* So does a unicast to a surrogate.
LEMMA ReceiveOnSurrogateAllowed ==
    ASSUME Inv, NEW g \in Gateway, NEW n \in NodeId, NEW m \in LanMessage,
           ReceiveOnSurrogate(g, n, m)
    PROVE  AllAllowed
<1> DEFINE s == gw[g]
           r == HandleStateMessage(s, m, n)
           x == r.gateway
<1>1. GatewayOK(s) /\ gw \in [Gateway -> GatewayState]
  BY DEF Inv, GatewaysInv
<1>2. gw' = [gw EXCEPT ![g] = x] /\ Note(g, r)
  BY DEF ReceiveOnSurrogate
<1>3. LanStep(s, x)
  BY <1>1, StateMessageFacts
<1>4. ExpiryStep(LocalLeft(s), Remaining(s.phase, x.local), LocalByes(g, forwarded'),
                 gw'[g].phase)
  BY <1>1, <1>2, StateMessageAllowed
<1> HIDE DEF r, x
<1>5. x.phase = s.phase /\ x.remote = s.remote
  BY <1>3 DEF LanStep
<1>6. gw'[g] = x /\ \A h \in Gateway : h # g => gw'[h] = gw[h]
  BY <1>1, <1>2
<1>7. LocalAllowed(g)
  BY <1>4, <1>5, <1>6 DEF LocalAllowed, LocalLeft
<1>8. RemoteAllowed(g)
  BY <1>5, <1>6, RemoteUnchanged DEF RemoteLeft
<1> QED  BY <1>6, <1>7, <1>8, OthersAllowed DEF AllAllowed

\* A measurement changes no lifetime.
LEMMA ReceiveMeasurementAllowed ==
    ASSUME Inv, NEW g \in Gateway, NEW n \in NodeId, NEW m \in Measurement,
           ReceiveMeasurement(g, n, m)
    PROVE  AllAllowed
<1>1. GatewayOK(gw[g]) /\ gw \in [Gateway -> GatewayState]
  BY DEF Inv, GatewaysInv
<1>2. PICK r : /\ r \in IF m.type = "pong" THEN {HandlePong(gw[g], m, n)}
                        ELSE {HandlePing(gw[g], m, n, id) : id \in SendersOf(gw[g], m.from)}
               /\ gw' = [gw EXCEPT ![g] = r.gateway]
  BY DEF ReceiveMeasurement
<1> DEFINE x == r.gateway
<1>3. LanStep(gw[g], x) /\ x.local = gw[g].local
  BY <1>1, <1>2, MeasurementFacts
<1>4. gw'[g] = x /\ \A h \in Gateway : h # g => gw'[h] = gw[h]
  BY <1>1, <1>2
<1> HIDE DEF x
<1>5. x.phase = gw[g].phase /\ x.remote = gw[g].remote
  BY <1>3 DEF LanStep
<1>6. LocalAllowed(g)
  BY <1>3, <1>4, <1>5, LocalUnchanged DEF LocalLeft
<1>7. RemoteAllowed(g)
  BY <1>4, <1>5, RemoteUnchanged DEF RemoteLeft
<1> QED  BY <1>4, <1>6, <1>7, OthersAllowed DEF AllAllowed

\* The timer of the local side.
LEMMA PruneLocalAllowed ==
    ASSUME Inv, NEW g \in Gateway, PruneLocal(g)
    PROVE  AllAllowed
<1> DEFINE s == gw[g]
           x == [ForgetLocal(s, Expired(s.local)) EXCEPT !.local     = Prune(@),
                                                         !.localSeen = @ \ Expired(s.local)]
<1>1. GatewayOK(s) /\ gw \in [Gateway -> GatewayState] /\ GoodTracker(s.local)
  BY GatewayMembers DEF Inv, GatewaysInv
<1>2. gw' = [gw EXCEPT ![g] = x]
  BY DEF PruneLocal
<1>3. LanStep(s, x) /\ x.local = Prune(s.local)
  BY <1>1, PruneLocalFacts
<1>4. gw'[g] = x /\ \A h \in Gateway : h # g => gw'[h] = gw[h]
  BY <1>1, <1>2
<1> HIDE DEF x
<1>5. x.phase = s.phase /\ x.remote = s.remote
  BY <1>3 DEF LanStep
<1>6. LocalAllowed(g)
  BY <1>1, <1>3, <1>4, <1>5, RemainingPrune DEF LocalAllowed, LocalLeft
<1>7. RemoteAllowed(g)
  BY <1>4, <1>5, RemoteUnchanged DEF RemoteLeft
<1> QED  BY <1>4, <1>6, <1>7, OthersAllowed DEF AllAllowed

\* The timer of the remote side.
LEMMA PruneRemoteAllowed ==
    ASSUME Inv, NEW g \in Gateway, PruneRemote(g)
    PROVE  AllAllowed
<1> DEFINE s == gw[g]
<1>1. GatewayOK(s) /\ gw \in [Gateway -> GatewayState] /\ GoodTracker(s.remote)
  BY GatewayMembers DEF Inv, GatewaysInv
<1>2. /\ gw'[g].remote = Prune(s.remote) /\ gw'[g].local = s.local /\ gw'[g].phase = s.phase
      /\ \A h \in Gateway : h # g => gw'[h] = gw[h]
  BY <1>1 DEF PruneRemote, GatewayOK, GatewayState
<1>3. LocalAllowed(g)
  BY <1>2, LocalUnchanged DEF LocalLeft
<1>4. RemoteAllowed(g)
  BY <1>1, <1>2, RemainingPrune DEF RemoteAllowed, RemoteLeft
<1> QED  BY <1>2, <1>3, <1>4, OthersAllowed DEF AllAllowed

\* A message of the tunnel announces a remote node, renews it or takes its leave.
LEMMA ForwardLocallyAllowed ==
    ASSUME Inv, NEW m \in TunnelMessage, NEW noSocket \in SUBSET gateways,
           ForwardLocally(m, noSocket)
    PROVE  AllAllowed
<1> DEFINE failing == {g \in noSocket : Routable(gw[g], m) /\ NeedsSocket(gw[g], m)}
           handled == {g \in gateways \ failing : Routable(gw[g], m)}
<1>1. gw' = [g \in Gateway |-> IF g \in handled THEN ForwardMessageLocally(gw[g], m)
                               ELSE gw[g]]
  BY DEF ForwardLocally
<1>2. last' = [g \in Gateway |-> IF g \in handled /\ m.type # "MEASUREMENT_PING"
                                 THEN [last[g] EXCEPT ![m.from] = m.type] ELSE last[g]]
  BY DEF ForwardLocally
<1>3. \A g \in handled : Routable(gw[g], m)
  OBVIOUS
<1>4. /\ m.from \in NodeId /\ m.ttl \in Ttl
      /\ m.type \in {"BROADCAST", "BYEBYE", "UNICAST", "MEASUREMENT_PING", "MEASUREMENT_PONG"}
  BY TunnelMessageFacts
<1> HIDE DEF handled
<1>5. ASSUME NEW g \in Gateway PROVE LocalAllowed(g) /\ RemoteAllowed(g)
  <2>1. CASE g \notin handled
    BY <1>1, <2>1, OthersAllowed
  <2>2. CASE g \in handled
    <3>1. GatewayOK(gw[g]) /\ GoodTracker(gw[g].remote)
      BY GatewayMembers DEF Inv, GatewaysInv
    <3>2. gw'[g] = ForwardMessageLocally(gw[g], m)
      BY <1>1, <2>2
    <3>3. TunnelStep(gw[g], m, gw'[g])
      BY <1>3, <2>2, <3>1, <3>2, ForwardFacts
    <3>4. gw'[g].phase = gw[g].phase /\ gw'[g].local = gw[g].local
      BY <3>3 DEF TunnelStep
    <3>5. LocalAllowed(g)
      BY <3>4, LocalUnchanged DEF LocalLeft
    <3>6. CASE m.type \in {"BROADCAST", "UNICAST"}
      <4>1. gw'[g].remote = UpdateTimeout(gw[g].remote, m.from, m.ttl)
        BY <3>3, <3>6 DEF TunnelStep
      <4>2. RemoteAllowed(g)
        BY <1>4, <3>1, <3>4, <4>1, RemainingUpdate DEF RemoteAllowed, RemoteLeft
      <4> QED  BY <3>5, <4>2
    <3>7. CASE m.type = "BYEBYE"
      <4>1. gw'[g].remote = Untrack(gw[g].remote, m.from)
        BY <3>3, <3>7 DEF TunnelStep
      <4>2. last[g] \in [NodeId -> {"none", "BROADCAST", "UNICAST", "BYEBYE",
                                    "MEASUREMENT_PONG"}]
        BY DEF Inv, SharedTypes
      <4>3. last'[g][m.from] = "BYEBYE"
        BY <1>2, <1>4, <2>2, <3>7, <4>2
      <4>4. m.from \in RemoteByes(last'[g])
        BY <1>4, <4>3 DEF RemoteByes
      <4>5. RemoteAllowed(g)
        BY <1>4, <3>1, <3>4, <4>1, <4>4, RemainingUntrack DEF RemoteAllowed, RemoteLeft
      <4> QED  BY <3>5, <4>5
    <3>8. CASE m.type \in {"MEASUREMENT_PING", "MEASUREMENT_PONG"}
      <4>1. gw'[g].remote = gw[g].remote
        BY <3>3, <3>8 DEF TunnelStep
      <4>2. RemoteAllowed(g)
        BY <3>4, <4>1, RemoteUnchanged DEF RemoteLeft
      <4> QED  BY <3>5, <4>2
    <3> QED  BY <1>4, <3>6, <3>7, <3>8
  <2> QED  BY <2>1, <2>2
<1> QED  BY <1>5 DEF AllAllowed

\* A second passes at every gateway.
LEMMA TickAllowed ==
    ASSUME Inv, Tick
    PROVE  AllAllowed
<1>1. ASSUME NEW g \in Gateway PROVE LocalAllowed(g) /\ RemoteAllowed(g)
  <2>1. /\ GatewayOK(gw[g]) /\ GoodTracker(gw[g].local) /\ GoodTracker(gw[g].remote)
    BY GatewayMembers DEF Inv, GatewaysInv
  <2>2. Scheduled(gw[g].local) /\ Scheduled(gw[g].remote)
    BY DEF Inv, SeenInv, LocalServed, RemoteServed
  <2>3. OnTime(gw[g].local) /\ OnTime(gw[g].remote)
    BY DEF Tick
  <2>4. gw'[g] = Later(gw[g])
    BY DEF Tick, Later
  <2>5. /\ gw'[g].phase = gw[g].phase /\ gw'[g].local = Elapse(gw[g].local)
        /\ gw'[g].remote = Elapse(gw[g].remote)
    BY <2>1, <2>4, LaterFacts
  <2>6. LocalAllowed(g)
    BY <2>1, <2>2, <2>3, <2>5, RemainingElapse DEF LocalAllowed, LocalLeft
  <2>7. RemoteAllowed(g)
    BY <2>1, <2>2, <2>3, <2>5, RemainingElapse DEF RemoteAllowed, RemoteLeft
  <2> QED  BY <2>6, <2>7
<1> QED  BY <1>1 DEF AllAllowed

\* A gateway starts with nobody seen, and its observers are not served any more
\* once it is told to stop.
LEMMA PhaseAllowed ==
    ASSUME Inv, NEW g \in Gateway, Listen(g) \/ StopFlag(g) \/ StopClear(g)
    PROVE  AllAllowed
<1> DEFINE Nobody == [n \in NodeId |-> Off]
<1>1. gw \in [Gateway -> GatewayState] /\ GatewayOK(gw[g])
  BY DEF Inv, GatewaysInv
<1>2. CASE Listen(g)
  <2>1. gw[g].phase = "new" /\ Tracked(gw[g].local) = {} /\ Tracked(gw[g].remote) = {}
    BY <1>2 DEF Listen, Inv, SeenInv, FreshInv, Fresh
  <2>2. /\ gw'[g].local = gw[g].local /\ gw'[g].remote = gw[g].remote
        /\ \A h \in Gateway : h # g => gw'[h] = gw[h]
    BY <1>1, <1>2 DEF Listen, GatewayOK, GatewayState
  <2>3. /\ LocalLeft(gw[g]) = Nobody /\ LocalLeft(gw'[g]) = Nobody
        /\ RemoteLeft(gw[g]) = Nobody /\ RemoteLeft(gw'[g]) = Nobody
    BY <2>1, <2>2, RemainingOff DEF LocalLeft, RemoteLeft
  <2>4. LocalAllowed(g) /\ RemoteAllowed(g)
    BY <2>3, LocalUnchanged, RemoteUnchanged
  <2> QED  BY <2>2, <2>4, OthersAllowed DEF AllAllowed
<1>3. CASE StopFlag(g) \/ StopClear(g)
  <2>1. /\ gw'[g].phase # "running"
        /\ \A h \in Gateway : h # g => gw'[h] = gw[h]
    BY <1>1, <1>3 DEF StopFlag, StopClear, GatewayOK, GatewayState
  <2>2. LocalLeft(gw'[g]) = Nobody /\ RemoteLeft(gw'[g]) = Nobody
    BY <2>1, RemainingOff DEF LocalLeft, RemoteLeft
  <2>3. LocalAllowed(g) /\ RemoteAllowed(g)
    BY <2>1, <2>2 DEF LocalAllowed, RemoteAllowed, ExpiryStep
  <2> QED  BY <2>1, <2>3, OthersAllowed DEF AllAllowed
<1> QED  BY <1>2, <1>3

\* Every step is one that the observers were promised.
LEMMA NextAllowed == Inv /\ [Next]_vars => AllAllowed
<1> SUFFICES ASSUME Inv, [Next]_vars PROVE AllAllowed
  OBVIOUS
<1>1. /\ scenario.lan \subseteq LanMessage
      /\ scenario.tunnel \subseteq TunnelMessage
      /\ scenario.measure \subseteq Measurement
  BY ScenarioTypes DEF Inv, SharedTypes
<1>2. \A p \in lan : p.msg \in LanMessage
  BY DEF Inv, SharedTypes
<1>3. ASSUME NEW g \in Gateway, Listen(g) \/ StopFlag(g) \/ StopClear(g) PROVE AllAllowed
  BY <1>3, PhaseAllowed
<1>4. ASSUME NEW g \in Gateway, HearNode(g) PROVE AllAllowed
  <2>1. PICK m \in scenario.lan, inSubnet \in BOOLEAN : Receive(g, m, inSubnet)
    BY <1>4 DEF HearNode
  <2>2. m \in LanMessage
    BY <1>1
  <2> QED  BY <2>1, <2>2, ReceiveAllowed
<1>5. ASSUME NEW g \in Gateway, HearSurrogate(g) PROVE AllAllowed
  <2>1. PICK p \in lan : Receive(g, p.msg, TRUE)
    BY <1>5 DEF HearSurrogate
  <2>2. p.msg \in LanMessage
    BY <1>2
  <2> QED  BY <2>1, <2>2, ReceiveAllowed
<1>6. ASSUME NEW g \in Gateway, PruneLocal(g) PROVE AllAllowed
  BY <1>6, PruneLocalAllowed
<1>7. ASSUME NEW g \in Gateway, PruneRemote(g) PROVE AllAllowed
  BY <1>7, PruneRemoteAllowed
<1>8. ASSUME NEW g \in Gateway, NEW n \in NodeId, NEW m \in scenario.lan,
             ReceiveOnSurrogate(g, n, m)
      PROVE  AllAllowed
  <2>1. m \in LanMessage
    BY <1>1
  <2> QED  BY <1>8, <2>1, ReceiveOnSurrogateAllowed
<1>9. ASSUME NEW g \in Gateway, NEW n \in NodeId, NEW m \in scenario.measure,
             ReceiveMeasurement(g, n, m)
      PROVE  AllAllowed
  <2>1. m \in Measurement
    BY <1>1
  <2> QED  BY <1>9, <2>1, ReceiveMeasurementAllowed
<1>10. ASSUME gw' = gw PROVE AllAllowed
  BY <1>10, OthersAllowed DEF AllAllowed
<1>11. ASSUME NEW m \in scenario.tunnel, NEW noSocket \in SUBSET gateways,
              ForwardLocally(m, noSocket)
       PROVE  AllAllowed
  <2>1. m \in TunnelMessage
    BY <1>1
  <2> QED  BY <1>11, <2>1, ForwardLocallyAllowed
<1>12. CASE RearmSurrogate
  BY <1>10, <1>12 DEF RearmSurrogate
<1>13. CASE DropGateways
  BY <1>10, <1>13 DEF DropGateways
<1>14. CASE Tick
  BY <1>14, TickAllowed
<1>15. CASE UNCHANGED vars
  BY <1>10, <1>15 DEF vars
<1>16. CASE IoStep
  BY <1>3, <1>4, <1>5, <1>6, <1>7, <1>8, <1>9, <1>11, <1>12, <1>16 DEF IoStep
<1>17. CASE AppStep
  BY <1>3, <1>13, <1>17 DEF AppStep
<1> QED  BY <1>14, <1>15, <1>16, <1>17 DEF Next, Crashed

\* The observers of every gateway, and with them the counts of local and remote
\* peers, follow PeerExpiry: peerLost and the timeouts come neither early nor
\* more than a second and a timer's delay late.
THEOREM PeersExpireAsPromised == Spec => ObserversServed
<1>1. Init => \A g \in Gateway : LocalExpiry(g)!Init /\ RemoteExpiry(g)!Init
  <2> SUFFICES ASSUME Init, NEW g \in Gateway
               PROVE  LocalExpiry(g)!Init /\ RemoteExpiry(g)!Init
    OBVIOUS
  <2>1. SeenInv
    BY InitInv DEF Inv
  <2>2. gw[g].phase # "running"
    BY DEF Init, NewGateway
  <2>3. LocalLeft(gw[g]) = [n \in NodeId |-> Off] /\ RemoteLeft(gw[g]) = [n \in NodeId |-> Off]
    BY <2>2, RemainingOff DEF LocalLeft, RemoteLeft
  <2>4. LocalExpiry(g)!Init
    BY <2>1, <2>3, LocalLifetimes DEF LocalExpiry!Init
  <2>5. RemoteExpiry(g)!Init
    BY <2>1, <2>3, RemoteLifetimes DEF RemoteExpiry!Init
  <2> QED  BY <2>4, <2>5
<1>2. Inv /\ Inv' /\ [Next]_vars => \A g \in Gateway : LocalExpiry(g)!Step /\ RemoteExpiry(g)!Step
  <2> SUFFICES ASSUME Inv, Inv', [Next]_vars, NEW g \in Gateway
               PROVE  LocalExpiry(g)!Step /\ RemoteExpiry(g)!Step
    OBVIOUS
  <2>1. SeenInv /\ SeenInv'
    BY DEF Inv
  <2>2. LocalAllowed(g) /\ RemoteAllowed(g)
    BY NextAllowed DEF AllAllowed
  <2>3. LocalExpiry(g)!Step
    BY <2>1, <2>2, LocalExpiryStep DEF LocalAllowed
  <2>4. RemoteExpiry(g)!Step
    BY <2>1, <2>2, RemoteExpiryStep DEF RemoteAllowed
  <2> QED  BY <2>3, <2>4
<1> QED  BY <1>1, <1>2, GatewayInvariant, PTL DEF Spec, ObserversServed
=============================================================================
