-------------------------- MODULE DedupCacheProofs --------------------------
(* DedupCache for every capacity, window, set of messages and number of     *)
(* callers: its list and its map fit together, what it drops and lets pass  *)
(* is right, and it implements RecentFilter.                                *)
EXTENDS DedupCache, SequencesExt, Integers, TLAPS, FiniteSetTheorems

\* vector::erase(begin() + i): the entries behind position i move up by one.
LEMMA RemoveAtProperties ==
    ASSUME NEW S, NEW s \in Seq(S), NEW i \in 1..Len(s)
    PROVE  /\ RemoveAt(s, i) \in Seq(S)
           /\ Len(RemoveAt(s, i)) = Len(s) - 1
           /\ \A j \in 1..(Len(s) - 1) :
                 RemoveAt(s, i)[j] = IF j < i THEN s[j] ELSE s[j + 1]
<1> DEFINE u == SubSeq(s, 1, i - 1)
           v == SubSeq(s, i + 1, Len(s))
<1>1. u \in Seq(S) /\ Len(u) = i - 1 /\ \A j \in 1..(i - 1) : u[j] = s[j]
  OBVIOUS
<1>2. v \in Seq(S) /\ Len(v) = Len(s) - i /\ \A j \in 1..(Len(s) - i) : v[j] = s[i + j]
  OBVIOUS
<1>3. RemoveAt(s, i) = u \o v
  BY DEF RemoveAt
<1> HIDE DEF u, v
<1>4. u \o v \in Seq(S) /\ Len(u \o v) = Len(s) - 1
  BY <1>1, <1>2
<1>5. ASSUME NEW j \in 1..(Len(s) - 1)
      PROVE  (u \o v)[j] = IF j < i THEN s[j] ELSE s[j + 1]
  <2>1. CASE j < i
    BY <1>1, <1>2, <2>1
  <2>2. CASE ~(j < i)
    <3>1. (u \o v)[j] = v[j - (i - 1)]
      BY <1>1, <1>2, <2>2
    <3>2. j - (i - 1) \in 1..(Len(s) - i)
      BY <2>2
    <3>3. i + (j - (i - 1)) = j + 1
      OBVIOUS
    <3> QED  BY <1>2, <2>2, <3>1, <3>2, <3>3
  <2> QED  BY <2>1, <2>2
<1> QED  BY <1>3, <1>4, <1>5

\* list::push_front, position by position.
LEMMA PrependPositions ==
    ASSUME NEW S, NEW s \in Seq(S), NEW x \in S
    PROVE  /\ <<x>> \o s \in Seq(S)
           /\ Len(s) \in Nat
           /\ Len(<<x>> \o s) = Len(s) + 1
           /\ DOMAIN (<<x>> \o s) = 1..(Len(s) + 1)
           /\ (<<x>> \o s)[1] = x
           /\ \A j \in 2..(Len(s) + 1) : (<<x>> \o s)[j] = s[j - 1]
<1> DEFINE h == <<x>>
<1>1. h \in Seq(S)
  OBVIOUS
<1>2. Len(h) = 1 /\ h[1] = x
  OBVIOUS
<1> HIDE DEF h
<1>3. /\ h \o s \in Seq(S) /\ Len(h \o s) = Len(h) + Len(s) /\ Len(s) \in Nat
      /\ DOMAIN (h \o s) = 1..(Len(h) + Len(s))
      /\ \A j \in 1..(Len(h) + Len(s)) :
            (h \o s)[j] = IF j <= Len(h) THEN h[j] ELSE s[j - Len(h)]
  BY <1>1
<1> DEFINE t == h \o s
<1> HIDE DEF t
<1>4. /\ Len(t) = 1 + Len(s) /\ DOMAIN t = 1..(1 + Len(s))
      /\ \A j \in 1..(1 + Len(s)) : t[j] = IF j <= 1 THEN h[j] ELSE s[j - 1]
  BY <1>2, <1>3 DEF t
<1>5. \A j \in 2..(Len(s) + 1) : j \in 1..(1 + Len(s)) /\ ~(j <= 1)
  BY <1>3
<1>6. Len(s) + 1 = 1 + Len(s) /\ 1 \in 1..(1 + Len(s)) /\ 1 <= 1
  BY <1>3
<1>7. /\ t \in Seq(S) /\ Len(s) \in Nat /\ Len(t) = Len(s) + 1
      /\ DOMAIN t = 1..(Len(s) + 1) /\ t[1] = x
      /\ \A j \in 2..(Len(s) + 1) : t[j] = s[j - 1]
  BY <1>2, <1>3, <1>4, <1>5, <1>6 DEF t
<1> QED  BY <1>7 DEF h, t

\* An entry holds the time at which its key was let pass last.
StampsInv ==
    \A i \in DOMAIN mEntries : forwarded[mEntries[i].key] = mEntries[i].timestamp

\* The list is in the order of use: what is in front of an entry was looked up
\* after it.
LruOrder ==
    \A i, j \in DOMAIN mEntries :
        j < i => mEntries[j].key \in usedSince[mEntries[i].key]

\* A key that was let pass and is not remembered had to make room.
EvictedInv ==
    \A k \in Key :
        /\ IsFiniteSet(usedSince[k])
        /\ k \notin mIndex /\ forwarded[k] # Never => Cardinality(usedSince[k]) >= mCapacity

\* The inductive invariant.
CacheInv == TypeOK /\ CacheCoherent /\ StampsInv /\ LruOrder /\ EvictedInv

-----------------------------------------------------------------------------
\* The members of a list and of a call that is under way.
LEMMA CacheFacts ==
    ASSUME TypeOK
    PROVE  /\ mEntries \in Seq(Entry) /\ Len(mEntries) \in Nat
           /\ DOMAIN mEntries = 1..Len(mEntries)
           /\ \A i \in DOMAIN mEntries : /\ mEntries[i] \in Entry
                                         /\ mEntries[i].key \in Key
                                         /\ mEntries[i].timestamp \in Nat
           /\ \A th \in Thread : call[th] # Idle =>
                 /\ call[th].msg \in Message /\ call[th].now \in Nat
                 /\ KeyOf(call[th].msg) \in Key
<1>1. mEntries \in Seq(Entry)
  BY DEF TypeOK
<1>2. \A i \in DOMAIN mEntries : mEntries[i] \in Entry
  BY <1>1
<1>3. \A th \in Thread : call[th] # Idle => call[th] \in [msg : Message, now : Nat]
  BY DEF TypeOK
<1> QED  BY <1>1, <1>2, <1>3 DEF Entry, Key

\* The position of a key is where it is.
LEMMA PositionIs ==
    ASSUME CacheCoherent, NEW i \in DOMAIN mEntries
    PROVE  PositionOf(mEntries[i].key) = i
<1>1. \A j \in DOMAIN mEntries : mEntries[j].key = mEntries[i].key => j = i
  BY DEF CacheCoherent
<1> QED  BY <1>1 DEF PositionOf

\* The map leads to the entry of its key.
LEMMA PositionExists ==
    ASSUME CacheCoherent, NEW k \in mIndex
    PROVE  PositionOf(k) \in DOMAIN mEntries /\ mEntries[PositionOf(k)].key = k
<1>1. PICK i \in DOMAIN mEntries : mEntries[i].key = k
  BY DEF CacheCoherent
<1> QED  BY <1>1, PositionIs

\* Where the entries were before the one at i was moved to the front.
Before(i, j) == IF j = 1 THEN i ELSE IF j <= i THEN j - 1 ELSE j

\* splice: one entry comes to the front, those before it move back by one.
LEMMA MoveToFrontPositions ==
    ASSUME TypeOK, NEW i \in DOMAIN mEntries, NEW t \in Nat,
           mEntries' = MoveToFront(i, t)
    PROVE  /\ mEntries' \in Seq(Entry) /\ Len(mEntries') = Len(mEntries)
           /\ DOMAIN mEntries' = DOMAIN mEntries
           /\ mEntries'[1].timestamp = t
           /\ \A j \in DOMAIN mEntries :
                 /\ Before(i, j) \in DOMAIN mEntries
                 /\ mEntries'[j].key = mEntries[Before(i, j)].key
                 /\ j # 1 => mEntries'[j] = mEntries[Before(i, j)] /\ Before(i, j) # i
           /\ \A j, l \in DOMAIN mEntries :
                 /\ Before(i, j) = Before(i, l) => j = l
                 /\ j < l /\ j # 1 => Before(i, j) < Before(i, l)
           /\ \A p \in DOMAIN mEntries : \E j \in DOMAIN mEntries : Before(i, j) = p
<1> DEFINE n == Len(mEntries)
           first == [mEntries[i] EXCEPT !.timestamp = t]
           rest == RemoveAt(mEntries, i)
<1>1. mEntries \in Seq(Entry) /\ n \in Nat /\ i \in 1..n /\ DOMAIN mEntries = 1..n
  BY CacheFacts, SMTT(30)
<1>2. /\ rest \in Seq(Entry) /\ Len(rest) = n - 1
      /\ \A j \in 1..(n - 1) : rest[j] = IF j < i THEN mEntries[j] ELSE mEntries[j + 1]
  BY <1>1, RemoveAtProperties
<1>3. first \in Entry /\ first.key = mEntries[i].key /\ first.timestamp = t
  BY CacheFacts DEF Entry
<1>4. mEntries' = <<first>> \o rest
  BY DEF MoveToFront
<1> HIDE DEF first, rest
<1>5. /\ mEntries' \in Seq(Entry) /\ Len(mEntries') = n
      /\ mEntries'[1] = first
      /\ \A j \in 2..n : mEntries'[j] = rest[j - 1]
  <2>1. Len(rest) + 1 = n
    BY <1>1, <1>2
  <2> QED  BY <1>2, <1>3, <1>4, <2>1, PrependPositions
<1>6. \A j \in 2..n : mEntries'[j] = mEntries[Before(i, j)] /\ Before(i, j) # i
  BY <1>1, <1>2, <1>5 DEF Before
<1>7. DOMAIN mEntries' = DOMAIN mEntries
  BY <1>1, <1>5
<1>8. ASSUME NEW p \in DOMAIN mEntries PROVE \E j \in DOMAIN mEntries : Before(i, j) = p
  <2>1. CASE p = i
    BY <1>1, <2>1 DEF Before
  <2>2. CASE p < i
    <3>1. p + 1 \in DOMAIN mEntries /\ Before(i, p + 1) = p
      BY <1>1, <2>2 DEF Before
    <3> QED  BY <3>1
  <2>3. CASE p > i
    <3>1. Before(i, p) = p
      BY <1>1, <2>3 DEF Before
    <3> QED  BY <3>1
  <2> QED  BY <1>1, <2>1, <2>2, <2>3
<1>9. \A j, l \in DOMAIN mEntries :
         /\ Before(i, j) = Before(i, l) => j = l
         /\ j < l /\ j # 1 => Before(i, j) < Before(i, l)
  BY <1>1 DEF Before
<1>10. \A j \in DOMAIN mEntries :
          /\ Before(i, j) \in DOMAIN mEntries
          /\ mEntries'[j].key = mEntries[Before(i, j)].key
          /\ j # 1 => mEntries'[j] = mEntries[Before(i, j)] /\ Before(i, j) # i
  <2>1. \A j \in DOMAIN mEntries : Before(i, j) \in DOMAIN mEntries
    BY <1>1 DEF Before
  <2>2. Before(i, 1) = i
    BY DEF Before
  <2> QED  BY <1>1, <1>3, <1>5, <1>6, <2>1, <2>2
<1> QED  BY <1>3, <1>5, <1>7, <1>8, <1>9, <1>10

\* As many keys as entries.
LEMMA CountKeys ==
    ASSUME TypeOK, CacheCoherent, NEW n \in Nat, n <= Len(mEntries)
    PROVE  /\ IsFiniteSet({mEntries[j].key : j \in 1..n})
           /\ Cardinality({mEntries[j].key : j \in 1..n}) = n
<1> DEFINE S == {mEntries[j].key : j \in 1..n}
           f == [j \in 1..n |-> mEntries[j].key]
<1>1. \A j \in 1..n : j \in DOMAIN mEntries
  BY CacheFacts
<1>2. f \in Bijection(1..n, S)
  BY <1>1 DEF Bijection, Injection, Surjection, CacheCoherent, IsInjective
<1>3. ExistsBijection(1..n, S)
  BY <1>2 DEF ExistsBijection
<1> QED  BY <1>3, FS_CountingElements, FS_NatBijection

\* How many entries stay when a key is entered.
Kept == IF Len(mEntries) >= mCapacity THEN Len(mEntries) - 1 ELSE Len(mEntries)

\* There is room for a new entry, if need be at the cost of the last one.
LEMMA EvictPositions ==
    ASSUME TypeOK, CacheCoherent
    PROVE  /\ EvictIfFull \in Seq(Entry) /\ Len(EvictIfFull) = Kept
           /\ Kept \in Nat /\ Kept <= Len(mEntries) /\ Kept + 1 <= mCapacity
           /\ \A j \in 1..Kept : j \in DOMAIN mEntries /\ EvictIfFull[j] = mEntries[j]
           /\ EvictIfFull = mEntries <=> Kept = Len(mEntries)
           /\ Kept # Len(mEntries) => /\ Len(mEntries) = mCapacity
                                      /\ Kept = Len(mEntries) - 1
                                      /\ Len(mEntries) \in DOMAIN mEntries
<1> DEFINE n == Len(mEntries)
<1>1. /\ mEntries \in Seq(Entry) /\ n \in Nat /\ n <= mCapacity
      /\ DOMAIN mEntries = 1..n /\ mCapacity \in Nat /\ mCapacity # 0
  BY CacheFacts, CapacityAssumption DEF CacheCoherent
<1>2. CASE n >= mCapacity
  <2> DEFINE u == SubSeq(mEntries, 1, n - 1)
  <2>1. EvictIfFull = u
    BY <1>2 DEF EvictIfFull, Front
  <2>2. /\ u \in Seq(Entry) /\ Len(u) = n - 1
        /\ \A j \in 1..(n - 1) : u[j] = mEntries[j]
    BY <1>1, <1>2
  <2>3. Kept = n - 1
    BY <1>2 DEF Kept
  <2>4. Len(u) # n => u # mEntries
    OBVIOUS
  <2> HIDE DEF n, u
  <2>5. /\ n - 1 \in Nat /\ n - 1 # n /\ n - 1 <= n /\ n - 1 + 1 <= mCapacity
        /\ n = mCapacity /\ n \in 1..n /\ \A j \in 1..(n - 1) : j \in 1..n
    BY <1>1, <1>2
  <2> QED  BY <1>1, <2>1, <2>2, <2>3, <2>4, <2>5 DEF n
<1>3. CASE ~(n >= mCapacity)
  BY <1>1, <1>3 DEF EvictIfFull, Kept
<1> QED  BY <1>2, <1>3

\* A new key in front, and the keys that stay behind it.
LEMMA MissPositions ==
    ASSUME TypeOK, CacheCoherent, NEW e \in Entry, e.key \notin mIndex,
           mEntries' = <<e>> \o EvictIfFull,
           mIndex' = {e.key} \cup (IF EvictIfFull = mEntries THEN mIndex
                                   ELSE mIndex \ {Last(mEntries).key})
    PROVE  /\ mEntries' \in Seq(Entry) /\ Len(mEntries') = Kept + 1
           /\ DOMAIN mEntries' = 1..(Kept + 1)
           /\ mEntries'[1] = e
           /\ \A j \in 2..(Kept + 1) :
                 /\ mEntries'[j] = mEntries[j - 1]
                 /\ j - 1 \in DOMAIN mEntries /\ mEntries[j - 1].key # e.key
           /\ \A k \in Key : k \in mIndex' <=>
                 k = e.key \/ \E j \in 1..Kept : mEntries[j].key = k
           /\ Kept # Len(mEntries) =>
                 \A k \in Key : k \notin mIndex' /\ k \in mIndex <=>
                                   k = mEntries[Len(mEntries)].key
<1>1. /\ EvictIfFull \in Seq(Entry) /\ Len(EvictIfFull) = Kept
      /\ Kept \in Nat /\ Kept <= Len(mEntries) /\ Kept + 1 <= mCapacity
      /\ \A j \in 1..Kept : j \in DOMAIN mEntries /\ EvictIfFull[j] = mEntries[j]
      /\ EvictIfFull = mEntries <=> Kept = Len(mEntries)
      /\ Kept # Len(mEntries) => /\ Len(mEntries) = mCapacity
                                 /\ Kept = Len(mEntries) - 1
                                 /\ Len(mEntries) \in DOMAIN mEntries
  BY EvictPositions
<1>2. /\ mEntries' \in Seq(Entry) /\ Len(mEntries') = Kept + 1
      /\ DOMAIN mEntries' = 1..(Kept + 1)
      /\ mEntries'[1] = e
      /\ \A j \in 2..(Kept + 1) : mEntries'[j] = EvictIfFull[j - 1]
  BY <1>1, PrependPositions
<1>3. \A j \in DOMAIN mEntries : mEntries[j].key \in mIndex
  BY DEF CacheCoherent
<1>4. \A j \in 2..(Kept + 1) : j - 1 \in 1..Kept
  BY <1>1
<1>5. \A j \in 2..(Kept + 1) :
         /\ mEntries'[j] = mEntries[j - 1]
         /\ j - 1 \in DOMAIN mEntries /\ mEntries[j - 1].key # e.key
  BY <1>1, <1>2, <1>3, <1>4
<1>6. ASSUME NEW k \in Key
      PROVE  k \in mIndex' <=> k = e.key \/ \E j \in 1..Kept : mEntries[j].key = k
  <2>1. DOMAIN mEntries = 1..Len(mEntries) /\ Len(mEntries) \in Nat
    BY CacheFacts
  <2>2. CASE Kept = Len(mEntries)
    BY <1>1, <2>1, <2>2, ZenonT(40) DEF CacheCoherent
  <2>3. CASE Kept # Len(mEntries)
    <3>1. mIndex' = {e.key} \cup (mIndex \ {mEntries[Len(mEntries)].key})
      BY <1>1, <2>3 DEF Last
    <3>2. \A j \in DOMAIN mEntries : j \in 1..Kept <=> j # Len(mEntries)
      BY <1>1, <2>1, <2>3
    <3>3. \A j \in DOMAIN mEntries : j \in 1..Kept <=>
             mEntries[j].key # mEntries[Len(mEntries)].key
      BY <1>1, <2>3, <3>2 DEF CacheCoherent
    <3> QED  BY <1>1, <3>1, <3>3, ZenonT(40) DEF CacheCoherent
  <2> QED  BY <2>2, <2>3
<1>7. ASSUME Kept # Len(mEntries), NEW k \in Key
      PROVE  k \notin mIndex' /\ k \in mIndex <=> k = mEntries[Len(mEntries)].key
  BY <1>1, <1>3, <1>7 DEF Last
<1> QED  BY <1>2, <1>5, <1>6, <1>7

\* The cache is empty.
LEMMA CacheInit == Init => CacheInv
<1> SUFFICES ASSUME Init PROVE CacheInv
  OBVIOUS
<1>1. TypeOK
  BY DEF Init, TypeOK
<1>2. CacheCoherent
  BY CapacityAssumption DEF Init, CacheCoherent
<1>3. StampsInv /\ LruOrder
  BY DEF Init, StampsInv, LruOrder
<1>4. EvictedInv
  BY FS_EmptySet DEF Init, EvictedInv
<1> QED  BY <1>1, <1>2, <1>3, <1>4 DEF CacheInv

\* The cache and the history are as they were.
LEMMA CacheKept ==
    ASSUME CacheInv, TypeOK', UNCHANGED <<mEntries, mIndex, forwarded, usedSince>>
    PROVE  CacheInv'
BY DEF CacheInv, CacheCoherent, StampsInv, LruOrder, EvictedInv

\* What a call that returns leaves behind.
LEMMA ReturnFacts ==
    ASSUME TypeOK, NEW th \in Thread, call[th] # Idle, NEW v \in {"forward", "drop"},
           Return(th, KeyOf(call[th].msg), v)
    PROVE  /\ clock' = clock /\ clock' \in Nat
           /\ call' \in [Thread -> [msg : Message, now : Nat] \cup {Idle}]
           /\ result' = v /\ result' \in {"none", "forward", "drop"}
           /\ forwarded' \in [Key -> Nat \cup {Never}]
           /\ usedSince' \in [Key -> SUBSET Key]
           /\ \A k \in Key : usedSince'[k] = IF k = KeyOf(call[th].msg) THEN {}
                                ELSE usedSince[k] \cup {KeyOf(call[th].msg)}
           /\ \A k \in Key : forwarded'[k] = IF v = "forward" /\ k = KeyOf(call[th].msg)
                                             THEN call[th].now ELSE forwarded[k]
<1> DEFINE q == KeyOf(call[th].msg)
<1>1. call[th].msg \in Message /\ call[th].now \in Nat /\ q \in Key
  BY CacheFacts
<1> HIDE DEF q
<1>2. /\ call' = [call EXCEPT ![th] = Idle] /\ result' = v /\ clock' = clock
      /\ usedSince' = [k \in Key |-> IF k = q THEN {} ELSE usedSince[k] \cup {q}]
      /\ forwarded' = IF v = "forward" THEN [forwarded EXCEPT ![q] = call[th].now]
                      ELSE forwarded
  BY DEF Return, q
<1>3. /\ usedSince' \in [Key -> SUBSET Key]
      /\ \A k \in Key : usedSince'[k] = IF k = q THEN {} ELSE usedSince[k] \cup {q}
  BY <1>1, <1>2 DEF TypeOK
<1>4. /\ forwarded' \in [Key -> Nat \cup {Never}]
      /\ \A k \in Key : forwarded'[k] = IF v = "forward" /\ k = q THEN call[th].now
                                        ELSE forwarded[k]
  BY <1>1, <1>2 DEF TypeOK
<1>5. /\ call' \in [Thread -> [msg : Message, now : Nat] \cup {Idle}]
      /\ clock' \in Nat  BY <1>1, <1>2 DEF TypeOK
<1> QED  BY <1>2, <1>3, <1>4, <1>5 DEF q

\* What a lookup that finds its key does.
LEMMA HitFacts ==
    ASSUME CacheInv, NEW th \in Thread, Hit(th)
    PROVE  \E i \in DOMAIN mEntries, t \in Nat, v \in {"forward", "drop"} :
              /\ call[th] # Idle
              /\ mEntries[i].key = KeyOf(call[th].msg)
              /\ mEntries' = MoveToFront(i, t) /\ mIndex' = mIndex
              /\ Return(th, KeyOf(call[th].msg), v)
              /\ t = IF v = "forward" THEN call[th].now ELSE mEntries[i].timestamp
              /\ v = "drop" <=> call[th].now - mEntries[i].timestamp < mWindow
<1> DEFINE k == KeyOf(call[th].msg)
           i == PositionOf(k)
           t == Touched(call[th].now, mEntries[i])
           v == IF Fresh(call[th].now, mEntries[i]) THEN "drop" ELSE "forward"
<1>1. /\ call[th] # Idle /\ k \in mIndex
      /\ mEntries' = MoveToFront(i, t) /\ mIndex' = mIndex
      /\ Return(th, k, v)
  BY DEF Hit
<1>2. i \in DOMAIN mEntries /\ mEntries[i].key = k
  BY <1>1, PositionExists DEF CacheInv
<1>3. call[th].now \in Nat /\ mEntries[i].timestamp \in Nat
  BY <1>1, <1>2, CacheFacts DEF CacheInv
<1>4. v \in {"forward", "drop"} /\ t \in Nat
  BY <1>3 DEF Touched
<1>5. /\ t = IF v = "forward" THEN call[th].now ELSE mEntries[i].timestamp
      /\ v = "drop" <=> call[th].now - mEntries[i].timestamp < mWindow
  BY DEF Touched, Fresh
<1> HIDE DEF k, i, t, v
<1> QED  BY <1>1, <1>2, <1>4, <1>5 DEF k

\* A hit moves its entry to the front of the list.
LEMMA HitStep ==
    ASSUME CacheInv, NEW th \in Thread, Hit(th)
    PROVE  CacheInv'
<1> DEFINE k == KeyOf(call[th].msg)
<1>1. PICK i \in DOMAIN mEntries, t \in Nat, v \in {"forward", "drop"} :
              /\ call[th] # Idle
              /\ mEntries[i].key = k
              /\ mEntries' = MoveToFront(i, t) /\ mIndex' = mIndex
              /\ Return(th, k, v)
              /\ t = IF v = "forward" THEN call[th].now ELSE mEntries[i].timestamp
  BY HitFacts
<1>2. /\ mEntries' \in Seq(Entry) /\ Len(mEntries') = Len(mEntries)
      /\ DOMAIN mEntries' = DOMAIN mEntries
      /\ mEntries'[1].timestamp = t
      /\ \A j \in DOMAIN mEntries :
            /\ Before(i, j) \in DOMAIN mEntries
            /\ mEntries'[j].key = mEntries[Before(i, j)].key
            /\ j # 1 => mEntries'[j] = mEntries[Before(i, j)] /\ Before(i, j) # i
      /\ \A j, l \in DOMAIN mEntries :
            /\ Before(i, j) = Before(i, l) => j = l
            /\ j < l /\ j # 1 => Before(i, j) < Before(i, l)
      /\ \A p \in DOMAIN mEntries : \E j \in DOMAIN mEntries : Before(i, j) = p
  BY <1>1, MoveToFrontPositions DEF CacheInv
<1>3. /\ TypeOK /\ CacheCoherent /\ StampsInv /\ LruOrder /\ EvictedInv
      /\ DOMAIN mEntries = 1..Len(mEntries) /\ Len(mEntries) \in Nat
      /\ Before(i, 1) = i /\ k \in Key
  BY <1>1, CacheFacts DEF CacheInv, Before
<1>4. /\ clock' \in Nat /\ result' \in {"none", "forward", "drop"}
      /\ call' \in [Thread -> [msg : Message, now : Nat] \cup {Idle}]
      /\ forwarded' \in [Key -> Nat \cup {Never}]
      /\ usedSince' \in [Key -> SUBSET Key]
      /\ \A q \in Key : usedSince'[q] = IF q = k THEN {} ELSE usedSince[q] \cup {k}
      /\ \A q \in Key : forwarded'[q] = IF v = "forward" /\ q = k
                                        THEN call[th].now ELSE forwarded[q]
  BY <1>1, <1>3, ReturnFacts
<1> HIDE DEF k
<1>5. TypeOK'
  BY <1>1, <1>2, <1>3, <1>4 DEF TypeOK
<1>6. \A j \in DOMAIN mEntries : /\ mEntries[j].key \in Key
                                 /\ j # i <=> mEntries[j].key # k
  BY <1>1, <1>3, CacheFacts DEF CacheCoherent
<1>7. CacheCoherent'
  <2>1. {mEntries'[j].key : j \in DOMAIN mEntries'} = {mEntries[j].key : j \in DOMAIN mEntries}
    <3>1. ASSUME NEW j \in DOMAIN mEntries
          PROVE  mEntries'[j].key \in {mEntries[l].key : l \in DOMAIN mEntries}
      <4>1. Before(i, j) \in DOMAIN mEntries /\ mEntries'[j].key = mEntries[Before(i, j)].key
        BY <1>2
      <4> QED  BY <4>1
    <3>2. ASSUME NEW p \in DOMAIN mEntries
          PROVE  mEntries[p].key \in {mEntries'[l].key : l \in DOMAIN mEntries}
      <4>1. PICK j \in DOMAIN mEntries : Before(i, j) = p
        BY <1>2
      <4>2. mEntries'[j].key = mEntries[p].key
        BY <1>2, <4>1
      <4> QED  BY <4>2
    <3>3. {mEntries'[j].key : j \in DOMAIN mEntries} = {mEntries[j].key : j \in DOMAIN mEntries}
      BY <3>1, <3>2
    <3>4. DOMAIN mEntries' = DOMAIN mEntries
      BY <1>2
    <3> QED  BY <3>3, <3>4
  <2>2. \A j, l \in DOMAIN mEntries' : mEntries'[j].key = mEntries'[l].key => j = l
    BY <1>2, <1>3 DEF CacheCoherent
  <2> QED  BY <1>1, <1>2, <1>3, <2>1, <2>2 DEF CacheCoherent
<1>8. StampsInv'
  <2> SUFFICES ASSUME NEW j \in DOMAIN mEntries
               PROVE  forwarded'[mEntries'[j].key] = mEntries'[j].timestamp
    BY <1>2 DEF StampsInv
  <2>1. CASE j = 1
    <3>1. mEntries'[j].key = k /\ mEntries'[j].timestamp = t
      BY <1>1, <1>2, <1>3, <2>1
    <3>2. forwarded[k] = mEntries[i].timestamp
      BY <1>1, <1>3 DEF StampsInv
    <3> QED  BY <1>1, <1>3, <1>4, <3>1, <3>2
  <2>2. CASE j # 1
    <3> DEFINE b == Before(i, j)
    <3>1. mEntries'[j] = mEntries[b] /\ b # i /\ b \in DOMAIN mEntries
      BY <1>2, <2>2
    <3> HIDE DEF b
    <3>2. mEntries[b].key \in Key /\ mEntries[b].key # k
      BY <1>6, <3>1
    <3>3. forwarded'[mEntries[b].key] = mEntries[b].timestamp
      BY <1>3, <1>4, <3>1, <3>2 DEF StampsInv
    <3> QED  BY <3>1, <3>3
  <2> QED  BY <2>1, <2>2
<1>9. LruOrder'
  <2> SUFFICES ASSUME NEW j \in DOMAIN mEntries, NEW l \in DOMAIN mEntries, l < j
               PROVE  mEntries'[l].key \in usedSince'[mEntries'[j].key]
    BY <1>2 DEF LruOrder
  <2>1. j # 1
    BY <1>3
  <2>2. /\ mEntries'[j].key = mEntries[Before(i, j)].key /\ mEntries'[j].key # k
        /\ mEntries'[j].key \in Key
    <3> DEFINE b == Before(i, j)
    <3>1. mEntries'[j] = mEntries[b] /\ b # i /\ b \in DOMAIN mEntries
      BY <1>2, <2>1
    <3> HIDE DEF b
    <3>2. mEntries[b].key \in Key /\ mEntries[b].key # k
      BY <1>6, <3>1
    <3> QED  BY <3>1, <3>2 DEF b
  <2>3. usedSince'[mEntries'[j].key] = usedSince[mEntries[Before(i, j)].key] \cup {k}
    BY <1>4, <2>2
  <2>4. CASE l = 1
    <3>1. mEntries'[1].key = k
      BY <1>1, <1>2, <1>3, <2>4
    <3> QED  BY <2>3, <2>4, <3>1
  <2>5. CASE l # 1
    <3>1. /\ Before(i, l) < Before(i, j)
          /\ Before(i, l) \in DOMAIN mEntries /\ Before(i, j) \in DOMAIN mEntries
          /\ mEntries'[l].key = mEntries[Before(i, l)].key
      BY <1>2, <2>5
    <3>2. mEntries[Before(i, l)].key \in usedSince[mEntries[Before(i, j)].key]
      BY <1>3, <3>1 DEF LruOrder
    <3> QED  BY <2>3, <3>1, <3>2
  <2> QED  BY <2>4, <2>5
<1>10. EvictedInv'
  <2> SUFFICES ASSUME NEW q \in Key
               PROVE  /\ IsFiniteSet(usedSince'[q])
                      /\ q \notin mIndex /\ forwarded'[q] # Never =>
                            Cardinality(usedSince'[q]) >= mCapacity
    BY <1>1 DEF EvictedInv
  <2>1. k \in mIndex
    BY <1>1, <1>3 DEF CacheCoherent
  <2>2. CASE q = k
    BY <1>4, <2>1, <2>2, FS_EmptySet
  <2>3. CASE q # k
    <3> DEFINE old == usedSince[q]
               new == usedSince[q] \cup {k}
    <3>1. IsFiniteSet(old)
      BY <1>3 DEF EvictedInv
    <3>2. IsFiniteSet(new) /\ Cardinality(new) >= Cardinality(old)
      <4>1. /\ IsFiniteSet(new)
            /\ Cardinality(new) = IF k \in old THEN Cardinality(old) ELSE Cardinality(old) + 1
        BY <3>1, FS_AddElement
      <4>2. Cardinality(old) \in Nat
        BY <3>1, FS_CardinalityType
      <4> QED  BY <4>1, <4>2
    <3>3. Cardinality(new) \in Nat /\ Cardinality(old) \in Nat /\ mCapacity \in Nat
      BY <3>1, <3>2, FS_CardinalityType, CapacityAssumption
    <3>4. usedSince'[q] = new /\ forwarded'[q] = forwarded[q]
      BY <1>4, <2>3
    <3> QED  BY <1>3, <3>2, <3>3, <3>4 DEF EvictedInv
  <2> QED  BY <2>2, <2>3
<1> QED  BY <1>5, <1>7, <1>8, <1>9, <1>10 DEF CacheInv

\* A set that grows by a key does not get smaller.
LEMMA GrowingCount ==
    ASSUME NEW S, NEW x, IsFiniteSet(S)
    PROVE  /\ IsFiniteSet(S \cup {x})
           /\ \A n \in Nat : Cardinality(S) >= n => Cardinality(S \cup {x}) >= n
<1>1. /\ IsFiniteSet(S \cup {x})
      /\ Cardinality(S \cup {x}) = IF x \in S THEN Cardinality(S) ELSE Cardinality(S) + 1
  BY FS_AddElement
<1>2. Cardinality(S) \in Nat
  BY FS_CardinalityType
<1> QED  BY <1>1, <1>2

\* The key that has to go: since it was used, all others in the list were.
LEMMA LeastRecentlyUsed ==
    ASSUME CacheInv, Len(mEntries) = mCapacity, NEW k \in Key, k \notin mIndex
    PROVE  LET old == usedSince[mEntries[Len(mEntries)].key]
           IN  Cardinality(old \cup {k}) >= mCapacity
<1> DEFINE n == Len(mEntries)
           old == usedSince[mEntries[n].key]
           S == {mEntries[j].key : j \in 1..(n - 1)}
<1>1. /\ n \in Nat /\ n # 0 /\ DOMAIN mEntries = 1..n /\ n \in DOMAIN mEntries
      /\ mEntries[n].key \in Key
  BY CacheFacts, CapacityAssumption DEF CacheInv
<1>2. n - 1 \in Nat /\ n - 1 <= n /\ \A j \in 1..(n - 1) : j \in DOMAIN mEntries /\ j < n
  BY <1>1
<1>3. IsFiniteSet(S) /\ Cardinality(S) = n - 1
  BY <1>2, CountKeys DEF CacheInv
<1>4. S \subseteq old
  BY <1>1, <1>2 DEF CacheInv, LruOrder
<1>5. k \notin S
  BY <1>2 DEF CacheInv, CacheCoherent
<1>6. IsFiniteSet(old)
  BY <1>1 DEF CacheInv, EvictedInv
<1> HIDE DEF S, old, n
<1>7. IsFiniteSet(S \cup {k}) /\ Cardinality(S \cup {k}) = Cardinality(S) + 1
  BY <1>3, <1>5, FS_AddElement
<1>8. IsFiniteSet(old \cup {k})
  BY <1>6, FS_AddElement
<1>9. Cardinality(S \cup {k}) <= Cardinality(old \cup {k})
  <2>1. S \cup {k} \in SUBSET (old \cup {k})
    BY <1>4
  <2> QED  BY <1>8, <2>1, FS_Subset
<1>10. Cardinality(old \cup {k}) \in Nat
  BY <1>8, FS_CardinalityType
<1>11. Cardinality(old \cup {k}) >= n
  BY <1>1, <1>3, <1>7, <1>9, <1>10
<1> QED  BY <1>11 DEF old, n

\* A miss enters its key in front and takes the last one out of a full list.
LEMMA MissStep ==
    ASSUME CacheInv, NEW th \in Thread, Miss(th)
    PROVE  CacheInv'
<1> DEFINE k == KeyOf(call[th].msg)
           e == [key |-> k, timestamp |-> call[th].now]
<1>1. /\ call[th] # Idle /\ k \notin mIndex
      /\ mEntries' = <<e>> \o EvictIfFull
      /\ mIndex' = {k} \cup (IF EvictIfFull = mEntries THEN mIndex
                             ELSE mIndex \ {Last(mEntries).key})
      /\ Return(th, k, "forward")
  BY DEF Miss
<1>2. /\ TypeOK /\ CacheCoherent /\ StampsInv /\ LruOrder /\ EvictedInv
      /\ k \in Key /\ call[th].now \in Nat
  BY <1>1, CacheFacts DEF CacheInv
<1>3. e \in Entry /\ e.key = k /\ e.timestamp = call[th].now
  BY <1>2 DEF Entry
<1>4. /\ clock' \in Nat /\ result' \in {"none", "forward", "drop"}
      /\ call' \in [Thread -> [msg : Message, now : Nat] \cup {Idle}]
      /\ forwarded' \in [Key -> Nat \cup {Never}]
      /\ usedSince' \in [Key -> SUBSET Key]
      /\ \A q \in Key : usedSince'[q] = IF q = k THEN {} ELSE usedSince[q] \cup {k}
      /\ \A q \in Key : forwarded'[q] = IF q = k THEN call[th].now ELSE forwarded[q]
  BY <1>1, <1>2, ReturnFacts
<1> HIDE DEF k, e
<1>5. /\ mEntries' \in Seq(Entry) /\ Len(mEntries') = Kept + 1
      /\ DOMAIN mEntries' = 1..(Kept + 1)
      /\ mEntries'[1] = e
      /\ \A j \in 2..(Kept + 1) :
            /\ mEntries'[j] = mEntries[j - 1]
            /\ j - 1 \in DOMAIN mEntries /\ mEntries[j - 1].key # k
      /\ \A q \in Key : q \in mIndex' <=> q = k \/ \E j \in 1..Kept : mEntries[j].key = q
      /\ Kept # Len(mEntries) =>
            \A q \in Key : q \notin mIndex' /\ q \in mIndex <=>
                              q = mEntries[Len(mEntries)].key
  BY <1>1, <1>2, <1>3, MissPositions, ZenonT(40)
<1>6. /\ Kept \in Nat /\ Kept + 1 <= mCapacity
      /\ Kept # Len(mEntries) => Len(mEntries) = mCapacity
      /\ \A j \in 1..Kept : j \in DOMAIN mEntries /\ mEntries[j].key \in Key
      /\ \A j \in DOMAIN mEntries : j \in Nat /\ mEntries[j].key \in Key
  BY <1>2, EvictPositions, CacheFacts
<1>7. mIndex' \in SUBSET Key
  BY <1>1, <1>2 DEF TypeOK
<1>8. TypeOK'
  BY <1>4, <1>5, <1>7 DEF TypeOK
<1>9. \A j \in 2..(Kept + 1) : j - 1 \in 1..Kept /\ j # 1
  BY <1>6
<1>10. \A j \in 1..(Kept + 1) : j = 1 \/ j \in 2..(Kept + 1)
  BY <1>6
<1>11. CacheCoherent'
  <2>1. ASSUME NEW j \in DOMAIN mEntries' PROVE mEntries'[j].key \in mIndex'
    <3>1. CASE j = 1
      BY <1>2, <1>3, <1>5, <3>1
    <3>2. CASE j \in 2..(Kept + 1)
      BY <1>5, <1>6, <1>9, <3>2
    <3> QED  BY <1>5, <1>10, <3>1, <3>2
  <2>2. ASSUME NEW q \in mIndex' PROVE \E j \in DOMAIN mEntries' : mEntries'[j].key = q
    <3>1. CASE q = k
      <4>1. 1 \in DOMAIN mEntries' /\ mEntries'[1].key = q
        BY <1>3, <1>5, <1>6, <3>1
      <4> QED  BY <4>1
    <3>2. CASE q # k
      <4>1. PICK j \in 1..Kept : mEntries[j].key = q
        BY <1>5, <1>7, <3>2
      <4>2. j + 1 \in 2..(Kept + 1) /\ j + 1 - 1 = j /\ j + 1 \in 1..(Kept + 1)
        BY <1>6
      <4>3. mEntries'[j + 1].key = q
        BY <1>5, <4>1, <4>2
      <4> QED  BY <1>5, <4>2, <4>3
    <3> QED  BY <3>1, <3>2
  <2>3. mIndex' = {mEntries'[j].key : j \in DOMAIN mEntries'}
    BY <2>1, <2>2
  <2>4. ASSUME NEW j \in DOMAIN mEntries', NEW l \in DOMAIN mEntries',
               mEntries'[j].key = mEntries'[l].key
        PROVE  j = l
    <3>1. CASE j \in 2..(Kept + 1) /\ l \in 2..(Kept + 1)
      <4>1. j - 1 = l - 1
        BY <1>2, <1>5, <2>4, <3>1 DEF CacheCoherent
      <4> QED  BY <1>6, <3>1, <4>1
    <3>2. CASE j = 1 \/ l = 1
      BY <1>3, <1>5, <1>10, <2>4, <3>2
    <3> QED  BY <1>5, <1>10, <3>1, <3>2
  <2> QED  BY <1>5, <1>6, <2>3, <2>4 DEF CacheCoherent
<1>12. StampsInv'
  <2> SUFFICES ASSUME NEW j \in 1..(Kept + 1)
               PROVE  forwarded'[mEntries'[j].key] = mEntries'[j].timestamp
    BY <1>5 DEF StampsInv
  <2>1. CASE j = 1
    BY <1>2, <1>3, <1>4, <1>5, <2>1
  <2>2. CASE j \in 2..(Kept + 1)
    <3>1. forwarded[mEntries[j - 1].key] = mEntries[j - 1].timestamp
      BY <1>2, <1>5, <2>2 DEF StampsInv
    <3>2. mEntries[j - 1].key \in Key /\ mEntries[j - 1].key # k
      BY <1>5, <1>6, <2>2
    <3> QED  BY <1>4, <1>5, <2>2, <3>1, <3>2
  <2> QED  BY <1>10, <2>1, <2>2
<1>13. LruOrder'
  <2> SUFFICES ASSUME NEW j \in 1..(Kept + 1), NEW l \in 1..(Kept + 1), l < j
               PROVE  mEntries'[l].key \in usedSince'[mEntries'[j].key]
    BY <1>5 DEF LruOrder
  <2>1. j \in 2..(Kept + 1)
    BY <1>6
  <2>2. mEntries[j - 1].key \in Key /\ mEntries[j - 1].key # k
    BY <1>5, <1>6, <2>1
  <2>3. usedSince'[mEntries'[j].key] = usedSince[mEntries[j - 1].key] \cup {k}
    BY <1>4, <1>5, <2>1, <2>2
  <2>4. CASE l = 1
    BY <1>3, <1>5, <2>3, <2>4
  <2>5. CASE l \in 2..(Kept + 1)
    <3>1. l - 1 < j - 1
      BY <1>6
    <3>2. mEntries[l - 1].key \in usedSince[mEntries[j - 1].key]
      BY <1>2, <1>5, <2>1, <2>5, <3>1 DEF LruOrder
    <3> QED  BY <1>5, <2>3, <2>5, <3>2
  <2> QED  BY <1>10, <2>4, <2>5
<1>14. EvictedInv'
  <2> SUFFICES ASSUME NEW q \in Key
               PROVE  /\ IsFiniteSet(usedSince'[q])
                      /\ q \notin mIndex' /\ forwarded'[q] # Never =>
                            Cardinality(usedSince'[q]) >= mCapacity
    BY DEF EvictedInv
  <2>1. CASE q = k
    BY <1>4, <1>5, <2>1, FS_EmptySet
  <2>2. CASE q # k
    <3>1. /\ usedSince'[q] = usedSince[q] \cup {k} /\ forwarded'[q] = forwarded[q]
          /\ IsFiniteSet(usedSince[q]) /\ mCapacity \in Nat
      BY <1>2, <1>4, <2>2, CapacityAssumption DEF EvictedInv
    <3>2. /\ IsFiniteSet(usedSince[q] \cup {k})
          /\ \A n \in Nat : Cardinality(usedSince[q]) >= n =>
                               Cardinality(usedSince[q] \cup {k}) >= n
      BY <3>1, GrowingCount
    <3>3. CASE q \notin mIndex
      BY <1>2, <3>1, <3>2, <3>3 DEF EvictedInv
    <3>4. CASE q \in mIndex /\ q \notin mIndex'
      <4>1. Kept # Len(mEntries)
        <5> SUFFICES ASSUME Kept = Len(mEntries) PROVE FALSE
          OBVIOUS
        <5>1. PICK j \in DOMAIN mEntries : mEntries[j].key = q
          BY <1>2, <3>4 DEF CacheCoherent
        <5>2. j \in 1..Kept
          BY <1>2, CacheFacts
        <5> QED  BY <1>5, <3>4, <5>1, <5>2
      <4>2. q = mEntries[Len(mEntries)].key /\ Len(mEntries) = mCapacity
        BY <1>5, <1>6, <3>4, <4>1
      <4>3. Cardinality(usedSince[q] \cup {k}) >= mCapacity
        BY <1>1, <1>2, <4>2, LeastRecentlyUsed
      <4> QED  BY <3>1, <3>2, <4>3
    <3> QED  BY <3>1, <3>2, <3>3, <3>4
  <2> QED  BY <2>1, <2>2
<1> QED  BY <1>8, <1>11, <1>12, <1>13, <1>14 DEF CacheInv

\* Every step keeps the invariant.
LEMMA CacheStep == CacheInv /\ [Next]_vars => CacheInv'
<1> SUFFICES ASSUME CacheInv, [Next]_vars PROVE CacheInv'
  OBVIOUS
<1>0. TypeOK
  BY DEF CacheInv
<1>1. ASSUME NEW th \in Thread, NEW m \in Message, ReadClock(th, m) PROVE CacheInv'
  <2>1. [msg |-> m, now |-> clock] \in [msg : Message, now : Nat]
    BY <1>0 DEF TypeOK
  <2>2. call' \in [Thread -> [msg : Message, now : Nat] \cup {Idle}]
    BY <1>0, <1>1, <2>1 DEF ReadClock, TypeOK
  <2>3. TypeOK'
    BY <1>0, <1>1, <2>2 DEF ReadClock, TypeOK
  <2> QED  BY <1>1, <2>3, CacheKept DEF ReadClock
<1>2. ASSUME NEW th \in Thread, NEW m \in Message, PassUnfiltered(th, m) PROVE CacheInv'
  <2>1. TypeOK'
    BY <1>0, <1>2 DEF PassUnfiltered, TypeOK
  <2> QED  BY <1>2, <2>1, CacheKept DEF PassUnfiltered
<1>3. ASSUME Tick PROVE CacheInv'
  <2>1. TypeOK'
    BY <1>0, <1>3 DEF Tick, TypeOK
  <2> QED  BY <1>3, <2>1, CacheKept DEF Tick
<1>4. ASSUME UNCHANGED vars PROVE CacheInv'
  <2>1. TypeOK'
    BY <1>0, <1>4 DEF vars, TypeOK
  <2> QED  BY <1>4, <2>1, CacheKept DEF vars
<1> QED  BY <1>1, <1>2, <1>3, <1>4, HitStep, MissStep DEF Next

\* The inductive invariant holds in every reachable state.
LEMMA CacheInvariance == Spec => []CacheInv
BY CacheInit, CacheStep, PTL DEF Spec

\* Every variable of the cache and of its callers has its type.
THEOREM CacheTypes == Spec => []TypeOK
<1>1. CacheInv => TypeOK
  BY DEF CacheInv
<1> QED  BY <1>1, CacheInvariance, PTL

\* The map and the list hold the same keys, each once, and at most mCapacity.
THEOREM MapMatchesList == Spec => []CacheCoherent
<1>1. CacheInv => CacheCoherent
  BY DEF CacheInv
<1> QED  BY <1>1, CacheInvariance, PTL

\* Only Hit and Miss end a call, each its own.
LEMMA WhoReturns ==
    ASSUME TypeOK, [Next]_vars, NEW th \in Thread, Returns(th)
    PROVE  Hit(th) \/ Miss(th)
<1>1. ASSUME NEW t \in Thread, Hit(t) \/ Miss(t) PROVE t = th
  <2>1. call' = [call EXCEPT ![t] = Idle]
    BY <1>1 DEF Hit, Miss, Return
  <2> QED  BY <2>1 DEF Returns, TypeOK
<1>2. ASSUME NEW t \in Thread, NEW m \in Message, ReadClock(t, m) PROVE FALSE
  <2>1. call' = [call EXCEPT ![t] = [msg |-> m, now |-> clock]] /\ call[t] = Idle
    BY <1>2 DEF ReadClock
  <2> QED  BY <2>1 DEF Returns, TypeOK
<1>3. ASSUME call' = call PROVE FALSE
  BY <1>3 DEF Returns
<1> QED  BY <1>1, <1>2, <1>3 DEF Next, PassUnfiltered, Tick, vars

\* A message is dropped only when its key was let pass less than mWindow before
\* the time that its call has read, in whatever order overlapping calls get
\* the lock.
THEOREM OnlyRepetitionsDropped == Spec => NoFalseDrop
<1>1. ASSUME CacheInv, [Next]_vars, NEW th \in Thread, Returns(th), result' = "drop"
      PROVE  LET k == KeyOf(call[th].msg)
             IN  forwarded[k] # Never /\ call[th].now - forwarded[k] < mWindow
  <2>1. Hit(th)
    <3>1. ~Miss(th)
      BY <1>1 DEF Miss, Return
    <3> QED  BY <1>1, <3>1, WhoReturns DEF CacheInv
  <2>2. PICK i \in DOMAIN mEntries, v \in {"forward", "drop"} :
            /\ mEntries[i].key = KeyOf(call[th].msg)
            /\ Return(th, KeyOf(call[th].msg), v)
            /\ v = "drop" <=> call[th].now - mEntries[i].timestamp < mWindow
    BY <1>1, <2>1, HitFacts
  <2>3. call[th].now - mEntries[i].timestamp < mWindow
    BY <1>1, <2>2 DEF Return
  <2>4. forwarded[KeyOf(call[th].msg)] = mEntries[i].timestamp /\ mEntries[i].timestamp \in Nat
    BY <1>1, <2>2, CacheFacts DEF CacheInv, StampsInv
  <2> QED  BY <2>3, <2>4, NeverAssumption
<1>2. CacheInv /\ [Next]_vars =>
         [\A th \in Thread : Returns(th) /\ result' = "drop" =>
             LET k == KeyOf(call[th].msg)
             IN  forwarded[k] # Never /\ call[th].now - forwarded[k] < mWindow]_vars
  BY <1>1
<1> QED  BY <1>2, CacheInvariance, PTL DEF Spec, NoFalseDrop

\* A key passes twice within mWindow only when mCapacity other keys were looked
\* up in between.
THEOREM RepetitionNeedsEviction == Spec => NoEarlyRepeat
<1>1. ASSUME CacheInv, [Next]_vars, NEW th \in Thread, Returns(th), result' = "forward"
      PROVE  LET k == KeyOf(call[th].msg)
             IN  forwarded[k] # Never /\ call[th].now - forwarded[k] < mWindow =>
                     Cardinality(usedSince[k]) >= mCapacity
  <2>1. CASE Hit(th)
    <3>1. PICK i \in DOMAIN mEntries, v \in {"forward", "drop"} :
              /\ mEntries[i].key = KeyOf(call[th].msg)
              /\ Return(th, KeyOf(call[th].msg), v)
              /\ v = "drop" <=> call[th].now - mEntries[i].timestamp < mWindow
      BY <1>1, <2>1, HitFacts
    <3>2. ~(call[th].now - mEntries[i].timestamp < mWindow)
      BY <1>1, <3>1 DEF Return
    <3>3. forwarded[KeyOf(call[th].msg)] = mEntries[i].timestamp
      BY <1>1, <3>1 DEF CacheInv, StampsInv
    <3> QED  BY <3>2, <3>3
  <2>2. CASE Miss(th)
    <3>1. KeyOf(call[th].msg) \in Key /\ KeyOf(call[th].msg) \notin mIndex
      BY <1>1, <2>2, CacheFacts DEF Miss, CacheInv
    <3> QED  BY <1>1, <3>1 DEF CacheInv, EvictedInv
  <2> QED  BY <1>1, <2>1, <2>2, WhoReturns DEF CacheInv
<1>2. CacheInv /\ [Next]_vars =>
         [\A th \in Thread : Returns(th) /\ result' = "forward" =>
             LET k == KeyOf(call[th].msg)
             IN  forwarded[k] # Never /\ call[th].now - forwarded[k] < mWindow =>
                     Cardinality(usedSince[k]) >= mCapacity]_vars
  BY <1>1
<1> QED  BY <1>2, CacheInvariance, PTL DEF Spec, NoEarlyRepeat

-----------------------------------------------------------------------------
(* The refinement.                                                          *)

\* What the filter remembers, entry by entry.
RememberedIsList ==
    /\ Remembered = [k \in Key |-> Remembered[k]]
    /\ \A i \in DOMAIN mEntries : Remembered[mEntries[i].key] = mEntries[i].timestamp
    /\ \A k \in Key : k \notin mIndex => Remembered[k] = Never
    /\ \A k \in Key : k \in mIndex <=> Remembered[k] # Never

\* The times that the filter remembers are those in the list.
LEMMA RememberedFacts == CacheInv => RememberedIsList
<1> SUFFICES ASSUME CacheInv PROVE RememberedIsList
  OBVIOUS
<1>1. \A i \in DOMAIN mEntries : /\ mEntries[i].key \in Key /\ mEntries[i].key \in mIndex
                                 /\ mEntries[i].timestamp \in Nat
  BY CacheFacts DEF CacheInv, CacheCoherent
<1>2. Remembered = [k \in Key |-> Remembered[k]]
  BY DEF Remembered
<1>3. \A k \in Key : Remembered[k] = IF k \in mIndex THEN mEntries[PositionOf(k)].timestamp
                                     ELSE Never
  BY DEF Remembered
<1>4. \A i \in DOMAIN mEntries : Remembered[mEntries[i].key] = mEntries[i].timestamp
  BY <1>1, <1>3, PositionIs DEF CacheInv
<1>5. \A k \in mIndex : mEntries[PositionOf(k)].timestamp \in Nat
  BY <1>1, PositionExists DEF CacheInv
<1> QED  BY <1>2, <1>3, <1>4, <1>5, NeverAssumption DEF RememberedIsList

\* The same in the next state.
LEMMA RememberedNext == CacheInv' => RememberedIsList'
BY RememberedFacts, PTL

\* The calls as the filter sees them.
LEMMA AskedFacts ==
    ASSUME TypeOK
    PROVE  /\ Asked = [th \in Thread |-> Asked[th]]
           /\ \A th \in Thread : call[th] = Idle <=> Asked[th] = Idle
           /\ \A th \in Thread : call[th] # Idle =>
                 Asked[th].key = KeyOf(call[th].msg) /\ Asked[th].now = call[th].now
<1>1. \A th \in Thread : Asked[th] = IF call[th] = Idle THEN Idle
                            ELSE [key |-> KeyOf(call[th].msg), now |-> call[th].now]
  BY DEF Asked
<1>2. ASSUME NEW th \in Thread, call[th] # Idle
      PROVE  [key |-> KeyOf(call[th].msg), now |-> call[th].now] # Idle
  <2>1. KeyOf(call[th].msg) \in Key /\ call[th].now \in Nat
    BY <1>2, CacheFacts
  <2> QED  BY <2>1, IdleAssumption
<1> QED  BY <1>1, <1>2 DEF Asked

\* A call that returns is over for the filter too.
LEMMA AskedReturns ==
    ASSUME TypeOK, NEW th \in Thread, call' = [call EXCEPT ![th] = Idle]
    PROVE  Asked' = [Asked EXCEPT ![th] = Idle]
BY DEF Asked, TypeOK

\* The empty cache is a filter that remembers nothing.
LEMMA FilterInit == Init => Filter!Init
BY DEF Init, Filter!Init, Asked, Remembered

\* A hit inside the window is a drop, one outside of it lets the key pass.
LEMMA FilterHit ==
    ASSUME CacheInv, CacheInv', NEW th \in Thread, Hit(th)
    PROVE  Filter!Drop(th) \/ Filter!Pass(th)
<1> DEFINE k == KeyOf(call[th].msg)
<1>1. PICK i \in DOMAIN mEntries, t \in Nat, v \in {"forward", "drop"} :
              /\ call[th] # Idle
              /\ mEntries[i].key = k
              /\ mEntries' = MoveToFront(i, t) /\ mIndex' = mIndex
              /\ Return(th, k, v)
              /\ t = IF v = "forward" THEN call[th].now ELSE mEntries[i].timestamp
              /\ v = "drop" <=> call[th].now - mEntries[i].timestamp < mWindow
  BY HitFacts
<1>2. /\ Asked[th] # Idle /\ Asked[th].key = k /\ Asked[th].now = call[th].now
      /\ Asked' = [Asked EXCEPT ![th] = Idle] /\ clock' = clock /\ result' = v
  BY <1>1, AskedFacts, AskedReturns DEF CacheInv, Return
<1>3. k \in Key /\ k \in mIndex /\ \A j \in DOMAIN mEntries : mEntries[j].key \in Key
  BY <1>1, CacheFacts DEF CacheInv, CacheCoherent
<1> HIDE DEF k
<1>4. RememberedIsList /\ RememberedIsList'
  BY RememberedFacts, RememberedNext
<1>5. /\ DOMAIN mEntries' = DOMAIN mEntries
      /\ mEntries'[1].timestamp = t
      /\ \A j \in DOMAIN mEntries :
            /\ Before(i, j) \in DOMAIN mEntries
            /\ mEntries'[j].key = mEntries[Before(i, j)].key
            /\ j # 1 => mEntries'[j] = mEntries[Before(i, j)] /\ Before(i, j) # i
      /\ \A p \in DOMAIN mEntries : \E j \in DOMAIN mEntries : Before(i, j) = p
      /\ Before(i, 1) = i /\ 1 \in DOMAIN mEntries
  <2>1. Before(i, 1) = i
    BY DEF Before
  <2>2. 1 \in DOMAIN mEntries
    BY CacheFacts DEF CacheInv
  <2> QED  BY <1>1, <2>1, <2>2, MoveToFrontPositions DEF CacheInv
<1>6. Remembered'[k] = t /\ Remembered[k] = mEntries[i].timestamp
  <2>1. mEntries'[1].key = k /\ mEntries'[1].timestamp = t /\ 1 \in DOMAIN mEntries'
    BY <1>1, <1>5
  <2> QED  BY <1>1, <1>4, <2>1 DEF RememberedIsList
<1>7. ASSUME NEW q \in Key, q # k PROVE Remembered'[q] = Remembered[q]
  <2>1. CASE q \notin mIndex
    BY <1>1, <1>4, <2>1 DEF RememberedIsList
  <2>2. CASE q \in mIndex
    <3>1. PICK p \in DOMAIN mEntries : mEntries[p].key = q
      BY <2>2 DEF CacheInv, CacheCoherent
    <3>2. PICK j \in DOMAIN mEntries : Before(i, j) = p
      BY <1>5
    <3>3. j # 1
      BY <1>1, <1>5, <1>7, <3>1, <3>2
    <3>4. mEntries'[j] = mEntries[p] /\ j \in DOMAIN mEntries'
      BY <1>5, <3>2, <3>3
    <3> QED  BY <1>4, <3>1, <3>4 DEF RememberedIsList
  <2> QED  BY <2>1, <2>2
<1>8. k \in Filter!Held(Remembered)
  BY <1>3, <1>4 DEF Filter!Held, RememberedIsList
<1>9. CASE v = "drop"
  <2>1. Remembered' = Remembered
    <3>1. \A q \in Key : Remembered'[q] = Remembered[q]
      BY <1>1, <1>6, <1>7, <1>9
    <3> QED  BY <1>4, <3>1 DEF RememberedIsList
  <2>2. Filter!Recent(k, call[th].now)
    BY <1>1, <1>6, <1>8, <1>9 DEF Filter!Recent
  <2> QED  BY <1>2, <1>9, <2>1, <2>2 DEF Filter!Drop
<1>10. CASE v = "forward"
  <2>1. ~Filter!Recent(k, call[th].now)
    BY <1>1, <1>6, <1>10 DEF Filter!Recent
  <2>2. Remembered' = [q \in Key |-> CASE q = k    -> call[th].now
                                       [] q \in {} -> Never
                                       [] OTHER    -> Remembered[q]]
    <3>1. \A q \in Key : Remembered'[q] = CASE q = k    -> call[th].now
                                            [] q \in {} -> Never
                                            [] OTHER    -> Remembered[q]
      BY <1>1, <1>6, <1>7, <1>10
    <3> QED  BY <1>4, <3>1 DEF RememberedIsList
  <2> QED  BY <1>2, <1>8, <1>10, <2>1, <2>2 DEF Filter!Pass
<1> QED  BY <1>9, <1>10

\* RecentFilter counts with the Cardinality of its own instance of FiniteSets.
LEMMA FilterCardinality == \A S : Filter!Cardinality(S) = Cardinality(S)
BY DEF Filter!Cardinality, Cardinality

\* A miss lets the key pass; a full filter forgets another key.
LEMMA FilterMiss ==
    ASSUME CacheInv, CacheInv', NEW th \in Thread, Miss(th)
    PROVE  Filter!Pass(th)
<1> DEFINE k == KeyOf(call[th].msg)
           e == [key |-> k, timestamp |-> call[th].now]
           last == mEntries[Len(mEntries)].key
<1>1. /\ call[th] # Idle /\ k \notin mIndex
      /\ mEntries' = <<e>> \o EvictIfFull
      /\ mIndex' = {k} \cup (IF EvictIfFull = mEntries THEN mIndex
                             ELSE mIndex \ {Last(mEntries).key})
      /\ Return(th, k, "forward")
  BY DEF Miss
<1>2. /\ Asked[th] # Idle /\ Asked[th].key = k /\ Asked[th].now = call[th].now
      /\ Asked' = [Asked EXCEPT ![th] = Idle] /\ clock' = clock /\ result' = "forward"
  BY <1>1, AskedFacts, AskedReturns DEF CacheInv, Return
<1>3. /\ TypeOK /\ CacheCoherent /\ k \in Key /\ call[th].now \in Nat
      /\ Len(mEntries) \in Nat /\ DOMAIN mEntries = 1..Len(mEntries)
  BY <1>1, CacheFacts DEF CacheInv
<1>4. e \in Entry /\ e.key = k /\ e.timestamp = call[th].now
  BY <1>3 DEF Entry
<1> HIDE DEF k, e
<1>5. /\ DOMAIN mEntries' = 1..(Kept + 1)
      /\ mEntries'[1] = e
      /\ \A j \in 2..(Kept + 1) : mEntries'[j] = mEntries[j - 1]
      /\ \A q \in Key : q \in mIndex' <=> q = k \/ \E j \in 1..Kept : mEntries[j].key = q
      /\ Kept # Len(mEntries) =>
            \A q \in Key : q \notin mIndex' /\ q \in mIndex <=> q = last
  BY <1>1, <1>3, <1>4, MissPositions, SMTT(30)
<1>6. /\ Kept \in Nat
      /\ Kept # Len(mEntries) <=> Len(mEntries) >= mCapacity
      /\ Kept # Len(mEntries) => Len(mEntries) \in DOMAIN mEntries
  <2> DEFINE n == Len(mEntries)
  <2>1. n \in Nat /\ mCapacity \in Nat /\ Kept = IF n >= mCapacity THEN n - 1 ELSE n
    BY <1>3, CapacityAssumption DEF Kept
  <2> HIDE DEF n
  <2>2. Kept # n <=> n >= mCapacity
    BY <2>1
  <2> USE DEF n
  <2> QED  BY <1>3, <2>2, EvictPositions
<1>7. RememberedIsList /\ RememberedIsList'
  BY RememberedFacts, RememberedNext
<1>8. Remembered'[k] = call[th].now
  <2>1. 1 \in DOMAIN mEntries' /\ mEntries'[1].key = k /\ mEntries'[1].timestamp = call[th].now
    <3>1. 1 \in 1..(Kept + 1)
      BY <1>6
    <3> QED  BY <1>4, <1>5, <3>1
  <2> QED  BY <1>7, <2>1 DEF RememberedIsList
<1>9. ASSUME NEW q \in Key, q # k, q \in mIndex' PROVE Remembered'[q] = Remembered[q]
  <2>1. PICK j \in 1..Kept : mEntries[j].key = q
    BY <1>5, <1>9
  <2>2. j \in DOMAIN mEntries /\ j + 1 \in DOMAIN mEntries' /\ mEntries'[j + 1] = mEntries[j]
    <3>1. j \in DOMAIN mEntries
      BY <1>3, EvictPositions
    <3>2. j + 1 \in 2..(Kept + 1) /\ j + 1 - 1 = j /\ j + 1 \in 1..(Kept + 1)
      BY <1>6
    <3> QED  BY <1>5, <3>1, <3>2
  <2> QED  BY <1>7, <2>1, <2>2 DEF RememberedIsList
<1>10. ASSUME NEW q \in Key, q # k, q \notin mIndex' PROVE Remembered'[q] = Never
  BY <1>7, <1>10, SMTT(30) DEF RememberedIsList
<1>11. Filter!Held(Remembered) = mIndex /\ Cardinality(mIndex) = Len(mEntries)
  <2>1. Filter!Held(Remembered) = mIndex
    BY <1>3, <1>7 DEF Filter!Held, RememberedIsList, TypeOK
  <2>2. mIndex = {mEntries[j].key : j \in 1..Len(mEntries)}
    BY <1>3 DEF CacheCoherent
  <2>3. Len(mEntries) <= Len(mEntries)
    BY <1>3
  <2>4. Cardinality({mEntries[j].key : j \in 1..Len(mEntries)}) = Len(mEntries)
    BY <1>3, <2>3, CountKeys
  <2> QED  BY <2>1, <2>2, <2>4
<1>12. ~Filter!Recent(k, call[th].now)
  BY <1>1, <1>11 DEF Filter!Recent
<1> DEFINE lost == IF Len(mEntries) >= mCapacity THEN {last} ELSE {}
<1>13. \A q \in Key : q \in mIndex' <=> q = k \/ (q \in mIndex /\ q \notin lost)
  <2>1. CASE Len(mEntries) >= mCapacity
    BY <1>1, <1>5, <1>6, <2>1 DEF Last
  <2>2. CASE ~(Len(mEntries) >= mCapacity)
    BY <1>1, <2>2, SMTT(30) DEF EvictIfFull
  <2> QED  BY <2>1, <2>2
<1>14. lost \in IF Len(mEntries) >= mCapacity THEN {{q} : q \in mIndex} ELSE {{}}
  BY <1>3, <1>6 DEF CacheCoherent
<1>15. k \notin lost
  BY <1>1, <1>14
<1> HIDE DEF lost, last
<1>16. Remembered' = [q \in Key |-> CASE q = k      -> call[th].now
                                      [] q \in lost -> Never
                                      [] OTHER      -> Remembered[q]]
  <2>1. ASSUME NEW q \in Key
        PROVE  Remembered'[q] = CASE q = k      -> call[th].now
                                  [] q \in lost -> Never
                                  [] OTHER      -> Remembered[q]
    <3>1. CASE q = k
      BY <1>8, <1>15, <3>1
    <3>2. CASE q # k /\ q \in lost
      <4>1. Remembered'[q] = Never
        BY <1>10, <1>13, <3>2
      <4> QED  BY <3>2, <4>1
    <3>3. CASE q # k /\ q \notin lost /\ q \in mIndex
      BY <1>9, <1>13, <3>3
    <3>4. CASE q # k /\ q \notin lost /\ q \notin mIndex
      <4>1. Remembered[q] = Never /\ Remembered'[q] = Never
        BY <1>7, <1>10, <1>13, <3>4 DEF RememberedIsList
      <4> QED  BY <3>4, <4>1
    <3> QED  BY <3>1, <3>2, <3>3, <3>4
  <2> QED  BY <1>7, <2>1 DEF RememberedIsList
<1>17. k \notin Filter!Held(Remembered) /\ Cardinality(Filter!Held(Remembered)) = Len(mEntries)
  BY <1>1, <1>11
<1> DEFINE full == k \notin Filter!Held(Remembered)
                   /\ Filter!Cardinality(Filter!Held(Remembered)) >= mCapacity
<1>18. lost \in IF full THEN {{q} : q \in Filter!Held(Remembered)} ELSE {{}}
  BY <1>11, <1>14, <1>17, FilterCardinality
<1> HIDE DEF full
<1>19. \E l \in IF full THEN {{q} : q \in Filter!Held(Remembered)} ELSE {{}} :
          Remembered' = [q \in Key |-> CASE q = k   -> call[th].now
                                         [] q \in l -> Never
                                         [] OTHER   -> Remembered[q]]
  BY <1>16, <1>18
<1> QED  BY <1>2, <1>12, <1>19 DEF Filter!Pass, full

\* The cache is not touched.
LEMMA FilterKept ==
    ASSUME UNCHANGED <<mEntries, mIndex>>
    PROVE  Remembered' = Remembered
BY DEF Remembered, PositionOf

\* Every step of DedupCache is a step of the filter, or none.
LEMMA FilterStep == CacheInv /\ CacheInv' /\ [Next]_vars => [Filter!Next]_Filter!vars
<1> SUFFICES ASSUME CacheInv, CacheInv', [Next]_vars PROVE [Filter!Next]_Filter!vars
  OBVIOUS
<1>1. ASSUME NEW th \in Thread, Hit(th) PROVE Filter!Next
  BY <1>1, FilterHit DEF Filter!Next
<1>2. ASSUME NEW th \in Thread, Miss(th) PROVE Filter!Next
  BY <1>2, FilterMiss DEF Filter!Next
<1>3. ASSUME NEW th \in Thread, NEW m \in Message, ReadClock(th, m) PROVE Filter!Next
  <2>1. /\ call[th] = Idle /\ call' = [call EXCEPT ![th] = [msg |-> m, now |-> clock]]
        /\ result' = "none" /\ UNCHANGED <<clock, mEntries, mIndex>>
    BY <1>3 DEF ReadClock
  <2>2. Asked[th] = Idle
    BY <2>1, AskedFacts DEF CacheInv
  <2>3. [msg |-> m, now |-> clock] # Idle
    <3>1. clock \in Nat
      BY DEF CacheInv, TypeOK
    <3> QED  BY <3>1, IdleAssumption
  <2>4. Asked' = [Asked EXCEPT ![th] = [key |-> KeyOf(m), now |-> clock]]
    <3>1. call \in [Thread -> [msg : Message, now : Nat] \cup {Idle}]
      BY DEF CacheInv, TypeOK
    <3>2. \A t \in Thread : call'[t] = IF t = th THEN [msg |-> m, now |-> clock] ELSE call[t]
      BY <2>1, <3>1
    <3>3. \A t \in Thread : Asked'[t] = IF t = th THEN [key |-> KeyOf(m), now |-> clock]
                                       ELSE Asked[t]
      BY <2>3, <3>2 DEF Asked
    <3>4. Asked = [t \in Thread |-> Asked[t]] /\ Asked' = [t \in Thread |-> Asked'[t]]
      BY DEF Asked
    <3> QED  BY <3>3, <3>4
  <2>5. KeyOf(m) \in Key
    BY DEF Key
  <2>6. Filter!Ask(th)
    BY <2>1, <2>2, <2>4, <2>5, FilterKept DEF Filter!Ask
  <2> QED  BY <2>6 DEF Filter!Next
<1>4. ASSUME NEW th \in Thread, NEW m \in Message, PassUnfiltered(th, m) PROVE Filter!Next
  <2>1. Asked' = Asked /\ Remembered' = Remembered /\ clock' = clock /\ result' = "forward"
    BY <1>4, FilterKept DEF PassUnfiltered, Asked
  <2> QED  BY <2>1 DEF Filter!Next, Filter!Unasked
<1>5. ASSUME Tick PROVE Filter!Next
  <2>1. /\ Asked' = Asked /\ Remembered' = Remembered
        /\ clock' = clock + 1 /\ result' = "none"
    BY <1>5, FilterKept DEF Tick, Asked
  <2> QED  BY <2>1 DEF Filter!Next, Filter!Tick
<1>6. ASSUME UNCHANGED vars PROVE UNCHANGED Filter!vars
  BY <1>6, FilterKept DEF vars, Filter!vars, Asked
<1> QED  BY <1>1, <1>2, <1>3, <1>4, <1>5, <1>6 DEF Next

\* DedupCache, with its list, its map and its lock around a part of isDuplicate
\* only, implements the atomic filter with mCapacity places.
THEOREM DedupCacheIsRecentFilter == Spec => ImplementsRecentFilter
BY FilterInit, FilterStep, CacheInvariance, PTL DEF Spec, ImplementsRecentFilter, Filter!Spec
=============================================================================
