------------------------- MODULE PeerApprovalProofs -------------------------
(* The invariants of the approval queue, for any number of approvals, any   *)
(* delay and any length of the run.                                         *)
EXTENDS PeerApproval, SequencesExt, Integers, TLAPS, FiniteSetTheorems

\* What is left when the front has been taken.
LEMMA TailPositions ==
    ASSUME NEW S, NEW s \in Seq(S), s # <<>>
    PROVE  /\ Tail(s) \in Seq(S)
           /\ Len(s) \in Nat /\ 1 \in DOMAIN s
           /\ Head(s) = s[1] /\ Head(s) \in S
           /\ DOMAIN s = 1..Len(s)
           /\ DOMAIN Tail(s) = 1..(Len(s) - 1)
           /\ \A p \in DOMAIN Tail(s) : /\ p \in Nat /\ p >= 1
                                        /\ p + 1 \in DOMAIN s
                                        /\ Tail(s)[p] = s[p + 1]
           /\ \A p \in DOMAIN s : p = 1 \/ (p - 1 \in DOMAIN Tail(s) /\ Tail(s)[p - 1] = s[p])
OBVIOUS

\* Append, position by position.
LEMMA AppendPositions ==
    ASSUME NEW S, NEW s \in Seq(S), NEW x \in S
    PROVE  /\ Append(s, x) \in Seq(S)
           /\ Append(s, x) # <<>>
           /\ DOMAIN s = 1..Len(s) /\ Len(s) \in Nat
           /\ DOMAIN Append(s, x) = 1..(Len(s) + 1)
           /\ Append(s, x)[Len(s) + 1] = x
           /\ \A p \in DOMAIN s : p \in DOMAIN Append(s, x) /\ Append(s, x)[p] = s[p]
           /\ Head(Append(s, x)) = IF s = <<>> THEN x ELSE Head(s)
OBVIOUS

\* Entries are queued in the order of their ids.
QueueSorted ==
    /\ \A p \in DOMAIN approvals : approvals[p] < nextId
    /\ \A p, q \in DOMAIN approvals : p < q => approvals[p] < approvals[q]

\* What the threads hold, by where they are.
ThreadsInv ==
    /\ user.step = "ready" => user = Ready
    /\ user.step = "quit" => user.id = NoId /\ ~user.hasNext
    /\ user.step = "printing" => user.id = NoId
    /\ user.step = "holding" => user.id # NoId
    /\ user.id # NoId => user.id < nextId
    /\ \A i \in Id : nextId <= i => timer[i] = "none" /\ resolved[i] = 0
    /\ \A i \in Id : i < nextId => timer[i] # "none"
    /\ \A i \in Id : timer[i] = "printing" => resolved[i] = 1
    /\ \A i \in Id : timer[i] = "holding" => user.id # i

\* Timer threads are started in the order of their deadlines and do not
\* oversleep by a whole clock unit.
DeadlinesInv ==
    /\ \A i, j \in Id : i < j /\ j < nextId => deadline[i] <= deadline[j]
    /\ \A i \in Id : i < nextId => deadline[i] <= clock + Delay
    /\ \A i \in Id : timer[i] = "sleeping" => clock <= deadline[i]

Tie(a) == \E i, j \in Id : i < j /\ j <= a /\ deadline[i] = deadline[j]

\* The timer of an entry has run and left the entry in the queue.
MissedNeedsTie ==
    alive => \A p \in DOMAIN approvals :
                timer[approvals[p]] = "done" => Tie(approvals[p])

\* What is shown has been asked for: no entry still to come is on the screen.
PromptInv ==
    /\ PromptIsFront
    /\ prompt # NoId => prompt < nextId

\* The inductive invariant.
ApprovalInv ==
    /\ TypeOK
    /\ QueueSorted
    /\ ThreadsInv
    /\ ResolvedOnce
    /\ DeadlinesInv
    /\ MissedNeedsTie
    /\ NoEarlyReject
    /\ PromptInv

-----------------------------------------------------------------------------
\* The types, as the provers need them.
LEMMA TypeFacts ==
    ASSUME TypeOK
    PROVE  /\ Id \subseteq Nat /\ nextId \in Nat /\ nextId <= MaxApprovals
           /\ \A i \in Nat : i < MaxApprovals => i \in Id
           /\ approvals \in Seq(Id) /\ DOMAIN approvals \subseteq Nat
           /\ \A p \in DOMAIN approvals : approvals[p] \in Id /\ approvals[p] \in Nat
           /\ clock \in Nat /\ deadline \in [Id -> Nat] /\ resolved \in [Id -> Nat]
           /\ user.id \in Id \cup {NoId}
<1>1. Id \subseteq Nat /\ nextId \in Nat /\ nextId <= MaxApprovals
  BY BoundsAssumption DEF TypeOK, Id
<1>2. \A i \in Nat : i < MaxApprovals => i \in Id
  BY BoundsAssumption DEF Id
<1>3. approvals \in Seq(Id)
  BY DEF TypeOK
<1>4. /\ DOMAIN approvals \subseteq Nat
      /\ \A p \in DOMAIN approvals : approvals[p] \in Id
  BY <1>3
<1> QED  BY <1>1, <1>2, <1>3, <1>4 DEF TypeOK

\* The entry that is taken out of the queue: nobody held it, and it is not in
\* the queue any more.
LEMMA TakeFront ==
    ASSUME TypeOK, QueueSorted, ResolvedOnce, approvals # <<>>,
           approvals' = Tail(approvals), nextId' = nextId
    PROVE  /\ Head(approvals) \in Id /\ Head(approvals) < nextId
           /\ Queued(Head(approvals)) /\ ~Held(Head(approvals))
           /\ resolved[Head(approvals)] = 0
           /\ approvals' \in Seq(Id)
           /\ QueueSorted'
           /\ \A i \in Id : Queued(i)' <=> Queued(i) /\ i # Head(approvals)
           /\ \A p \in DOMAIN approvals' :
                 \E q \in DOMAIN approvals : approvals'[p] = approvals[q]
<1>1. approvals \in Seq(Id) /\ \A p \in DOMAIN approvals : approvals[p] \in Nat
  BY TypeFacts
<1>2. /\ Tail(approvals) \in Seq(Id)
      /\ 1 \in DOMAIN approvals /\ DOMAIN approvals \subseteq Nat
      /\ Head(approvals) = approvals[1] /\ Head(approvals) \in Id
      /\ \A p \in DOMAIN Tail(approvals) : /\ p \in Nat /\ p >= 1
                                           /\ p + 1 \in DOMAIN approvals
                                           /\ Tail(approvals)[p] = approvals[p + 1]
      /\ \A p \in DOMAIN approvals : p = 1 \/ (/\ p - 1 \in DOMAIN Tail(approvals)
                                               /\ Tail(approvals)[p - 1] = approvals[p])
  BY <1>1, TailPositions
<1>3. Queued(Head(approvals)) /\ Head(approvals) < nextId
  BY <1>2 DEF Queued, QueueSorted
<1>4. ~Held(Head(approvals)) /\ resolved[Head(approvals)] = 0
  BY <1>2, <1>3 DEF ResolvedOnce
<1>5. QueueSorted'
  BY <1>1, <1>2, SMTT(30) DEF QueueSorted
<1>6. ASSUME NEW p \in DOMAIN approvals' PROVE approvals'[p] # Head(approvals)
  <2>1. 1 < p + 1 /\ p + 1 \in DOMAIN approvals /\ approvals'[p] = approvals[p + 1]
    BY <1>2
  <2> QED  BY <1>1, <1>2, <2>1 DEF QueueSorted
<1>7. ASSUME NEW i \in Id PROVE Queued(i)' <=> Queued(i) /\ i # Head(approvals)
  <2>1. ASSUME Queued(i)' PROVE Queued(i) /\ i # Head(approvals)
    BY <1>2, <1>6, <2>1 DEF Queued
  <2>2. ASSUME Queued(i), i # Head(approvals) PROVE Queued(i)'
    BY <1>2, <2>2, ZenonT(40) DEF Queued
  <2> QED  BY <2>1, <2>2
<1> QED  BY <1>2, <1>3, <1>4, <1>5, <1>7

\* The queue is as it was.
LEMMA QueueKept ==
    ASSUME UNCHANGED <<approvals, nextId>>
    PROVE  /\ QueueSorted => QueueSorted'
           /\ \A i \in Id : Queued(i)' <=> Queued(i)
BY DEF QueueSorted, Queued

\* The queue and the prompt are as they were.
LEMMA PromptKept ==
    ASSUME PromptInv, UNCHANGED <<approvals, nextId, alive, prompt>>, Busy => Busy'
    PROVE  PromptInv'
BY DEF PromptInv, PromptIsFront, Queued

\* The front is taken: what was shown has gone, or had gone before, and somebody
\* is to show the next.
LEMMA PromptTaken ==
    ASSUME TypeOK, QueueSorted, ResolvedOnce, PromptInv, approvals # <<>>,
           approvals' = Tail(approvals), UNCHANGED <<nextId, alive, prompt>>,
           approvals' # <<>> => Busy'
    PROVE  PromptInv'
<1>1. \A p \in DOMAIN approvals' : \E q \in DOMAIN approvals : approvals'[p] = approvals[q]
  BY TakeFront
<1>2. ASSUME alive PROVE ~Queued(prompt)'
  <2>1. CASE prompt = Head(approvals)
    <3>1. \A p \in DOMAIN approvals' : approvals'[p] # Head(approvals)
      BY TakeFront DEF Queued
    <3> QED  BY <2>1, <3>1 DEF Queued
  <2>2. CASE ~Queued(prompt)
    BY <1>1, <2>2 DEF Queued
  <2> QED  BY <1>2, <2>1, <2>2 DEF PromptInv, PromptIsFront
<1> QED  BY <1>2 DEF PromptInv, PromptIsFront

\* The front is shown.
LEMMA PromptShown ==
    ASSUME TypeOK, QueueSorted, PromptInv, UNCHANGED <<approvals, nextId, alive>>,
           ShowFront \/ (~alive /\ prompt' = prompt)
    PROVE  PromptInv'
<1>1. approvals # <<>> => Head(approvals) < nextId
  <2>1. approvals # <<>> => 1 \in DOMAIN approvals /\ Head(approvals) = approvals[1]
    BY TypeFacts, TailPositions
  <2> QED  BY <2>1 DEF QueueSorted
<1> QED  BY <1>1 DEF PromptInv, PromptIsFront, ShowFront

\* Nobody has asked yet.
LEMMA ApprovalInit == Init => ApprovalInv
<1> SUFFICES ASSUME Init PROVE ApprovalInv
  OBVIOUS
<1>1. TypeOK
  <2>1. user \in [step : {"ready", "holding", "printing", "quit"},
                  id : Id \cup {NoId}, hasNext : BOOLEAN]
    BY DEF Init, Ready
  <2>2. /\ approvals \in Seq(Id) /\ nextId \in 0..MaxApprovals /\ clock \in Nat
        /\ deadline \in [Id -> Nat] /\ resolved \in [Id -> Nat]
    BY BoundsAssumption DEF Init
  <2> QED  BY <2>1, <2>2 DEF Init, TypeOK
<1>2. QueueSorted /\ MissedNeedsTie /\ NoEarlyReject /\ PromptInv
  BY DEF Init, QueueSorted, MissedNeedsTie, NoEarlyReject, PromptInv, PromptIsFront
<1>3. ThreadsInv /\ ResolvedOnce /\ DeadlinesInv
  BY BoundsAssumption, DelayAssumption, NoIdAssumption
     DEF Init, ThreadsInv, ResolvedOnce, DeadlinesInv, Ready, Id
<1> QED  BY <1>1, <1>2, <1>3 DEF ApprovalInv

\* The IO thread queues an unknown peer and starts its timer thread.
LEMMA CallbackStep == ApprovalInv /\ Callback => ApprovalInv'
<1> SUFFICES ASSUME ApprovalInv, Callback PROVE ApprovalInv'
  OBVIOUS
<1> USE DEF ApprovalInv
<1>0. /\ Id \subseteq Nat /\ nextId \in Id /\ nextId \in Nat /\ nextId' = nextId + 1
      /\ nextId + 1 <= MaxApprovals
      /\ \A p \in DOMAIN approvals : approvals[p] \in Nat /\ approvals[p] # nextId
      /\ clock \in Nat /\ clock' = clock
      /\ approvals \in Seq(Id) /\ DOMAIN approvals \subseteq Nat
  BY TypeFacts, BoundsAssumption, SMTT(30) DEF Callback, QueueSorted
<1>1. /\ approvals' \in Seq(Id) /\ approvals' # <<>>
      /\ \A p \in DOMAIN approvals : p < Len(approvals) + 1
      /\ Len(approvals) \in Nat
      /\ DOMAIN approvals' = DOMAIN approvals \cup {Len(approvals) + 1}
      /\ approvals'[Len(approvals) + 1] = nextId
      /\ \A p \in DOMAIN approvals : approvals'[p] = approvals[p]
      /\ Head(approvals') = IF approvals = <<>> THEN nextId ELSE Head(approvals)
  BY <1>0, AppendPositions DEF Callback
<1>a. /\ timer' = [timer EXCEPT ![nextId] = "sleeping"]
      /\ deadline' = [deadline EXCEPT ![nextId] = clock + Delay]
      /\ timer \in [Id -> {"none", "sleeping", "holding", "printing", "done"}]
      /\ deadline \in [Id -> Nat]
      /\ UNCHANGED <<user, resolved, early>>
  BY DEF TypeOK, Callback, Deadline
<1>2. TypeOK'
  <2>1. nextId' \in 0..MaxApprovals
    BY <1>0, BoundsAssumption
  <2>2. deadline' \in [Id -> Nat]
    BY <1>0, <1>a, DelayAssumption
  <2>3. prompt' \in Id \cup {NoId}
    BY <1>0 DEF Callback, ShowIfFirst, TypeOK
  <2>4. timer' \in [Id -> {"none", "sleeping", "holding", "printing", "done"}]
    BY <1>a
  <2> QED  BY <1>1, <2>1, <2>2, <2>3, <2>4 DEF Callback, TypeOK
<1>3. QueueSorted'
  <2>1. \A p \in DOMAIN approvals' : approvals'[p] < nextId'
    BY <1>0, <1>1 DEF QueueSorted
  <2>2. ASSUME NEW p \in DOMAIN approvals', NEW q \in DOMAIN approvals', p < q
        PROVE  approvals'[p] < approvals'[q]
    <3>1. p \in DOMAIN approvals
      BY <1>0, <1>1, <2>2
    <3>2. CASE q \in DOMAIN approvals
      BY <1>1, <2>2, <3>1, <3>2 DEF QueueSorted
    <3>3. CASE q = Len(approvals) + 1
      BY <1>1, <2>2, <3>1, <3>3 DEF QueueSorted
    <3> QED  BY <1>1, <3>2, <3>3
  <2> QED  BY <2>1, <2>2 DEF QueueSorted
<1>4. \A i \in Id : Queued(i)' <=> Queued(i) \/ i = nextId
  BY <1>1 DEF Queued
<1>5. ThreadsInv'
  <2>1. user.id # NoId => user.id < nextId'
    <3>1. user.id # NoId => user.id \in Nat /\ user.id < nextId
      BY <1>0, TypeFacts DEF ThreadsInv
    <3> QED  BY <1>0, <3>1
  <2>2. \A i \in Id : /\ nextId' <= i => timer'[i] = "none" /\ resolved'[i] = 0
                      /\ i < nextId' => timer'[i] # "none"
                      /\ timer'[i] = "printing" => resolved'[i] = 1
    BY <1>0, <1>a DEF ThreadsInv
  <2> QED  BY <1>a, <2>1, <2>2 DEF ThreadsInv, Ready
<1>6. ~Queued(nextId) /\ ~Held(nextId) /\ resolved[nextId] = 0
  BY <1>0, TypeFacts, NoIdAssumption DEF Queued, ThreadsInv, Held
<1>7. \A i \in Id : Held(i)' <=> Held(i)
  BY <1>0, <1>a, <1>6 DEF Held
<1>8. ResolvedOnce'
  BY <1>0, <1>a, <1>4, <1>6, <1>7 DEF ResolvedOnce
<1>9. DeadlinesInv'
  BY <1>0, <1>a, DelayAssumption DEF DeadlinesInv
<1>10. MissedNeedsTie'
  <2> SUFFICES ASSUME alive, NEW p \in DOMAIN approvals', timer'[approvals'[p]] = "done"
               PROVE  Tie(approvals[p])'
    BY DEF MissedNeedsTie, Callback
  <2>1. approvals'[p] # nextId /\ p \in DOMAIN approvals
    BY <1>0, <1>1, <1>a
  <2>2. PICK i, j \in Id : i < j /\ j <= approvals[p] /\ deadline[i] = deadline[j]
    BY <1>0, <1>1, <1>a, <2>1, TypeFacts DEF MissedNeedsTie, Tie
  <2>3. i # nextId /\ j # nextId
    BY <1>0, <2>1, <2>2 DEF QueueSorted
  <2> QED  BY <1>0, <1>1, <1>a, <2>1, <2>2, <2>3 DEF Tie
<1>11. PromptInv'
  <2>0. prompt' = (IF approvals = <<>> THEN nextId ELSE prompt) /\ alive' = alive
    BY DEF Callback, ShowIfFirst
  <2>1. CASE approvals = <<>>
    BY <1>0, <1>1, <2>0, <2>1 DEF PromptInv, PromptIsFront
  <2>2. CASE approvals # <<>>
    <3>1. Busy => Busy'
      BY <1>0, <1>a DEF Busy, ThreadsInv
    <3>2. prompt # NoId => prompt \in Nat /\ prompt < nextId /\ prompt # nextId
      BY <1>0 DEF PromptInv, TypeOK
    <3>3. ~Queued(prompt) => ~Queued(prompt)'
      BY <1>0, <1>1, <2>0, <2>2, <3>2, NoIdAssumption DEF Queued
    <3>4. prompt' # NoId => prompt' < nextId'
      BY <1>0, <2>0, <2>2, <3>2
    <3> QED  BY <1>1, <2>0, <2>2, <3>1, <3>3, <3>4 DEF PromptInv, PromptIsFront
  <2> QED  BY <2>1, <2>2
<1> QED  BY <1>a, <1>2, <1>3, <1>5, <1>8, <1>9, <1>10, <1>11 DEF NoEarlyReject

\* The timer threads change nothing that the deadlines rest on.
LEMMA DeadlinesKept ==
    ASSUME DeadlinesInv, UNCHANGED <<deadline, clock, nextId>>,
           \A i \in Id : timer'[i] = "sleeping" => timer[i] = "sleeping"
    PROVE  DeadlinesInv' /\ \A a \in Id : Tie(a)' <=> Tie(a)
BY DEF DeadlinesInv, Tie

\* An entry whose timer woke up behind another one: their deadlines are equal,
\* or the other one was missed before.
LEMMA WokenBehindFront ==
    ASSUME TypeOK, QueueSorted, ThreadsInv, ResolvedOnce, DeadlinesInv, MissedNeedsTie, alive,
           NEW i \in Id, timer[i] = "sleeping", clock >= deadline[i],
           Queued(i), Head(approvals) # i
    PROVE  Tie(i)
<1>1. PICK p \in DOMAIN approvals : approvals[p] = i
  BY DEF Queued
<1>2. /\ 1 \in DOMAIN approvals /\ Head(approvals) = approvals[1]
      /\ p \in Nat /\ p >= 1 /\ p # 1
  <2>1. approvals \in Seq(Id) /\ approvals # <<>>
    BY <1>1, TypeFacts
  <2> QED  BY <1>1, <2>1, TailPositions
<1> DEFINE h == approvals[1]
<1>3. h < i /\ i < nextId /\ h \in Id /\ h \in Nat /\ i \in Nat
  BY <1>1, <1>2, TypeFacts DEF QueueSorted
<1>4. Queued(h)
  BY <1>2 DEF Queued
<1> HIDE DEF h
<1>5. timer[h] \in {"sleeping", "done"}
  <2>1. resolved[h] = 0 /\ ~Held(h) /\ h < nextId
    BY <1>3, <1>4, TypeFacts DEF ResolvedOnce
  <2>2. timer[h] \in {"none", "sleeping", "holding", "printing", "done"}
    BY <1>3 DEF TypeOK
  <2> QED  BY <1>3, <2>1, <2>2 DEF Held, ThreadsInv
<1>6. CASE timer[h] = "sleeping"
  <2>1. deadline[h] <= deadline[i] /\ clock <= deadline[h] /\ clock <= deadline[i]
    BY <1>3, <1>6 DEF DeadlinesInv
  <2>2. deadline[h] \in Nat /\ deadline[i] \in Nat /\ clock \in Nat
    BY <1>3, TypeFacts
  <2>3. deadline[h] = deadline[i]
    BY <2>1, <2>2
  <2> QED  BY <1>3, <2>3 DEF Tie
<1>7. CASE timer[h] = "done"
  <2>1. Tie(h)
    BY <1>2, <1>7 DEF MissedNeedsTie, h
  <2>2. PICK k, j \in Id : k < j /\ j <= h /\ deadline[k] = deadline[j]
    BY <2>1 DEF Tie
  <2>3. k \in Nat /\ j \in Nat
    BY TypeFacts
  <2> QED  BY <1>3, <2>2, <2>3 DEF Tie
<1> QED  BY <1>5, <1>6, <1>7

\* A timer thread wakes up: it takes its entry, or leaves it to the others.
LEMMA TimerWakesStep ==
    ASSUME ApprovalInv, NEW i \in Id, TimerWakes(i)
    PROVE  ApprovalInv'
<1> USE DEF ApprovalInv
<1>0. /\ timer[i] = "sleeping" /\ clock >= deadline[i]
      /\ UNCHANGED <<nextId, alive, clock, deadline, user, gone, prompt, resolved, dangling>>
      /\ timer \in [Id -> {"none", "sleeping", "holding", "printing", "done"}]
  BY DEF TimerWakes, TypeOK
<1>1. CASE alive /\ TimerTakes(i)
  <2>1. /\ timer' = [timer EXCEPT ![i] = "holding"]
        /\ approvals' = Tail(approvals) /\ approvals # <<>> /\ Head(approvals) = i
        /\ early' = early \cup {j \in {Head(approvals)} : clock < deadline[j]}
    BY <1>1 DEF TimerWakes, TimerTakes
  <2>2. /\ i < nextId /\ ~Held(i) /\ resolved[i] = 0
        /\ approvals' \in Seq(Id) /\ QueueSorted'
        /\ \A k \in Id : Queued(k)' <=> Queued(k) /\ k # i
        /\ \A p \in DOMAIN approvals' :
              \E q \in DOMAIN approvals : approvals'[p] = approvals[q]
    BY <1>0, <2>1, TakeFront
  <2>3. early' = {}
    <3>1. ~(clock < deadline[i])
      BY <1>0, TypeFacts
    <3> QED  BY <2>1, <3>1 DEF NoEarlyReject
  <2>4. timer' \in [Id -> {"none", "sleeping", "holding", "printing", "done"}]
    BY <1>0, <2>1
  <2>5. TypeOK'
    BY <1>0, <2>2, <2>3, <2>4 DEF TypeOK
  <2>6. \A k \in Id : timer'[k] = IF k = i THEN "holding" ELSE timer[k]
    BY <1>0, <2>1
  <2>7. ThreadsInv'
    <3>1. ~(nextId <= i) /\ user.id # i
      BY <2>2, TypeFacts DEF Held
    <3> QED  BY <1>0, <2>6, <3>1 DEF ThreadsInv, Ready
  <2>8. ResolvedOnce'
    <3>1. \A k \in Id : Held(k)' <=> Held(k) \/ k = i
      BY <1>0, <2>2, <2>6 DEF Held
    <3> QED  BY <1>0, <2>2, <3>1 DEF ResolvedOnce
  <2>9. DeadlinesInv' /\ \A a \in Id : Tie(a)' <=> Tie(a)
    BY <1>0, <2>6, DeadlinesKept
  <2>10. MissedNeedsTie'
    BY <1>0, <2>2, <2>6, <2>9, TypeFacts, ZenonT(40) DEF MissedNeedsTie
  <2>11. PromptInv'
    BY <1>0, <2>1, <2>6, PromptTaken DEF Busy
  <2> QED  BY <2>2, <2>3, <2>5, <2>7, <2>8, <2>9, <2>10, <2>11 DEF NoEarlyReject
<1>2. CASE ~(alive /\ TimerTakes(i))
  <2>1. timer' = [timer EXCEPT ![i] = "done"] /\ UNCHANGED <<approvals, early>>
    BY <1>2 DEF TimerWakes
  <2>2. QueueSorted' /\ \A k \in Id : Queued(k)' <=> Queued(k)
    BY <1>0, <2>1, QueueKept
  <2>3. \A k \in Id : timer'[k] = IF k = i THEN "done" ELSE timer[k]
    BY <1>0, <2>1
  <2>4. timer' \in [Id -> {"none", "sleeping", "holding", "printing", "done"}]
    BY <1>0, <2>1
  <2>5. TypeOK'
    BY <1>0, <2>1, <2>4 DEF TypeOK
  <2>6. ThreadsInv'
    <3>1. i < nextId /\ ~(nextId <= i)
      BY <1>0, TypeFacts DEF ThreadsInv
    <3> QED  BY <1>0, <2>3, <3>1 DEF ThreadsInv, Ready
  <2>7. ResolvedOnce'
    <3>1. \A k \in Id : Held(k)' <=> Held(k)
      BY <1>0, <2>3 DEF Held
    <3> QED  BY <1>0, <2>2, <3>1 DEF ResolvedOnce
  <2>8. DeadlinesInv' /\ \A a \in Id : Tie(a)' <=> Tie(a)
    BY <1>0, <2>3, DeadlinesKept
  <2>9. MissedNeedsTie'
    <3> SUFFICES ASSUME alive, NEW p \in DOMAIN approvals, timer'[approvals[p]] = "done"
                 PROVE  Tie(approvals[p])
      BY <1>0, <2>1, <2>8, TypeFacts DEF MissedNeedsTie
    <3>1. CASE approvals[p] # i
      BY <2>3, <3>1, TypeFacts DEF MissedNeedsTie
    <3>2. CASE approvals[p] = i
      <4>1. Queued(i) /\ Head(approvals) # i
        BY <1>2, <3>2 DEF Queued, TimerTakes
      <4> QED  BY <1>0, <3>2, <4>1, WokenBehindFront
    <3> QED  BY <3>1, <3>2
  <2>10. PromptInv'
    <3>1. Busy' <=> Busy
      BY <1>0, <2>3 DEF Busy
    <3> QED  BY <1>0, <2>1, <3>1, PromptKept
  <2> QED  BY <2>1, <2>2, <2>5, <2>6, <2>7, <2>8, <2>9, <2>10 DEF NoEarlyReject
<1> QED  BY <1>1, <1>2

\* A thread that holds an entry resolves it and lets go of it.
LEMMA ResolveOne ==
    ASSUME TypeOK, ResolvedOnce, NEW i \in Id, i < nextId, Held(i), Resolve(i),
           UNCHANGED <<approvals, nextId>>,
           \A k \in Id : Held(k)' <=> Held(k) /\ k # i
    PROVE  /\ ResolvedOnce'
           /\ resolved'[i] = 1
           /\ resolved' \in [Id -> Nat]
           /\ \A k \in Id : k # i => resolved'[k] = resolved[k]
<1>1. resolved' = [resolved EXCEPT ![i] = resolved[i] + 1] /\ resolved \in [Id -> Nat]
  BY DEF Resolve, TypeOK
<1>2. resolved[i] = 0
  BY DEF ResolvedOnce
<1>3. \A k \in Id : resolved'[k] = IF k = i THEN 1 ELSE resolved[k]
  BY <1>1, <1>2
<1>4. \A k \in Id : Queued(k)' <=> Queued(k)
  BY DEF Queued
<1>5. ~Queued(i)
  BY DEF ResolvedOnce
<1>6. ResolvedOnce'
  BY <1>3, <1>4, <1>5 DEF ResolvedOnce
<1> QED  BY <1>1, <1>3, <1>6

\* A timer thread calls the reject of the entry it took.
LEMMA TimerRejectsStep ==
    ASSUME ApprovalInv, NEW i \in Id, TimerRejects(i)
    PROVE  ApprovalInv'
<1> USE DEF ApprovalInv
<1>0. /\ timer[i] = "holding" /\ timer' = [timer EXCEPT ![i] = "printing"] /\ Resolve(i)
      /\ UNCHANGED <<approvals, nextId, alive, clock, deadline, user, gone, prompt, early>>
      /\ timer \in [Id -> {"none", "sleeping", "holding", "printing", "done"}]
  BY DEF TimerRejects, TypeOK
<1>1. \A k \in Id : timer'[k] = IF k = i THEN "printing" ELSE timer[k]
  BY <1>0
<1>2. i < nextId /\ ~(nextId <= i) /\ Held(i)
  BY <1>0, TypeFacts DEF ThreadsInv, Held
<1>3. \A k \in Id : Held(k)' <=> Held(k) /\ k # i
  <2>1. user.id # i
    BY <1>0 DEF ThreadsInv
  <2> QED  BY <1>0, <1>1, <2>1 DEF Held
<1>4. /\ ResolvedOnce' /\ resolved'[i] = 1 /\ resolved' \in [Id -> Nat]
      /\ \A k \in Id : k # i => resolved'[k] = resolved[k]
  BY <1>0, <1>2, <1>3, ResolveOne
<1>5. TypeOK'
  <2>1. timer' \in [Id -> {"none", "sleeping", "holding", "printing", "done"}]
    BY <1>0
  <2>2. dangling' \in BOOLEAN
    BY <1>0 DEF Resolve
  <2> QED  BY <1>0, <1>4, <2>1, <2>2 DEF TypeOK
<1>6. ThreadsInv'
  BY <1>0, <1>1, <1>2, <1>4 DEF ThreadsInv, Ready
<1>7. DeadlinesInv' /\ \A a \in Id : Tie(a)' <=> Tie(a)
  BY <1>0, <1>1, DeadlinesKept
<1>8. MissedNeedsTie'
  BY <1>0, <1>1, <1>7, TypeFacts DEF MissedNeedsTie
<1>9. PromptInv'
  BY <1>0, <1>1, PromptKept DEF Busy
<1> QED  BY <1>0, <1>4, <1>5, <1>6, <1>7, <1>8, <1>9, QueueKept DEF NoEarlyReject

\* A timer thread prints the next prompt.
LEMMA TimerPrintsStep ==
    ASSUME ApprovalInv, NEW i \in Id, TimerPrints(i)
    PROVE  ApprovalInv'
<1> USE DEF ApprovalInv
<1>0. /\ timer[i] = "printing" /\ timer' = [timer EXCEPT ![i] = "done"]
      /\ UNCHANGED <<approvals, nextId, alive, clock, deadline, user, gone, resolved,
                     early, dangling>>
      /\ timer \in [Id -> {"none", "sleeping", "holding", "printing", "done"}]
      /\ alive => ShowFront
  BY DEF TimerPrints, TypeOK
<1>1. \A k \in Id : timer'[k] = IF k = i THEN "done" ELSE timer[k]
  BY <1>0
<1>2. i < nextId /\ ~(nextId <= i) /\ resolved[i] = 1 /\ ~Queued(i)
  BY <1>0, TypeFacts DEF ThreadsInv, ResolvedOnce
<1>3. \A k \in Id : Held(k)' <=> Held(k)
  BY <1>0, <1>1 DEF Held
<1>4. TypeOK'
  <2>1. timer' \in [Id -> {"none", "sleeping", "holding", "printing", "done"}]
    BY <1>0
  <2>2. prompt' \in Id \cup {NoId}
    <3>1. approvals # <<>> => Head(approvals) \in Id
      BY TypeFacts, TailPositions
    <3> QED  BY <3>1 DEF TimerPrints, ShowFront, TypeOK
  <2> QED  BY <1>0, <2>1, <2>2 DEF TypeOK
<1>5. ThreadsInv'
  BY <1>0, <1>1, <1>2 DEF ThreadsInv, Ready
<1>6. ResolvedOnce'
  BY <1>0, <1>3, QueueKept DEF ResolvedOnce
<1>7. DeadlinesInv' /\ \A a \in Id : Tie(a)' <=> Tie(a)
  BY <1>0, <1>1, DeadlinesKept
<1>8. MissedNeedsTie'
  BY <1>0, <1>1, <1>2, <1>7, TypeFacts DEF MissedNeedsTie, Queued
<1>9. PromptInv'
  BY <1>0, PromptShown DEF TimerPrints
<1> QED  BY <1>0, <1>4, <1>5, <1>6, <1>7, <1>8, <1>9, QueueKept DEF NoEarlyReject

\* The input thread takes the front, resolves it and asks about the next one.
LEMMA UserAnswersStep == ApprovalInv /\ UserAnswers => ApprovalInv'
<1> SUFFICES ASSUME ApprovalInv, UserAnswers PROVE ApprovalInv'
  OBVIOUS
<1> USE DEF ApprovalInv
<1> DEFINE h == Head(approvals)
<1>0. /\ user.step = "ready" /\ approvals # <<>> /\ approvals' = Tail(approvals)
      /\ user' = [step |-> "holding", id |-> h, hasNext |-> Tail(approvals) # <<>>]
      /\ UNCHANGED <<nextId, alive, clock, deadline, timer, gone, prompt, resolved,
                     early, dangling>>
  BY DEF UserAnswers, UserTakes
<1>1. /\ h \in Id /\ h < nextId /\ ~Held(h) /\ resolved[h] = 0
      /\ approvals' \in Seq(Id) /\ QueueSorted'
      /\ \A k \in Id : Queued(k)' <=> Queued(k) /\ k # h
      /\ \A p \in DOMAIN approvals' :
            \E q \in DOMAIN approvals : approvals'[p] = approvals[q]
  BY <1>0, TakeFront
<1> HIDE DEF h
<1>2. user.id = NoId
  BY <1>0 DEF ThreadsInv, Ready
<1>3. \A k \in Id : Held(k)' <=> Held(k) \/ k = h
  BY <1>0, <1>1, <1>2, TypeFacts, NoIdAssumption DEF Held
<1>4. TypeOK'
  <2>1. user' \in [step : {"ready", "holding", "printing", "quit"},
                   id : Id \cup {NoId}, hasNext : BOOLEAN]
    BY <1>0, <1>1
  <2> QED  BY <1>0, <1>1, <2>1 DEF TypeOK
<1>5. ThreadsInv'
  <2>1. timer[h] # "holding" /\ h # NoId
    BY <1>1, TypeFacts, NoIdAssumption DEF Held
  <2> QED  BY <1>0, <1>1, <2>1 DEF ThreadsInv, Ready
<1>6. ResolvedOnce'
  BY <1>0, <1>1, <1>3 DEF ResolvedOnce
<1>7. DeadlinesInv' /\ \A a \in Id : Tie(a)' <=> Tie(a)
  BY <1>0, DeadlinesKept
<1>8. MissedNeedsTie'
  BY <1>0, <1>1, <1>7, TypeFacts DEF MissedNeedsTie
<1>9. PromptInv'
  <2>1. approvals' # <<>> => Busy'
    BY <1>0 DEF Busy
  <2> QED  BY <1>0, <2>1, PromptTaken
<1> QED  BY <1>0, <1>1, <1>4, <1>5, <1>6, <1>7, <1>8, <1>9 DEF NoEarlyReject

\* The input thread calls the accept or reject of the entry it took.
LEMMA UserResolvesStep == ApprovalInv /\ UserResolves => ApprovalInv'
<1> SUFFICES ASSUME ApprovalInv, UserResolves PROVE ApprovalInv'
  OBVIOUS
<1> USE DEF ApprovalInv
<1>0. /\ user.step = "holding" /\ Resolve(user.id)
      /\ user' = IF user.hasNext THEN [user EXCEPT !.step = "printing", !.id = NoId]
                 ELSE Ready
      /\ UNCHANGED <<approvals, nextId, alive, clock, deadline, timer, gone, prompt, early>>
      /\ user \in [step : {"ready", "holding", "printing", "quit"},
                   id : Id \cup {NoId}, hasNext : BOOLEAN]
  BY DEF UserResolves, TypeOK
<1>1. user.id \in Id /\ user.id < nextId /\ Held(user.id)
  BY <1>0, TypeFacts DEF ThreadsInv, Held
<1>2. /\ user'.id = NoId /\ user'.hasNext = user.hasNext
      /\ user'.step = IF user.hasNext THEN "printing" ELSE "ready"
      /\ user'.step = "ready" => user' = Ready
      /\ user' \in [step : {"ready", "holding", "printing", "quit"},
                    id : Id \cup {NoId}, hasNext : BOOLEAN]
  BY <1>0 DEF Ready
<1>3. \A k \in Id : Held(k)' <=> Held(k) /\ k # user.id
  <2>1. timer[user.id] # "holding"
    BY <1>0, <1>1 DEF ThreadsInv
  <2>2. NoId \notin Id
    BY TypeFacts, NoIdAssumption
  <2> QED  BY <1>0, <1>2, <2>1, <2>2 DEF Held
<1>4. /\ ResolvedOnce' /\ resolved'[user.id] = 1 /\ resolved' \in [Id -> Nat]
      /\ \A k \in Id : k # user.id => resolved'[k] = resolved[k]
  BY <1>0, <1>1, <1>3, ResolveOne
<1>5. TypeOK'
  <2>1. dangling' \in BOOLEAN
    BY <1>0 DEF Resolve
  <2> QED  BY <1>0, <1>2, <1>4, <2>1 DEF TypeOK
<1>6. ThreadsInv'
  <2>1. ~(nextId <= user.id) /\ NoId \notin Id
    BY <1>1, TypeFacts, NoIdAssumption
  <2> QED  BY <1>0, <1>2, <1>4, <2>1 DEF ThreadsInv
<1>7. DeadlinesInv' /\ \A a \in Id : Tie(a)' <=> Tie(a)
  BY <1>0, DeadlinesKept
<1>8. MissedNeedsTie'
  BY <1>0, <1>7, TypeFacts DEF MissedNeedsTie
<1>9. PromptInv'
  <2>1. Busy => Busy'
    BY <1>0, <1>2 DEF Busy
  <2> QED  BY <1>0, <2>1, PromptKept
<1> QED  BY <1>0, <1>4, <1>5, <1>6, <1>7, <1>8, <1>9, QueueKept DEF NoEarlyReject

\* The input thread prints the next prompt.
LEMMA UserPrintsStep == ApprovalInv /\ UserPrints => ApprovalInv'
<1> SUFFICES ASSUME ApprovalInv, UserPrints PROVE ApprovalInv'
  OBVIOUS
<1> USE DEF ApprovalInv
<1>0. /\ user.step = "printing" /\ user' = Ready /\ ShowFront
      /\ UNCHANGED <<approvals, nextId, alive, clock, deadline, timer, gone, resolved,
                     early, dangling>>
  BY DEF UserPrints
<1>1. user.id = NoId /\ user'.id = NoId
  BY <1>0 DEF ThreadsInv, Ready
<1>2. TypeOK'
  <2>1. user' \in [step : {"ready", "holding", "printing", "quit"},
                   id : Id \cup {NoId}, hasNext : BOOLEAN]
    BY <1>0 DEF Ready
  <2>2. prompt' \in Id \cup {NoId}
    <3>1. approvals # <<>> => Head(approvals) \in Id
      BY TypeFacts, TailPositions
    <3> QED  BY <1>0, <3>1 DEF ShowFront, TypeOK
  <2> QED  BY <1>0, <2>1, <2>2 DEF TypeOK
<1>3. ThreadsInv'
  <2>1. NoId \notin Id
    BY TypeFacts, NoIdAssumption
  <2> QED  BY <1>0, <1>1, <2>1 DEF ThreadsInv, Ready
<1>4. ResolvedOnce'
  BY <1>0, <1>1, QueueKept DEF ResolvedOnce, Held
<1>5. DeadlinesInv' /\ \A a \in Id : Tie(a)' <=> Tie(a)
  BY <1>0, DeadlinesKept
<1>6. MissedNeedsTie'
  BY <1>0, <1>5, TypeFacts DEF MissedNeedsTie
<1>7. PromptInv'
  BY <1>0, PromptShown
<1> QED  BY <1>0, <1>2, <1>3, <1>4, <1>5, <1>6, <1>7, QueueKept DEF NoEarlyReject

\* The input thread ends.
LEMMA UserQuitsStep == ApprovalInv /\ UserQuits => ApprovalInv'
<1> SUFFICES ASSUME ApprovalInv, UserQuits PROVE ApprovalInv'
  OBVIOUS
<1> USE DEF ApprovalInv
<1>0. /\ user = Ready /\ user' = [Ready EXCEPT !.step = "quit"]
      /\ UNCHANGED <<approvals, nextId, alive, clock, deadline, timer, gone, prompt,
                     resolved, early, dangling>>
  BY DEF UserQuits, ThreadsInv
<1>1. user.id = NoId /\ user'.id = NoId /\ user'.step = "quit" /\ ~user'.hasNext
  BY <1>0 DEF Ready
<1>2. TypeOK'
  <2>1. user' \in [step : {"ready", "holding", "printing", "quit"},
                   id : Id \cup {NoId}, hasNext : BOOLEAN]
    BY <1>0 DEF Ready
  <2> QED  BY <1>0, <2>1 DEF TypeOK
<1>3. ThreadsInv'
  BY <1>0, <1>1 DEF ThreadsInv
<1>4. ResolvedOnce'
  BY <1>0, <1>1, QueueKept DEF ResolvedOnce, Held
<1>5. DeadlinesInv' /\ \A a \in Id : Tie(a)' <=> Tie(a)
  BY <1>0, DeadlinesKept
<1>6. MissedNeedsTie'
  BY <1>0, <1>5, TypeFacts DEF MissedNeedsTie
<1>7. PromptInv'
  <2>1. Busy => Busy'
    BY <1>0, <1>1 DEF Busy, Ready
  <2> QED  BY <1>0, <2>1, PromptKept
<1> QED  BY <1>0, <1>2, <1>3, <1>4, <1>5, <1>6, <1>7, QueueKept DEF NoEarlyReject

\* An entry is in the queue once at most.
LEMMA QueuedCount ==
    ASSUME TypeOK, QueueSorted, NEW i \in Id
    PROVE  Cardinality({p \in DOMAIN approvals : approvals[p] = i})
               = IF Queued(i) THEN 1 ELSE 0
<1> DEFINE S == {p \in DOMAIN approvals : approvals[p] = i}
<1>1. CASE Queued(i)
  <2>1. PICK p \in DOMAIN approvals : approvals[p] = i
    BY <1>1 DEF Queued
  <2>2. ASSUME NEW q \in DOMAIN approvals, approvals[q] = i PROVE q = p
    <3>1. q \in Nat /\ p \in Nat /\ i \in Nat
      BY TypeFacts
    <3>2. ~(q < p) /\ ~(p < q)
      BY <2>1, <2>2, <3>1 DEF QueueSorted
    <3> QED  BY <3>1, <3>2
  <2>3. S = {p}
    BY <2>1, <2>2
  <2> QED  BY <1>1, <2>3, FS_Singleton
<1>2. CASE ~Queued(i)
  <2>1. S = {}
    BY <1>2 DEF Queued
  <2> QED  BY <1>2, <2>1, FS_EmptySet
<1> QED  BY <1>1, <1>2

\* ~State resolves what is still queued.
LEMMA DrainStep == ApprovalInv /\ Drain => ApprovalInv'
<1> SUFFICES ASSUME ApprovalInv, Drain PROVE ApprovalInv'
  OBVIOUS
<1> USE DEF ApprovalInv
<1>0. /\ alive' = FALSE /\ approvals' = <<>>
      /\ UNCHANGED <<nextId, clock, deadline, timer, user, gone, prompt, early, dangling>>
      /\ resolved \in [Id -> Nat]
  BY DEF Drain, TypeOK
<1>1. \A i \in Id : resolved'[i] = resolved[i] + (IF Queued(i) THEN 1 ELSE 0)
  BY QueuedCount DEF Drain
<1>2. TypeOK'
  <2>1. resolved' = [i \in Id |-> resolved[i] + (IF Queued(i) THEN 1 ELSE 0)]
    BY QueuedCount DEF Drain
  <2>2. resolved' \in [Id -> Nat]
    BY <1>0, <2>1
  <2>3. approvals' \in Seq(Id)
    BY <1>0
  <2> QED  BY <1>0, <2>2, <2>3 DEF TypeOK
<1>3. QueueSorted' /\ MissedNeedsTie' /\ PromptInv'
  BY <1>0 DEF QueueSorted, MissedNeedsTie, PromptInv, PromptIsFront
<1>4. \A i \in Id : nextId <= i \/ resolved[i] = 1 => ~Queued(i)
  <2>1. \A i \in Id : Queued(i) => i < nextId /\ ~(nextId <= i)
    BY TypeFacts DEF QueueSorted, Queued
  <2> QED  BY <2>1 DEF ResolvedOnce
<1>5. ThreadsInv'
  <2>1. \A i \in Id : ~Queued(i) => resolved'[i] = resolved[i]
    BY <1>0, <1>1
  <2> QED  BY <1>0, <1>4, <2>1 DEF ThreadsInv, Ready
<1>6. ResolvedOnce'
  <2>1. \A i \in Id : ~Queued(i)' /\ (Held(i)' <=> Held(i))
    BY <1>0 DEF Queued, Held
  <2> QED  BY <1>0, <1>1, <2>1 DEF ResolvedOnce
<1>7. DeadlinesInv'
  BY <1>0, DeadlinesKept
<1> QED  BY <1>0, <1>2, <1>3, <1>5, <1>6, <1>7 DEF NoEarlyReject

\* Every step keeps the invariant.
LEMMA ApprovalStep == ApprovalInv /\ [Next]_vars => ApprovalInv'
<1> SUFFICES ASSUME ApprovalInv, [Next]_vars PROVE ApprovalInv'
  OBVIOUS
<1>1. ASSUME Destroy \/ UNCHANGED vars PROVE ApprovalInv'
  <2>0. /\ UNCHANGED <<approvals, nextId, alive, clock, deadline, timer, user, prompt,
                       resolved, early, dangling>>
        /\ gone' \in BOOLEAN
    BY <1>1 DEF Destroy, vars, ApprovalInv, TypeOK
  <2> USE DEF ApprovalInv
  <2>1. TypeOK' /\ ThreadsInv' /\ NoEarlyReject'
    BY <2>0 DEF TypeOK, ThreadsInv, NoEarlyReject, Ready
  <2>2. ResolvedOnce'
    BY <2>0, QueueKept DEF ResolvedOnce, Held
  <2>3. DeadlinesInv' /\ \A a \in Id : Tie(a)' <=> Tie(a)
    BY <2>0, DeadlinesKept
  <2>4. MissedNeedsTie'
    BY <2>0, <2>3, TypeFacts DEF MissedNeedsTie
  <2>5. PromptInv'
    BY <2>0, PromptKept DEF Busy
  <2> QED  BY <2>0, <2>1, <2>2, <2>3, <2>4, <2>5, QueueKept
<1>2. ASSUME Tick PROVE ApprovalInv'
  <2> USE DEF ApprovalInv
  <2>0. /\ UNCHANGED <<approvals, nextId, alive, deadline, timer, user, gone, prompt,
                       resolved, early, dangling>>
        /\ clock' = clock + 1
        /\ \A i \in Id : timer[i] = "sleeping" => ~(clock >= deadline[i])
    BY <1>2 DEF Tick
  <2>1. TypeOK' /\ ThreadsInv' /\ NoEarlyReject'
    BY <2>0 DEF TypeOK, ThreadsInv, NoEarlyReject, Ready
  <2>2. ResolvedOnce'
    BY <2>0, QueueKept DEF ResolvedOnce, Held
  <2>3. DeadlinesInv'
    BY <2>0, TypeFacts, DelayAssumption, SMTT(30) DEF DeadlinesInv
  <2>4. MissedNeedsTie'
    BY <2>0 DEF MissedNeedsTie, Tie
  <2>5. PromptInv'
    BY <2>0, PromptKept DEF Busy
  <2> QED  BY <2>0, <2>1, <2>2, <2>3, <2>4, <2>5, QueueKept
<1> QED  BY <1>1, <1>2, CallbackStep, TimerWakesStep, TimerRejectsStep, TimerPrintsStep,
            UserAnswersStep, UserResolvesStep, UserPrintsStep, UserQuitsStep, DrainStep
         DEF Next

\* The inductive invariant holds in every reachable state.
LEMMA ApprovalInvariance == Spec => []ApprovalInv
BY ApprovalInit, ApprovalStep, PTL DEF Spec

\* Every variable of the approval queue and of its threads has its type.
THEOREM ApprovalTypes == Spec => []TypeOK
<1>1. ApprovalInv => TypeOK
  BY DEF ApprovalInv
<1> QED  BY <1>1, ApprovalInvariance, PTL

\* accept() or reject() is called once for every entry that has left the queue
\* and is in no thread's hands, and for no other, however many timer threads
\* race with the user and with the destructor of State.
THEOREM EveryApprovalResolvedOnce == Spec => []ResolvedOnce
<1>1. ApprovalInv => ResolvedOnce
  BY DEF ApprovalInv
<1> QED  BY <1>1, ApprovalInvariance, PTL

\* A timer thread takes no entry before that entry's own deadline.
THEOREM NobodyRejectedEarly == Spec => []NoEarlyReject
<1>1. ApprovalInv => NoEarlyReject
  BY DEF ApprovalInv
<1> QED  BY <1>1, ApprovalInvariance, PTL

\* What the user was asked about last is what an answer is applied to, unless that
\* entry has been taken out of the queue by a thread that is still to show the next.
THEOREM AnswersGoToPrompt == Spec => []PromptIsFront
<1>1. ApprovalInv => PromptIsFront
  BY DEF ApprovalInv, PromptInv
<1> QED  BY <1>1, ApprovalInvariance, PTL

\* An entry stays in the queue beyond its 60 s only when two entries up to it
\* were due at the same time.
THEOREM OverstayExplained == Spec => []OverstayNeedsTie
<1>1. ApprovalInv => OverstayNeedsTie
  <2> SUFFICES ASSUME ApprovalInv, NEW p \in DOMAIN approvals, alive,
                      clock > deadline[approvals[p]]
               PROVE  Tie(approvals[p])
    BY DEF OverstayNeedsTie, Tie
  <2> DEFINE a == approvals[p]
  <2>1. a \in Id /\ a < nextId /\ deadline[a] \in Nat /\ clock \in Nat
    BY TypeFacts DEF ApprovalInv, QueueSorted
  <2>2. timer[a] # "sleeping"
    BY <2>1 DEF ApprovalInv, DeadlinesInv
  <2>3. Queued(a)
    BY DEF Queued
  <2>4. ~Held(a) /\ resolved[a] = 0
    BY <2>1, <2>3 DEF ApprovalInv, ResolvedOnce
  <2>5. timer[a] = "done"
    <3>1. timer[a] \in {"none", "sleeping", "holding", "printing", "done"}
      BY <2>1 DEF ApprovalInv, TypeOK
    <3> QED  BY <2>1, <2>2, <2>4, <3>1 DEF ApprovalInv, ThreadsInv, Held
  <2> QED  BY <2>5 DEF ApprovalInv, MissedNeedsTie
<1> QED  BY <1>1, ApprovalInvariance, PTL
=============================================================================
