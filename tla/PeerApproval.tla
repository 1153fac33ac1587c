---------------------------- MODULE PeerApproval ----------------------------
(***************************************************************************)
(* How the application (src/source/main.cpp) answers the unknown-peer      *)
(* callback of the tunnel: a queue of approvals shared by the IO thread,   *)
(* which appends, the input thread, which answers the front for the user,  *)
(* one detached timer thread per entry, which rejects it after 60 s, and   *)
(* the destructor of State.  The mutex is released between taking an entry *)
(* out of the queue, calling its accept or reject and showing the next     *)
(* prompt, so these are separate steps.                                    *)
(*                                                                         *)
(* Time: a timer thread runs within one clock unit of its deadline; which  *)
(* of two threads due in the same unit is first is up to the scheduler.    *)
(***************************************************************************)
EXTENDS Naturals, Sequences, FiniteSets, SequencesExt

CONSTANTS
    MaxApprovals,  \* bound: callbacks
    MaxClock,      \* bound: the clock stops here
    Delay,         \* the 60 s a timer thread sleeps, in clock units
    NoId           \* no entry

ASSUME BoundsAssumption == MaxApprovals \in Nat /\ MaxClock \in Nat
ASSUME DelayAssumption == Delay \in Nat
ASSUME NoIdAssumption == NoId \notin Nat

Id == 0..(MaxApprovals - 1)

VARIABLES
    approvals,  \* SharedPending::approvals, the ids
    nextId,     \* SharedPending::nextId
    alive,      \* SharedPending::alive
    clock,
    deadline,   \* per id: when its timer thread wakes up
    timer,      \* per id: where its timer thread is
    user,       \* the input thread: step, entry it took, another one waiting
    gone,       \* LinkExtender, and the tunnel with it, is destroyed
    prompt,     \* the entry shown to the user last
    (* History, never read by the model:                                   *)
    resolved,   \* per id: calls of its accept or reject
    early,      \* ids that a timer took before their deadline
    dangling    \* an accept or reject ran after the tunnel was destroyed

vars == <<approvals, nextId, alive, clock, deadline, timer, user, gone, prompt,
          resolved, early, dangling>>

Ready == [step |-> "ready", id |-> NoId, hasNext |-> FALSE]

Init ==
    /\ approvals = <<>>
    /\ nextId = 0
    /\ alive = TRUE
    /\ clock = 0
    /\ deadline = [i \in Id |-> 0]
    /\ timer = [i \in Id |-> "none"]
    /\ user = Ready
    /\ gone = FALSE
    /\ prompt = NoId
    /\ resolved = [i \in Id |-> 0]
    /\ early = {}
    /\ dangling = FALSE

Resolve(i) ==
    /\ resolved' = [resolved EXCEPT ![i] = @ + 1]
    /\ dangling' = (dangling \/ gone)

ShowFront == prompt' = IF approvals # <<>> THEN Head(approvals) ELSE prompt

-----------------------------------------------------------------------------

\* Leaves the prompt to the thread that empties the queue.
ShowIfFirst_Bad(id) == prompt

\* The callback shows the prompt when nobody else is waiting.
ShowIfFirst(id) == IF approvals = <<>> THEN id ELSE prompt

\* Counts the sleep backwards.
Deadline_Bad == clock - Delay

Deadline == clock + Delay

\* The unknown-peer callback, on the IO thread.
Callback ==
    /\ ~gone
    /\ nextId < MaxApprovals
    /\ nextId' = nextId + 1
    /\ approvals' = Append(approvals, nextId)
    /\ prompt' = ShowIfFirst(nextId)
    /\ timer' = [timer EXCEPT ![nextId] = "sleeping"]
    /\ deadline' = [deadline EXCEPT ![nextId] = Deadline]
    /\ UNCHANGED <<alive, clock, user, gone, resolved, early, dangling>>

\* Takes approvals.front(), whoever it belongs to.
TimerTakes_Bad(i) == approvals # <<>>

\* Looks at the newest entry.
TimerTakes_Back(i) == approvals # <<>> /\ Last(approvals) = i

TimerTakes(i) == approvals # <<>> /\ Head(approvals) = i

\* The timer thread wakes up and takes its entry, if that is at the front.
TimerWakes(i) ==
    /\ timer[i] = "sleeping"
    /\ clock >= deadline[i]
    /\ IF alive /\ TimerTakes(i)
       THEN /\ timer' = [timer EXCEPT ![i] = "holding"]
            /\ approvals' = Tail(approvals)
            /\ early' = early \cup {j \in {Head(approvals)} : clock < deadline[j]}
       ELSE /\ timer' = [timer EXCEPT ![i] = "done"]
            /\ UNCHANGED <<approvals, early>>
    /\ UNCHANGED <<nextId, alive, clock, deadline, user, gone, prompt, resolved, dangling>>

TimerRejects(i) ==
    /\ timer[i] = "holding"
    /\ timer' = [timer EXCEPT ![i] = "printing"]
    /\ Resolve(i)
    /\ UNCHANGED <<approvals, nextId, alive, clock, deadline, user, gone, prompt, early>>

TimerPrints(i) ==
    /\ timer[i] = "printing"
    /\ timer' = [timer EXCEPT ![i] = "done"]
    /\ IF alive THEN ShowFront ELSE UNCHANGED prompt
    /\ UNCHANGED <<approvals, nextId, alive, clock, deadline, user, gone, resolved,
                   early, dangling>>

\* Copies the front and leaves it in the queue.
UserTakes_Bad == UNCHANGED approvals

UserTakes == approvals' = Tail(approvals)

\* The user presses 'a' or 'd': resolvePendingApproval.
UserAnswers ==
    /\ user.step = "ready"
    /\ approvals # <<>>
    /\ UserTakes
    /\ user' = [step |-> "holding", id |-> Head(approvals),
                hasNext |-> Tail(approvals) # <<>>]
    /\ UNCHANGED <<nextId, alive, clock, deadline, timer, gone, prompt, resolved,
                   early, dangling>>

UserResolves ==
    /\ user.step = "holding"
    /\ user' = IF user.hasNext THEN [user EXCEPT !.step = "printing", !.id = NoId]
               ELSE Ready
    /\ Resolve(user.id)
    /\ UNCHANGED <<approvals, nextId, alive, clock, deadline, timer, gone, prompt, early>>

UserPrints ==
    /\ user.step = "printing"
    /\ user' = Ready
    /\ ShowFront
    /\ UNCHANGED <<approvals, nextId, alive, clock, deadline, timer, gone, resolved,
                   early, dangling>>

\* The user presses 'q': the input thread returns and main joins it.
UserQuits ==
    /\ user.step = "ready"
    /\ user' = [Ready EXCEPT !.step = "quit"]
    /\ UNCHANGED <<approvals, nextId, alive, clock, deadline, timer, gone, prompt,
                   resolved, early, dangling>>

\* ~State, under the mutex: what is still queued is rejected.
Drain ==
    /\ user.step = "quit"
    /\ alive
    /\ alive' = FALSE
    /\ resolved' = [i \in Id |-> resolved[i] +
                        Cardinality({p \in DOMAIN approvals : approvals[p] = i})]
    /\ approvals' = <<>>
    /\ UNCHANGED <<nextId, clock, deadline, timer, user, gone, prompt, early, dangling>>

\* The members of State are destroyed after its destructor has run.
Destroy ==
    /\ ~alive
    /\ ~gone
    /\ gone' = TRUE
    /\ UNCHANGED <<approvals, nextId, alive, clock, deadline, timer, user, prompt,
                   resolved, early, dangling>>

Tick ==
    /\ clock < MaxClock
    /\ ~\E i \in Id : timer[i] = "sleeping" /\ clock >= deadline[i]
    /\ clock' = clock + 1
    /\ UNCHANGED <<approvals, nextId, alive, deadline, timer, user, gone, prompt,
                   resolved, early, dangling>>

Next ==
    \/ Callback
    \/ \E i \in Id : TimerWakes(i) \/ TimerRejects(i) \/ TimerPrints(i)
    \/ UserAnswers \/ UserResolves \/ UserPrints \/ UserQuits
    \/ Drain \/ Destroy
    \/ Tick

Spec == Init /\ [][Next]_vars

-----------------------------------------------------------------------------
(* Properties.                                                             *)

\* Every variable has its type.
TypeOK ==
    /\ approvals \in Seq(Id)
    /\ nextId \in 0..MaxApprovals
    /\ alive \in BOOLEAN
    /\ clock \in Nat
    /\ deadline \in [Id -> Nat]
    /\ timer \in [Id -> {"none", "sleeping", "holding", "printing", "done"}]
    /\ user \in [step : {"ready", "holding", "printing", "quit"},
                 id : Id \cup {NoId}, hasNext : BOOLEAN]
    /\ gone \in BOOLEAN
    /\ prompt \in Id \cup {NoId}
    /\ resolved \in [Id -> Nat]
    /\ early \in SUBSET Id
    /\ dangling \in BOOLEAN

Queued(i) == \E p \in DOMAIN approvals : approvals[p] = i
Held(i) == timer[i] = "holding" \/ user.id = i

\* "reject() is called at most once per entry" (main.cpp), and accept() with it;
\* and none is forgotten: an entry is waiting, or in one thread's hands, or was
\* resolved exactly once, whatever threads race for it.
ResolvedOnce ==
    \A i \in Id : i < nextId =>
        \/ Queued(i)  /\ ~Held(i) /\ resolved[i] = 0
        \/ ~Queued(i) /\ Held(i)  /\ resolved[i] = 0
        \/ ~Queued(i) /\ ~Held(i) /\ resolved[i] = 1

\* Nobody is rejected by the timer of another entry: not before the own 60 s.
NoEarlyReject == early = {}

\* A thread that took an entry is still to show the next one.
Busy == user.step = "printing" \/ user.hasNext
            \/ \E i \in Id : timer[i] \in {"holding", "printing"}

\* While the application runs, the front of the queue, which an answer goes to, is
\* the peer the user was asked about last.  The only exception is a stale prompt: its
\* entry has been taken, and the thread that took one has not printed the next.
\* The user can answer then, if that thread is a timer's, and the answer goes to a
\* peer that was not shown (resolvePendingApproval takes the front, whoever it is).
\* Otherwise nobody is answered for another, and no peer waits unseen.
PromptIsFront ==
    alive /\ approvals # <<>> =>
        \/ prompt = Head(approvals)
        \/ ~Queued(prompt) /\ Busy

\* The prompt says "(auto-reject in 60s)" (main.cpp), which does not always hold:
\* an entry outlives its 60 s, but only behind, or as, one of two entries that were due
\* at the same time: their threads woke up in the wrong order.
OverstayNeedsTie ==
    \A p \in DOMAIN approvals :
        alive /\ clock > deadline[approvals[p]] =>
            \E i, j \in Id : i < j /\ j <= approvals[p] /\ deadline[i] = deadline[j]

\* The comment in ~State (main.cpp): timer threads "will find alive==false and
\* become no-ops": none calls into the tunnel after it was destroyed.
NoDanglingCall == ~dangling
=============================================================================
