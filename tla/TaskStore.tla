------------------------------ MODULE TaskStore ------------------------------
(***************************************************************************)
(* The task handles of the Gateway and the calls that wait on them         *)
(* (src/src/task-store.js).  The store is synchronous: one action is one   *)
(* call, the lazy sweep most calls begin with (expireSweep) included.      *)
(*                                                                         *)
(* A record keeps its owner, its status, its result, the time its TTL ends *)
(* and whether its outcome was delivered (seenAt).  Messages, links, turn  *)
(* ids and the dispatch stamp are left out; the stamp and recovery are in  *)
(* TaskCommit.                                                             *)
(***************************************************************************)
EXTENDS Integers, FiniteSets

CONSTANTS
  Tasks,                      \* task ids; an id is a fresh UUID, handed out once
  Roots,                      \* owners of tasks
  Waiters,                    \* calls of waitForTerminal and waitForAny
  Results,                    \* what callers store as a result
  Ttls,                       \* the TTLs callers ask for
  MaxTaskTtl,                 \* the longest they get
  StopSets,                   \* the active states callers ask a wait to stop on as well
  MaxTime,                    \* bound: the clock stops here
  MaxTasksPerRoot, MaxConcurrentTasksPerRoot,
  MaxWaitersPerTask, MaxWaitersPerRoot,
  None                        \* no record, no result, no task

Active == {"working", "input_required"}
Terminal == {"completed", "failed", "cancelled"}

ASSUME TaskStoreAssumption ==
  /\ Ttls \subseteq Int /\ MaxTaskTtl \in Nat /\ MaxTime \in Nat
  /\ StopSets \subseteq SUBSET Active
  /\ {MaxTasksPerRoot, MaxConcurrentTasksPerRoot, MaxWaitersPerTask, MaxWaitersPerRoot} \subseteq Nat \ {0}
  /\ None \notin Tasks /\ None \notin Results
  /\ None \notin [root : Roots, status : Active \cup Terminal, result : Results \cup {None},
                  expires : Nat, seen : BOOLEAN]

VARIABLES
  clock,     \* what now() answers
  minted,    \* the ids handed out
  tasks,     \* #tasks: the record of each id, or None
  deferred,  \* #deferredTerminal: terminal records whose outcome may not be handed out yet
  joined,    \* #waiters: who waits on each task
  asks,      \* what each waiter watches, and which active states it stops on
  told       \* how each wait stands, and the record it was answered with

vars == <<clock, minted, tasks, deferred, joined, asks, told>>

Answer(is, t, record) == [is |-> is, task |-> t, status |-> record.status, result |-> record.result]
NoAnswer(is) == [is |-> is, task |-> None, status |-> "working", result |-> None]
NoAsk == [watch |-> {}, stopOn |-> {}]

Init ==
  /\ clock = 0
  /\ minted = {}
  /\ tasks = [t \in Tasks |-> None]
  /\ deferred = {}
  /\ joined = [t \in Tasks |-> {}]
  /\ asks = [w \in Waiters |-> NoAsk]
  /\ told = [w \in Waiters |-> NoAnswer("idle")]

-----------------------------------------------------------------------------
(* The sweep, and the waiters a call settles *)

Overdue == {t \in Tasks : tasks[t] # None /\ tasks[t].expires <= clock}
Live == {t \in Tasks : tasks[t] # None /\ ~(tasks[t].expires <= clock)}

\* The records a sweep leaves.
Swept == [t \in Tasks |-> IF t \in Live THEN tasks[t] ELSE None]

\* The sweep that takes an expired handle and leaves its waiters to their timers.
Lost_Forgotten == {}

\* The waiters a sweep rejects (TASK_TTL_EXPIRED).
Lost == UNION {joined[t] : t \in Overdue}

\* #settleWaiter: a waiter leaves every set it joined.
Leave(settled) ==
  joined' = [t \in Tasks |-> joined[t] \ {w \in settled : t \in asks[w].watch}]

\* The waiters rejected, and those resolved with this answer.
Settle(rejected, resolved, answer) ==
  /\ Leave(rejected \cup resolved)
  /\ asks' = [w \in Waiters |-> IF w \in rejected \cup resolved THEN NoAsk ELSE asks[w]]
  /\ told' = [w \in Waiters |-> IF w \in rejected THEN NoAnswer("rejected")
                                ELSE IF w \in resolved THEN answer ELSE told[w]]

\* A call that sweeps and then changes nothing: a read, a refusal, a repeat.
SweepOnly ==
  /\ tasks' = Swept
  /\ deferred' = deferred \cap Live
  /\ Settle(Lost, {}, NoAnswer("rejected"))

\* A call that sweeps and then makes t's record this one, waking these waiters.
SweepAndPut(t, record, nowDeferred, woken) ==
  /\ tasks' = [Swept EXCEPT ![t] = record]
  /\ deferred' = nowDeferred
  /\ Settle(Lost, woken, Answer("resolved", t, record))

-----------------------------------------------------------------------------
(* Records *)

\* The limit on the tasks in flight left out.
WithinBudget_HeldOnly(root) == Cardinality({t \in Live : tasks[t].root = root}) < MaxTasksPerRoot

\* The root's budgets, after the sweep.
WithinBudget(root) ==
  LET held == {t \in Live : tasks[t].root = root}
  IN /\ Cardinality(held) < MaxTasksPerRoot
     /\ Cardinality({t \in held : tasks[t].status \in Active}) < MaxConcurrentTasksPerRoot

\* #normalizeTtl
NormalTtl(ttl) == IF ttl < 0 THEN 0 ELSE IF ttl > MaxTaskTtl THEN MaxTaskTtl ELSE ttl

\* create()
Create(t, root, ttl) ==
  /\ t \notin minted
  /\ clock + NormalTtl(ttl) <= MaxTime
  /\ IF WithinBudget(root)
       THEN /\ SweepAndPut(t, [root |-> root, status |-> "working", result |-> None,
                               expires |-> clock + NormalTtl(ttl), seen |-> FALSE], deferred \cap Live, {})
            /\ minted' = minted \cup {t}
       ELSE SweepOnly /\ UNCHANGED minted
  /\ UNCHANGED clock

\* The record a transition leaves: a result is replaced only by a given one.
Moved(t, status, result) ==
  [tasks[t] EXCEPT !.status = status, !.result = IF result = None THEN @ ELSE result]

\* The last terminal writer wins.
Transition_LastWins(t, status, result, defer) ==
  /\ IF t \in Live /\ (tasks[t].status \in Terminal => status \in Terminal)
       THEN SweepAndPut(t, Moved(t, status, result),
              (deferred \cap Live) \cup (IF defer /\ status \in Terminal THEN {t} ELSE {}),
              IF defer /\ status \in Terminal THEN {} ELSE joined[t])
       ELSE SweepOnly
  /\ UNCHANGED <<clock, minted>>

\* transition(), and cancel() through it.  The first terminal writer wins: a
\* terminal record is left as it is.  deferWaiters holds the fan-out back.
Transition(t, status, result, defer) ==
  /\ IF t \in Live /\ tasks[t].status \in Active
       THEN SweepAndPut(t, Moved(t, status, result),
              (deferred \cap Live) \cup (IF defer /\ status \in Terminal THEN {t} ELSE {}),
              IF status \in Terminal
                THEN (IF defer THEN {} ELSE joined[t])
                ELSE {w \in joined[t] : status \in asks[w].stopOn})
       ELSE SweepOnly
  /\ UNCHANGED <<clock, minted>>

\* flushWaiters(): no sweep.
FlushWaiters(t) ==
  /\ t \in deferred
  /\ deferred' = deferred \ {t}
  /\ IF tasks[t] = None THEN UNCHANGED <<joined, asks, told>>
     ELSE Settle({}, joined[t], Answer("resolved", t, tasks[t]))
  /\ UNCHANGED <<clock, minted, tasks>>

\* failDeferredTerminal(): the provisional outcome is replaced, then handed out.
FailDeferredTerminal(t, result) ==
  /\ IF t \in Live /\ t \in deferred /\ tasks[t].status \in Terminal
       THEN SweepAndPut(t, [tasks[t] EXCEPT !.status = "failed", !.result = result],
              (deferred \cap Live) \ {t}, joined[t])
       ELSE SweepOnly
  /\ UNCHANGED <<clock, minted>>

\* remove(): no sweep.
Remove(t) ==
  /\ tasks[t] # None
  /\ tasks' = [tasks EXCEPT ![t] = None]
  /\ deferred' = deferred \ {t}
  /\ Settle(joined[t], {}, NoAnswer("rejected"))
  /\ UNCHANGED <<clock, minted>>

\* markSeen(): set once, only where the outcome may be handed out.
MarkSeen(t) ==
  /\ IF t \in Live /\ ~tasks[t].seen /\ tasks[t].status \in Terminal /\ t \notin deferred
       THEN SweepAndPut(t, [tasks[t] EXCEPT !.seen = TRUE], deferred \cap Live, {})
       ELSE SweepOnly
  /\ UNCHANGED <<clock, minted>>

\* get(), find(), result(), listPage(), size and the gc tick: a sweep.
ExpireSweep ==
  /\ Overdue # {}
  /\ SweepOnly
  /\ UNCHANGED <<clock, minted>>

\* clear(), at shutdown: every waiter is rejected.
Clear ==
  /\ tasks' = [t \in Tasks |-> None]
  /\ deferred' = {}
  /\ Settle(UNION {joined[t] : t \in Tasks}, {}, NoAnswer("rejected"))
  /\ UNCHANGED <<clock, minted>>

-----------------------------------------------------------------------------
(* Waits *)

\* A deferred outcome taken for one that may be handed out.
Releasable_Deferred(t) == tasks[t].status \in Terminal

\* #releasable
Releasable(t) == tasks[t].status \in Terminal /\ t \notin deferred

\* The tasks of a wait that already answer it.
Ready(watch, stopOn) == {t \in watch : Releasable(t) \/ tasks[t].status \in stopOn}

\* The waiters of a root, each once (#rootWaiterCount).
RootWaiters(root) ==
  UNION {joined[t] \ Lost : t \in {u \in Live : tasks[u].root = root}}

\* #admitWaiter, after the sweep.
Admitted(watch, root) ==
  /\ \A t \in watch : Cardinality(joined[t] \ Lost) < MaxWaitersPerTask
  /\ Cardinality(RootWaiters(root)) < MaxWaitersPerRoot

\* waitForTerminal() (one task) and waitForAny(), for the caller's root: the
\* sweep, and then an answer at once, a refusal, or one waiter that joins every
\* task it names.
Wait(w, root, watch, stopOn) ==
  LET named == \A t \in watch : t \in Live /\ tasks[t].root = root
      Tell(answer) ==
        told' = [v \in Waiters |-> IF v = w THEN answer
                                   ELSE IF v \in Lost THEN NoAnswer("rejected") ELSE told[v]]
      TellAtOnce(answer) ==
        /\ Leave(Lost)
        /\ asks' = [v \in Waiters |-> IF v \in Lost THEN NoAsk ELSE asks[v]]
        /\ Tell(answer)
  IN /\ told[w].is # "waiting"
     /\ watch # {}
     /\ tasks' = Swept
     /\ deferred' = deferred \cap Live
     /\ \/ ~named /\ TellAtOnce(NoAnswer("rejected"))
        \/ /\ named
           /\ \E t \in Ready(watch, stopOn) : TellAtOnce(Answer("resolved", t, tasks[t]))
        \/ /\ named /\ Ready(watch, stopOn) = {}  \* over a budget, or aborted already
           /\ TellAtOnce(NoAnswer("rejected"))
        \/ /\ named /\ Ready(watch, stopOn) = {} /\ Admitted(watch, root)
           /\ joined' = [t \in Tasks |->
                (joined[t] \ {v \in Lost : t \in asks[v].watch}) \cup (IF t \in watch THEN {w} ELSE {})]
           /\ asks' = [v \in Waiters |-> IF v = w THEN [watch |-> watch, stopOn |-> stopOn]
                                         ELSE IF v \in Lost THEN NoAsk ELSE asks[v]]
           /\ Tell(NoAnswer("waiting"))
     /\ UNCHANGED <<clock, minted>>

\* The timer of a wait, or its caller's abort signal.
GiveUp(w) ==
  /\ told[w].is = "waiting"
  /\ Settle({w}, {}, NoAnswer("rejected"))
  /\ UNCHANGED <<clock, minted, tasks, deferred>>

Tick ==
  /\ clock < MaxTime
  /\ clock' = clock + 1
  /\ UNCHANGED <<minted, tasks, deferred, joined, asks, told>>

Next ==
  \/ \E t \in Tasks :
       \/ \E root \in Roots, ttl \in Ttls : Create(t, root, ttl)
       \/ \E status \in Active \cup Terminal, result \in Results \cup {None}, defer \in BOOLEAN :
            Transition(t, status, result, defer)
       \/ FlushWaiters(t)
       \/ \E result \in Results : FailDeferredTerminal(t, result)
       \/ Remove(t)
       \/ MarkSeen(t)
  \/ ExpireSweep
  \/ Clear
  \/ \E w \in Waiters, root \in Roots, watch \in SUBSET Tasks, stopOn \in StopSets :
       Wait(w, root, watch, stopOn)
  \/ \E w \in Waiters : GiveUp(w)
  \/ Tick

Spec == Init /\ [][Next]_vars

\* Time passes and the gc tick sweeps.  A wait's own timer is given no fairness:
\* the property below is what holds without it.
FairSpec == Spec /\ WF_vars(Tick) /\ WF_vars(ExpireSweep)

-----------------------------------------------------------------------------
(* Properties *)

Records == [root : Roots, status : Active \cup Terminal, result : Results \cup {None},
            expires : Nat, seen : BOOLEAN]
Answers == [is : {"idle", "waiting", "resolved", "rejected"}, task : Tasks \cup {None},
            status : Active \cup Terminal, result : Results \cup {None}]

\* Types; a record only under an id that was handed out.
TypeOK ==
  /\ clock \in Nat
  /\ minted \subseteq Tasks
  /\ tasks \in [Tasks -> Records \cup {None}]
  /\ deferred \subseteq Tasks
  /\ joined \in [Tasks -> SUBSET Waiters]
  /\ asks \in [Waiters -> [watch : SUBSET Tasks, stopOn : SUBSET Active]]
  /\ told \in [Waiters -> Answers]
  /\ \A t \in Tasks : tasks[t] # None => t \in minted

\* A waiter is in the sets of all the tasks it watches until it is settled, and
\* in none after: "a waiter one task woke is gone from the rest".
WaiterSetsAgree ==
  \A w \in Waiters, t \in Tasks :
    w \in joined[t] <=> told[w].is = "waiting" /\ t \in asks[w].watch

\* No lost wakeup: whoever still waits on a task waits on a record that is
\* there, whose outcome may not be handed out yet, and in no state it stops on.
NoLostWakeup ==
  \A t \in Tasks : \A w \in joined[t] :
    tasks[t] # None /\ ~Releasable(t) /\ tasks[t].status \notin asks[w].stopOn

\* Only an outcome held back is provisional, and no such outcome counts as
\* delivered: a Main is never recorded to have seen what may still be replaced.
DeferredIsProvisional ==
  /\ \A t \in deferred : tasks[t] # None /\ tasks[t].status \in Terminal
  /\ \A t \in Tasks : tasks[t] # None /\ tasks[t].seen => Releasable(t)

\* The outcome a wait was answered with stands for as long as the handle does.
OutcomeStands ==
  \A w \in Waiters :
    LET answer == told[w]
    IN answer.is = "resolved" /\ answer.status \in Terminal =>
         /\ answer.task \in minted
         /\ tasks[answer.task] # None =>
              /\ tasks[answer.task].status = answer.status
              /\ tasks[answer.task].result = answer.result
              /\ answer.task \notin deferred

\* What a reader was given stands: the two above.
AnswersStand == DeferredIsProvisional /\ OutcomeStands

\* "The first terminal writer wins, permanently": an outcome that may be handed
\* out never changes, and a handle that is gone never comes back.
TerminalIsFinal ==
  [][\A t \in Tasks :
       /\ tasks[t] # None /\ Releasable(t) =>
            \/ tasks'[t] = None
            \/ /\ tasks'[t].status = tasks[t].status
               /\ tasks'[t].result = tasks[t].result
               /\ t \notin deferred'
       /\ tasks[t] = None /\ t \in minted => tasks'[t] = None]_vars

\* The records of a root, expired ones that no sweep has taken yet included.
Held(root) == {t \in Tasks : tasks[t] # None /\ tasks[t].root = root}

\* No budget is ever exceeded: a root's handles, those of them that run, and the
\* waiters of each task and root, whatever woke the others and however many tasks
\* each one watches.
BudgetsHold ==
  /\ \A root \in Roots :
       /\ Cardinality(Held(root)) <= MaxTasksPerRoot
       /\ Cardinality({t \in Held(root) : tasks[t].status \in Active}) <= MaxConcurrentTasksPerRoot
       /\ Cardinality(UNION {joined[t] : t \in Held(root)}) <= MaxWaitersPerRoot
  /\ \A t \in Tasks : Cardinality(joined[t]) <= MaxWaitersPerTask

\* A wait ends with the TTL of the tasks it watches at the latest, its own timer
\* or not.
WaitsEnd == \A w \in Waiters : told[w].is = "waiting" ~> told[w].is # "waiting"
=============================================================================
