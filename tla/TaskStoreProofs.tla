--------------------------- MODULE TaskStoreProofs ---------------------------
(***************************************************************************)
(* What TaskStore guarantees for any number of tasks, roots and waiters,   *)
(* any budgets and any TTLs.                                               *)
(*                                                                         *)
(* No part of the inductive invariant stands alone: an answered outcome    *)
(* stands because only a deferred record may change once it is terminal,   *)
(* and nobody was answered from a deferred one; a waiter is not forgotten  *)
(* because the sets it joined and the tasks it watches agree.              *)
(***************************************************************************)
EXTENDS TaskStore, FiniteSetTheorems, TLAPS

\* The inductive invariant.
TaskInv ==
  /\ TypeOK
  /\ WaiterSetsAgree
  /\ NoLostWakeup
  /\ DeferredIsProvisional
  /\ OutcomeStands

\* A record that is there is a record.
LEMMA RecordThere ==
  ASSUME TypeOK, NEW t \in Tasks, tasks[t] # None
  PROVE  /\ tasks[t] \in Records
         /\ tasks[t].status \in Active \cup Terminal
         /\ tasks[t].result \in Results \cup {None}
BY DEF TypeOK, Records

\* The answer made from a record is an answer.
LEMMA AnswerTyped ==
  ASSUME NEW t \in Tasks, NEW record \in Records
  PROVE  /\ Answer("resolved", t, record) \in Answers
         /\ Answer("resolved", t, record).is = "resolved"
         /\ Answer("resolved", t, record).task = t
         /\ Answer("resolved", t, record).status = record.status
         /\ Answer("resolved", t, record).result = record.result
BY DEF Answer, Answers, Records

LEMMA NoAnswerTyped ==
  /\ \A is \in {"idle", "waiting", "resolved", "rejected"} :
       NoAnswer(is) \in Answers /\ NoAnswer(is).is = is /\ NoAnswer(is).status \notin Terminal
  /\ NoAsk \in [watch : SUBSET Tasks, stopOn : SUBSET Active]
  /\ NoAsk.watch = {}
BY DEF NoAnswer, NoAsk, Answers, Active, Terminal

\* What settling waiters does to the sets, the asks and the answers.
Settled(rejected, resolved, answer) ==
  /\ joined' \in [Tasks -> SUBSET Waiters]
  /\ asks' \in [Waiters -> [watch : SUBSET Tasks, stopOn : SUBSET Active]]
  /\ told' \in [Waiters -> Answers]
  /\ \A t \in Tasks : joined'[t] = joined[t] \ (rejected \cup resolved)
  /\ \A w \in Waiters \ (rejected \cup resolved) : asks'[w] = asks[w] /\ told'[w] = told[w]
  /\ \A w \in rejected : told'[w] = NoAnswer("rejected")
  /\ \A w \in resolved \ rejected : told'[w] = answer
  /\ WaiterSetsAgree'

LEMMA SettleFacts ==
  ASSUME TypeOK, WaiterSetsAgree,
         NEW rejected \in SUBSET Waiters, NEW resolved \in SUBSET Waiters,
         NEW answer \in Answers, answer.is # "waiting",
         Settle(rejected, resolved, answer)
  PROVE  Settled(rejected, resolved, answer)
<1> DEFINE settled == rejected \cup resolved
<1>1. joined' \in [Tasks -> SUBSET Waiters]
  BY DEF Settle, Leave, TypeOK
<1>2. /\ asks' \in [Waiters -> [watch : SUBSET Tasks, stopOn : SUBSET Active]]
      /\ told' \in [Waiters -> Answers]
  BY NoAnswerTyped DEF Settle, TypeOK
<1>3. \A t \in Tasks : joined'[t] = joined[t] \ settled
  BY DEF Settle, Leave, TypeOK, WaiterSetsAgree
<1>4. \A w \in Waiters \ settled : asks'[w] = asks[w] /\ told'[w] = told[w]
  BY DEF Settle
<1>5. \A w \in rejected : told'[w] = NoAnswer("rejected")
  BY DEF Settle
<1>6. \A w \in resolved \ rejected : told'[w] = answer
  BY DEF Settle
<1>7. \A w \in settled : told'[w].is # "waiting"
  BY <1>5, <1>6, NoAnswerTyped
<1>8. WaiterSetsAgree'
  BY <1>3, <1>4, <1>7 DEF WaiterSetsAgree
<1> QED BY <1>1, <1>2, <1>3, <1>4, <1>5, <1>6, <1>8 DEF Settled

\* The waiters a sweep rejects are waiters, all of them on overdue tasks.
LEMMA LostTyped ==
  ASSUME TypeOK
  PROVE  Lost \in SUBSET Waiters /\ \A t \in Overdue : joined[t] \subseteq Lost
BY DEF Lost, Overdue, TypeOK

LEMMA TaskInvInit == ASSUME Init PROVE TaskInv
BY NoAnswerTyped DEF Init, TaskInv, TypeOK, WaiterSetsAgree, NoLostWakeup, DeferredIsProvisional, OutcomeStands

\* A step that leaves each record as it is or takes it away, settles the waiters
\* of those it takes and answers nobody, keeps the invariant.
LEMMA TakeKeepsInv ==
  ASSUME TaskInv, NEW gone \in SUBSET Tasks,
         tasks' = [t \in Tasks |-> IF t \in gone THEN None ELSE tasks[t]],
         deferred' = deferred \ gone,
         NEW rejected \in SUBSET Waiters,
         \A t \in gone : joined[t] \subseteq rejected,
         Settle(rejected, {}, NoAnswer("rejected")),
         UNCHANGED <<clock, minted>>
  PROVE  TaskInv'
<1>1. TypeOK /\ WaiterSetsAgree
  BY DEF TaskInv
<1>2. /\ joined' \in [Tasks -> SUBSET Waiters]
      /\ asks' \in [Waiters -> [watch : SUBSET Tasks, stopOn : SUBSET Active]]
      /\ told' \in [Waiters -> Answers]
      /\ \A t \in Tasks : joined'[t] = joined[t] \ rejected
      /\ \A w \in Waiters \ rejected : asks'[w] = asks[w] /\ told'[w] = told[w]
      /\ \A w \in rejected : told'[w] = NoAnswer("rejected")
      /\ WaiterSetsAgree'
  <2>1. {} \in SUBSET Waiters /\ rejected \cup {} = rejected
    OBVIOUS
  <2> DEFINE no == NoAnswer("rejected")
  <2>2. no \in Answers /\ no.is # "waiting" /\ Settle(rejected, {}, no)
    BY NoAnswerTyped
  <2> HIDE DEF no
  <2>3. Settled(rejected, {}, no)
    BY <1>1, <2>1, <2>2, SettleFacts
  <2> QED BY <2>1, <2>3 DEF Settled
<1>3. TypeOK'
  BY <1>1, <1>2 DEF TypeOK
<1>4. NoLostWakeup'
  <2> SUFFICES ASSUME NEW t \in Tasks, NEW w \in joined'[t]
               PROVE  (tasks[t] # None /\ ~Releasable(t) /\ tasks[t].status \notin asks[w].stopOn)'
    BY DEF NoLostWakeup
  <2>1. w \in joined[t] /\ w \in Waiters \ rejected
    BY <1>1, <1>2 DEF TypeOK
  <2>2. t \notin gone
    BY <2>1
  <2>3. tasks[t] # None /\ ~Releasable(t) /\ tasks[t].status \notin asks[w].stopOn
    BY <2>1 DEF TaskInv, NoLostWakeup
  <2> QED BY <2>1, <2>2, <2>3, <1>2 DEF Releasable
<1>5. DeferredIsProvisional'
  BY <1>1 DEF TaskInv, DeferredIsProvisional, Releasable, TypeOK
<1>6. OutcomeStands'
  BY <1>1, <1>2, NoAnswerTyped DEF TaskInv, OutcomeStands, TypeOK, Answers
<1> QED BY <1>2, <1>3, <1>4, <1>5, <1>6 DEF TaskInv

\* The sweep alone.
LEMMA SweepKeepsInv ==
  ASSUME TaskInv, SweepOnly, UNCHANGED <<clock, minted>>
  PROVE  TaskInv'
<1>1. TypeOK
  BY DEF TaskInv
<1>2. tasks' = [t \in Tasks |-> IF t \in Overdue THEN None ELSE tasks[t]]
  BY DEF SweepOnly, Swept, Live, Overdue
<1>3. deferred' = deferred \ Overdue
  <2>1. \A t \in deferred : t \in Tasks /\ tasks[t] # None
    BY <1>1 DEF TaskInv, DeferredIsProvisional, TypeOK
  <2> QED BY <2>1 DEF SweepOnly, Live, Overdue
<1>4. Overdue \in SUBSET Tasks
  BY DEF Overdue
<1> QED BY <1>1, <1>2, <1>3, <1>4, LostTyped, TakeKeepsInv DEF SweepOnly

\* A step that sweeps, then puts one record and wakes waiters of its task.
LEMMA PutKeepsInv ==
  ASSUME TaskInv,
         NEW t \in Tasks, NEW record \in Records, NEW nowDeferred \in SUBSET Tasks,
         NEW woken \in SUBSET joined[t],
         t \in Live \/ t \notin minted,
         minted' = minted \cup {t}, clock' = clock,
         SweepAndPut(t, record, nowDeferred, woken),
         \A u \in Tasks \ {t} : u \in nowDeferred <=> u \in deferred \cap Live,
         t \in nowDeferred => record.status \in Terminal,
         record.seen => record.status \in Terminal /\ t \notin nowDeferred,
         \A w \in (joined[t] \ Lost) \ woken :
           /\ record.status \in Terminal => t \in nowDeferred
           /\ record.status \notin asks[w].stopOn,
         woken # {} /\ record.status \in Terminal => t \notin nowDeferred,
         t \in Live /\ Releasable(t) =>
           /\ record.status = tasks[t].status
           /\ record.result = tasks[t].result
           /\ t \notin nowDeferred
  PROVE  TaskInv'
<1> DEFINE answer == Answer("resolved", t, record)
<1>1. TypeOK /\ WaiterSetsAgree /\ NoLostWakeup /\ DeferredIsProvisional /\ OutcomeStands
  BY DEF TaskInv
<1>2. /\ Lost \in SUBSET Waiters /\ woken \in SUBSET Waiters
      /\ \A u \in Overdue : joined[u] \subseteq Lost
  BY <1>1, LostTyped DEF TypeOK
<1>3. /\ answer \in Answers /\ answer.is = "resolved" /\ answer.task = t
      /\ answer.status = record.status /\ answer.result = record.result
  BY AnswerTyped
<1> HIDE DEF answer
<1>4. Settle(Lost, woken, answer)
  BY DEF SweepAndPut, answer
<1>5. /\ joined' \in [Tasks -> SUBSET Waiters]
      /\ asks' \in [Waiters -> [watch : SUBSET Tasks, stopOn : SUBSET Active]]
      /\ told' \in [Waiters -> Answers]
      /\ \A u \in Tasks : joined'[u] = joined[u] \ (Lost \cup woken)
      /\ \A w \in Waiters \ (Lost \cup woken) : asks'[w] = asks[w] /\ told'[w] = told[w]
      /\ \A w \in Lost : told'[w] = NoAnswer("rejected")
      /\ \A w \in woken \ Lost : told'[w] = answer
      /\ WaiterSetsAgree'
  <2>1. Settled(Lost, woken, answer)
    BY <1>1, <1>2, <1>3, <1>4, SettleFacts
  <2> QED BY <2>1 DEF Settled
<1>6. /\ tasks' \in [Tasks -> Records \cup {None}]
      /\ tasks'[t] = record
      /\ \A u \in Tasks \ {t} : tasks'[u] = IF u \in Live THEN tasks[u] ELSE None
  <2>1. Swept \in [Tasks -> Records \cup {None}]
    BY <1>1 DEF Swept, TypeOK
  <2> QED BY <2>1 DEF SweepAndPut, Swept
<1>7. deferred' = nowDeferred
  BY DEF SweepAndPut
<1>8. record # None
  BY TaskStoreAssumption DEF Records
<1>9. TypeOK'
  BY <1>1, <1>5, <1>6, <1>7 DEF TypeOK, Live
<1>10. NoLostWakeup'
  <2> SUFFICES ASSUME NEW u \in Tasks, NEW w \in joined'[u]
               PROVE  (tasks[u] # None /\ ~Releasable(u) /\ tasks[u].status \notin asks[w].stopOn)'
    BY DEF NoLostWakeup
  <2>1. w \in joined[u] /\ w \notin Lost /\ w \notin woken /\ w \in Waiters /\ asks'[w] = asks[w]
    BY <1>1, <1>5 DEF TypeOK
  <2>2. tasks[u] # None /\ ~Releasable(u) /\ tasks[u].status \notin asks[w].stopOn
    BY <1>1, <2>1 DEF NoLostWakeup
  <2>3. CASE u = t
    BY <2>1, <2>3, <1>6, <1>7, <1>8 DEF Releasable
  <2>4. CASE u # t
    <3>1. u \in Live
      BY <2>1, <2>2, <1>2 DEF Live, Overdue
    <3> QED BY <3>1, <2>1, <2>2, <2>4, <1>6, <1>7 DEF Releasable
  <2> QED BY <2>3, <2>4
<1>11. DeferredIsProvisional'
  BY <1>1, <1>6, <1>7, <1>8 DEF DeferredIsProvisional, Releasable, Live
<1>12. OutcomeStands'
  <2> SUFFICES ASSUME NEW w \in Waiters, told'[w].is = "resolved", told'[w].status \in Terminal
               PROVE  /\ told'[w].task \in minted'
                      /\ tasks'[told'[w].task] # None =>
                           /\ tasks'[told'[w].task].status = told'[w].status
                           /\ tasks'[told'[w].task].result = told'[w].result
                           /\ told'[w].task \notin deferred'
    BY DEF OutcomeStands
  <2>1. CASE w \in Lost
    BY <2>1, <1>5, NoAnswerTyped
  <2>2. CASE w \in woken \ Lost
    BY <2>2, <1>3, <1>5, <1>6, <1>7
  <2>3. CASE w \notin Lost \cup woken
    <3>1. told'[w] = told[w]
      BY <2>3, <1>5
    <3> DEFINE u == told[w].task
    <3>2. u \in minted /\ u \in Tasks
      BY <1>1, <3>1 DEF OutcomeStands, TypeOK
    <3>3. tasks[u] # None => /\ tasks[u].status = told[w].status
                             /\ tasks[u].result = told[w].result
                             /\ u \notin deferred
      BY <1>1, <3>1 DEF OutcomeStands
    <3>4. CASE u = t
      <4>1. t \in Live
        BY <3>2, <3>4
      <4>2. tasks[t] # None
        BY <4>1 DEF Live
      <4>3. Releasable(t)
        BY <3>1, <3>3, <3>4, <4>2 DEF Releasable
      <4> QED BY <3>1, <3>2, <3>3, <3>4, <4>1, <4>2, <4>3, <1>6, <1>7
    <3>5. CASE u # t
      <4>1. tasks'[u] # None => u \in Live /\ tasks'[u] = tasks[u]
        BY <3>2, <3>5, <1>6
      <4>2. u \in Live => tasks[u] # None
        BY DEF Live
      <4> QED BY <3>1, <3>2, <3>3, <3>5, <4>1, <4>2, <1>7
    <3> QED BY <3>4, <3>5
  <2> QED BY <2>1, <2>2, <2>3
<1> QED BY <1>5, <1>9, <1>10, <1>11, <1>12 DEF TaskInv

LEMMA CreateKeepsInv ==
  ASSUME TaskInv, NEW t \in Tasks, NEW root \in Roots, NEW ttl \in Ttls, Create(t, root, ttl)
  PROVE  TaskInv'
<1> DEFINE record == [root |-> root, status |-> "working", result |-> None,
                      expires |-> clock + NormalTtl(ttl), seen |-> FALSE]
<1>1. TypeOK
  BY DEF TaskInv
<1>2. CASE WithinBudget(root)
  <2>1. record \in Records
    <3>1. ttl \in Int /\ MaxTaskTtl \in Nat
      BY TaskStoreAssumption
    <3>2. NormalTtl(ttl) \in Nat
      BY <3>1 DEF NormalTtl
    <3>3. clock + NormalTtl(ttl) \in Nat
      BY <1>1, <3>2 DEF TypeOK
    <3> QED BY <3>3 DEF Records, Active
  <2>2. /\ t \notin minted /\ minted' = minted \cup {t} /\ clock' = clock
        /\ SweepAndPut(t, record, deferred \cap Live, {})
    BY <1>2 DEF Create
  <2>3. tasks[t] = None
    BY <1>1, <2>2 DEF TypeOK
  <2>4. joined[t] = {} /\ t \notin Live
    BY <1>1, <2>3 DEF TaskInv, NoLostWakeup, Live, TypeOK
  <2>5. record.status = "working"
    OBVIOUS
  <2> HIDE DEF record
  <2>6. deferred \cap Live \in SUBSET Tasks /\ {} \in SUBSET joined[t]
    BY <1>1 DEF TypeOK
  <2>7. ~record.seen /\ record.status \notin Terminal /\ t \notin deferred \cap Live
    BY <2>4 DEF record, Terminal
  <2> QED BY <2>1, <2>2, <2>4, <2>6, <2>7, PutKeepsInv
<1>3. CASE ~WithinBudget(root)
  BY <1>3, SweepKeepsInv DEF Create
<1> QED BY <1>2, <1>3

LEMMA TransitionKeepsInv ==
  ASSUME TaskInv, NEW t \in Tasks, NEW status \in Active \cup Terminal,
         NEW result \in Results \cup {None}, NEW defer \in BOOLEAN,
         Transition(t, status, result, defer)
  PROVE  TaskInv'
<1>1. TypeOK
  BY DEF TaskInv
<1>2. CASE t \in Live /\ tasks[t].status \in Active
  <2> DEFINE record == Moved(t, status, result)
             held == (deferred \cap Live) \cup (IF defer /\ status \in Terminal THEN {t} ELSE {})
             woken == IF status \in Terminal
                        THEN (IF defer THEN {} ELSE joined[t])
                        ELSE {w \in joined[t] : status \in asks[w].stopOn}
  <2>1. tasks[t] # None /\ tasks[t] \in Records
    BY <1>1, <1>2, RecordThere DEF Live
  <2>2. record \in Records /\ record.status = status /\ record.seen = tasks[t].seen
    BY <2>1 DEF Moved, Records
  <2>3. ~Releasable(t) /\ t \notin deferred /\ t \in minted
    BY <1>1, <1>2, <2>1 DEF Releasable, Active, Terminal, TaskInv, DeferredIsProvisional, TypeOK
  <2>4. SweepAndPut(t, record, held, woken) /\ minted' = minted \cup {t} /\ clock' = clock
    BY <1>2, <2>3 DEF Transition
  <2>5. held \in SUBSET Tasks /\ woken \in SUBSET joined[t]
    BY <1>1 DEF TypeOK
  <2>6. \A u \in Tasks \ {t} : u \in held <=> u \in deferred \cap Live
    OBVIOUS
  <2>7. t \in held => status \in Terminal /\ defer
    BY <2>3
  <2>8. ~record.seen
    BY <1>1, <1>2, <2>1, <2>2, <2>3 DEF TaskInv, DeferredIsProvisional
  <2>9. \A w \in (joined[t] \ Lost) \ woken :
           (status \in Terminal => t \in held) /\ status \notin asks[w].stopOn
    BY <1>1 DEF TypeOK, Active, Terminal
  <2>10. woken # {} /\ status \in Terminal => t \notin held
    BY <2>3
  <2> HIDE DEF record, held, woken
  <2> QED BY <1>2, <2>2, <2>3, <2>4, <2>5, <2>6, <2>7, <2>8, <2>9, <2>10, PutKeepsInv
<1>3. CASE ~(t \in Live /\ tasks[t].status \in Active)
  BY <1>3, SweepKeepsInv DEF Transition
<1> QED BY <1>2, <1>3

LEMMA FailDeferredKeepsInv ==
  ASSUME TaskInv, NEW t \in Tasks, NEW result \in Results, FailDeferredTerminal(t, result)
  PROVE  TaskInv'
<1>1. TypeOK
  BY DEF TaskInv
<1>2. CASE t \in Live /\ t \in deferred /\ tasks[t].status \in Terminal
  <2> DEFINE record == [tasks[t] EXCEPT !.status = "failed", !.result = result]
             held == (deferred \cap Live) \ {t}
  <2>1. tasks[t] # None /\ tasks[t] \in Records
    BY <1>1, <1>2, RecordThere DEF Live
  <2>2. record \in Records /\ record.status = "failed" /\ record.seen = tasks[t].seen
    BY <2>1 DEF Records, Terminal
  <2>3. ~Releasable(t) /\ t \in minted /\ t \notin held
    BY <1>1, <1>2, <2>1 DEF Releasable, TypeOK
  <2>4. ~record.seen
    BY <1>1, <2>1, <2>2, <2>3 DEF TaskInv, DeferredIsProvisional
  <2>5. SweepAndPut(t, record, held, joined[t]) /\ minted' = minted \cup {t} /\ clock' = clock
    BY <1>2, <2>3 DEF FailDeferredTerminal
  <2>6. held \in SUBSET Tasks /\ joined[t] \in SUBSET joined[t]
    BY <1>1 DEF TypeOK
  <2>7. \A u \in Tasks \ {t} : u \in held <=> u \in deferred \cap Live
    OBVIOUS
  <2>8. record.status \in Terminal
    BY <2>2 DEF Terminal
  <2> HIDE DEF record, held
  <2> QED BY <1>2, <2>2, <2>3, <2>4, <2>5, <2>6, <2>7, <2>8, PutKeepsInv
<1>3. CASE ~(t \in Live /\ t \in deferred /\ tasks[t].status \in Terminal)
  BY <1>3, SweepKeepsInv DEF FailDeferredTerminal
<1> QED BY <1>2, <1>3

LEMMA MarkSeenKeepsInv ==
  ASSUME TaskInv, NEW t \in Tasks, MarkSeen(t)
  PROVE  TaskInv'
<1>1. TypeOK
  BY DEF TaskInv
<1>2. CASE t \in Live /\ ~tasks[t].seen /\ tasks[t].status \in Terminal /\ t \notin deferred
  <2> DEFINE record == [tasks[t] EXCEPT !.seen = TRUE]
             held == deferred \cap Live
  <2>1. tasks[t] # None /\ tasks[t] \in Records
    BY <1>1, <1>2, RecordThere DEF Live
  <2>2. /\ record \in Records /\ record.status = tasks[t].status
        /\ record.result = tasks[t].result /\ record.status \in Terminal
    BY <1>2, <2>1 DEF Records
  <2>3. Releasable(t) /\ t \in minted /\ t \notin held
    BY <1>1, <1>2, <2>1 DEF Releasable, TypeOK
  <2>4. joined[t] = {}
    BY <1>1, <2>3 DEF TaskInv, NoLostWakeup, TypeOK
  <2>5. SweepAndPut(t, record, held, {}) /\ minted' = minted \cup {t} /\ clock' = clock
    BY <1>2, <2>3 DEF MarkSeen
  <2>6. held \in SUBSET Tasks /\ {} \in SUBSET joined[t]
    BY <1>1 DEF TypeOK
  <2>7. \A u \in Tasks \ {t} : u \in held <=> u \in deferred \cap Live
    OBVIOUS
  <2> HIDE DEF record, held
  <2> QED BY <1>2, <2>2, <2>3, <2>4, <2>5, <2>6, <2>7, PutKeepsInv
<1>3. CASE ~(t \in Live /\ ~tasks[t].seen /\ tasks[t].status \in Terminal /\ t \notin deferred)
  BY <1>3, SweepKeepsInv DEF MarkSeen
<1> QED BY <1>2, <1>3

LEMMA RemoveKeepsInv ==
  ASSUME TaskInv, NEW t \in Tasks, Remove(t)
  PROVE  TaskInv'
<1>1. TypeOK
  BY DEF TaskInv
<1>2. /\ {t} \in SUBSET Tasks /\ joined[t] \in SUBSET Waiters
      /\ tasks' = [u \in Tasks |-> IF u \in {t} THEN None ELSE tasks[u]]
      /\ deferred' = deferred \ {t}
      /\ \A u \in {t} : joined[u] \subseteq joined[t]
      /\ Settle(joined[t], {}, NoAnswer("rejected")) /\ UNCHANGED <<clock, minted>>
  BY <1>1 DEF Remove, TypeOK
<1> QED BY <1>2, TakeKeepsInv

LEMMA ClearKeepsInv ==
  ASSUME TaskInv, Clear
  PROVE  TaskInv'
<1> DEFINE everyone == UNION {joined[t] : t \in Tasks}
<1>1. TypeOK
  BY DEF TaskInv
<1>2. everyone \in SUBSET Waiters /\ \A u \in Tasks : joined[u] \subseteq everyone
  BY <1>1 DEF TypeOK
<1>3. /\ tasks' = [u \in Tasks |-> IF u \in Tasks THEN None ELSE tasks[u]]
      /\ deferred' = deferred \ Tasks
      /\ Settle(everyone, {}, NoAnswer("rejected")) /\ UNCHANGED <<clock, minted>>
  BY <1>1 DEF Clear, TypeOK
<1> HIDE DEF everyone
<1>4. Tasks \in SUBSET Tasks
  OBVIOUS
<1> QED BY <1>2, <1>3, <1>4, TakeKeepsInv

LEMMA GiveUpKeepsInv ==
  ASSUME TaskInv, NEW w \in Waiters, GiveUp(w)
  PROVE  TaskInv'
<1>1. /\ {} \in SUBSET Tasks /\ {w} \in SUBSET Waiters
      /\ tasks' = [u \in Tasks |-> IF u \in {} THEN None ELSE tasks[u]]
      /\ deferred' = deferred \ {}
      /\ \A u \in {} : joined[u] \subseteq {w}
      /\ Settle({w}, {}, NoAnswer("rejected")) /\ UNCHANGED <<clock, minted>>
  BY DEF GiveUp, TaskInv, TypeOK
<1> QED BY <1>1, TakeKeepsInv

LEMMA FlushKeepsInv ==
  ASSUME TaskInv, NEW t \in Tasks, FlushWaiters(t)
  PROVE  TaskInv'
<1> DEFINE answer == Answer("resolved", t, tasks[t])
<1>1. TypeOK /\ WaiterSetsAgree /\ NoLostWakeup /\ DeferredIsProvisional /\ OutcomeStands
  BY DEF TaskInv
<1>2. tasks[t] # None /\ tasks[t].status \in Terminal /\ tasks[t] \in Records /\ t \in minted
  BY <1>1, RecordThere DEF FlushWaiters, DeferredIsProvisional, TypeOK
<1>3. /\ answer \in Answers /\ answer.is = "resolved" /\ answer.task = t
      /\ answer.status = tasks[t].status /\ answer.result = tasks[t].result
  BY <1>2, AnswerTyped
<1>4. /\ Settle({}, joined[t], answer) /\ t \in deferred
      /\ deferred' = deferred \ {t} /\ UNCHANGED <<clock, minted, tasks>>
  BY <1>2 DEF FlushWaiters
<1> HIDE DEF answer
<1> DEFINE woken == joined[t]
<1>5. {} \in SUBSET Waiters /\ woken \in SUBSET Waiters /\ Settle({}, woken, answer) /\ answer.is # "waiting"
  BY <1>1, <1>3, <1>4 DEF TypeOK
<1> HIDE DEF woken
<1>6. /\ joined' \in [Tasks -> SUBSET Waiters]
      /\ asks' \in [Waiters -> [watch : SUBSET Tasks, stopOn : SUBSET Active]]
      /\ told' \in [Waiters -> Answers]
      /\ \A u \in Tasks : joined'[u] = joined[u] \ ({} \cup woken)
      /\ \A w \in Waiters \ ({} \cup woken) : asks'[w] = asks[w] /\ told'[w] = told[w]
      /\ \A w \in woken \ {} : told'[w] = answer
      /\ WaiterSetsAgree'
  <2>1. Settled({}, woken, answer)
    BY <1>1, <1>3, <1>5, SettleFacts
  <2> QED BY <2>1 DEF Settled
<1>7. TypeOK'
  BY <1>1, <1>4, <1>6 DEF TypeOK
<1>8. NoLostWakeup'
  <2> SUFFICES ASSUME NEW u \in Tasks, NEW w \in joined'[u]
               PROVE  (tasks[u] # None /\ ~Releasable(u) /\ tasks[u].status \notin asks[w].stopOn)'
    BY DEF NoLostWakeup
  <2>1. w \in joined[u] /\ w \notin joined[t] /\ w \in Waiters /\ asks'[w] = asks[w] /\ u # t
    BY <1>1, <1>6 DEF TypeOK, woken
  <2>2. tasks[u] # None /\ ~Releasable(u) /\ tasks[u].status \notin asks[w].stopOn
    BY <1>1, <2>1 DEF NoLostWakeup
  <2> QED BY <2>1, <2>2, <1>4 DEF Releasable
<1>9. DeferredIsProvisional'
  BY <1>1, <1>4 DEF DeferredIsProvisional, Releasable
<1>10. OutcomeStands'
  <2> SUFFICES ASSUME NEW w \in Waiters, told'[w].is = "resolved", told'[w].status \in Terminal
               PROVE  /\ told'[w].task \in minted'
                      /\ tasks'[told'[w].task] # None =>
                           /\ tasks'[told'[w].task].status = told'[w].status
                           /\ tasks'[told'[w].task].result = told'[w].result
                           /\ told'[w].task \notin deferred'
    BY DEF OutcomeStands
  <2>1. CASE w \in joined[t]
    BY <2>1, <1>2, <1>3, <1>4, <1>6 DEF woken
  <2>2. CASE w \notin joined[t]
    <3>1. told'[w] = told[w]
      BY <2>2, <1>6 DEF woken
    <3> QED BY <3>1, <1>1, <1>4 DEF OutcomeStands
  <2> QED BY <2>1, <2>2
<1> QED BY <1>6, <1>7, <1>8, <1>9, <1>10 DEF TaskInv

\* What the sweep a wait begins with leaves, for a caller that was not waiting.
LEMMA SweepFacts ==
  ASSUME TaskInv, NEW w \in Waiters, told[w].is # "waiting",
         tasks' = Swept, deferred' = deferred \cap Live, UNCHANGED <<clock, minted>>
  PROVE  /\ tasks' \in [Tasks -> Records \cup {None}]
         /\ \A t \in Tasks : tasks'[t] = IF t \in Live THEN tasks[t] ELSE None
         /\ \A t \in Live : t \in Tasks /\ tasks[t] # None
         /\ \A t \in Tasks : w \notin joined[t]
         /\ w \notin Lost
         /\ \A t \in Tasks : joined[t] \ Lost # {} => t \in Live
         /\ \A t \in Tasks : {v \in Lost : t \in asks[v].watch} = joined[t] \cap Lost
         /\ \A t \in Tasks : tasks'[t] # None => t \in minted'
         /\ DeferredIsProvisional'
<1>1. TypeOK /\ WaiterSetsAgree /\ NoLostWakeup /\ DeferredIsProvisional
  BY DEF TaskInv
<1>2. /\ tasks' \in [Tasks -> Records \cup {None}]
      /\ \A t \in Tasks : tasks'[t] = IF t \in Live THEN tasks[t] ELSE None
      /\ \A t \in Live : t \in Tasks /\ tasks[t] # None
  BY <1>1 DEF Swept, Live, TypeOK
<1>3. (\A t \in Tasks : w \notin joined[t]) /\ w \notin Lost
  BY <1>1 DEF WaiterSetsAgree, Lost, Overdue
<1>4. \A t \in Tasks : joined[t] \ Lost # {} => t \in Live
  BY <1>1, LostTyped DEF NoLostWakeup, Live, Overdue
<1>5. \A t \in Tasks : {v \in Lost : t \in asks[v].watch} = joined[t] \cap Lost
  <2>1. \A v \in Lost : v \in Waiters /\ told[v].is = "waiting"
    BY <1>1 DEF Lost, Overdue, WaiterSetsAgree, TypeOK
  <2> QED BY <1>1, <2>1 DEF WaiterSetsAgree
<1>6. \A t \in Tasks : tasks'[t] # None => t \in minted'
  BY <1>1, <1>2 DEF TypeOK
<1>7. DeferredIsProvisional'
  BY <1>1, <1>2 DEF DeferredIsProvisional, Releasable
<1> QED BY <1>2, <1>3, <1>4, <1>5, <1>6, <1>7

\* A wait answered at once, with nothing or with an outcome that may be handed out.
LEMMA TellAtOnceKeepsInv ==
  ASSUME TaskInv, NEW w \in Waiters, told[w].is # "waiting",
         tasks' = Swept, deferred' = deferred \cap Live, UNCHANGED <<clock, minted>>,
         Leave(Lost),
         asks' = [v \in Waiters |-> IF v \in Lost THEN NoAsk ELSE asks[v]],
         NEW answer \in Answers, answer.is # "waiting",
         told' = [v \in Waiters |-> IF v = w THEN answer
                                   ELSE IF v \in Lost THEN NoAnswer("rejected") ELSE told[v]],
         answer.is = "resolved" /\ answer.status \in Terminal =>
           /\ answer.task \in Live
           /\ Releasable(answer.task)
           /\ tasks[answer.task].status = answer.status
           /\ tasks[answer.task].result = answer.result
  PROVE  TaskInv'
<1>1. TypeOK /\ WaiterSetsAgree /\ NoLostWakeup /\ OutcomeStands
  BY DEF TaskInv
<1>2. /\ tasks' \in [Tasks -> Records \cup {None}]
      /\ \A t \in Tasks : tasks'[t] = IF t \in Live THEN tasks[t] ELSE None
      /\ \A t \in Live : t \in Tasks /\ tasks[t] # None
      /\ \A t \in Tasks : w \notin joined[t]
      /\ w \notin Lost
      /\ \A t \in Tasks : joined[t] \ Lost # {} => t \in Live
      /\ \A t \in Tasks : {v \in Lost : t \in asks[v].watch} = joined[t] \cap Lost
      /\ \A t \in Tasks : tasks'[t] # None => t \in minted'
      /\ DeferredIsProvisional'
  BY SweepFacts
<1>3. \A t \in Tasks : joined'[t] = joined[t] \ Lost
  BY <1>2 DEF Leave
<1>4. TypeOK'
  BY <1>1, <1>2, NoAnswerTyped DEF TypeOK, Leave
<1>5. WaiterSetsAgree'
  <2>1. \A v \in Lost : NoAnswer("rejected").is # "waiting"
    BY NoAnswerTyped
  <2> QED BY <1>1, <1>2, <1>3, <2>1 DEF WaiterSetsAgree
<1>6. NoLostWakeup'
  <2> SUFFICES ASSUME NEW t \in Tasks, NEW v \in joined'[t]
               PROVE  (tasks[t] # None /\ ~Releasable(t) /\ tasks[t].status \notin asks[v].stopOn)'
    BY DEF NoLostWakeup
  <2>1. v \in joined[t] /\ v \notin Lost /\ v \in Waiters /\ t \in Live
    BY <1>1, <1>2, <1>3 DEF TypeOK
  <2>2. tasks[t] # None /\ ~Releasable(t) /\ tasks[t].status \notin asks[v].stopOn
    BY <1>1, <2>1 DEF NoLostWakeup
  <2> QED BY <1>2, <2>1, <2>2 DEF Releasable
<1>7. OutcomeStands'
  <2> SUFFICES ASSUME NEW v \in Waiters, told'[v].is = "resolved", told'[v].status \in Terminal
               PROVE  /\ told'[v].task \in minted'
                      /\ tasks'[told'[v].task] # None =>
                           /\ tasks'[told'[v].task].status = told'[v].status
                           /\ tasks'[told'[v].task].result = told'[v].result
                           /\ told'[v].task \notin deferred'
    BY DEF OutcomeStands
  <2>1. CASE v = w
    <3>1. told'[v] = answer
      BY <2>1
    <3>2. answer.task \in minted' /\ answer.task \in Tasks
      BY <3>1, <1>1, <1>2 DEF TypeOK
    <3> QED BY <3>1, <3>2, <1>2 DEF Releasable
  <2>2. CASE v # w /\ v \in Lost
    BY <2>2, NoAnswerTyped
  <2>3. CASE v # w /\ v \notin Lost
    <3>1. told'[v] = told[v]
      BY <2>3
    <3>2. told[v].task \in minted /\ told[v].task \in Tasks
      BY <3>1, <1>1 DEF OutcomeStands, TypeOK
    <3> QED BY <3>1, <3>2, <1>1, <1>2 DEF OutcomeStands
  <2> QED BY <2>1, <2>2, <2>3
<1> QED BY <1>2, <1>4, <1>5, <1>6, <1>7 DEF TaskInv

LEMMA WaitKeepsInv ==
  ASSUME TaskInv, NEW w \in Waiters, NEW root \in Roots, NEW watch \in SUBSET Tasks,
         NEW stopOn \in StopSets, Wait(w, root, watch, stopOn)
  PROVE  TaskInv'
<1> DEFINE Tell(answer) ==
             told' = [v \in Waiters |-> IF v = w THEN answer
                                        ELSE IF v \in Lost THEN NoAnswer("rejected") ELSE told[v]]
           TellAtOnce(answer) ==
             /\ Leave(Lost)
             /\ asks' = [v \in Waiters |-> IF v \in Lost THEN NoAsk ELSE asks[v]]
             /\ Tell(answer)
<1>1. TypeOK /\ WaiterSetsAgree /\ NoLostWakeup /\ OutcomeStands
  BY DEF TaskInv
<1>2. /\ told[w].is # "waiting" /\ tasks' = Swept /\ deferred' = deferred \cap Live
      /\ UNCHANGED <<clock, minted>>
  BY DEF Wait
<1>3. stopOn \subseteq Active
  BY TaskStoreAssumption
<1>4. CASE TellAtOnce(NoAnswer("rejected"))
  <2> DEFINE no == NoAnswer("rejected")
  <2>1. no \in Answers /\ no.is = "rejected"
    BY NoAnswerTyped
  <2>2. TellAtOnce(no)
    BY <1>4
  <2> HIDE DEF no
  <2> QED BY <1>2, <2>1, <2>2, TellAtOnceKeepsInv
<1>5. CASE \E t \in Ready(watch, stopOn) :
             /\ t \in Live
             /\ TellAtOnce(Answer("resolved", t, tasks[t]))
  <2> PICK t \in Ready(watch, stopOn) : t \in Live /\ TellAtOnce(Answer("resolved", t, tasks[t]))
    BY <1>5
  <2> DEFINE answer == Answer("resolved", t, tasks[t])
  <2>1. t \in Tasks /\ tasks[t] # None /\ tasks[t] \in Records
    BY <1>1, RecordThere DEF Live
  <2>2. /\ answer \in Answers /\ answer.is = "resolved" /\ answer.task = t
        /\ answer.status = tasks[t].status /\ answer.result = tasks[t].result
    BY <2>1, AnswerTyped
  <2>3. answer.status \in Terminal => Releasable(t)
    BY <1>3, <2>2 DEF Ready, Active, Terminal
  <2>4. TellAtOnce(answer) /\ t \in Live
    OBVIOUS
  <2> HIDE DEF answer
  <2> QED BY <1>2, <2>2, <2>3, <2>4, TellAtOnceKeepsInv
<1>6. CASE /\ \A t \in watch : t \in Live
           /\ Ready(watch, stopOn) = {}
           /\ joined' = [t \in Tasks |->
                (joined[t] \ {v \in Lost : t \in asks[v].watch}) \cup (IF t \in watch THEN {w} ELSE {})]
           /\ asks' = [v \in Waiters |-> IF v = w THEN [watch |-> watch, stopOn |-> stopOn]
                                         ELSE IF v \in Lost THEN NoAsk ELSE asks[v]]
           /\ Tell(NoAnswer("waiting"))
  <2>1. /\ tasks' \in [Tasks -> Records \cup {None}]
        /\ \A t \in Tasks : tasks'[t] = IF t \in Live THEN tasks[t] ELSE None
        /\ \A t \in Live : t \in Tasks /\ tasks[t] # None
        /\ \A t \in Tasks : w \notin joined[t]
        /\ w \notin Lost
        /\ \A t \in Tasks : joined[t] \ Lost # {} => t \in Live
        /\ \A t \in Tasks : {v \in Lost : t \in asks[v].watch} = joined[t] \cap Lost
        /\ \A t \in Tasks : tasks'[t] # None => t \in minted'
        /\ DeferredIsProvisional'
    BY <1>2, SweepFacts
  <2>2. \A t \in Tasks : joined'[t] = (joined[t] \ Lost) \cup (IF t \in watch THEN {w} ELSE {})
    BY <1>6, <2>1
  <2>3. TypeOK'
    BY <1>1, <1>2, <1>3, <1>6, <2>1, NoAnswerTyped DEF TypeOK
  <2>4. /\ told'[w].is = "waiting" /\ asks'[w].watch = watch /\ asks'[w].stopOn = stopOn
        /\ \A v \in Waiters : v \in Lost => told'[v].is # "waiting"
        /\ \A v \in Waiters : v # w /\ v \notin Lost => told'[v] = told[v] /\ asks'[v] = asks[v]
    BY <1>6, <2>1, NoAnswerTyped
  <2>5. WaiterSetsAgree'
    BY <1>1, <2>1, <2>2, <2>4 DEF WaiterSetsAgree
  <2>6. NoLostWakeup'
    <3> SUFFICES ASSUME NEW t \in Tasks, NEW v \in joined'[t]
                 PROVE  (tasks[t] # None /\ ~Releasable(t) /\ tasks[t].status \notin asks[v].stopOn)'
      BY DEF NoLostWakeup
    <3>1. CASE v = w
      <4>1. t \in watch /\ t \in Live
        BY <1>6, <2>1, <2>2, <3>1
      <4>2. ~Releasable(t) /\ tasks[t].status \notin stopOn
        BY <1>6, <4>1 DEF Ready
      <4> QED BY <1>2, <2>1, <2>4, <3>1, <4>1, <4>2 DEF Releasable
    <3>2. CASE v # w
      <4>1. v \in joined[t] /\ v \notin Lost /\ v \in Waiters /\ t \in Live
        BY <1>1, <2>1, <2>2, <3>2 DEF TypeOK
      <4>2. tasks[t] # None /\ ~Releasable(t) /\ tasks[t].status \notin asks[v].stopOn
        BY <1>1, <4>1 DEF NoLostWakeup
      <4> QED BY <1>2, <2>1, <2>4, <3>2, <4>1, <4>2 DEF Releasable
    <3> QED BY <3>1, <3>2
  <2>7. OutcomeStands'
    <3> SUFFICES ASSUME NEW v \in Waiters, told'[v].is = "resolved", told'[v].status \in Terminal
                 PROVE  /\ told'[v].task \in minted'
                        /\ tasks'[told'[v].task] # None =>
                             /\ tasks'[told'[v].task].status = told'[v].status
                             /\ tasks'[told'[v].task].result = told'[v].result
                             /\ told'[v].task \notin deferred'
      BY DEF OutcomeStands
    <3>1. v # w
      BY <2>4
    <3>2. v \notin Lost
      BY <1>6, <3>1, NoAnswerTyped
    <3>3. told'[v] = told[v]
      BY <2>4, <3>1, <3>2
    <3>4. told[v].task \in minted /\ told[v].task \in Tasks
      BY <3>3, <1>1 DEF OutcomeStands, TypeOK
    <3> QED BY <3>3, <3>4, <1>1, <1>2, <2>1 DEF OutcomeStands
  <2> QED BY <2>1, <2>3, <2>5, <2>6, <2>7 DEF TaskInv
<1>7. Ready(watch, stopOn) \subseteq watch
  BY DEF Ready
<1> QED BY <1>4, <1>5, <1>6, <1>7 DEF Wait

LEMMA TaskInvNext == ASSUME TaskInv, [Next]_vars PROVE TaskInv'
<1>1. ASSUME NEW t \in Tasks, NEW root \in Roots, NEW ttl \in Ttls, Create(t, root, ttl)
      PROVE  TaskInv'
  BY <1>1, CreateKeepsInv
<1>2. ASSUME NEW t \in Tasks, NEW status \in Active \cup Terminal, NEW result \in Results \cup {None},
             NEW defer \in BOOLEAN, Transition(t, status, result, defer)
      PROVE  TaskInv'
  BY <1>2, TransitionKeepsInv
<1>3. ASSUME NEW t \in Tasks, FlushWaiters(t) \/ Remove(t) \/ MarkSeen(t)
      PROVE  TaskInv'
  BY <1>3, FlushKeepsInv, RemoveKeepsInv, MarkSeenKeepsInv
<1>4. ASSUME NEW t \in Tasks, NEW result \in Results, FailDeferredTerminal(t, result)
      PROVE  TaskInv'
  BY <1>4, FailDeferredKeepsInv
<1>5. CASE ExpireSweep
  BY <1>5, SweepKeepsInv DEF ExpireSweep
<1>6. CASE Clear
  BY <1>6, ClearKeepsInv
<1>7. ASSUME NEW w \in Waiters, NEW root \in Roots, NEW watch \in SUBSET Tasks, NEW stopOn \in StopSets,
             Wait(w, root, watch, stopOn)
      PROVE  TaskInv'
  BY <1>7, WaitKeepsInv
<1>8. ASSUME NEW w \in Waiters, GiveUp(w)
      PROVE  TaskInv'
  BY <1>8, GiveUpKeepsInv
<1>9. CASE Tick \/ UNCHANGED vars
  <2>1. UNCHANGED <<minted, tasks, deferred, joined, asks, told>> /\ (clock \in Nat => clock' \in Nat)
    BY <1>9 DEF Tick, vars
  <2> QED BY <2>1 DEF TaskInv, TypeOK, WaiterSetsAgree, NoLostWakeup, DeferredIsProvisional,
                      OutcomeStands, Releasable
<1> QED BY <1>1, <1>2, <1>3, <1>4, <1>5, <1>6, <1>7, <1>8, <1>9 DEF Next

\* The invariant holds in every state of every behaviour.
THEOREM TaskInvariant == Spec => []TaskInv
<1>1. Init => TaskInv
  BY TaskInvInit
<1>2. TaskInv /\ [Next]_vars => TaskInv'
  BY TaskInvNext
<1> QED BY <1>1, <1>2, PTL DEF Spec

\* The store's types, whatever the callers do.
THEOREM TaskTypes == Spec => []TypeOK
<1>1. TaskInv => TypeOK
  BY DEF TaskInv
<1> QED BY <1>1, TaskInvariant, PTL

\* No wakeup is lost: whoever waits, waits on a record that cannot answer it yet
\* (transition, flushWaiters, remove and expireSweep each settle who they must).
THEOREM NoWakeupIsLost == Spec => [](WaiterSetsAgree /\ NoLostWakeup)
<1>1. TaskInv => WaiterSetsAgree /\ NoLostWakeup
  BY DEF TaskInv
<1> QED BY <1>1, TaskInvariant, PTL

\* What a reader was given stands: the outcome a wait was answered with is the
\* record's while the handle is there, and what a Main is recorded to have seen may
\* no longer be replaced.
THEOREM AnsweredOutcomeStands == Spec => []AnswersStand
<1>1. TaskInv => AnswersStand
  BY DEF TaskInv, AnswersStand
<1> QED BY <1>1, TaskInvariant, PTL

\* What TerminalIsFinal says of one step.
FinalStep ==
  \A t \in Tasks :
    /\ tasks[t] # None /\ Releasable(t) =>
         \/ tasks'[t] = None
         \/ /\ tasks'[t].status = tasks[t].status
            /\ tasks'[t].result = tasks[t].result
            /\ t \notin deferred'
    /\ tasks[t] = None /\ t \in minted => tasks'[t] = None

\* A step that only takes records away.
LEMMA TakeIsFinal ==
  ASSUME \A t \in Tasks : tasks'[t] \in {tasks[t], None}, deferred' \subseteq deferred
  PROVE  FinalStep
BY DEF FinalStep, Releasable

LEMMA SweptIsTaken ==
  ASSUME tasks' = Swept
  PROVE  \A t \in Tasks : tasks'[t] \in {tasks[t], None}
BY DEF Swept

\* A step that puts one record, fresh or not yet final.
LEMMA PutIsFinal ==
  ASSUME TypeOK, NEW t \in Tasks, NEW record, NEW nowDeferred, NEW woken,
         SweepAndPut(t, record, nowDeferred, woken),
         t \in Live \/ t \notin minted,
         nowDeferred \subseteq deferred \cup {t},
         t \in Live /\ Releasable(t) =>
           /\ record.status = tasks[t].status
           /\ record.result = tasks[t].result
           /\ t \notin nowDeferred
  PROVE  FinalStep
<1>1. tasks'[t] = record /\ \A u \in Tasks \ {t} : tasks'[u] \in {tasks[u], None}
  BY DEF SweepAndPut, Swept
<1>2. deferred' = nowDeferred
  BY DEF SweepAndPut
<1>3. t \in Live => tasks[t] # None
  BY DEF Live
<1>4. t \notin minted => tasks[t] = None
  BY DEF TypeOK
<1> QED BY <1>1, <1>2, <1>3, <1>4 DEF FinalStep, Releasable

\* Every step is one of these.
LEMMA NextIsFinal == ASSUME TaskInv, Next PROVE FinalStep
<1>1. TypeOK /\ DeferredIsProvisional
  BY DEF TaskInv
<1>2. ASSUME SweepOnly PROVE FinalStep
  BY <1>2, SweptIsTaken, TakeIsFinal DEF SweepOnly
<1>3. ASSUME NEW t \in Tasks, NEW root \in Roots, NEW ttl \in Ttls, Create(t, root, ttl)
      PROVE  FinalStep
  <2>1. CASE WithinBudget(root)
    <3> DEFINE record == [root |-> root, status |-> "working", result |-> None,
                          expires |-> clock + NormalTtl(ttl), seen |-> FALSE]
    <3>1. SweepAndPut(t, record, deferred \cap Live, {}) /\ t \notin minted
      BY <1>3, <2>1 DEF Create
    <3>2. t \notin Live
      BY <1>1, <3>1 DEF Live, TypeOK
    <3> HIDE DEF record
    <3>3. deferred \cap Live \subseteq deferred \cup {t}
      OBVIOUS
    <3> QED BY <1>1, <3>1, <3>2, <3>3, PutIsFinal
  <2>2. CASE ~WithinBudget(root)
    BY <1>2, <1>3, <2>2 DEF Create
  <2> QED BY <2>1, <2>2
<1>4. ASSUME NEW t \in Tasks, NEW status \in Active \cup Terminal, NEW result \in Results \cup {None},
             NEW defer \in BOOLEAN, Transition(t, status, result, defer)
      PROVE  FinalStep
  <2>1. CASE t \in Live /\ tasks[t].status \in Active
    <3> DEFINE record == Moved(t, status, result)
               held == (deferred \cap Live) \cup (IF defer /\ status \in Terminal THEN {t} ELSE {})
               woken == IF status \in Terminal
                          THEN (IF defer THEN {} ELSE joined[t])
                          ELSE {w \in joined[t] : status \in asks[w].stopOn}
    <3>1. SweepAndPut(t, record, held, woken)
      BY <1>4, <2>1 DEF Transition
    <3>2. ~Releasable(t)
      BY <2>1 DEF Releasable, Active, Terminal
    <3>3. held \subseteq deferred \cup {t}
      OBVIOUS
    <3> HIDE DEF record, held, woken
    <3> QED BY <1>1, <2>1, <3>1, <3>2, <3>3, PutIsFinal
  <2>2. CASE ~(t \in Live /\ tasks[t].status \in Active)
    BY <1>2, <1>4, <2>2 DEF Transition
  <2> QED BY <2>1, <2>2
<1>5. ASSUME NEW t \in Tasks, NEW result \in Results, FailDeferredTerminal(t, result)
      PROVE  FinalStep
  <2>1. CASE t \in Live /\ t \in deferred /\ tasks[t].status \in Terminal
    <3> DEFINE record == [tasks[t] EXCEPT !.status = "failed", !.result = result]
               held == (deferred \cap Live) \ {t}
               woken == joined[t]
    <3>1. SweepAndPut(t, record, held, woken)
      BY <1>5, <2>1 DEF FailDeferredTerminal
    <3>2. ~Releasable(t) /\ held \subseteq deferred \cup {t}
      BY <2>1 DEF Releasable
    <3> HIDE DEF record, held, woken
    <3> QED BY <1>1, <2>1, <3>1, <3>2, PutIsFinal
  <2>2. CASE ~(t \in Live /\ t \in deferred /\ tasks[t].status \in Terminal)
    BY <1>2, <1>5, <2>2 DEF FailDeferredTerminal
  <2> QED BY <2>1, <2>2
<1>6. ASSUME NEW t \in Tasks, MarkSeen(t) PROVE FinalStep
  <2> DEFINE unseen == t \in Live /\ ~tasks[t].seen /\ tasks[t].status \in Terminal /\ t \notin deferred
  <2>1. CASE unseen
    <3> DEFINE record == [tasks[t] EXCEPT !.seen = TRUE]
               held == deferred \cap Live
    <3>1. SweepAndPut(t, record, held, {}) /\ t \in Live /\ t \notin held
      BY <1>6, <2>1 DEF MarkSeen
    <3>2. tasks[t] \in Records
      BY <1>1, <3>1, RecordThere DEF Live
    <3>3. record.status = tasks[t].status /\ record.result = tasks[t].result
      BY <3>2 DEF Records
    <3>4. held \subseteq deferred \cup {t}
      OBVIOUS
    <3> HIDE DEF record, held
    <3> QED BY <1>1, <3>1, <3>3, <3>4, PutIsFinal
  <2>2. CASE ~unseen
    BY <1>2, <1>6, <2>2 DEF MarkSeen
  <2> QED BY <2>1, <2>2
<1>7. ASSUME NEW t \in Tasks, FlushWaiters(t) \/ Remove(t) PROVE FinalStep
  <2>1. (\A u \in Tasks : tasks'[u] \in {tasks[u], None}) /\ deferred' \subseteq deferred
    BY <1>1, <1>7 DEF FlushWaiters, Remove, TypeOK
  <2> QED BY <2>1, TakeIsFinal
<1>8. CASE ExpireSweep
  BY <1>2, <1>8 DEF ExpireSweep
<1>9. CASE Clear
  <2>1. (\A u \in Tasks : tasks'[u] \in {tasks[u], None}) /\ deferred' \subseteq deferred
    BY <1>9 DEF Clear
  <2> QED BY <2>1, TakeIsFinal
<1>10. ASSUME NEW w \in Waiters, NEW root \in Roots, NEW watch \in SUBSET Tasks, NEW stopOn \in StopSets,
              Wait(w, root, watch, stopOn)
       PROVE  FinalStep
  <2>1. tasks' = Swept /\ deferred' \subseteq deferred
    BY <1>10 DEF Wait
  <2> QED BY <2>1, SweptIsTaken, TakeIsFinal
<1>11. ASSUME UNCHANGED <<tasks, deferred>> PROVE FinalStep
  BY <1>11, TakeIsFinal
<1>12. ASSUME NEW w \in Waiters, GiveUp(w) PROVE FinalStep
  BY <1>11, <1>12 DEF GiveUp
<1>13. CASE Tick
  BY <1>11, <1>13 DEF Tick
<1> QED BY <1>3, <1>4, <1>5, <1>6, <1>7, <1>8, <1>9, <1>10, <1>12, <1>13 DEF Next

\* "The first terminal writer wins, permanently" (transition): an outcome that
\* may be handed out never changes, and a handle that is gone never comes back.
THEOREM FirstTerminalWins == Spec => TerminalIsFinal
<1>1. TaskInv /\ [Next]_vars =>
        [\A t \in Tasks :
           /\ tasks[t] # None /\ Releasable(t) =>
                \/ tasks'[t] = None
                \/ /\ tasks'[t].status = tasks[t].status
                   /\ tasks'[t].result = tasks[t].result
                   /\ t \notin deferred'
           /\ tasks[t] = None /\ t \in minted => tasks'[t] = None]_vars
  BY NextIsFinal DEF FinalStep
<1> QED BY <1>1, TaskInvariant, PTL DEF Spec, TerminalIsFinal

-----------------------------------------------------------------------------
(* The budgets *)

\* There are finitely many records and finitely many waiters at any time,
\* however many ids and callers there may be: only then do sizes mean anything.
StoreIsFinite ==
  /\ IsFiniteSet({t \in Tasks : tasks[t] # None})
  /\ IsFiniteSet(UNION {joined[t] : t \in Tasks})

\* The budgets hold, and the sets they count are finite.
BudgetInv == StoreIsFinite /\ BudgetsHold

\* The records of a root that run, and who waits on any of its records.
HeldActive(root) == {t \in Held(root) : tasks[t].status \in Active}
HeldWaiters(root) == UNION {joined[t] : t \in Held(root)}

\* Part of what was within a limit is within it.
LEMMA PartIsWithin ==
  ASSUME NEW S, IsFiniteSet(S), NEW T \in SUBSET S, NEW n \in Nat, Cardinality(S) <= n
  PROVE  IsFiniteSet(T) /\ Cardinality(T) <= n
<1>1. IsFiniteSet(T) /\ Cardinality(T) <= Cardinality(S)
  BY FS_Subset
<1>2. Cardinality(S) \in Nat /\ Cardinality(T) \in Nat
  BY <1>1, FS_CardinalityType
<1> QED BY <1>1, <1>2

\* What was below a limit reaches it at most with one more.
LEMMA OneMoreIsWithin ==
  ASSUME NEW S, IsFiniteSet(S), NEW x, NEW T \in SUBSET (S \cup {x}), NEW n \in Nat, Cardinality(S) < n
  PROVE  IsFiniteSet(T) /\ Cardinality(T) <= n
<1>1. /\ IsFiniteSet(S \cup {x})
      /\ Cardinality(S \cup {x}) = IF x \in S THEN Cardinality(S) ELSE Cardinality(S) + 1
  BY FS_AddElement
<1>2. Cardinality(S) \in Nat
  BY FS_CardinalityType
<1>3. Cardinality(S \cup {x}) <= n
  BY <1>1, <1>2
<1> QED BY <1>1, <1>3, PartIsWithin

\* The limits are numbers.
LEMMA LimitsAreNumbers ==
  /\ MaxTasksPerRoot \in Nat /\ MaxConcurrentTasksPerRoot \in Nat
  /\ MaxWaitersPerTask \in Nat /\ MaxWaitersPerRoot \in Nat
BY TaskStoreAssumption

\* Everything a budget counts is finite.
LEMMA CountedIsFinite ==
  ASSUME StoreIsFinite
  PROVE  /\ \A root : IsFiniteSet(Held(root)) /\ IsFiniteSet(HeldActive(root)) /\ IsFiniteSet(HeldWaiters(root))
         /\ \A t \in Tasks : IsFiniteSet(joined[t])
<1> DEFINE there == {t \in Tasks : tasks[t] # None}
           waiters == UNION {joined[t] : t \in Tasks}
<1>1. IsFiniteSet(there) /\ IsFiniteSet(waiters)
  BY DEF StoreIsFinite
<1>2. \A root : Held(root) \in SUBSET there /\ HeldActive(root) \in SUBSET there /\ HeldWaiters(root) \in SUBSET waiters
  BY DEF Held, HeldActive, HeldWaiters
<1>3. \A t \in Tasks : joined[t] \in SUBSET waiters
  OBVIOUS
<1> HIDE DEF there, waiters
<1> QED BY <1>1, <1>2, <1>3, FS_Subset

\* The budgets of one root, and those of all.
RootWithin(root) ==
  /\ Cardinality(Held(root)) <= MaxTasksPerRoot
  /\ Cardinality(HeldActive(root)) <= MaxConcurrentTasksPerRoot
  /\ Cardinality(HeldWaiters(root)) <= MaxWaitersPerRoot

LEMMA BudgetsByRoot ==
  BudgetsHold <=> /\ \A root \in Roots : RootWithin(root)
                  /\ \A t \in Tasks : Cardinality(joined[t]) <= MaxWaitersPerTask
BY DEF BudgetsHold, RootWithin, HeldActive, HeldWaiters

\* A root that gains neither a record, nor one that runs, nor a waiter.
LEMMA RootShrinks ==
  ASSUME StoreIsFinite, NEW root, RootWithin(root),
         Held(root)' \subseteq Held(root), HeldActive(root)' \subseteq HeldActive(root),
         HeldWaiters(root)' \subseteq HeldWaiters(root)
  PROVE  RootWithin(root)'
<1>1. IsFiniteSet(Held(root)) /\ IsFiniteSet(HeldActive(root)) /\ IsFiniteSet(HeldWaiters(root))
  BY CountedIsFinite
<1>2. /\ Cardinality(Held(root)') <= MaxTasksPerRoot
      /\ Cardinality(HeldActive(root)') <= MaxConcurrentTasksPerRoot
      /\ Cardinality(HeldWaiters(root)') <= MaxWaitersPerRoot
  BY <1>1, LimitsAreNumbers, PartIsWithin DEF RootWithin
<1> QED BY <1>2 DEF RootWithin

\* A step that adds no record, starts none that had ended and adds no waiter.
LEMMA ShrinkKeepsBudgets ==
  ASSUME BudgetInv,
         \A t \in Tasks : tasks'[t] # None =>
           /\ tasks[t] # None /\ tasks'[t].root = tasks[t].root
           /\ tasks'[t].status \in Active => tasks[t].status \in Active,
         \A t \in Tasks : joined'[t] \subseteq joined[t]
  PROVE  BudgetInv'
<1>1. StoreIsFinite'
  <2> DEFINE there == {t \in Tasks : tasks[t] # None}
             waiters == UNION {joined[t] : t \in Tasks}
  <2>1. there' \in SUBSET there /\ waiters' \in SUBSET waiters
    OBVIOUS
  <2>2. IsFiniteSet(there) /\ IsFiniteSet(waiters)
    BY DEF BudgetInv, StoreIsFinite
  <2>3. IsFiniteSet(there') /\ IsFiniteSet(waiters')
    <3> HIDE DEF there, waiters
    <3> QED BY <2>1, <2>2, FS_Subset
  <2> QED BY <2>3 DEF StoreIsFinite
<1>2. ASSUME NEW root \in Roots PROVE RootWithin(root)'
  <2>1. RootWithin(root) /\ StoreIsFinite
    BY BudgetsByRoot DEF BudgetInv
  <2>2. Held(root)' \subseteq Held(root) /\ HeldActive(root)' \subseteq HeldActive(root)
    BY DEF Held, HeldActive
  <2>3. HeldWaiters(root)' \subseteq HeldWaiters(root)
    BY DEF Held, HeldWaiters
  <2> QED BY <2>1, <2>2, <2>3, RootShrinks
<1>3. ASSUME NEW t \in Tasks PROVE Cardinality(joined'[t]) <= MaxWaitersPerTask
  <2>1. IsFiniteSet(joined[t]) /\ Cardinality(joined[t]) <= MaxWaitersPerTask
    BY CountedIsFinite DEF BudgetInv, BudgetsHold
  <2> QED BY <2>1, LimitsAreNumbers, PartIsWithin
<1>4. BudgetsHold'
  BY <1>2, <1>3 DEF BudgetsHold, RootWithin, HeldActive, HeldWaiters
<1> QED BY <1>1, <1>4 DEF BudgetInv

\* Settling waiters only takes them out of the sets.
LEMMA SettleTakes ==
  ASSUME NEW rejected, NEW resolved, NEW answer, Settle(rejected, resolved, answer)
  PROVE  \A t \in Tasks : joined'[t] \subseteq joined[t]
BY DEF Settle, Leave

LEMMA SweepKeepsBudgets ==
  ASSUME BudgetInv, SweepOnly
  PROVE  BudgetInv'
<1>1. \A t \in Tasks : tasks'[t] # None => tasks[t] # None /\ tasks'[t] = tasks[t]
  BY DEF SweepOnly, Swept, Live
<1>2. \A t \in Tasks : joined'[t] \subseteq joined[t]
  BY SettleTakes DEF SweepOnly
<1> QED BY <1>1, <1>2, ShrinkKeepsBudgets

\* A record replaced by one of the same root that runs only if it ran.
LEMMA PutKeepsBudgets ==
  ASSUME BudgetInv, NEW t \in Live, NEW record, NEW nowDeferred, NEW woken,
         SweepAndPut(t, record, nowDeferred, woken),
         record.root = tasks[t].root, record.status \in Active => tasks[t].status \in Active
  PROVE  BudgetInv'
<1>1. \A u \in Tasks : tasks'[u] # None =>
        /\ tasks[u] # None /\ tasks'[u].root = tasks[u].root
        /\ tasks'[u].status \in Active => tasks[u].status \in Active
  BY DEF SweepAndPut, Swept, Live
<1>2. \A u \in Tasks : joined'[u] \subseteq joined[u]
  BY SettleTakes DEF SweepAndPut
<1> QED BY <1>1, <1>2, ShrinkKeepsBudgets

\* create() counts before it adds.
LEMMA CreateKeepsBudgets ==
  ASSUME TaskInv, BudgetInv, NEW t \in Tasks, NEW root \in Roots, NEW ttl \in Ttls, Create(t, root, ttl)
  PROVE  BudgetInv'
<1>1. CASE ~WithinBudget(root)
  BY <1>1, SweepKeepsBudgets DEF Create
<1>2. CASE WithinBudget(root)
  <2> DEFINE record == [root |-> root, status |-> "working", result |-> None,
                        expires |-> clock + NormalTtl(ttl), seen |-> FALSE]
             held == {u \in Live : tasks[u].root = root}
             active == {u \in held : tasks[u].status \in Active}
  <2>1. SweepAndPut(t, record, deferred \cap Live, {}) /\ t \notin minted
    BY <1>2 DEF Create
  <2>2. Cardinality(held) < MaxTasksPerRoot /\ Cardinality(active) < MaxConcurrentTasksPerRoot
    BY <1>2 DEF WithinBudget
  <2>3. tasks[t] = None /\ joined[t] = {}
    <3>1. TypeOK /\ NoLostWakeup
      BY DEF TaskInv
    <3>2. tasks[t] = None
      BY <2>1, <3>1 DEF TypeOK
    <3> QED BY <3>1, <3>2 DEF NoLostWakeup
  <2>4. \A u \in Tasks : joined'[u] \subseteq joined[u]
    BY <2>1, SettleTakes DEF SweepAndPut
  <2>5. /\ record.root = root
        /\ \A u \in Tasks : tasks'[u] = IF u = t THEN record ELSE IF u \in Live THEN tasks[u] ELSE None
    BY <2>1 DEF SweepAndPut, Swept
  <2> HIDE DEF record
  <2>6. /\ held \subseteq Held(root) /\ active \subseteq HeldActive(root)
        /\ Live \subseteq {u \in Tasks : tasks[u] # None}
    BY DEF Held, HeldActive, Live
  <2>7. StoreIsFinite
    BY DEF BudgetInv
  <2>8. StoreIsFinite'
    <3> DEFINE there == {u \in Tasks : tasks[u] # None}
               waiters == UNION {joined[u] : u \in Tasks}
    <3>1. there' \subseteq there \cup {t} /\ waiters' \in SUBSET waiters
      BY <2>4, <2>5 DEF Live
    <3>2. IsFiniteSet(there) /\ IsFiniteSet(waiters)
      BY <2>7 DEF StoreIsFinite
    <3>3. IsFiniteSet(there') /\ IsFiniteSet(waiters')
      <4> HIDE DEF there, waiters
      <4>1. IsFiniteSet(there \cup {t})
        BY <3>2, FS_AddElement
      <4> QED BY <3>1, <3>2, <4>1, FS_Subset
    <3> QED BY <3>3 DEF StoreIsFinite
  <2>9. RootWithin(root)'
    <3>1. Held(root)' \subseteq held \cup {t}
      BY <2>5 DEF Held
    <3>2. HeldActive(root)' \subseteq active \cup {t}
      BY <2>5 DEF Held, HeldActive
    <3>3. HeldWaiters(root)' \subseteq HeldWaiters(root)
      <4>1. \A u \in Held(root)' : u \in Held(root) \/ joined'[u] = {}
        BY <2>3, <2>4, <2>5, <2>6, <3>1
      <4>2. \A u \in Held(root)' : u \in Tasks
        BY DEF Held
      <4> QED BY <2>4, <4>1, <4>2 DEF HeldWaiters
    <3>4. /\ IsFiniteSet(held) /\ IsFiniteSet(active) /\ IsFiniteSet(HeldWaiters(root))
          /\ Cardinality(HeldWaiters(root)) <= MaxWaitersPerRoot
      <4>1. IsFiniteSet(Held(root)) /\ IsFiniteSet(HeldActive(root)) /\ IsFiniteSet(HeldWaiters(root))
        BY <2>7, CountedIsFinite
      <4>2. Cardinality(HeldWaiters(root)) <= MaxWaitersPerRoot
        BY BudgetsByRoot DEF BudgetInv, RootWithin
      <4> QED BY <2>6, <4>1, <4>2, FS_Subset
    <3> HIDE DEF held, active
    <3>5. Cardinality(Held(root)') <= MaxTasksPerRoot /\ Cardinality(HeldActive(root)') <= MaxConcurrentTasksPerRoot
      BY <2>2, <3>1, <3>2, <3>4, LimitsAreNumbers, OneMoreIsWithin
    <3>6. Cardinality(HeldWaiters(root)') <= MaxWaitersPerRoot
      BY <3>3, <3>4, LimitsAreNumbers, PartIsWithin
    <3> QED BY <3>5, <3>6 DEF RootWithin
  <2>10. ASSUME NEW other \in Roots \ {root} PROVE RootWithin(other)'
    <3>1. Held(other)' \subseteq Held(other) /\ HeldActive(other)' \subseteq HeldActive(other)
      BY <2>5 DEF Held, HeldActive, Live
    <3>2. HeldWaiters(other)' \subseteq HeldWaiters(other)
      BY <2>4, <3>1 DEF Held, HeldWaiters
    <3>3. RootWithin(other)
      BY BudgetsByRoot DEF BudgetInv
    <3> QED BY <2>7, <3>1, <3>2, <3>3, RootShrinks
  <2>11. ASSUME NEW u \in Tasks PROVE Cardinality(joined'[u]) <= MaxWaitersPerTask
    <3>1. IsFiniteSet(joined[u]) /\ Cardinality(joined[u]) <= MaxWaitersPerTask
      BY <2>7, CountedIsFinite DEF BudgetInv, BudgetsHold
    <3> QED BY <2>4, <3>1, LimitsAreNumbers, PartIsWithin
  <2>12. BudgetsHold'
    BY <2>9, <2>10, <2>11 DEF BudgetsHold, RootWithin, HeldActive, HeldWaiters
  <2> QED BY <2>8, <2>12 DEF BudgetInv
<1> QED BY <1>1, <1>2

\* A waiter is admitted where each task it names, and its root, has room for one more.
LEMMA WaitKeepsBudgets ==
  ASSUME TaskInv, BudgetInv, NEW w \in Waiters, NEW root \in Roots, NEW watch \in SUBSET Tasks,
         NEW stopOn \in StopSets, Wait(w, root, watch, stopOn)
  PROVE  BudgetInv'
<1>1. tasks' = Swept
  BY DEF Wait
<1>2. \A t \in Tasks : tasks'[t] # None => t \in Live /\ tasks[t] # None /\ tasks'[t] = tasks[t]
  BY <1>1 DEF Swept, Live
<1>3. CASE Leave(Lost)
  <2>1. \A t \in Tasks : joined'[t] \subseteq joined[t]
    BY <1>3 DEF Leave
  <2> QED BY <1>2, <2>1, ShrinkKeepsBudgets
<1>4. CASE /\ \A t \in watch : t \in Live /\ tasks[t].root = root
           /\ Admitted(watch, root)
           /\ joined' = [t \in Tasks |->
                (joined[t] \ {v \in Lost : t \in asks[v].watch}) \cup (IF t \in watch THEN {w} ELSE {})]
  <2>1. \A t \in Tasks : joined'[t] = (joined[t] \ Lost) \cup (IF t \in watch THEN {w} ELSE {})
    <3>1. \A t \in Tasks : \A v \in joined[t] : t \in asks[v].watch
      BY DEF TaskInv, TypeOK, WaiterSetsAgree
    <3> QED BY <1>4, <3>1
  <2>2. \A t \in watch : t \in Tasks /\ Cardinality(joined[t] \ Lost) < MaxWaitersPerTask
    BY <1>4 DEF Admitted
  <2>3. Cardinality(RootWaiters(root)) < MaxWaitersPerRoot
    BY <1>4 DEF Admitted
  <2>4. StoreIsFinite
    BY DEF BudgetInv
  <2>5. StoreIsFinite'
    <3> DEFINE there == {u \in Tasks : tasks[u] # None}
               waiters == UNION {joined[u] : u \in Tasks}
    <3>1. there' \in SUBSET there /\ waiters' \subseteq waiters \cup {w}
      BY <1>2, <2>1
    <3>2. IsFiniteSet(there) /\ IsFiniteSet(waiters)
      BY <2>4 DEF StoreIsFinite
    <3>3. IsFiniteSet(there') /\ IsFiniteSet(waiters')
      <4> HIDE DEF there, waiters
      <4>1. IsFiniteSet(waiters \cup {w})
        BY <3>2, FS_AddElement
      <4> QED BY <3>1, <3>2, <4>1, FS_Subset
    <3> QED BY <3>3 DEF StoreIsFinite
  <2>6. ASSUME NEW any \in Roots
        PROVE  Held(any)' \subseteq Held(any) /\ HeldActive(any)' \subseteq HeldActive(any)
    BY <1>2 DEF Held, HeldActive
  <2>7. RootWithin(root)'
    <3>1. HeldWaiters(root)' \subseteq RootWaiters(root) \cup {w}
      BY <1>2, <2>1 DEF HeldWaiters, Held, RootWaiters
    <3>2. RootWaiters(root) \subseteq HeldWaiters(root)
      BY DEF HeldWaiters, Held, RootWaiters, Live
    <3>3. RootWithin(root) /\ IsFiniteSet(Held(root)) /\ IsFiniteSet(HeldActive(root)) /\ IsFiniteSet(HeldWaiters(root))
      BY <2>4, CountedIsFinite, BudgetsByRoot DEF BudgetInv
    <3>4. IsFiniteSet(RootWaiters(root))
      BY <3>2, <3>3, FS_Subset
    <3>5. Cardinality(HeldWaiters(root)') <= MaxWaitersPerRoot
      BY <2>3, <3>1, <3>4, LimitsAreNumbers, OneMoreIsWithin
    <3>6. Cardinality(Held(root)') <= MaxTasksPerRoot /\ Cardinality(HeldActive(root)') <= MaxConcurrentTasksPerRoot
      BY <2>6, <3>3, LimitsAreNumbers, PartIsWithin DEF RootWithin
    <3> QED BY <3>5, <3>6 DEF RootWithin
  <2>8. ASSUME NEW other \in Roots \ {root} PROVE RootWithin(other)'
    <3>1. \A t \in Held(other)' : t \in Held(other) /\ t \in Tasks /\ t \notin watch
      BY <1>2, <1>4 DEF Held
    <3>2. HeldWaiters(other)' \subseteq HeldWaiters(other)
      BY <2>1, <3>1 DEF HeldWaiters
    <3>3. RootWithin(other)
      BY BudgetsByRoot DEF BudgetInv
    <3> QED BY <2>4, <2>6, <3>2, <3>3, RootShrinks
  <2>9. ASSUME NEW t \in Tasks PROVE Cardinality(joined'[t]) <= MaxWaitersPerTask
    <3>1. IsFiniteSet(joined[t]) /\ Cardinality(joined[t]) <= MaxWaitersPerTask
      BY <2>4, CountedIsFinite DEF BudgetInv, BudgetsHold
    <3>2. CASE t \in watch
      <4>1. joined'[t] \subseteq (joined[t] \ Lost) \cup {w}
        BY <2>1
      <4>2. IsFiniteSet(joined[t] \ Lost) /\ Cardinality(joined[t] \ Lost) < MaxWaitersPerTask
        BY <2>2, <3>1, <3>2, FS_Difference
      <4> QED BY <4>1, <4>2, LimitsAreNumbers, OneMoreIsWithin
    <3>3. CASE t \notin watch
      <4>1. joined'[t] \subseteq joined[t]
        BY <2>1, <3>3
      <4> QED BY <3>1, <4>1, LimitsAreNumbers, PartIsWithin
    <3> QED BY <3>2, <3>3
  <2>10. BudgetsHold'
    BY <2>7, <2>8, <2>9 DEF BudgetsHold, RootWithin, HeldActive, HeldWaiters
  <2> QED BY <2>5, <2>10 DEF BudgetInv
<1> QED BY <1>3, <1>4 DEF Wait

LEMMA BudgetInit == ASSUME Init PROVE BudgetInv
<1>1. /\ {t \in Tasks : tasks[t] # None} = {} /\ UNION {joined[t] : t \in Tasks} = {}
      /\ \A root : Held(root) = {} /\ HeldActive(root) = {} /\ HeldWaiters(root) = {}
      /\ \A t \in Tasks : joined[t] = {}
  BY DEF Init, Held, HeldActive, HeldWaiters
<1>2. StoreIsFinite
  BY <1>1, FS_EmptySet DEF StoreIsFinite
<1>3. BudgetsHold
  BY <1>1, FS_EmptySet, LimitsAreNumbers, BudgetsByRoot DEF RootWithin
<1> QED BY <1>2, <1>3 DEF BudgetInv

LEMMA BudgetNext == ASSUME TaskInv, BudgetInv, [Next]_vars PROVE BudgetInv'
<1>1. TypeOK
  BY DEF TaskInv
<1>2. \A t \in Live : t \in Tasks /\ tasks[t] # None /\ tasks[t] \in Records
  BY <1>1, RecordThere DEF Live
<1>3. ASSUME NEW t \in Tasks, NEW status \in Active \cup Terminal, NEW result \in Results \cup {None},
             NEW defer \in BOOLEAN, Transition(t, status, result, defer)
      PROVE  BudgetInv'
  <2>1. CASE t \in Live /\ tasks[t].status \in Active
    <3>1. Moved(t, status, result).root = tasks[t].root
      BY <1>2, <2>1 DEF Moved, Records
    <3>2. PICK held, woken : SweepAndPut(t, Moved(t, status, result), held, woken)
      BY <1>3, <2>1 DEF Transition
    <3> QED BY <2>1, <3>1, <3>2, PutKeepsBudgets
  <2>2. CASE ~(t \in Live /\ tasks[t].status \in Active)
    BY <1>3, <2>2, SweepKeepsBudgets DEF Transition
  <2> QED BY <2>1, <2>2
<1>4. ASSUME NEW t \in Tasks, NEW result \in Results, FailDeferredTerminal(t, result)
      PROVE  BudgetInv'
  <2>1. CASE t \in Live /\ t \in deferred /\ tasks[t].status \in Terminal
    <3> DEFINE record == [tasks[t] EXCEPT !.status = "failed", !.result = result]
    <3>1. record.root = tasks[t].root /\ record.status \notin Active
      BY <1>2, <2>1 DEF Records, Active
    <3>2. PICK held, woken : SweepAndPut(t, record, held, woken)
      BY <1>4, <2>1 DEF FailDeferredTerminal
    <3> HIDE DEF record
    <3> QED BY <2>1, <3>1, <3>2, PutKeepsBudgets
  <2>2. CASE ~(t \in Live /\ t \in deferred /\ tasks[t].status \in Terminal)
    BY <1>4, <2>2, SweepKeepsBudgets DEF FailDeferredTerminal
  <2> QED BY <2>1, <2>2
<1>5. ASSUME NEW t \in Tasks, MarkSeen(t) PROVE BudgetInv'
  <2> DEFINE unseen == t \in Live /\ ~tasks[t].seen /\ tasks[t].status \in Terminal /\ t \notin deferred
  <2>1. CASE unseen
    <3> DEFINE record == [tasks[t] EXCEPT !.seen = TRUE]
    <3>1. record.root = tasks[t].root /\ record.status = tasks[t].status
      BY <1>2, <2>1 DEF Records
    <3>2. PICK held, woken : SweepAndPut(t, record, held, woken)
      BY <1>5, <2>1 DEF MarkSeen
    <3> HIDE DEF record
    <3> QED BY <2>1, <3>1, <3>2, PutKeepsBudgets
  <2>2. CASE ~unseen
    BY <1>5, <2>2, SweepKeepsBudgets DEF MarkSeen
  <2> QED BY <2>1, <2>2
<1>6. ASSUME NEW t \in Tasks, FlushWaiters(t) \/ Remove(t) PROVE BudgetInv'
  <2>1. \A u \in Tasks : tasks'[u] # None => tasks[u] # None /\ tasks'[u] = tasks[u]
    BY <1>1, <1>6 DEF FlushWaiters, Remove, TypeOK
  <2>2. \A u \in Tasks : joined'[u] \subseteq joined[u]
    BY <1>6, SettleTakes DEF FlushWaiters, Remove
  <2> QED BY <2>1, <2>2, ShrinkKeepsBudgets
<1>7. CASE ExpireSweep
  BY <1>7, SweepKeepsBudgets DEF ExpireSweep
<1>8. CASE Clear
  <2>1. (\A u \in Tasks : tasks'[u] = None) /\ \A u \in Tasks : joined'[u] \subseteq joined[u]
    BY <1>8, SettleTakes DEF Clear
  <2> QED BY <2>1, ShrinkKeepsBudgets
<1>9. ASSUME NEW w \in Waiters, GiveUp(w) PROVE BudgetInv'
  <2>1. tasks' = tasks /\ \A u \in Tasks : joined'[u] \subseteq joined[u]
    BY <1>9, SettleTakes DEF GiveUp
  <2> QED BY <2>1, ShrinkKeepsBudgets
<1>10. CASE Tick \/ UNCHANGED vars
  <2>1. UNCHANGED <<tasks, joined>>
    BY <1>10 DEF Tick, vars
  <2> QED BY <2>1, ShrinkKeepsBudgets
<1>11. ASSUME NEW t \in Tasks, NEW root \in Roots, NEW ttl \in Ttls, Create(t, root, ttl) PROVE BudgetInv'
  BY <1>11, CreateKeepsBudgets
<1>12. ASSUME NEW w \in Waiters, NEW root \in Roots, NEW watch \in SUBSET Tasks, NEW stopOn \in StopSets,
              Wait(w, root, watch, stopOn)
       PROVE  BudgetInv'
  BY <1>12, WaitKeepsBudgets
<1> QED BY <1>3, <1>4, <1>5, <1>6, <1>7, <1>8, <1>9, <1>10, <1>11, <1>12 DEF Next

\* For any limits and any number of ids, callers and roots: no root ever holds
\* more handles, more of them running, or more waiters than its budget, and no
\* task more waiters than its own (create, #admitWaiter), overdue handles that
\* no sweep has taken yet and waits on several tasks included.
THEOREM BudgetsAreKept == Spec => []BudgetsHold
<1>1. Init => TaskInv /\ BudgetInv
  BY TaskInvInit, BudgetInit
<1>2. TaskInv /\ BudgetInv /\ [Next]_vars => (TaskInv /\ BudgetInv)'
  BY TaskInvNext, BudgetNext
<1>3. BudgetInv => BudgetsHold
  BY DEF BudgetInv
<1> QED BY <1>1, <1>2, <1>3, PTL DEF Spec
=============================================================================
