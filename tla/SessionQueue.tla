---------------------------- MODULE SessionQueue ----------------------------
(***************************************************************************)
(* The mailbox of one session (src/src/session-queue.js).  Every mutating  *)
(* command of a session runs through it, one at a time: Main's commands    *)
(* (run) wait in items, what the worker's side owes (post: a turn's        *)
(* outcome, the provider's exit; offer: an update) in criticalItems, which *)
(* go first.  A body is asynchronous: between its start and its end any    *)
(* other call may come in.                                                 *)
(*                                                                         *)
(* A command of the model is a slot that holds one command after another:  *)
(* it can be submitted again once the last one has been told its outcome.  *)
(***************************************************************************)
EXTENDS Integers, Sequences

CONSTANTS
  MainCommands,     \* commands that come through run()
  WorkerCommands,   \* commands that come through offer() and post()
  Drainers,         \* callers of drain()
  Limit,            \* SESSION_QUEUE_LIMIT
  Reserve,          \* SESSION_CRITICAL_QUEUE_RESERVE
  NoCommand         \* no command

Commands == MainCommands \cup WorkerCommands

ASSUME SessionQueueAssumption ==
  /\ MainCommands \cap WorkerCommands = {}
  /\ NoCommand \notin MainCommands \cup WorkerCommands
  /\ Limit \in Nat \ {0} /\ Reserve \in Nat

VARIABLES
  items,          \* Main's commands waiting
  criticalItems,  \* the worker side's commands waiting
  running,        \* the command whose body runs, or NoCommand
  awaiting,       \* the command of this same queue that body awaits, or NoCommand
  closed,         \* closedError is set
  outcome,        \* what each command's caller has been told
  drain,          \* what each caller of drain() has been told
  before          \* ghost: the pairs of outstanding commands of which the first was admitted first

queueVars == <<items, criticalItems, running, awaiting, closed, outcome, drain, before>>

Waiting == {"queued", "running"}
Answered == {"none", "resolved", "failed", "closed", "refused", "reentered"}

\* The commands in a sequence.
Members(seq) == {seq[i] : i \in DOMAIN seq}

\* The commands whose callers wait.
Outstanding == {c \in Commands : outcome[c] \in Waiting}

\* The order of admission, among these commands only.
Still(cs) == {pair \in before : pair[1] \in cs /\ pair[2] \in cs}

\* get depth
Depth == Len(items) + Len(criticalItems) + (IF running = NoCommand THEN 0 ELSE 1)

\* get idle
QueueIdle == running = NoCommand /\ items = <<>> /\ criticalItems = <<>>

QueueInit ==
  /\ items = <<>> /\ criticalItems = <<>>
  /\ running = NoCommand /\ awaiting = NoCommand
  /\ closed = FALSE
  /\ outcome = [c \in Commands |-> "none"]
  /\ drain = [d \in Drainers |-> "none"]
  /\ before = {}

-----------------------------------------------------------------------------
(* Submission *)

\* #refusal: a closed queue refuses everything, an open one what would take the
\* work it owes, the running command included, past the limit.
Refused(limit) == closed \/ Depth >= limit

\* A command queued without starting the pump.
Submit_NoPump(c, critical) ==
  /\ before' = before \cup (Outstanding \X {c})
  /\ outcome' = [outcome EXCEPT ![c] = "queued"]
  /\ items' = IF critical THEN items ELSE Append(items, c)
  /\ criticalItems' = IF critical THEN Append(criticalItems, c) ELSE criticalItems
  /\ UNCHANGED running

\* The worker's commands put at the front of their lane.
Submit_LastFirst(c, critical) ==
  /\ before' = before \cup (Outstanding \X {c})
  /\ IF running = NoCommand
       THEN /\ running' = c
            /\ outcome' = [outcome EXCEPT ![c] = "running"]
            /\ UNCHANGED <<items, criticalItems>>
       ELSE /\ outcome' = [outcome EXCEPT ![c] = "queued"]
            /\ items' = IF critical THEN items ELSE Append(items, c)
            /\ criticalItems' = IF critical THEN <<c>> \o criticalItems ELSE criticalItems
            /\ UNCHANGED running

\* #submit: an idle queue starts the command at once, a busy one queues it.
Submit(c, critical) ==
  /\ before' = before \cup (Outstanding \X {c})
  /\ IF running = NoCommand
       THEN /\ running' = c
            /\ outcome' = [outcome EXCEPT ![c] = "running"]
            /\ UNCHANGED <<items, criticalItems>>
       ELSE /\ outcome' = [outcome EXCEPT ![c] = "queued"]
            /\ items' = IF critical THEN items ELSE Append(items, c)
            /\ criticalItems' = IF critical THEN Append(criticalItems, c) ELSE criticalItems
            /\ UNCHANGED running

Refuse(c) ==
  /\ outcome' = [outcome EXCEPT ![c] = "refused"]
  /\ UNCHANGED <<items, criticalItems, running, before>>

\* run(), called from outside this queue's commands.
Run(c) ==
  /\ outcome[c] \in Answered
  /\ IF Refused(Limit) THEN Refuse(c) ELSE Submit(c, FALSE)
  /\ UNCHANGED <<awaiting, closed, drain>>

\* The body left to wait for a command that waits for it.
RunInside_Queued(c) ==
  /\ outcome[c] \in Answered
  /\ running # NoCommand /\ awaiting = NoCommand /\ ~Refused(Limit)
  /\ Submit(c, FALSE)
  /\ awaiting' = c
  /\ UNCHANGED <<closed, drain>>

\* run(), called and awaited by the body of a command of this queue: it throws.
RunInside(c) ==
  /\ outcome[c] \in Answered
  /\ running # NoCommand /\ awaiting = NoCommand
  /\ outcome' = [outcome EXCEPT ![c] = "reentered"]
  /\ UNCHANGED <<items, criticalItems, running, awaiting, closed, drain, before>>

\* An offer held to the limit of Main's commands.
Offer_NoReserve(c) ==
  /\ outcome[c] \in Answered
  /\ IF Refused(Limit) THEN Refuse(c) ELSE Submit(c, TRUE)
  /\ UNCHANGED <<awaiting, closed, drain>>

\* offer(): within the limit and the reserve; the refusal comes back at once.
Offer(c) ==
  /\ outcome[c] \in Answered
  /\ IF Refused(Limit + Reserve) THEN Refuse(c) ELSE Submit(c, TRUE)
  /\ UNCHANGED <<awaiting, closed, drain>>

\* post(): never refused for depth, dropped once the queue is closed.
Post(c) ==
  /\ outcome[c] \in Answered
  /\ IF closed THEN Refuse(c) ELSE Submit(c, TRUE)
  /\ UNCHANGED <<awaiting, closed, drain>>

-----------------------------------------------------------------------------
(* The pump *)

\* #settleDrain, in the state after a step: idle says whether the queue is idle then.
SettleDrain(idle) ==
  drain' = [d \in Drainers |-> IF idle /\ drain[d] = "waiting" THEN "drained" ELSE drain[d]]

\* The next command: the critical ones first, each lane in order.
TakeNext ==
  \/ /\ criticalItems # <<>>
     /\ running' = Head(criticalItems)
     /\ criticalItems' = Tail(criticalItems)
     /\ UNCHANGED items
  \/ /\ criticalItems = <<>> /\ items # <<>>
     /\ running' = Head(items)
     /\ items' = Tail(items)
     /\ UNCHANGED criticalItems
  \/ /\ criticalItems = <<>> /\ items = <<>>
     /\ running' = NoCommand
     /\ UNCHANGED <<items, criticalItems>>

\* The running body ends, with a value or an error: its caller is told, and the
\* pump starts the next command or goes idle (#pump, one turn of its loop).
Complete ==
  /\ running # NoCommand
  /\ awaiting # NoCommand => outcome[awaiting] \in Answered
  /\ TakeNext
  /\ \E told \in {"resolved", "failed"} :
       outcome' = [c \in Commands |-> CASE c = running -> told
                                        [] c = running' -> "running"
                                        [] OTHER -> outcome[c]]
  /\ before' = Still(Outstanding \ {running})
  /\ awaiting' = NoCommand
  /\ SettleDrain(running' = NoCommand)
  /\ UNCHANGED closed

\* closeWith(): everything still waiting is rejected; the running body goes on.
CloseWith ==
  /\ closed' = TRUE
  /\ items' = <<>> /\ criticalItems' = <<>>
  /\ outcome' = [c \in Commands |-> IF outcome[c] = "queued" THEN "closed" ELSE outcome[c]]
  /\ before' = {}
  /\ SettleDrain(running = NoCommand)
  /\ UNCHANGED <<running, awaiting>>

\* drain(): true at once on an idle queue.
DrainQueue(d) ==
  /\ drain[d] # "waiting"
  /\ drain' = [drain EXCEPT ![d] = IF QueueIdle THEN "drained" ELSE "waiting"]
  /\ UNCHANGED <<items, criticalItems, running, awaiting, closed, outcome, before>>

\* Its cap is hit first.
DrainTimeout(d) ==
  /\ drain[d] = "waiting"
  /\ drain' = [drain EXCEPT ![d] = "capped"]
  /\ UNCHANGED <<items, criticalItems, running, awaiting, closed, outcome, before>>

QueueNext ==
  \/ \E c \in MainCommands : Run(c) \/ RunInside(c)
  \/ \E c \in WorkerCommands : Offer(c) \/ Post(c)
  \/ Complete
  \/ CloseWith
  \/ \E d \in Drainers : DrainQueue(d) \/ DrainTimeout(d)

QueueSpec == QueueInit /\ [][QueueNext]_queueVars

\* Every body ends: "no command waits on a worker turn" (gateway-service.js,
\* shutdown).  drain() is given no fairness of its own: its cap is optional.
QueueFairSpec == QueueSpec /\ WF_queueVars(Complete)

-----------------------------------------------------------------------------
(* Properties *)

\* Types, and what the queues, the running command and the outcomes say of each
\* other: a command waits in the lane it came in by, once, while its caller has
\* been told nothing.
QueueTypeOK ==
  /\ items \in Seq(MainCommands) /\ criticalItems \in Seq(WorkerCommands)
  /\ running \in Commands \cup {NoCommand} /\ awaiting \in Commands \cup {NoCommand}
  /\ closed \in BOOLEAN
  /\ outcome \in [Commands -> Waiting \cup Answered]
  /\ drain \in [Drainers -> {"none", "waiting", "drained", "capped"}]
  /\ before \subseteq Commands \X Commands

\* No command and no drain() is left behind: while anything waits, a body runs
\* whose end takes the next one, and nothing waits in a closed queue.
NothingStranded ==
  /\ running = NoCommand => items = <<>> /\ criticalItems = <<>>
  /\ closed => items = <<>> /\ criticalItems = <<>>
  /\ \A d \in Drainers : drain[d] = "waiting" => ~QueueIdle
  /\ \A c \in Commands : outcome[c] = "queued" <=> c \in Members(items) \cup Members(criticalItems)
  /\ \A c \in Commands : outcome[c] = "running" <=> c = running

SameLane(c, d) == {c, d} \subseteq MainCommands \/ {c, d} \subseteq WorkerCommands

\* A command starts only once every command its lane admitted before it has
\* ended: "a command always observes the state its predecessor committed".
LanesInOrder ==
  \A c \in Commands :
    <<c, running>> \in before => ~SameLane(c, running)

\* The commands of each side that the queue still owes an outcome.
MainOwed == Len(items) + (IF running \in MainCommands THEN 1 ELSE 0)
WorkerOwed == Len(criticalItems) + (IF running \in WorkerCommands THEN 1 ELSE 0)

\* "Main's commands alone cannot crowd them out": an offer an open queue refuses
\* finds at least the reserve's worth of the worker's own commands outstanding.
ReserveHolds ==
  [][\A c \in WorkerCommands :
       outcome[c] # "refused" /\ outcome'[c] = "refused" /\ ~closed
         => WorkerOwed >= Reserve]_queueVars

\* A closed queue starts nothing more: "a command queued behind a close would
\* otherwise wake up and act on a session that no longer exists".
NothingStartsAfterClose == [][closed => running' \in {running, NoCommand}]_queueVars

\* Nobody is kept waiting by a queue whose bodies end: whatever the worker's side
\* has queued ends or is rejected by a close, commands that wait for commands of
\* the same queue included, and drain() is answered once no more come in.
Settles ==
  /\ \A c \in WorkerCommands : outcome[c] = "queued" ~> outcome[c] # "queued"
  /\ \A d \in Drainers : (drain[d] = "waiting" /\ closed) ~> drain[d] # "waiting"
=============================================================================
