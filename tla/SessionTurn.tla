----------------------------- MODULE SessionTurn -----------------------------
(***************************************************************************)
(* One session and the turns its worker runs for it (gateway-service.js):  *)
(* admission and its reservation, the mailbox every command goes through,  *)
(* the transparent and the explicit restore, the turn and its one          *)
(* finalizer, the worker's requests and their inbox rows, cancel, close,   *)
(* the orphan sweep, the worker's exit, unload and retention.              *)
(*                                                                         *)
(* A prompt, the turn it starts and the task it answers to share a number. *)
(* The mailbox is SessionQueue's: its worker lane goes first, and it is    *)
(* never ready to start a command without starting it, so everything else  *)
(* happens while a command awaits or while there is none.  What a promise  *)
(* runs right after a command settles (its caller's finally) is part of    *)
(* the step that settles it.                                               *)
(***************************************************************************)
EXTENDS AcpClient, Sequences, FiniteSets

CONSTANTS
  Kinds,               \* how a prompt comes: "plain" (session prompt), "task" (run and task_prompt)
  MaxRestoreFailures,  \* recovery.maxConsecutiveRestoreFailures
  MaxConns,            \* bound: provider processes started
  MaxCommands,         \* bound: Main's other commands, and the times it goes away
  None                 \* no argument

Conns == 1..MaxConns

ASSUME SessionTurnAssumption ==
  /\ IsFiniteSet(Turns) /\ Turns = 1..Cardinality(Turns)
  /\ Kinds \subseteq {"plain", "task"}
  /\ MaxRestoreFailures \in Nat \ {0}
  /\ MaxConns \in Nat \ {0} /\ MaxCommands \in Nat
  /\ None \notin {"plain", "task", "set", "list", "end", "cancelled", "error"}

VARIABLES
  session,  \* the record, with its reservation (_reserved), task (activeTaskId) and _preparingTask
  box,      \* its mailbox: run (the command at an await), crit and main (the lanes), closed
  conns,    \* the provider processes (AcpClient); client 0 is null
  tasks,    \* the status of each prompt's task
  inbox,    \* the row of each worker request: its status and turnId, and who asked (by, ghost)
  present,  \* the Main is connected
  said,     \* ghost: what the worker answered to each prompt
  used      \* the bounds spent

vars == <<session, box, conns, tasks, inbox, present, said, used>>

Waiting == {"waiting_permission", "waiting_input"}
Statuses == {"idle", "running", "cancelling", "restoring", "disconnected", "unavailable",
             "error", "cancelled", "closed"} \cup Waiting

\* ACTIVE_STATUSES
Active == {"running", "cancelling", "restoring"} \cup Waiting

Terminal == {"completed", "failed", "cancelled"}
Open == {"working", "input_required"}

\* A command: its kind, its prompt, its argument, where its body is, the process
\* its body waits for.
Cmd(op, n, x) == [op |-> op, n |-> n, x |-> x, at |-> "queued", c |-> 0]
Free == Cmd("free", 0, None)

Init ==
  /\ session = [status |-> "idle", here |-> TRUE, client |-> 1, turn |-> 0, seal |-> 0,
                reserved |-> "none", failures |-> 0, cancelRequested |-> FALSE,
                orphaned |-> "no", orphanCancel |-> FALSE, task |-> 0, preparing |-> 0]
  /\ box = [run |-> Free, crit |-> <<>>, main |-> <<>>, closed |-> FALSE]
  /\ conns = [c \in Conns |-> IF c = 1 THEN Serve(Started) ELSE Ended]
  /\ tasks = [n \in Turns |-> "none"]
  /\ inbox = [r \in Requests |-> [status |-> "none", turn |-> 0, by |-> 0]]
  /\ present = TRUE
  /\ said = [n \in Turns |-> "none"]
  /\ used = [prompts |-> 0, conns |-> 1, commands |-> 0]

-----------------------------------------------------------------------------
(* The status machine *)

\* STATUS_TRANSITIONS
Legal ==
  [idle |-> {"running", "restoring", "disconnected", "closed"},
   running |-> Waiting \cup {"cancelling", "idle", "cancelled", "error", "disconnected", "closed"},
   waiting_permission |-> {"running", "waiting_input", "cancelling", "idle", "cancelled", "error", "disconnected", "closed"},
   waiting_input |-> {"running", "waiting_permission", "cancelling", "idle", "cancelled", "error", "disconnected", "closed"},
   cancelling |-> {"cancelled", "error", "disconnected", "closed"},
   restoring |-> {"idle", "unavailable", "disconnected", "closed"},
   disconnected |-> {"restoring", "closed"},
   unavailable |-> {"restoring", "disconnected", "closed"},
   error |-> {"running", "restoring", "disconnected", "closed"},
   cancelled |-> {"running", "restoring", "disconnected", "closed"},
   closed |-> {}]

\* #setStatus: the status after a call, and whether the call was taken.
Moved(from, to) ==
  CASE to = from \/ to \in Legal[from] -> to
    [] from = "cancelling" /\ to = "idle" -> "cancelled"
    [] OTHER -> from
Takes(from, to) == to = from \/ Moved(from, to) # from

SetStatus(s, to) == [s EXCEPT !.status = Moved(@, to)]

Gone == session.status = "closed" \/ ~session.here

\* #turnLive
TurnLive == session.turn # 0 /\ session.seal # session.turn /\ ~Gone

\* #sealTurn
SealTurn(s) == [s EXCEPT !.seal = s.turn]

ClientAlive == session.client # 0 /\ conns[session.client].alive

\* #needsRestore
NeedsRestore == ~(ClientAlive /\ session.status \notin {"disconnected", "unavailable"})

\* session.quarantined is set: #countRestoreFailure, and the success that ends it.
Quarantined == session.failures >= MaxRestoreFailures

-----------------------------------------------------------------------------
(* Tasks and inbox rows *)

\* #commitTaskTerminal: the first outcome stands.
EndTask(ts, k, status) == [n \in Turns |-> IF n = k /\ ts[n] \in Open THEN status ELSE ts[n]]

\* updateTaskForSession with a status that is not final.
ShowTask(ts, k, status) == EndTask(ts, k, status)

\* interruptSessionInbox
Interrupted(rows) == [r \in Requests |-> IF rows[r].status = "pending" THEN [rows[r] EXCEPT !.status = "interrupted"] ELSE rows[r]]

\* A turn that is over shown as running again.
SyncInput_AnyTurn(s, client) ==
  CASE WaitsForPermission(client) -> SetStatus(s, "waiting_permission")
    [] ~WaitsForPermission(client) /\ WaitsForInput(client) -> SetStatus(s, "waiting_input")
    [] OTHER -> SetStatus(s, "running")

\* The wait left standing once nothing waits.
SyncInput_Stays(s, client) ==
  CASE WaitsForPermission(client) -> SetStatus(s, "waiting_permission")
    [] ~WaitsForPermission(client) /\ WaitsForInput(client) -> SetStatus(s, "waiting_input")
    [] OTHER -> s

\* syncSessionInputState: the status the requests that still wait call for.
SyncInput(s, client) ==
  CASE WaitsForPermission(client) -> SetStatus(s, "waiting_permission")
    [] ~WaitsForPermission(client) /\ WaitsForInput(client) -> SetStatus(s, "waiting_input")
    [] OTHER -> IF TurnLive THEN SetStatus(s, "running") ELSE s

\* ... and what it says of the task.
SyncTask(ts, before, after, client) ==
  CASE client.held # {} -> IF after.status \in Waiting THEN ShowTask(ts, before.task, "input_required") ELSE ts
    [] OTHER -> IF TurnLive THEN ShowTask(ts, before.task, "working") ELSE ts

-----------------------------------------------------------------------------
(* The mailbox *)

Busy == box.run # Free
Idle == ~Busy /\ box.crit = <<>> /\ box.main = <<>>
Ready == ~Busy /\ ~Idle

\* The command that runs: the one at its await, or the one the pump starts.
Cur ==
  CASE Busy -> box.run
    [] ~Busy /\ box.crit # <<>> -> Head(box.crit)
    [] ~Busy /\ box.crit = <<>> /\ box.main # <<>> -> Head(box.main)
    [] OTHER -> Free

\* The mailbox once it is done.
Done ==
  CASE Busy -> [box EXCEPT !.run = Free]
    [] ~Busy /\ box.crit # <<>> -> [box EXCEPT !.crit = Tail(@)]
    [] OTHER -> [box EXCEPT !.main = Tail(@)]

\* The command goes on, at its next await.
Awaits(at, c) == [Done EXCEPT !.run = [Cur EXCEPT !.at = at, !.c = c]]

\* run(): a closed queue refuses.
Submit(cmd) == ~box.closed /\ box' = [box EXCEPT !.main = Append(@, cmd)]

\* post(), several of them: dropped once the queue is closed.
Posted(b, cmds) == IF b.closed THEN b ELSE [b EXCEPT !.crit = @ \o cmds]

\* Prompts in the order they were made, which is the order of client.pending.
InOrder(ns) == CHOOSE f \in [1..Cardinality(ns) -> ns] : \A i, j \in DOMAIN f : i < j => f[i] < f[j]

\* The outcome of these prompts, each posted by its reply's callback.
Outcomes(ns, op, x) == [i \in DOMAIN InOrder(ns) |-> Cmd(op, InOrder(ns)[i], x)]

\* closeWith: a queued prompt's caller releases its reservation, and its task,
\* whose handle went back or did not, fails or is taken away.
Rejected(s) == [s EXCEPT !.reserved = "none", !.preparing = 0,
                         !.task = IF \E i \in DOMAIN box.main : box.main[i].op = "prompt" THEN 0 ELSE @]
RejectedTasks(ts) ==
  [n \in Turns |->
     IF \E i \in DOMAIN box.main : box.main[i].op = "prompt" /\ box.main[i].n = n /\ ts[n] \in Open
     THEN IF session.preparing = n THEN "failed" ELSE "removed"
     ELSE ts[n]]

-----------------------------------------------------------------------------
(* Main's calls *)

\* Main's call comes in: through its connection, between two steps of the mailbox.
Calls == ~Ready /\ present /\ session.here
Spend == used.commands < MaxCommands /\ used' = [used EXCEPT !.commands = @ + 1]

\* What #admitTurn, #restoreKnown and a config set have in common.
MayStart == session.reserved = "none" /\ session.status \notin Active \cup {"closed"}

\* #admitTurn, then sessionPrompt or taskPrompt up to its queue.run: the handle
\* goes back before the turn starts when the turn cannot start at once.
Prompts(kind) ==
  LET n == used.prompts + 1
      handed == kind = "task" /\ (~Idle \/ NeedsRestore)
  IN /\ Calls /\ n \in Turns
     /\ MayStart /\ ~(Quarantined /\ NeedsRestore)
     /\ session' = [session EXCEPT !.reserved = "prompt",
                                   !.task = IF kind = "task" THEN n ELSE @,
                                   !.preparing = IF handed THEN n ELSE @]
     /\ tasks' = IF kind = "task" THEN [tasks EXCEPT ![n] = "working"] ELSE tasks
     /\ Submit(Cmd("prompt", n, kind))
     /\ used' = [used EXCEPT !.prompts = n]
     /\ UNCHANGED <<conns, inbox, present, said>>

\* sessionRestore of a record this Main has (#restoreKnown).
Restores ==
  /\ Calls /\ Spend /\ MayStart /\ NeedsRestore
  /\ session' = [session EXCEPT !.reserved = "restore"]
  /\ Submit(Cmd("restore", 0, None))
  /\ UNCHANGED <<conns, tasks, inbox, present, said>>

\* sessionConfig: a set reserves the session, a list does not.
Configures(action) ==
  /\ Calls /\ Spend
  /\ IF action = "set"
       THEN MayStart /\ session' = [session EXCEPT !.reserved = "config"]
       ELSE session.status # "closed" /\ UNCHANGED session
  /\ Submit(Cmd("config", 0, action))
  /\ UNCHANGED <<conns, tasks, inbox, present, said>>

\* sessionPermission and sessionAnswer, of a request Main was shown.
Answers(r) ==
  /\ Calls /\ Spend
  /\ session.status = IF r \in Questions THEN "waiting_input" ELSE "waiting_permission"
  /\ inbox[r].status # "none"
  /\ Submit(Cmd("answer", 0, r))
  /\ UNCHANGED <<session, conns, tasks, inbox, present, said>>

\* sessionCancel, or taskCancel of task k, which ends at once a task whose
\* prompt is still being prepared.
Cancels(k) ==
  /\ Calls /\ Spend
  /\ k # 0 => tasks[k] \in Open
  /\ IF k # 0 /\ session.preparing = k
       THEN /\ tasks' = EndTask(tasks, k, "cancelled")
            /\ session' = [session EXCEPT !.task = IF @ = k THEN 0 ELSE @]
            /\ UNCHANGED box
       ELSE Submit(Cmd("cancel", k, None)) /\ UNCHANGED <<session, tasks>>
  /\ UNCHANGED <<conns, inbox, present, said>>

\* sessionManage close or clean; a record whose drop is owed is only dropped.
Closes ==
  /\ Calls
  /\ IF session.status = "closed"
       THEN session' = [session EXCEPT !.here = FALSE] /\ UNCHANGED <<box, used>>
       ELSE Spend /\ Submit(Cmd("close", 0, None)) /\ UNCHANGED session
  /\ UNCHANGED <<conns, tasks, inbox, present, said>>

\* detachRoot of the last connection, attachRoot (touchSessionOwner), the end of
\* the grace.
MainLeaves ==
  /\ ~Ready /\ present /\ Spend
  /\ present' = FALSE
  /\ session' = [session EXCEPT !.orphaned = IF @ = "no" THEN "marked" ELSE @]
  /\ UNCHANGED <<box, conns, tasks, inbox, said>>

MainReturns ==
  /\ ~Ready /\ ~present
  /\ present' = TRUE
  /\ session' = [session EXCEPT !.orphaned = IF session.orphanCancel THEN @ ELSE "no"]
  /\ UNCHANGED <<box, conns, tasks, inbox, said, used>>

GraceEnds ==
  /\ ~Ready /\ session.orphaned = "marked"
  /\ session' = [session EXCEPT !.orphaned = "expired"]
  /\ UNCHANGED <<box, conns, tasks, inbox, present, said, used>>

-----------------------------------------------------------------------------
(* The restore a command waits for, and the turn a prompt starts *)

\* The caller of a command that ended, with an error or not; a config list has
\* nothing to give back.
Released(s, cmd) == [s EXCEPT !.reserved = IF @ = cmd.op /\ cmd.x # "list" THEN "none" ELSE @,
                              !.preparing = IF cmd.op = "prompt" THEN 0 ELSE @]

\* The reservation of a prompt that failed left in place.
Failed_Reserved(s, cmd) == [s EXCEPT !.task = IF cmd.op = "prompt" /\ @ = cmd.n THEN 0 ELSE @]

\* ... and of one that failed: a prompt gives its task up (taskPrompt's catch,
\* #failUndispatched).
Failed(s, cmd) == [Released(s, cmd) EXCEPT !.task = IF cmd.op = "prompt" /\ @ = cmd.n THEN 0 ELSE @]
FailedTasks(cmd) ==
  IF cmd.op # "prompt" THEN tasks
  ELSE IF session.preparing = cmd.n THEN EndTask(tasks, cmd.n, "failed")
  ELSE EndTask(tasks, cmd.n, "removed")

Throws(s) ==
  /\ session' = Failed(s, Cur)
  /\ tasks' = FailedTasks(Cur)
  /\ box' = Done

\* The commands that need the worker (#promptLocked, #configLocked, #restoreKnown):
\* their checks and ensureConnected.
Connects ==
  /\ Cur.at = "queued" /\ Cur.op \in {"prompt", "config", "restore"}
  /\ CASE Gone -> Throws(session)
       [] ~Gone /\ Cur.op # "restore" /\ ~NeedsRestore -> box' = Awaits("ready", 0) /\ UNCHANGED <<session, tasks>>
       [] ~Gone /\ Cur.op # "restore" /\ NeedsRestore /\ Quarantined -> Throws(session)
       [] OTHER -> box' = Awaits("client", 0) /\ UNCHANGED <<session, tasks>>
  /\ UNCHANGED <<conns, inbox, present, said, used>>

\* getClient, then the start of the attempt: the provider's process while it
\* lives, or a new one.  (Its definition does not change, so none is retired.)
GetsClient(c) ==
  /\ Busy /\ Cur.at = "client"
  /\ \/ conns[c].alive /\ UNCHANGED <<conns, used>>
     \/ /\ \A d \in Conns : ~conns[d].alive
        /\ c = used.conns + 1
        /\ conns' = [conns EXCEPT ![c] = Started]
        /\ used' = [used EXCEPT !.conns = c]
  /\ session' = SetStatus(session, "restoring")
  /\ box' = Awaits("resume", c)
  /\ UNCHANGED <<tasks, inbox, present, said>>

\* A method Main named that the provider does not have (attempt.refused).
RefusesMethod ==
  /\ Busy /\ Cur.at = "client" /\ Cur.op = "restore"
  /\ Throws(session)
  /\ UNCHANGED <<conns, inbox, present, said, used>>

\* The answer to session/resume or session/load.
Resumes ==
  /\ Busy /\ Cur.at = "resume" /\ conns[Cur.c].alive
  /\ box' = Awaits("attach", Cur.c)
  /\ UNCHANGED <<session, conns, tasks, inbox, present, said, used>>

\* #restoreLocked's catch and #countRestoreFailure.
Unavailable(s) ==
  [SetStatus(SetStatus(s, "restoring"), "unavailable") EXCEPT
     !.failures = IF @ < MaxRestoreFailures THEN @ + 1 ELSE @]

\* The provider does not start, the worker refuses, answers too late or exits, or
\* does not take the model or the mode (discardUnregisteredSession).
RestoreFails ==
  /\ Busy /\ Cur.at \in {"client", "resume", "attach"}
  /\ Throws(IF Gone THEN session ELSE Unavailable(session))
  /\ conns' = [c \in Conns |-> IF c = Cur.c /\ session.client # c THEN ClearSession(conns[c]) ELSE conns[c]]
  /\ UNCHANGED <<inbox, present, said, used>>

\* #restoreSession: the record is looked at again once the worker is back.
Attaches ==
  /\ Busy /\ Cur.at = "attach"
  /\ IF Gone
       THEN /\ Throws(session)
            /\ conns' = [conns EXCEPT ![Cur.c] = ClearSession(@)]
       ELSE /\ conns' = [conns EXCEPT ![Cur.c] = Serve(@)]
            /\ LET back == [SetStatus(session, "idle") EXCEPT !.client = Cur.c, !.failures = 0, !.orphaned = "no"]
               IN IF Cur.op = "restore"
                    THEN session' = Released(back, Cur) /\ box' = Done
                    ELSE session' = back /\ box' = Awaits("ready", 0)
            /\ UNCHANGED tasks
  /\ UNCHANGED <<inbox, present, said, used>>

\* A request to the worker before the command can end: a prompt's other model
\* (configureSessionModel), a config set.
AsksWorker ==
  /\ Busy /\ Cur.at = "ready" /\ ClientAlive
  /\ Cur.op = "prompt" \/ Cur.x = "set"
  /\ box' = Awaits("answer", session.client)
  /\ UNCHANGED <<session, conns, tasks, inbox, present, said, used>>

\* The end of a config command, and of a prompt that does not go out: its
\* arguments, its stamp's write, its channel or its worker stop it.
Stops ==
  /\ Busy /\ Cur.at \in {"ready", "answer"}
  /\ IF Cur.op = "prompt" THEN Throws(session) ELSE session' = Released(session, Cur) /\ box' = Done /\ UNCHANGED tasks
  /\ UNCHANGED <<conns, inbox, present, said, used>>

\* #taskEnded
Unsent == tasks[Cur.n] \in Terminal

\* The task has ended: no turn.
StartsNothing ==
  /\ Busy /\ Cur.op = "prompt" /\ Cur.at \in {"ready", "answer"} /\ Unsent
  /\ session' = Released(session, Cur)
  /\ box' = Done
  /\ UNCHANGED <<conns, tasks, inbox, present, said, used>>

\* What #promptLocked resets for the turn it starts.
NewTurn(s, n) == [s EXCEPT !.turn = n, !.seal = 0, !.cancelRequested = FALSE]

\* The rest of #promptLocked and of taskPrompt's command: the frame, then the turn.
StartsTurn ==
  /\ Busy /\ Cur.op = "prompt" /\ Cur.at \in {"ready", "answer"} /\ ~Unsent /\ ClientAlive
  /\ conns' = [conns EXCEPT ![session.client] = Prompt(@, Cur.n)]
  /\ session' = NewTurn(Released(SetStatus(session, "running"), Cur), Cur.n)
  /\ tasks' = ShowTask(tasks, Cur.n, "working")
  /\ box' = Done
  /\ UNCHANGED <<inbox, present, said, used>>

-----------------------------------------------------------------------------
(* Telling the worker, and what its end leaves behind *)

\* AcpClient's #fail: onExit reports to the session that is on it, then each of
\* its prompts is rejected.
ExitReports(c) ==
  (IF session.here /\ session.client = c THEN <<Cmd("provider_exit", 0, None)>> ELSE <<>>)
    \o Outcomes(Unanswered(conns[c]), "turn_fail", None)

Fails(c, b) ==
  /\ conns' = [conns EXCEPT ![c] = Ended]
  /\ box' = Posted(b, ExitReports(c))

\* AcpClient's stop(): nothing is reported, its prompts are rejected.
StopsProcess(c, b) ==
  /\ conns' = [conns EXCEPT ![c] = Ended]
  /\ box' = Posted(b, Outcomes(Unanswered(conns[c]), "turn_fail", None))

\* #tellWorkerToCancel: heard or not, what follows goes on; a channel that refuses
\* the frame fails the client.
TellWorker(b) ==
  LET c == session.client
  IN \/ /\ ~ClientAlive
        /\ box' = b /\ UNCHANGED conns
     \/ /\ ClientAlive
        /\ conns' = [conns EXCEPT ![c] = CancelSession(@)]
        /\ box' = Posted(b, Outcomes(Retracted(conns[c]), "turn_end", "cancelled"))
     \/ ClientAlive /\ Fails(c, b)

-----------------------------------------------------------------------------
(* The commands that run to their end without an await *)

Runs(op) == Cur.op = op /\ Cur.at = "queued"

Skips ==
  /\ box' = Done
  /\ UNCHANGED <<session, conns, tasks, inbox, present, said, used>>

\* A reply for a turn that is not the session's any more taken as this turn's.
Finalizes_AnyTurn(n) == session.turn # 0 /\ session.seal # session.turn /\ ~Gone

\* #finishTurn's guards.
Finalizes(n) == session.turn = n /\ session.seal # n /\ ~Gone

\* finishTaskForSession
Finished(ts, s) ==
  EndTask(ts, s.task, CASE s.status = "cancelled" -> "cancelled" [] s.status = "idle" -> "completed" [] OTHER -> "failed")

FinishTurn ==
  /\ Runs("turn_end") \/ Runs("turn_fail")
  /\ IF Finalizes(Cur.n)
       THEN LET to == CASE Cur.op = "turn_fail" /\ ~ClientAlive -> "disconnected"
                        [] Cur.op = "turn_fail" /\ ClientAlive -> "error"
                        [] OTHER -> IF session.cancelRequested \/ Cur.x = "cancelled" THEN "cancelled" ELSE "idle"
                after == SealTurn(SetStatus(session, to))
            IN /\ session' = [after EXCEPT !.task = 0, !.cancelRequested = Cur.op = "turn_fail" /\ @]
               /\ tasks' = Finished(tasks, after)
               /\ box' = Done
               /\ UNCHANGED <<conns, inbox, present, said, used>>
       ELSE Skips

\* What #providerExitLocked makes of the record.
Exited(s) == [SealTurn(SetStatus(s, "disconnected")) EXCEPT !.client = 0]

\* #providerExitLocked
ProviderExit ==
  /\ Runs("provider_exit")
  /\ IF Gone
       THEN Skips
       ELSE /\ session' = [Exited(session) EXCEPT !.task = IF TurnLive THEN 0 ELSE @]
            /\ tasks' = IF TurnLive THEN Finished(tasks, Exited(session)) ELSE tasks
            /\ inbox' = Interrupted(inbox)
            /\ box' = Done
            /\ UNCHANGED <<conns, present, said, used>>

\* #handleUpdateLocked of a worker's request: a row, a refusal (#admitInboxItem),
\* or, in a state that cannot wait for it, an event and no row.
Update ==
  LET r == Cur.x
      to == IF r \in Questions THEN "waiting_input" ELSE "waiting_permission"
      waits == SetStatus(session, to)
      row(status) == [inbox EXCEPT ![r].status = status, ![r].turn = session.turn]
  IN /\ Runs("update")
     /\ box' = Done
     /\ \/ Gone /\ UNCHANGED <<session, conns, tasks, inbox>>
        \/ /\ ~Gone /\ ~Takes(session.status, to)
           /\ inbox' = row("event")
           /\ UNCHANGED <<session, conns, tasks>>
        \/ /\ ~Gone /\ Takes(session.status, to)
           /\ session' = waits
           /\ inbox' = row("pending")
           /\ tasks' = ShowTask(tasks, session.task, "input_required")
           /\ UNCHANGED conns
        \/ /\ ~Gone /\ Takes(session.status, to) /\ ClientAlive
           /\ LET client == Respond(conns[session.client], r)
              IN /\ conns' = [conns EXCEPT ![session.client] = client]
                 /\ session' = SyncInput(waits, client)
                 /\ tasks' = SyncTask(tasks, session, session', client)
           /\ inbox' = row("refused")
     /\ UNCHANGED <<present, said, used>>

\* #permissionLocked and #answerLocked once the worker has its answer.
AnswerDone(client) ==
  /\ inbox' = [inbox EXCEPT ![Cur.x].status = IF @ = "pending" /\ inbox[Cur.x].turn = session.turn THEN "answered" ELSE @]
  /\ session' = SyncInput(session, client)
  /\ tasks' = SyncTask(tasks, session, session', client)

\* ... up to there: an operation Main allows runs first.
Answer ==
  LET c == session.client
      r == Cur.x
  IN /\ Runs("answer")
     /\ IF Gone \/ c = 0 \/ r \notin conns[IF c = 0 THEN 1 ELSE c].held
          THEN Skips
          ELSE /\ \/ /\ conns' = [conns EXCEPT ![c] = Respond(@, r)]
                     /\ \/ r \in Operations /\ box' = Awaits("operate", c) /\ UNCHANGED <<session, tasks, inbox>>
                        \/ box' = Done /\ AnswerDone(Respond(conns[c], r))
                  \/ Fails(c, Done) /\ UNCHANGED <<session, tasks, inbox>>
               /\ UNCHANGED <<present, said, used>>

Operated ==
  /\ Busy /\ Cur.at = "operate"
  /\ box' = Done
  /\ AnswerDone(conns[session.client])
  /\ UNCHANGED <<conns, present, said, used>>

\* #cancelLocked, and the rest of taskCancel for task Cur.n.
Cancel ==
  /\ Runs("cancel")
  /\ LET now == EndTask(tasks, Cur.n, "cancelled")
         mine(s) == [s EXCEPT !.task = IF @ = Cur.n THEN 0 ELSE @]
     IN IF TurnLive /\ session.status \in Active /\ ClientAlive
          THEN /\ TellWorker(Done)
               /\ inbox' = Interrupted(inbox)
               /\ session' = mine([SetStatus(session, "cancelling") EXCEPT !.cancelRequested = TRUE])
               /\ tasks' = IF Cur.n = 0 THEN ShowTask(tasks, session.task, "working") ELSE now
          ELSE /\ box' = Done
               /\ session' = mine(session)
               /\ tasks' = now
               /\ UNCHANGED <<conns, inbox>>
  /\ UNCHANGED <<present, said, used>>

\* #closeLocked up to its await ...
Close ==
  /\ Runs("close")
  /\ IF Gone
       THEN Skips
       ELSE /\ session' = IF TurnLive THEN [SealTurn(session) EXCEPT !.task = 0] ELSE session
            /\ tasks' = IF TurnLive THEN EndTask(tasks, session.task, "cancelled") ELSE tasks
            /\ inbox' = Interrupted(inbox)
            /\ IF session.status \in Active
                 THEN TellWorker(Awaits("closing", session.client))
                 ELSE box' = Awaits("closing", session.client) /\ UNCHANGED conns
            /\ UNCHANGED <<present, said, used>>

ClosedBox == [run |-> Free, crit |-> <<>>, main |-> <<>>, closed |-> TRUE]

\* ... and after it: a record whose drop cannot be saved yet stays (dropOwed), and
\* what is queued behind is refused (closeWith).
Closed ==
  /\ Busy /\ Cur.at = "closing"
  /\ \/ /\ \E kept \in BOOLEAN :
             session' = [Rejected(SetStatus(session, "closed")) EXCEPT !.client = 0, !.here = kept]
        /\ tasks' = RejectedTasks(tasks)
        /\ conns' = [c \in Conns |-> IF c = session.client THEN ClearSession(conns[c]) ELSE conns[c]]
        /\ box' = ClosedBox
     \/ /\ ClientAlive /\ conns[session.client].held # {}
        /\ Fails(session.client, Done)
        /\ UNCHANGED <<session, tasks>>
  /\ UNCHANGED <<inbox, present, said, used>>

\* The turn left to the worker to end.
Orphaned_Cancelling(s) == [SetStatus(s, "cancelling") EXCEPT !.orphanCancel = TRUE, !.cancelRequested = TRUE]

\* What #orphanCancelLocked makes of the record.
Orphaned(s) ==
  [SealTurn(SetStatus(s, "cancelled")) EXCEPT !.orphanCancel = TRUE, !.cancelRequested = TRUE, !.task = 0]

\* #orphanCancelLocked: the sweep's reasons are looked at again.
OrphanCancel ==
  /\ Runs("orphan")
  /\ IF /\ session.here /\ ~session.orphanCancel
        /\ session.orphaned = "expired" /\ ~present
        /\ session.status \in Active \ {"restoring"}
       THEN /\ TellWorker(Done)
            /\ session' = Orphaned(session)
            /\ tasks' = EndTask(tasks, session.task, "cancelled")
            /\ inbox' = Interrupted(inbox)
            /\ UNCHANGED <<present, said, used>>
       ELSE Skips

-----------------------------------------------------------------------------
(* The worker, and the maintenance *)

\* The channel to process c drains.
Drains(c) ==
  /\ ~Ready /\ CanFlush(conns[c])
  /\ conns' = [conns EXCEPT ![c] = Flush(@)]
  /\ UNCHANGED <<session, box, tasks, inbox, present, said, used>>

\* The worker's answer to prompt n, or its refusal.
Replies(c, n, x) ==
  /\ ~Ready /\ n \in conns[c].sent
  /\ conns' = [conns EXCEPT ![c] = Answered(@, n)]
  /\ said' = [said EXCEPT ![n] = x]
  /\ box' = Posted(box, <<Cmd(IF x = "error" THEN "turn_fail" ELSE "turn_end", n, x)>>)
  /\ UNCHANGED <<session, tasks, inbox, present, used>>

\* The worker asks for Main's answer (#handleAgentRequest, #runProtectedOperation,
\* handleUpdate): refused when the mailbox cannot take it.
Asks(c, r) ==
  /\ ~Ready /\ CanHold(conns[c]) /\ inbox[r].status = "none"
  /\ \A d \in Conns : r \notin conns[d].held
  /\ Cmd("update", 0, r) \notin {box.crit[i] : i \in DOMAIN box.crit}
  /\ ~box.closed
  /\ conns' = [conns EXCEPT ![c] = Hold(@, r)]
  /\ box' = Posted(box, <<Cmd("update", 0, r)>>)
  /\ inbox' = [inbox EXCEPT ![r].by = c]
  /\ UNCHANGED <<session, tasks, present, said, used>>

\* The process exits, or its channel fails.
Dies(c) ==
  /\ ~Ready /\ conns[c].alive
  /\ Fails(c, box)
  /\ UNCHANGED <<session, tasks, inbox, present, said, used>>

\* #runMaintenance: an active session nobody came back for.
SweepsOrphan ==
  /\ ~Ready /\ session.here /\ ~present
  /\ session.orphaned = "expired" /\ session.status \in Active /\ ~session.orphanCancel
  /\ Cmd("orphan", 0, None) \notin {box.main[i] : i \in DOMAIN box.main} \cup {box.run}
  /\ Submit(Cmd("orphan", 0, None))
  /\ UNCHANGED <<session, conns, tasks, inbox, present, said, used>>

\* #sessionQuiet
Quiet == session.reserved = "none" /\ Idle

\* unloadSession of an idle session; its process goes with it unless another
\* session is on it.
Unloads ==
  LET c == session.client
  IN /\ session.here /\ ClientAlive /\ session.status \notin Active /\ Quiet
     /\ session' = [SetStatus(session, "disconnected") EXCEPT !.client = 0]
     /\ \/ StopsProcess(c, box)
        \/ conns' = [conns EXCEPT ![c] = ClearSession(@)] /\ UNCHANGED box
     /\ UNCHANGED <<tasks, inbox, present, said, used>>

\* The end of #runMaintenance: a process nobody is on (#clientInUse).
Reclaims(c) ==
  /\ ~Ready /\ conns[c].alive /\ session.client # c
  /\ ~(Busy /\ Cur.at \in {"client", "resume", "attach"})
  /\ StopsProcess(c, box)
  /\ UNCHANGED <<session, tasks, inbox, present, said, used>>

\* Retention of a session (sessionRetentionEligible), its rows with it; a record
\* that was only kept is dropped.
Retires ==
  /\ session.here /\ Quiet
  /\ \/ /\ session.status = "closed"
        /\ session' = [session EXCEPT !.here = FALSE]
        /\ UNCHANGED <<box, conns, inbox>>
     \/ /\ session.status \notin Active \cup {"closed"}
        /\ \E kept \in BOOLEAN :
             session' = [SetStatus(session, "closed") EXCEPT !.client = 0, !.here = kept]
        /\ conns' = [c \in Conns |-> IF c = session.client THEN ClearSession(conns[c]) ELSE conns[c]]
        /\ inbox' = [r \in Requests |-> [inbox[r] EXCEPT !.status = IF @ = "none" THEN "none" ELSE "removed", !.turn = 0]]
        /\ box' = ClosedBox
  /\ UNCHANGED <<tasks, present, said, used>>

-----------------------------------------------------------------------------
MainCalls ==
  \/ \E kind \in Kinds : Prompts(kind)
  \/ Restores
  \/ \E action \in {"set", "list"} : Configures(action)
  \/ \E r \in Requests : Answers(r)
  \/ \E k \in Turns \cup {0} : Cancels(k)
  \/ Closes
  \/ MainLeaves \/ MainReturns \/ GraceEnds

\* Every request a command awaits has a timeout, so its step always comes.
CommandStep ==
  \/ Connects \/ (\E c \in Conns : GetsClient(c)) \/ RefusesMethod \/ Resumes \/ RestoreFails
  \/ Attaches \/ AsksWorker \/ Stops \/ StartsNothing \/ StartsTurn
  \/ FinishTurn \/ ProviderExit \/ Update \/ Answer \/ Operated \/ Cancel \/ Close \/ Closed
  \/ OrphanCancel

Environment ==
  \/ \E c \in Conns :
       \/ Drains(c) \/ Dies(c) \/ Reclaims(c)
       \/ \E n \in Turns, x \in {"end", "cancelled", "error"} : Replies(c, n, x)
       \/ \E r \in Requests : Asks(c, r)
  \/ SweepsOrphan \/ Unloads \/ Retires

Next == MainCalls \/ CommandStep \/ Environment

Spec == Init /\ [][Next]_vars

\* The event loop runs what is queued; the maintenance timer and the clock go on.
FairSpec == Spec /\ WF_vars(CommandStep) /\ WF_vars(GraceEnds) /\ WF_vars(SweepsOrphan)

-----------------------------------------------------------------------------
(* Properties *)

Commands == [op : {"free", "prompt", "restore", "config", "answer", "cancel", "close", "orphan",
                   "turn_end", "turn_fail", "provider_exit", "update"},
             n : Turns \cup {0}, x : Requests \cup {None, "plain", "task", "set", "list", "end", "cancelled", "error"},
             at : {"queued", "client", "resume", "attach", "ready", "answer", "operate", "closing"},
             c : Conns \cup {0}]

\* Every variable has its type; the seal is the current turn's, or none.
TypeOK ==
  /\ session \in [status : Statuses, here : BOOLEAN, client : Conns \cup {0}, turn : Turns \cup {0},
                  seal : Turns \cup {0}, reserved : {"none", "prompt", "restore", "config"},
                  failures : 0..MaxRestoreFailures, cancelRequested : BOOLEAN,
                  orphaned : {"no", "marked", "expired"}, orphanCancel : BOOLEAN,
                  task : Turns \cup {0}, preparing : Turns \cup {0}]
  /\ session.seal \in {0, session.turn}
  /\ box \in [run : Commands, crit : Seq(Commands), main : Seq(Commands), closed : BOOLEAN]
  /\ conns \in [Conns -> Clients]
  /\ tasks \in [Turns -> Terminal \cup Open \cup {"none", "removed"}]
  /\ inbox \in [Requests -> [status : {"none", "pending", "event", "refused", "answered", "interrupted", "removed"},
                             turn : Turns \cup {0}, by : Conns \cup {0}]]
  /\ present \in BOOLEAN
  /\ said \in [Turns -> {"none", "end", "cancelled", "error"}]
  /\ used \in [prompts : Turns \cup {0}, conns : Conns, commands : 0..MaxCommands]

Queued(lane) == {lane[i] : i \in DOMAIN lane}

\* The exit of the session's worker, or the outcome of turn n, is on its way.
ExitQueued == \E cmd \in Queued(box.crit) : cmd.op = "provider_exit"
EndQueued(n) == ExitQueued \/ \E cmd \in Queued(box.crit) : cmd.op \in {"turn_end", "turn_fail"} /\ cmd.n = n

\* A session is never left in a status nothing will move: an active one has a
\* live turn whose worker owes the reply or whose end is queued, or a restore
\* or a close that is under way, a turn nobody finalized is never hidden behind a
\* status that admits the next one, and a reservation belongs to a command that
\* will give it back (#setStatus, #finishTurn, #providerExitLocked, #release).
NeverStranded ==
  /\ TypeOK
  /\ session.status \in Active \ {"restoring"} =>
       \/ (Busy /\ Cur.at = "closing") \/ ExitQueued
       \/ /\ TurnLive
          /\ EndQueued(session.turn) \/ (ClientAlive /\ session.turn \in Unanswered(conns[session.client]))
  /\ session.status = "restoring" => Busy /\ Cur.at \in {"resume", "attach"}
  /\ TurnLive => session.status \in Active
  /\ session.reserved # "none" =>
       \E cmd \in Queued(box.main) \cup {box.run} : cmd.op = session.reserved /\ cmd.x # "list"

\* A task is its turn's: one that has not ended has something that will end it, its
\* prompt still in the mailbox or the session's live turn, which will report to it
\* (taskPrompt, updateTaskForSession, closeWith's callers), and it is reported
\* completed only when the worker said so of its own prompt: never by the reply of
\* an earlier turn, nor by one that arrives once the turn was cancelled, closed or
\* orphaned (#finishTurn's guards).
TaskFollowsItsTurn ==
  /\ \A n \in Turns : tasks[n] \in Open =>
       /\ session.task = n
       /\ \/ \E cmd \in Queued(box.main) \cup {box.run} : cmd.op = "prompt" /\ cmd.n = n
          \/ TurnLive /\ session.turn = n
  /\ \A n \in Turns : tasks[n] = "completed" => said[n] = "end"

\* A turn Main cancelled is one its worker has been told to stop or is about to
\* be: the cancel never overtakes its own prompt (cancelSession).
CancelIsHeard ==
  (TurnLive /\ session.cancelRequested /\ ClientAlive) =>
    LET client == conns[session.client]
    IN /\ session.turn \notin client.queued
       /\ session.turn \in client.sent => client.stop \/ session.turn \in client.told

\* The pending rows of this turn that another process than the session's asked
\* for: one whose exit, still queued, took the session off its successor
\* (#providerExitLocked looks at no process).
Strays ==
  {r \in Requests : inbox[r].status = "pending" /\ inbox[r].turn = session.turn /\ inbox[r].by # session.client}

\* Nobody waits for an answer that cannot come: while a turn runs, a session
\* shown as waiting has a request that waits, and so has each pending row of its
\* turn, unless the answer or the worker's exit is being applied or the request
\* is a stray; what a process holds has a handler that told Main, and a session
\* that is over has no row that asks Main for anything (#syncInput, clearSession,
\* #closeLocked, retention).
WaitsAreAnswerable ==
  /\ (TurnLive /\ ~(Busy /\ Cur.at = "operate") /\ ~EndQueued(session.turn)) =>
       LET client == conns[session.client]
       IN /\ session.status = "waiting_permission" =>
               WaitsForPermission(client) \/ Strays \cap (Permissions \cup Operations) # {}
          /\ session.status = "waiting_input" => WaitsForInput(client) \/ Strays \cap Questions # {}
          /\ \A r \in Requests \ Strays :
               inbox[r].status = "pending" /\ inbox[r].turn = session.turn => r \in client.held
  /\ \A c \in Conns : conns[c].held # {} => conns[c].alive /\ conns[c].handler
  /\ Gone => \A r \in Requests : inbox[r].status # "pending"

\* Whoever reserves the session gives it back: no error path keeps it
\* unpromptable (sessionPrompt's and taskPrompt's finally).
ReservationEnds == session.reserved # "none" ~> session.reserved = "none"

\* The worker of a Main that stays away past its grace is not left running
\* (#runMaintenance, #orphanCancelLocked) -- the first time: orphanCancelRequested
\* is never reset.
OrphanIsCancelled ==
  (~present /\ session.orphaned = "expired" /\ session.status \in Active /\ ~session.orphanCancel)
    ~> (present \/ session.status \notin Active)
=============================================================================
