----------------------------- MODULE TaskCommit -----------------------------
(***************************************************************************)
(* How one task goes from its creation to its outcome, and what of it is   *)
(* on disk at every moment (gateway-service.js: taskPrompt, #promptLocked, *)
(* #stampPromptDispatched, #finishTurn, #providerExitLocked, taskCancel,   *)
(* #failUndispatched, #commitTaskTerminal; state-store.js: appendDurable   *)
(* and replay; task-store.js: recover).                                    *)
(*                                                                         *)
(* A durable write is synchronous, a chain of file operations (io) during  *)
(* which nothing of the Gateway runs, but at any of which the process or   *)
(* the machine may die.  Between two chains any callback may come in: the  *)
(* end of the session's preparation, the worker's answer or exit, a        *)
(* cancel, a TTL, the debounced snapshot, a shutdown.                      *)
(*                                                                         *)
(* The disk is what StateStore makes of it: an image of the task that a    *)
(* process restart recovers, and those a power loss may leave instead.     *)
(* Every record is one of this task's; a rotation counts as a snapshot.    *)
(***************************************************************************)
EXTENDS Integers, FiniteSets

CONSTANTS
  Modes,         \* the values of ACP_GATEWAY_WAL: "wal" (on) and "snapshot" (off)
  Faults,        \* which file operations may fail (FaultKinds)
  Crashes,       \* how the Gateway may die: "kill", "power"
  Expiry,        \* whether the task's TTL may elapse
  MaxFaults,     \* bound: file operations that fail
  MaxStops       \* bound: times the Gateway stops

\* "boot" is any file operation of the rotation a start begins with.
FaultKinds == {"append", "fsync", "snapshot", "dirsync", "boot"}

ASSUME TaskCommitAssumption ==
  /\ Modes \subseteq {"wal", "snapshot"} /\ Modes # {}
  /\ Faults \subseteq FaultKinds
  /\ Crashes \subseteq {"kill", "power"}
  /\ Expiry \in BOOLEAN
  /\ MaxFaults \in Nat /\ MaxStops \in Nat

Terminal == {"completed", "failed", "cancelled"}

\* interruption.executionOutcome
Verdicts == {"none", "not_started", "unknown"}

\* A task record, or Gone.  stamp: promptDispatchedAt is set.
Gone == [status |-> "gone", stamp |-> FALSE, verdict |-> "none"]
Images == {Gone} \cup [status : {"working"} \cup Terminal, stamp : BOOLEAN, verdict : Verdicts]
Minted == [status |-> "working", stamp |-> FALSE, verdict |-> "none"]
Outcomes == [status : Terminal, verdict : Verdicts]
Outcome(status, verdict) == [status |-> status, verdict |-> verdict]
NoOutcome == Outcome("failed", "none")

VARIABLES
  mode,     \* StateStore.mode
  phase,    \* "up", "stopping" (shutdown) or "down"
  io,       \* the durable write under way: its next file operation, what it is for, the outcome it commits
  mem,      \* the task in the TaskStore
  disk,     \* now: what a process restart recovers; heads: that under each directory a power loss may leave; power: all it may leave
  prep,     \* the command that starts the turn: "none", "preparing" (it awaits the session) or "failed"
  turn,     \* "none", "running" or "over" (sealed)
  cancel,   \* a taskCancel that goes through the session: "none", "queued" (sessionCancel), "asked"
  asked,    \* session.cancelRequested
  healthy,  \* persistError is null
  born,     \* the task was created
  expired,  \* its TTL has elapsed
  handed,   \* ghost: the caller has its handle
  sent,     \* ghost: its prompt reached the worker
  told,     \* ghost: the outcomes readers were given
  used      \* the bounds spent

vars == <<mode, phase, io, mem, disk, prep, turn, cancel, asked, healthy, born, expired,
          handed, sent, told, used>>

\* What a step of a durable write never touches, and what one of the session never does.
life == <<turn, cancel, asked, born, expired, sent, told>>
files == <<disk, used>>

Idle == [at |-> "idle", for |-> "none", out |-> NoOutcome]
Chain(at, for, out) == [at |-> at, for |-> for, out |-> out]

\* The durable writes that are snapshots: the debounced one, that of the
\* rotation a start begins with, and that of close().
Snapshots == {"persist", "boot", "close"}

Init ==
  /\ mode \in Modes
  /\ phase = "up"
  /\ io = Idle
  /\ mem = Gone
  /\ disk = [now |-> Gone, heads |-> {Gone}, power |-> {Gone}]
  /\ prep = "none" /\ turn = "none" /\ cancel = "none"
  /\ asked = FALSE /\ healthy = TRUE /\ born = FALSE /\ expired = FALSE
  /\ handed = FALSE /\ sent = FALSE /\ told = {}
  /\ used = [faults |-> 0, stops |-> 0]

Running == phase \in {"up", "stopping"} /\ io = Idle

\* markPromptDispatched and clearPromptDispatched: a record that is gone has no
\* stamp to set or to take back.
Stamp(image, on) == IF image = Gone THEN Gone ELSE [image EXCEPT !.stamp = on]

\* transition() of a record to an outcome.
Ended(image, status, verdict) == [image EXCEPT !.status = status, !.verdict = verdict]

-----------------------------------------------------------------------------
(* The disk *)

Fault(kind) ==
  /\ kind \in Faults /\ used.faults < MaxFaults
  /\ used' = [used EXCEPT !.faults = @ + 1]

\* A file operation of the write under way fails.
IoFault(kind) == Fault(IF io.for = "boot" THEN "boot" ELSE kind)

\* Replay of one record (#apply): the first create and the first terminal win,
\* and a status change (the stamp) reaches a live record only.
Apply(image, type, out) ==
  CASE type = "create" -> IF image = Gone THEN Minted ELSE image
    [] type = "stamp" -> IF image.status = "working" THEN Stamp(image, TRUE) ELSE image
    [] type = "commit" -> IF image.status = "working" THEN Ended(image, out.status, out.verdict) ELSE image
    [] OTHER -> Gone

\* A record at the end of the log, not synced yet.
Journal(type, out) ==
  LET heads == {Apply(image, type, out) : image \in disk.heads}
  IN disk' = [now |-> Apply(disk.now, type, out), heads |-> heads, power |-> disk.power \cup heads]

\* No fsync behind the records.
SyncLog_Skipped == UNCHANGED disk

\* The log synced; a snapshot's rename; the sync of the directory behind it.
SyncLog == disk' = [disk EXCEPT !.power = disk.heads]
PutSnapshot == disk' = [now |-> mem, heads |-> disk.heads \cup {mem}, power |-> disk.power \cup {mem}]
SyncDirectory == disk' = [disk EXCEPT !.heads = {disk.now}, !.power = {disk.now}]

\* TASK_REMOVED, an append nobody waits for (#onTaskChange): it lands, or the
\* log does not take it; without a WAL the next snapshot says it.
AppendRemoved ==
  \/ mode = "wal" /\ Journal("remove", NoOutcome) /\ UNCHANGED <<used, healthy>>
  \/ mode = "wal" /\ Fault("append") /\ healthy' = FALSE /\ UNCHANGED disk
  \/ mode = "snapshot" /\ UNCHANGED <<disk, used, healthy>>

-----------------------------------------------------------------------------
(* The end of a durable write: what the caller does with it *)

\* taskPrompt: the handle goes back at once, or once the turn runs.
CreateHeld ==
  /\ io.for = "create"
  /\ io' = Idle
  /\ prep' = "preparing"
  /\ \E back \in BOOLEAN : handed' = back
  /\ UNCHANGED <<phase, mem>>

\* #stampPromptDispatched: memory takes the stamp, and the send follows with no
\* await between.  A record that went meanwhile has nothing to mark.
StampHeld ==
  /\ io.for = "stamp"
  /\ IF mode = "wal" /\ mem = Gone
       THEN io' = Idle /\ prep' = "failed"
       ELSE io' = Chain("send", "stamp", NoOutcome) /\ UNCHANGED prep
  /\ mem' = Stamp(mem, TRUE)
  /\ UNCHANGED <<phase, handed>>

\* #commitTaskTerminal: memory takes the outcome.
CommitHeld ==
  /\ io.for = "commit"
  /\ io' = Idle
  /\ mem' = IF mem.status = "working" THEN Ended(mem, io.out.status, io.out.verdict) ELSE mem
  /\ UNCHANGED <<phase, prep, handed>>

\* A snapshot; that of close() is the last thing the process does.
SnapshotHeld ==
  /\ io.for \in Snapshots
  /\ io' = Idle
  /\ phase' = IF io.for = "close" THEN "down" ELSE phase
  /\ UNCHANGED <<mem, prep, handed>>

\* It held (#appendHeld).
Held == healthy' = TRUE /\ (CreateHeld \/ StampHeld \/ CommitHeld \/ SnapshotHeld)

\* It did not hold, and the caller compensates: the handle is removed, the stamp
\* of snapshot mode comes out again, and a commit becomes a failure.
Failed ==
  /\ healthy' = FALSE
  /\ io' = IF io.for = "create" THEN Chain("remove", "create", NoOutcome) ELSE Idle
  /\ mem' = CASE io.for = "stamp" /\ mode = "snapshot" -> Stamp(mem, FALSE)
              [] io.for = "commit" /\ mem # Gone -> Ended(mem, "failed", "none")
              [] OTHER -> mem
  /\ prep' = IF io.for = "stamp" THEN "failed" ELSE prep
  /\ phase' = IF io.for = "close" THEN "down" ELSE phase
  /\ UNCHANGED handed

Go(at) ==
  /\ io' = [io EXCEPT !.at = at]
  /\ UNCHANGED <<phase, mem, prep, handed, healthy>>

\* append(), the first half of appendDurable().
AppendStep ==
  /\ io.at = "append"
  /\ \/ mode = "wal" /\ Journal(io.for, io.out) /\ Go("sync") /\ UNCHANGED used
     \/ mode = "wal" /\ Fault("append") /\ Failed /\ UNCHANGED disk
     \/ mode = "snapshot" /\ Go("rename") /\ UNCHANGED files
  /\ UNCHANGED <<mode, life>>

\* barrier() in wal mode; a snapshot begins with it.
SyncStep ==
  /\ io.at = "sync"
  /\ \/ /\ SyncLog /\ UNCHANGED used
        /\ IF io.for \in Snapshots THEN Go("rename") ELSE Held
     \/ IoFault("fsync") /\ Failed /\ UNCHANGED disk
  /\ UNCHANGED <<mode, life>>

\* writeSnapshot(): the rename of the synced file, and the directory sync.
RenameStep ==
  /\ io.at = "rename"
  /\ \/ PutSnapshot /\ Go("dirsync") /\ UNCHANGED used
     \/ IoFault("snapshot") /\ Failed /\ UNCHANGED disk
  /\ UNCHANGED <<mode, life>>

DirSyncStep ==
  /\ io.at = "dirsync"
  /\ \/ SyncDirectory /\ Held /\ UNCHANGED used
     \/ IoFault("dirsync") /\ Failed /\ UNCHANGED disk
  /\ UNCHANGED <<mode, life>>

-----------------------------------------------------------------------------
(* The task *)

\* taskPrompt: a handle, durable before anything else.  Refused while the
\* store is unhealthy.
Create ==
  /\ phase = "up" /\ io = Idle /\ ~born /\ healthy
  /\ born' = TRUE
  /\ mem' = Minted
  /\ io' = Chain("append", "create", NoOutcome)
  /\ UNCHANGED <<mode, phase, files, prep, turn, cancel, asked, healthy, expired, handed, sent, told>>

\* remove(): a handle whose creation did not hold, or whose turn did not start
\* before the caller had it.
RemoveStep ==
  /\ io.at = "remove"
  /\ io' = Idle
  /\ mem' = Gone
  /\ IF mem = Gone THEN UNCHANGED <<files, healthy>> ELSE AppendRemoved
  /\ UNCHANGED <<mode, phase, prep, handed, life>>

\* The prompt sent whatever became of the task while its session was prepared.
Start_Unchecked ==
  /\ Running /\ prep = "preparing"
  /\ IF mem.status \in Terminal \cup {"gone"}
       THEN io' = Chain("send", "none", NoOutcome) /\ UNCHANGED mem
       ELSE /\ io' = Chain("append", "stamp", NoOutcome)
            /\ mem' = IF mode = "snapshot" THEN Stamp(mem, TRUE) ELSE mem
  /\ UNCHANGED <<mode, phase, files, prep, handed, healthy, life>>

\* The prompt sent first, its stamp left to the records that follow.
Start_Unstamped ==
  /\ Running /\ prep = "preparing"
  /\ IF mem.status \in Terminal
       THEN prep' = "none" /\ handed' = TRUE /\ UNCHANGED <<io, mem>>
       ELSE /\ io' = Chain("send", "none", NoOutcome)
            /\ mem' = Stamp(mem, TRUE)
            /\ UNCHANGED <<prep, handed>>
  /\ UNCHANGED <<mode, phase, files, healthy, life>>

\* #stampPromptDispatched: a live task's stamp, durable before the prompt leaves;
\* without a WAL it goes into memory first, where the snapshot is taken from.
StampPromptDispatched ==
  /\ mem.status = "working"
  /\ io' = Chain("append", "stamp", NoOutcome)
  /\ mem' = IF mode = "snapshot" THEN Stamp(mem, TRUE) ELSE mem

\* #promptLocked behind its awaits (the restore, the model): a task that has
\* ended starts no turn (#taskEnded), one that is gone starts one without a stamp,
\* and a live one is stamped first.
Start ==
  /\ Running /\ prep = "preparing"
  /\ \/ /\ mem.status \in Terminal
        /\ prep' = "none" /\ handed' = TRUE
        /\ UNCHANGED <<io, mem>>
     \/ /\ mem = Gone
        /\ io' = Chain("send", "none", NoOutcome)
        /\ UNCHANGED <<mem, prep, handed>>
     \/ StampPromptDispatched /\ UNCHANGED <<prep, handed>>
  /\ UNCHANGED <<mode, phase, files, healthy, life>>

\* The restore or the model switch fails, or the session was closed.
StartFails ==
  /\ Running /\ prep = "preparing"
  /\ prep' = "failed"
  /\ UNCHANGED <<mode, phase, io, mem, files, handed, healthy, life>>

\* The frame is queued and the turn runs, or the send throws and the stamp is
\* withdrawn.
SendStep ==
  /\ io.at = "send"
  /\ io' = Idle
  /\ \/ /\ sent' = TRUE /\ turn' = "running" /\ asked' = FALSE
        /\ prep' = "none" /\ handed' = TRUE
        /\ UNCHANGED mem
     \/ /\ prep' = "failed"
        /\ mem' = Stamp(mem, FALSE)
        /\ UNCHANGED <<sent, turn, asked, handed>>
  /\ UNCHANGED <<mode, phase, files, cancel, healthy, born, expired, told>>

\* #commitTaskTerminal begins: without a WAL the outcome goes into memory first,
\* held back from readers, since the snapshot is taken from there.
Commit(status, verdict) ==
  /\ io' = Chain("append", "commit", Outcome(status, verdict))
  /\ mem' = IF mode = "snapshot" THEN Ended(mem, status, verdict) ELSE mem

\* A failure of a start whose caller has left recorded nowhere.
StartFailed_Forgotten ==
  /\ Running /\ prep = "failed"
  /\ prep' = "none"
  /\ io' = IF handed THEN io ELSE Chain("remove", "none", NoOutcome)
  /\ UNCHANGED <<mode, phase, mem, files, handed, healthy, life>>

\* What became of a start that failed: the handle's outcome if the caller has it
\* (#failUndispatched; a shutdown leaves it to the restart), else its removal.
StartFailed ==
  /\ Running /\ prep = "failed"
  /\ prep' = "none"
  /\ IF handed
       THEN IF phase = "up" /\ mem.status = "working" /\ ~mem.stamp
              THEN Commit("failed", "none")
              ELSE UNCHANGED <<io, mem>>
       ELSE io' = Chain("remove", "none", NoOutcome) /\ UNCHANGED mem
  /\ UNCHANGED <<mode, phase, files, handed, healthy, life>>

\* taskInterruption
Verdict(image) == IF image.stamp THEN "unknown" ELSE "not_started"

\* The session's turn ends with this outcome; a task that has ended keeps its own.
EndTurn(status, verdict) ==
  /\ turn' = "over"
  /\ IF mem.status = "working" THEN Commit(status, verdict) ELSE UNCHANGED <<io, mem>>
  /\ UNCHANGED <<mode, phase, files, prep, cancel, asked, healthy, born, expired, handed, sent, told>>

\* #finishTurn: the worker answers.  Nothing is finished during a shutdown.
FinishTurn ==
  /\ phase = "up" /\ io = Idle /\ turn = "running"
  /\ \/ EndTurn(IF asked THEN "cancelled" ELSE "completed", "none")
     \/ EndTurn("cancelled", "none")
     \/ EndTurn("failed", "none")

\* #providerExitLocked, and #finishTurn when the worker is gone.
ProviderExit ==
  /\ Running /\ turn = "running"
  /\ EndTurn("failed", Verdict(mem))

\* taskCancel of a task whose prompt has not been sent: at once.
CancelUnsent ==
  /\ phase = "up" /\ io = Idle
  /\ handed /\ prep # "none" /\ mem.status = "working" /\ ~mem.stamp
  /\ Commit("cancelled", "none")
  /\ UNCHANGED <<mode, phase, files, prep, handed, healthy, life>>

\* taskCancel of any other task: through the session's mailbox ...
CancelQueued ==
  /\ phase = "up" /\ io = Idle
  /\ cancel = "none" /\ mem.status = "working"
  /\ ~(handed /\ prep # "none" /\ ~mem.stamp)
  /\ cancel' = "queued"
  /\ UNCHANGED <<mode, phase, io, mem, files, prep, turn, asked, healthy, born, expired, handed, sent, told>>

\* ... which tells the worker (#cancelLocked) ...
CancelLocked ==
  /\ Running /\ cancel = "queued" /\ prep = "none"
  /\ cancel' = "asked"
  /\ \E alive \in BOOLEAN : asked' = (asked \/ (alive /\ turn = "running"))
  /\ UNCHANGED <<mode, phase, io, mem, files, prep, turn, healthy, born, expired, handed, sent, told>>

\* ... and then records the outcome, unless the turn's end came first.
CancelCommit ==
  /\ Running /\ cancel = "asked"
  /\ cancel' = "none"
  /\ IF mem.status = "working" THEN Commit("cancelled", "none") ELSE UNCHANGED <<io, mem>>
  /\ UNCHANGED <<mode, phase, files, prep, turn, asked, healthy, born, expired, handed, sent, told>>

\* A read or a wait is answered with the outcome.
Deliver ==
  /\ Running /\ mem.status \in Terminal
  /\ told' = told \cup {Outcome(mem.status, mem.verdict)}
  /\ UNCHANGED <<mode, phase, io, mem, files, prep, turn, cancel, asked, healthy, born, expired, handed, sent>>

\* The TTL elapses; a sweep takes the record, where there is one, and logs it.
Expire ==
  /\ Expiry /\ born /\ ~expired
  /\ io.at \in {"idle", "sync", "rename"}
  /\ expired' = TRUE
  /\ mem' = Gone
  /\ IF mem = Gone THEN UNCHANGED <<files, healthy>> ELSE AppendRemoved
  /\ UNCHANGED <<mode, phase, io, prep, turn, cancel, asked, born, handed, sent, told>>

-----------------------------------------------------------------------------
(* Snapshots, stops and starts *)

\* A snapshot begins, in wal mode with its barrier.
Snapshot(for) == io' = Chain(IF mode = "wal" THEN "sync" ELSE "rename", for, NoOutcome)

\* The debounced writer.
Persist ==
  /\ phase = "up" /\ io = Idle /\ born
  /\ Snapshot("persist")
  /\ UNCHANGED <<mode, phase, mem, files, prep, handed, healthy, life>>

\* shutdown(): turns are no longer finished, and close() writes the last snapshot.
Shutdown ==
  /\ phase = "up" /\ io = Idle /\ used.stops < MaxStops
  /\ phase' = "stopping"
  /\ used' = [used EXCEPT !.stops = @ + 1]
  /\ UNCHANGED <<mode, io, mem, disk, prep, handed, healthy, life>>

Close ==
  /\ phase = "stopping" /\ io = Idle
  /\ Snapshot("close")
  /\ UNCHANGED <<mode, phase, mem, files, prep, handed, healthy, life>>

\* What is left of the process.
Stopped ==
  /\ phase' = "down" /\ io' = Idle /\ mem' = Gone
  /\ prep' = "none" /\ turn' = "none" /\ cancel' = "none" /\ asked' = FALSE
  /\ used' = [used EXCEPT !.stops = @ + 1]
  /\ UNCHANGED <<mode, healthy, born, expired, handed, sent, told>>

Kill ==
  /\ "kill" \in Crashes /\ phase # "down" /\ used.stops < MaxStops
  /\ Stopped
  /\ UNCHANGED disk

PowerLoss ==
  /\ "power" \in Crashes /\ used.stops < MaxStops
  /\ Stopped
  /\ \E left \in disk.power : disk' = [now |-> left, heads |-> {left}, power |-> {left}]

\* recover(): a task in flight has failed, with what the stamp says of it.
Recovered(image) ==
  IF image.status = "working" THEN Ended(image, "failed", Verdict(image)) ELSE image

\* init(): the records recovered, without those whose TTL has elapsed, and the
\* rotation that writes them down.
Restart ==
  /\ phase = "down"
  /\ phase' = "up"
  /\ mem' = IF expired THEN Gone ELSE Recovered(disk.now)
  /\ Snapshot("boot")
  /\ healthy' = TRUE
  /\ prep' = "none" /\ turn' = "none" /\ cancel' = "none" /\ asked' = FALSE
  /\ UNCHANGED <<mode, files, born, expired, handed, sent, told>>

\* The file operations of the durable write under way.
Step == AppendStep \/ SyncStep \/ RenameStep \/ DirSyncStep \/ RemoveStep \/ SendStep

Next ==
  \/ Step
  \/ Create \/ Start \/ StartFails \/ StartFailed
  \/ FinishTurn \/ ProviderExit
  \/ CancelUnsent \/ CancelQueued \/ CancelLocked \/ CancelCommit
  \/ Deliver \/ Expire \/ Persist
  \/ Shutdown \/ Close \/ Kill \/ PowerLoss \/ Restart

Spec == Init /\ [][Next]_vars

\* A synchronous write runs to its end.  The command that starts a turn gets
\* there, since every await in it has a timeout, and so does the callback of its
\* failure: the event loop serves what is queued, however often the snapshot
\* timer comes in between (strong fairness).  The worker owes no answer.
FairSpec == Spec /\ WF_vars(Step) /\ SF_vars(Start \/ StartFails) /\ SF_vars(StartFailed)

-----------------------------------------------------------------------------
(* Properties *)

TypeOK ==
  /\ mode \in Modes
  /\ phase \in {"up", "stopping", "down"}
  /\ io \in [at : {"idle", "append", "sync", "rename", "dirsync", "send", "remove"},
             for : {"none", "create", "stamp", "commit"} \cup Snapshots, out : Outcomes]
  /\ mem \in Images
  /\ disk \in [now : Images, heads : SUBSET Images, power : SUBSET Images]
  /\ disk.now \in disk.heads /\ disk.heads \subseteq disk.power
  /\ prep \in {"none", "preparing", "failed"}
  /\ turn \in {"none", "running", "over"}
  /\ cancel \in {"none", "queued", "asked"}
  /\ {asked, healthy, born, expired, handed, sent} \subseteq BOOLEAN
  /\ told \subseteq Outcomes
  /\ used \in [faults : Nat, stops : Nat]

\* "not_started is a safety claim (re-running repeats nothing)" (task-store.js):
\* no task whose prompt reached the worker ever says so, whatever failed, and
\* wherever the process or the machine died.
NotStartedMeansUnsent == mem.verdict = "not_started" => ~sent

\* The task as the running Gateway answers for it: no write under way, and its
\* TTL not over.
Answerable == phase = "up" /\ io = Idle /\ ~expired

\* What was promised is kept through any number of restarts: a success or a
\* cancel a reader was given is what the task still says ("Publish only after the
\* WAL barrier"), and the handle of a prompt the worker received, or that the
\* caller was given, is there ("A crash can only lose work that has a durable
\* handle").
PromisesStand ==
  Answerable =>
    /\ \A outcome \in told : outcome.status # "failed" => mem.status = outcome.status
    /\ handed \/ sent => mem # Gone

\* A task that ended while its session was being prepared sends nothing: no
\* reader is told an outcome whose prompt leaves afterwards.
EndedIsNeverSent == [][told # {} /\ ~expired => sent' = sent]_vars

\* A handle does not stay without a turn and without an outcome.
StartsOrEnds ==
  (handed /\ prep # "none" /\ phase = "up")
    ~> (sent \/ mem.status # "working" \/ phase # "up")
=============================================================================
