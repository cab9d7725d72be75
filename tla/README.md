# TLA+ specifications of the ACP Gateway

The ACP Gateway (`src/src/`) is a daemon that runs coding agents (workers) for
coding sessions (Mains). A Main opens a session with a worker, hands it prompts,
and gets back durable *task handles* whose outcome it can collect after its own
call, the connection or the daemon itself has ended. This directory holds the
specifications of the parts that make that promise, the TLC runs that check
them, and the proofs that hold for every instance.

    tlc -workers 2 -config MCTaskCommit.cfg MCTaskCommit     one run
    tlapm TaskCommitProofs.tla                                one module's proofs

`PROJECT.json` lists the components, the runs, the mutants that show each
property can fail, the source lines behind every definition, the findings, the
hazards and the theorems.

## The system

| component | state | operations | what makes it correct | module |
|---|---|---|---|---|
| StateStore (`state-store.js`) | snapshot, log, rolled segment (`.rot`); open descriptor, last seq, pending fsync, torn flag | append, barrier, writeSnapshot, rotate, close, open/replay | what was answered for comes back; every crash point can be read; replay never skips | StateStore |
| state lock (`state-store.js`) | lock file, its identity | claim, check, retake, restore, release | one writer per directory, or a conflict that is found | StateLock, DirectoryLock |
| TaskStore (`task-store.js`) | records, waiter sets, deferred outcomes | create, transition, cancel, deferred commit, remove, markSeen, waits, sweep | the first outcome stands; no lost wakeup; budgets | TaskStore |
| session mailbox (`session-queue.js`) | two lanes, running command, drain waiters, closed | run, post, offer, closeWith, drain | one command at a time, in order, none stranded | SessionQueue |
| task commit (`gateway-service.js`) | task, dispatch stamp, outcome, their records | taskPrompt, #promptLocked, #finishTurn, #providerExitLocked, taskCancel, #commitTaskTerminal | `not_started` is true; an outcome given is not taken back | TaskCommit |
| sessions (`gateway-service.js`) | status, turn token and seal, reservation, client, inbox rows | prompt, restore, config, answer, cancel, close, exit, unload, orphan, retention | one finalizer per turn; nothing stranded; nobody waits for nothing | SessionTurn |
| ACP client (`acp-client.js`) | pending prompts and requests, lanes, grants, terminals | prompt, cancel, answer, clear, stop; read, write, terminal | a cancel reaches its prompt; only what was approved is done | AcpClient, WorkerOps, TerminalGroup |
| providers and workspaces (`gateway-service.js`, `workspace.js`) | processes (current, retired, starting), copies on disk, their removals | getClient, open, close, maintenance, shutdown | nothing in use is taken away, nothing unused stays | ProviderPool |
| event path (`sessions.js`, `socket-flow.js`, `ndjson-channel.js`, `socket-rpc.js`) | ring, lanes and budgets, cursor, early events | push, evict, publish, coalesce, drop, subscribe, reconnect | no event lost without being told | EventStream |
| daemon and front door (`gateway-daemon.js`, `index.js`, `main-status.js`, `task-follower.js`) | connections, requests in flight, waits, Mains shown, the followed task | line, lookup, wait, ack, cancel, close, drain, exit; follow, beat | the status shown is true; no wait oversleeps; no older status after a newer one | FrontDoor, MainRegistry, TaskFollower |
| artifacts, attention cursors, settings, installation, updates | files; cursors; JSON files | | | none |

How they interact: the daemon's RPC handlers call GatewayService. Every command
that changes a session runs in that session's mailbox; the worker's answers,
exits and updates come in through the ACP read loop and are posted to the same
mailbox. GatewayService moves task records in the TaskStore, and writes each
durable change through the StateStore (`appendDurable` where a caller is about
to be told something, `append` where the record may be lost). What a session
publishes goes into its ring and out through the lanes of each subscriber's
socket. A debounced timer writes snapshots; the maintenance pass rotates the log,
sweeps expired tasks, unloads idle sessions, cancels orphans, deletes orphaned
copies and stops idle processes. At a start the StateStore's replay gives the
TaskStore its records, and tasks in flight become failures with a verdict:
`not_started` if their dispatch stamp is absent, `unknown` if it is there.

What is hard: the daemon may die between any two file operations, a file
operation may fail in the middle of a sequence of them, and every `await` lets
other callbacks in. The code is JavaScript, so nothing runs between two
synchronous statements; that decides the grain of every module below: an action
is what runs up to the next await, or to the next file operation where a death
in between is the question.

## Modules

**StateStore** models the files. One action is one file operation of a call
(`pc` says which one is next; `call` where `writeSnapshot` returns to). An
operation journaled is a number; the state is the set of operations applied, so
that "comes back" is set inclusion and a replay over a hole is visible. The disk
is `dir` (what the names stand for), `logs` (records, how many are synced,
damage) and `maybe` (the directories a power loss may leave). Damage is `"tail"`
for bytes of a failed write behind the last record, `"middle"` where records follow
them, and `"cut"` where they were cut off and the file not synced since: a power loss
may bring them back then, a process death does not. `Recovered` is `#recover` with `#consume` and `#discontinuity` in the
default recovery mode; a state it cannot read is `halted`, and `OpenTruncating` is
the start with `ACP_GATEWAY_STATE_RECOVERY=truncate` that the halt's error asks for.
`seq`, `fd`, `torn`, `pending` and `dirty` are `#seq`, `#fd`, `#walTorn`,
`#pendingFsync` and `#snapshotDirty`.

**StateLock** models the lock file: one action is one file operation of a start,
a claim, a check, a retake, a restore or a release, of several processes; a file
is its identity (device, inode, mtime), which a later file may have again.
**DirectoryLock** is what the lock promises: one writer, unless a claim displaced
a live lock, and then until everyone who shares the directory is gone. StateLock
implements it with `writers` the processes that would write and `contested` the
ghost `displaced`; `IsADirectoryLock` is that refinement. The abstract lock is
contested and no stronger because the code cannot do better: a displaced
process's later unlink goes by name and may remove a third one's live lock.

**TaskStore** models the handles and the waits on them. One action is one call,
with the lazy sweep it begins with. A wait is one waiter that joins the sets of
all the tasks it names.
**SessionQueue** models one mailbox. A body takes any time; `Complete` is one
turn of `#pump`'s loop, which tells the caller and starts the next command.

**TaskCommit** composes the three for one task: its record in memory, the chain
of file operations of the durable write under way (`io`), the command that
prepares the session and sends the prompt (`prep`), the turn, a cancel going
through the session, and the disk. The disk is StateStore's, seen by one task:
`now` is what a process restart recovers, `heads` that under each directory a
power loss may leave, `power` every image a power loss may leave. A rotation
counts as the snapshot it writes; a start-up rotation either holds or leaves the
disk at some prefix of its operations. The status record appended after the send
(`Prompt running`) is left out: replaying it changes nothing the images tell
apart. Both durability modes are there: with a WAL the record carries a change
and memory follows; without one the snapshot is taken from memory, so the change
goes in first and comes out again on a failure.

**AcpClient** is a provider process as the Gateway holds it, for one session: a
record and what each operation makes of it (prompts queued in a lane or sent,
the cancel in the lane that goes first, requests that wait for Main).
**SessionTurn** composes it with the mailbox, the session record, its inbox rows
and its tasks. A command is a record in the mailbox that names its operation, its
turn and where its body awaits (`at`); a prompt, its turn and its task share a
number; processes are numbered as they are started, and an old one may still
report. What a promise runs right after a command settles (its caller's
`finally`) is part of the step that settles it.

**WorkerOps** models what a worker has done for it: a request comes in, is asked
of Main or read at once, resolves its path, and is applied, while the worker
changes the disk between any two steps. The requests are a set of records: the
code keeps them in Maps by id, and nothing depends on their order. A file is its
inode; a grant says what Main was shown. **TerminalGroup** is one terminal's process group: the command,
what it leaves behind, the checks for an empty group and the SIGTERM/SIGKILL
sequence, with the kernel free to give the id of an empty group away.

**EventStream** is one subscription from the worker's update to the Main's
handler. `log` is everything the session ever published, the ghost against which
a loss is told; the ring, the lanes, the stream, the client's cursor, early
events and reconnects follow the code. Frames weigh one unit, so byte budgets are
numbers of frames. Its loops over frames (`dropWhere`, `reportGaps`, the
subscriptions of `publishEvent`, the replay and the early events) are recursive
functions over the index, which the proofs can reason about.

**FrontDoor** composes one Main's two connections, the daemon's handling of the
requests on them, the waits, the tasks of one session, the drain and the death of
the daemon, with **MainRegistry** (where a Main is shown to stand) and
**TaskFollower** (the task the MCP client created), which are records and what
each operation makes of them.

**ProviderPool** models the processes of one provider and the snapshot copies:
opens and restores go through `getClient`, the measuring and copying of a
workspace, the session's creation and its registration; the maintenance pass
runs beside them, one action per await, with what it read before the await in
`gc.todo`. A session and its copy have the name of the request that opened it.
`left` marks a copy that nobody counts (a failed delete of a failed open, a
death). A delete goes through a copy step by step, and may have removed its
`owner.json` (`Unmarks`) when it fails or the daemon dies.

**MC\*** instantiate them. **\*Proofs** hold the theorems. Operators whose name
has a part after an underscore (`Submit_NoPump`) are the mutants: a plausible bug
in the definition after them, which some run must find.

## Runs

| run | bounds | shows |
|---|---|---|
| `store_kill` | 2 operations, 2 failures, 2 stops, 1 rotation of a healthy log; WAL on, off or switched | no crash point or failure leaves a state that halts a start, loses a written record or replays over a hole; a torn or closed log takes records again |
| `store_power` | the same, with power losses, WAL on; the marker of a log just opened does not fail | no hole and nothing lost that a barrier or snapshot answered for; a start halts only on a segment that ends in torn bytes a power loss brought back, and truncating those loses nothing |
| `lock` | 3 processes, 3 starts, 1 death or failed write, 2 attempts, hard links or not, 9 file identities | the file protocol is the abstract lock; two writers do not go on for ever |
| `queue` | 2 + 3 commands, limit 2, reserve 1, 1 drain | lanes, order, reserve, settlement |
| `tasks` | 2 ids, 2 waiters, 2 records per root, 1 active, 1 waiter per task and root, clock 0..1, TTLs asked below 0 and above the maximum | outcomes, deliveries, wakeups, budgets, waits end |
| `commit` | 2 failures, 3 stops, kills and power losses, both modes | verdicts, outcomes, handles; a handle without a turn gets an outcome |
| `session` | 2 prompts, 2 processes, 1 request of the worker, 2 other commands, quarantine at 2 failures | turns end once, tasks and rows with them; cancels arrive; reservations end; a first orphan is cancelled |
| `events` | 3 events of 4 kinds, lanes of 2, 2 and 1, ring of 1 + 1, 2 drops, 1 restart that kept its sequence | no loss untold, control survives telemetry, subscriptions are restored or ended |
| `events_restart` | the same, the restart goes on from an older snapshot | the finding below |
| `ops` | 5 scenarios of 1 to 3 requests (writes, reads, terminals; the three policies), 2 paths, 1 change of the disk, 1 end | what is done was approved; limits; process groups end |
| `front_door` | 4 scenarios: 2 waits of 2 tasks with room for 1 or 2; a followed task through 4 changes; both | statuses, waits, deliveries, drain, follower |
| `pool` | 2 requests, 3 processes, 2 definitions, room for 1 copy, 1 failure, 1 exit, 1 death or shutdown | nothing in use is stopped or deleted, nothing unused stays |

Why the bounds are enough. In the store every hazard needs one record in the
rolled segment, one in the new log, one interrupted rotation and the one after
it: two operations, one rotation beyond the one of each start, and two stops. Two
failures reach every combination of a step that fails and the one that handles
the failure failing too (a write and its cut, a rename and the reopening). The
lock's worst case is the third starter of `restoreLock`'s comment: two that judge
one stale lock and one that starts while its path stands empty. In the queue
Main's two commands fill the limit and the worker's three go past the reserve
behind it. In the task store each waiter budget is reached with one more caller
than it admits; `BudgetsHold` also bounds the records a root may keep, which two
ids reach and cannot exceed, so that conjunct is shown by nothing here. In TaskCommit the task's life has three durable writes: two failures can hit one of
them and the write that makes up for it, and three stops are enough for a death
during the recovery from a death. A session needs a second prompt to show a late
end meeting another turn, and a second process to show a late exit; a larger
instance (both kinds of prompt, a permission and a question as well, 5.6 million
states) passes too. A subscriber needs two events more than a lane holds to be
refused and told. In `ops` an approval is spent by two writes at most, and a
terminal's limit and end take two requests. In `pool` two requests are two opens
that race, an open behind a close, or a restore beside an open.

Deadlock checking is off where the bounds stop every behaviour and on in `queue`
and `tasks`.

### Fairness

- StateStore: a call runs to its end, and the gc tick keeps calling
  `rotateIfNeeded`; both are the daemon's own timers and synchronous code. Nothing
  is assumed about callers, failures or deaths.
- StateLock: code that runs is not suspended for ever.
- SessionQueue: a body ends ("no command waits on a worker turn"). Main's
  commands are not shown to settle: the worker's lane always goes first, and
  nothing makes it pause. Drains carry no fairness of their own.
- TaskStore: time passes and the gc tick sweeps. A wait's own timer has none.
- TaskCommit: a synchronous write runs to its end; the command that starts a turn
  gets through (each await in it has a timeout), however often the snapshot timer
  comes in between, hence strong fairness. The worker owes no answer.
- SessionTurn: a running command goes on (each provider request has a timeout),
  the mailbox is served, and the maintenance timer keeps coming. The worker owes
  no answer.
- EventStream: a stream the peer reads drains, frames and requests arrive or their
  socket closes, the reconnect timer fires.
- FrontDoor: the daemon's lookups of the follower's requests end; the follower's
  reconnect and heartbeat fire again and again; what has arrived is read.
- ProviderPool: awaits of a request end, a stop ends (SIGKILL at the latest), file
  operations return, the maintenance timer keeps coming. Opens are finitely many
  here: with a snapshot open always in flight, the code puts reconciliation off
  for as long (`workspaceOpens > 0`).

### File system assumptions

A process death loses nothing a write returned for. A power loss keeps what an
fsync covered, a prefix of an unsynced log and perhaps part of the next record,
and any state the directory had since its last sync; a truncation is on disk only
once the file was synced behind it, and until then a power loss may bring the bytes
it cut off back. Renames are atomic and directory operations reach the disk in
order. `fsync` is the default mode.

## Findings and observations

`events_restart`: the sequence a restarted daemon goes on from is
that of the last snapshot. A client reads an event published after it, the daemon
dies and starts again, and the event's number is given to a new event. The client
resubscribes from its cursor, which is past that number, and gets neither the new
event nor a truncation, though `src/docs/management-api.md:236` says the missing
history is marked. `RestartIsTold` states that for a client that has read an event.

What follows was met while modelling. Each is in the models as the code has it,
and the properties say where they stop asking because of it.

- *Store*: a write that fails midway is cut back, and the cut is not synced
  (`state-store.js:876`). Where no record is pending, the next rotation's barrier
  syncs nothing (1054), the log goes aside as `.rot`, and a power loss before the
  snapshot brings the bytes back. `#consume` drops a torn last line only in the live
  log, so the start halts with `STATE_WAL_CORRUPT`, although no record is missing,
  against the comments at 876 and 1041 (a crash leaves "at most a torn last line,
  which replay drops"; "every crash point in here leaves one complete story"). The
  cut at 1055, behind the barrier that synced the torn bytes, leads to the same.
  Checking `RecoversWhatWasWritten` in `store_power` shows it; what that run checks is
  `RecoversWhatWasPromised`: this is the only halt, and the truncating start that its
  error asks for loses nothing.
- *Store*: after a kill, the next start goes on with records nobody synced. Its
  own marker is what makes the barriers behind it cover them; if that append
  fails, the start-up rotation renames an unsynced log to `.rot`, and a power loss
  then leaves a segment that misses a record the live log goes on from, which
  replay refuses. Adding `"openMarker"` to the faults of `store_power` shows it,
  against the comment at `state-store.js:1041`.
- *Store*: a directory sync that fails behind a new log leaves that log in use
  (the comment on `#replaceTornWal` says so): after a power loss
  `RecoversWhatWasPromised` asks only for what was answered for while the file's
  name was synced.
- *Tasks*: `createdAt` is `Date.now()`, which repeats and may step back, and ids are
  random, so a new handle may sort before a list cursor that was handed out and come
  in no later page, though the comment at `task-store.js:174` says new records always
  sort after it, "from a monotonic clock". Lists are not modelled.
- *Commit*: a result whose append landed and whose fsync failed is told as failed
  and replayed as completed (`gateway-service.js:4036`, against the comment at
  4046). `PromisesStand` therefore asks nothing of failures.
- *Commit*: a task cancelled while its session is restored, whose TTL then
  elapses, is no longer known as ended, and its prompt is sent
  (`gateway-service.js:2479`, against `src/docs/management-api.md:197`).
  `EndedIsNeverSent` asks until the TTL.
- *Commit*: when the rotation of a start fails, the Gateway serves what it
  recovered from records nobody synced, and a power loss can still take an outcome
  back that a reader then saw. The run leaves that failure (`"boot"`) out;
  `NotStartedIsTrue` holds with it.
- *Lock*: two Gateways can write one directory after a claim displaced a live
  lock; the abstract lock allows it, and `ConflictIsFound` says it ends.
- *Sessions*: `orphanCancelRequested` is never reset (`gateway-service.js:4792`),
  so only the first orphaning of a session cancels its worker, while
  `src/test_scinario.md` tells of the general case; `OrphanIsCancelled` has the
  flag in its premise. Pending rows survive the end of their turn when the worker
  never withdraws them; `WaitsAreAnswerable` asks of running turns and of sessions
  that are over.
- *Sessions*: `#providerExitLocked` clears the session's client without looking at
  which process ended (`gateway-service.js:1470`). The exit of an old process that
  is still in the mailbox when a prompt restores the session on a new one takes the
  session off that one: it goes on, unlisted, and what it asks Main comes from a
  process that is not the session's; such a row can be answered to nobody, while
  `src/docs/management-api.md:164` has every pending row answerable. It takes a
  third process to see, so `session` with two never does; the proof of
  `WaitsAreAnswerable` failed at this step, and an instance with `MaxConns = 3`
  has the behaviour. The property leaves out exactly these rows (`Strays`).
- *Event path*: a coalesced `tool_call_update` may overtake low-lane frames
  published before it.
- *Worker operations*: an approval survives into the next turn when the Gateway
  ended the turn itself, and a late reply of the old prompt deletes the grants of
  the new one; `terminal/kill` looks at `exitStatus`, not at whether the group is
  gone (`late` may hold "kill", and `GroupsAreEnded` asks only of teardowns); a
  terminal may start in a session cleared during the sandbox's await; the count of
  running requests is too low after a clear and a restore, never too high
  (`LimitsHold`); a refused write whose target vanished leaves an empty new file;
  a group id taken by others between two checks is not noticed.
- *Front door*: a result marked seen whose answer crosses an abort is not shown
  again; a read's reply that overtakes queued pushes can tell an older status for
  a moment, which `FollowerIsCurrent` allows until those are read.
- *Providers*: maintenance forgets a retired process before it awaits its end, so
  a shutdown meanwhile does not wait for it and leaves before its SIGKILL;
  `ProvidersAreKept` asks only that it was told to stop. A directory without
  `owner.json`, not written yet or removed already by a delete that failed or was
  cut short, is never reclaimed after a restart (and after a failed open not even
  before), though `gateway-service.js:1287` has passes reclaim what "a delete a
  restart forgot" left; `IsReclaimed` asks of marked copies and of deletes that failed in the
  daemon that is up. What a failed delete of a failed open or a
  death left behind is not in the budget until a pass finds it.

## Proofs

TLAPS proves, for every value of the constants:

- **SessionPathsProofs**, of the mailbox: `NothingIsStranded`, `LanesServedInOrder`,
  `ReserveIsKept`, `CloseIsFinal`. The inductive invariant adds to
  `NothingStranded` that each lane is ordered by admission and holds each command
  once, that the running command was admitted before everything left in its lane,
  and that the two lanes and the running command account for every outstanding
  command; order alone is not inductive, since taking the head needs to know the
  rest of the lane came after it. Assumes the two kinds of commands are disjoint
  and the limit positive. The order is `LanesInOrder`; SessionQueue's operators
  carry `Queue` in their name where EventStream has one of the same name, as one
  module proves about both.

  Of the event path: `StreamInvariant`, `NothingIsLostForGood` and
  `ControlEventsAreDelivered`, for every budget of the lanes, the stream, the ring
  and the replay, and any number of events, requests, drops and restarts. What the
  cursor passed being settled (`PassedOK`) is not inductive: it needs to know of
  every frame what must be heard before it. So the invariant (`IInv`) has, for the
  frames on their way in the order in which they will arrive (early ones, stream,
  normal lane, low lane), that before event n come all events below n that are not
  settled yet, or a gap marker at or below them, and every control event itself
  (`Heard`, `InOrder`, `Flow`); and, where the connection is subscribed, that the
  same holds for the event published next. `ChanOK` bounds the lanes, `RingOK` says
  that what left the ring is under a watermark or outdated, and `Connected` has the
  three stages of a subscription: asked for, answered but not awaited, live. In the
  second the events up to the replay's end count as settled (`UpTo`), since the
  reply is handled before the frames that overtook it. Each step is then one of a
  few moves of frames, proved about values, apart from the variables: a frame is
  appended, one is replaced by a gap marker (`Absorbs`, `Wider`: whatever was told
  before is told still), a LOW frame is retracted before a NORMAL one overtakes it,
  the head of a sequence is delivered, the lanes are pumped into the stream in their
  order (`DrainKeeps`), a replay covers what lies between its cursor and its end
  (`AnswersWith`, `Replayed`). `retractOvertaken` is what the order of the lanes
  rests on: without it the step that writes a control event breaks `InOrder` for the
  low lane.

  These three assume `Lossy = FALSE`: a restart brings back the session as it was
  published. With `Lossy = TRUE` (a Gateway killed before its snapshot timer)
  sequence numbers are given out again and no such theorem holds; that is the run
  `events_restart`.
- **TaskStoreProofs**: `TaskTypes`, `NoWakeupIsLost`, `AnsweredOutcomeStands`,
  `FirstTerminalWins`. The invariant is the conjunction of the properties
  themselves: an answer stands because it was given from a record that was not
  deferred, which the waits and the deferral discipline keep up together.
  `BudgetsAreKept` adds that the sets the budgets count are finite (`BudgetInv`):
  then whatever only takes away stays within them (`ShrinkKeepsBudgets`), and the
  two steps that add, a creation and a wait, count first; for a root's waiters,
  who are a union over its records, the wait adds one waiter to several sets at
  once.
- **TaskCommitProofs**: `TaskCommitTypes`, `NotStartedIsTrue` and
  `EndedSendsNothing`. The invariant
  `DispatchInv` says that while a prompt is still to be sent no image of the task,
  in memory or on any disk a power loss may leave, carries a verdict (`Early`);
  that once a stamp is synced every image that may come back has it (`Stamping`);
  and that from the send on all images stay stamped or ended without
  `not_started` (`Stamped`). It holds for any number of failures and stops,
  including the start-up failure `commit` leaves out. `Purposes` records
  which write may be under way in which phase of the command, and `Unborn` that
  there is nothing before the task.
  `EndedSendsNothing` rests on `ToldInv`: once a reader was told an outcome, no
  prompt is being sent and whatever is being prepared finds the task ended.
  `PromisesAreKept` is proved under the assumption that the rotation
  of a start does not fail (`"boot"` is not in `Faults`), as in `commit`.
  `PromisesStand` compares what readers were told with memory; what makes it
  inductive is what every image says that may come back: a task whose creation
  held is in all of them (`Found`), a task without an outcome has none in any of
  them (`Undecided`), a success or cancel that may be given to readers is in all
  of them (`Decided`), and one that was given stays there (`ToldKept`). The
  outcome on its way (`Committing`) ties the record being synced, and in snapshot
  mode the memory it is taken from, to the outcome readers get once it held.
- **StateDirectoryProofs**, the lock: `LockIsImplemented` (StateLock implements DirectoryLock
  under the refinement mapping), `OneGatewayWrites` (two processes write only
  after a claim displaced a live lock) and `LockIsSound`, the invariant behind
  both. While no claim has displaced a live lock (`Uncontested`), the file at the
  path belongs to at most one process from its creation to its removal, nobody
  who would claim it has judged that very file stale, and no holder finds it
  changed; nothing is said after a displacement but types, as the abstract lock
  says nothing then. Assumes finitely many file identities, at least one; a new file
  takes one that no file has, so the proof covers identities used again.

  The store: `StartsRecoverWhatWasPromised` and `StartsRecoverWhatWasWritten`, from
  `OneStoryOnDisk`, for any faults, deaths, power losses, operations and rotations,
  with the WAL on, off or switched. The first is what `store_power` checks, with
  failing writes and the cuts a power loss undoes: no record is missing, no start
  halts but on a segment that ends in such bytes, and a truncating start gets all of
  it. The second, without halts, holds for process deaths without restriction, and
  under power losses where no write of a record fails; the first observation on the
  store is why.
  The inductive invariant (`IInv`) has three parts. `Disk` says that every directory
  a power loss may leave is a `Story`: the snapshot, the rolled segment and the live
  log, read in that order, miss no record (`Chained`), damage is at the ends of the
  logs only (`LiveEnds`, `AsideEnds`), each record's operation is the
  one journaled under its number (`Tells`, `OneEach`), and what was answered for is
  in what a power loss leaves of it (`Held`), what reached a file in what a death
  leaves (`Kept`). `Holds` and `Covered` say of a store that is up that its memory is
  where the disk's records end, and that what it still has to sync is in the log it
  writes. `Place` says, step by step of a call, which names are there and which log
  is open: that is what lets `rotate` unlink the segment only behind the synced
  snapshot, and what `#replaceTornWal` rests on. What replay computes of a log is
  shown by the least record at which it could differ (`ReadDoes`). Where power is
  lost the invariant assumes that the marker a start appends succeeds (`"openMarker"`
  is not in `Faults`): without it the property is false, as the second observation on
  the store says. Both modules are extended by one module of proofs, since they keep
  one directory; the lock's `LockInit`, `LockNext`, `LockSpec`, `lockVars` and the like
  are named so for that.
- **ProviderPoolProofs**: `ProvidersKept` and `CopiesKept`. `ProcInv` adds to the
  property that a start under way has a process nobody has been given yet and
  that is in no other place of the pool (`StartIsNew`), that a request has no
  client outside the steps that need one (`OverIsFree`), and what a stopping or
  dead daemon holds (`DaemonEnds`): without them a stop of a failed start could
  hit somebody. `CopyInv` adds that a copy on disk, or listed by the pass in
  flight, belongs to a request past its early steps (`OnDiskIsPast`, `Listed`), so
  that when no open is under way what the pass meets without a session is over,
  although the list was read awaits ago.

  `CopiesWithinBudget` counts `Owned`, the copies a request or a session answers
  for, and not what `BudgetHolds` says is charged: a copy reclaimed from a dead
  daemon is charged again without anybody asking for room. `Accounted` says that
  nothing on disk escapes the count: a copy whose open is over is a session's or
  is being deleted.
- **SessionTurnProofs**: `NoSessionIsStranded`, `TasksFollowTheirTurns`,
  `CancelsAreHeard`, `WaitsHaveAnswers`, and the invariant behind them,
  `SessionTurnInvariant`, for any number of prompts, worker requests, processes and
  commands. What a property says of a session must be known of every command on
  its way to it, so most of `TurnInv` is about the mailbox: what each lane takes
  (`LanesOK`), that it closes with its session (`ClosedTogether`), that one command
  holds the reservation and found no turn (`OneHolder`, `ReservationOK`), that a
  request is announced once (`OneOfEach`), and that nothing is known yet of a
  prompt that has not gone out (`NumbersOK`, with `Fresh`). `StatusOK` is why no
  session is stranded: an active status has its end queued, the exit of its
  process queued, a close or restore running, or a prompt some living process
  still owes an answer to; `ProcessesOK` (one process is alive at most, and a dead
  one holds nothing) is what makes "some process" the session's. `TasksOK` ties an
  open task to a prompt in the mailbox or to the running turn, `AnswersOK` an end
  in the mailbox to what the worker said, `AsksOK` and `RowsOK` an inbox row to the
  process that holds the question. Assumes finitely many prompts, numbered from 1.
- **WorkerOpsProofs**: `OnlyTheApproved`, `EveryGroupIsEnded`, `WithinItsLimits`.
  `OpsInv` says of each approval, running request and thing done where it stands
  with respect to what Main was shown (`GrantAsShown`, `RunAsShown`,
  `DoneAsShown`), and that each place of what Main allowed is in an approval, with a
  request or done, and in no two of them (`SpentOnce`): that is why nothing is done
  twice for one yes. Whatever makes approvals fewer or smaller keeps this
  (`Narrower`). Main answers by id, so that one request has an id at a time
  (`OneUnderEachId`) is what makes the answer one to what was shown. The counts of
  handlers, questions and terminals are cardinalities of what is there; the count of
  running requests is at most the handlers', since a clear resets it while they go
  on. A group is sound on its own (`Sound`), whatever the other terminals do.
- **FrontDoorProofs**: `TheMainIsShown`, `NoWaitSleepsOnNews`, `OnlyTheSentIsSeen`,
  `TheIdleStayIdle`, from one invariant, `DoorInvariant`. What was `sent` grows only
  where the request's connection is still there, so `OnlyTheSentIsSeen` rests on what
  `Fits` says of a wait: one that answers, its abort looked at, still has its
  connection. Each request fits where
  the rest stands (`Fits`): what is served has a connection that speaks for its
  Main, a wait that lost its connection is aborted and awake, and one that sleeps
  is quiet (`Quiet`), which is stronger than the property: besides having no news
  it knows that the session is still its Main's. That holds because a session is
  only taken over from a Main that is not live, and a sleeping wait keeps its Main
  live. The registry is settled after each change (`RegistryFits`), and what a
  settled entry says is one lemma (`SettledSays`). `StillFits` is why a request
  that a step leaves alone stays where it is: connections that come and marks that
  are set take nothing from it. Assumes only that the ids of the tools' calls are
  not the follower's.

  `TheFollowerIsCurrent` needs an invariant of its own, `FollowerInvariant`
  (`FolInv`). `Fit` relates the follower, the frames on their way to it, its
  connection, the daemon's end of the subscription and where the task stands: the
  last push on its way says where the task stands (`LastPush`), and without one
  the last thing heard does, or a reply that will be heard (`Heard`); one read is
  out at a time, and one subscribe, so no older reply comes after a newer one
  (`ReadFits`, `SubFits`); nothing on its way claims an end that did not happen
  (`Honest`). The rest says that nothing was followed before the tool's call that
  created the task is read, and that one call did. Its lemmas are of two kinds:
  what each move of the daemon or the follower does to `Fit` (`FitPush`,
  `FitReply`, `FitReads`, `FitGoesOn`, ...), about values, and one per action that
  says which of them it is (`ChangesFollows`, `AnswersFollow`, ...).

Four theorems or groups of them state a hypothesis on the constants:

- `OneStoryOnDisk` and `StartsRecoverWhatWasPromised`: where power is lost, the marker
  that a start appends does not fail (`"openMarker" \notin Faults`), as in
  `store_power`;
- `StartsRecoverWhatWasWritten`: that, and where power is lost no write of a record
  fails (`"write" \notin Faults`); `store_kill` loses no power;
- `PromisesAreKept`: the rotation of a start does not fail (`"boot" \notin Faults`), as
  in `commit`;
- the three theorems about the event path: `Lossy = FALSE`, as in `events`.

Each is there because TLC finds the property violated without it. Apart from these
the proofs use no assumption on a constant that the modules do not state, and TLC
evaluates each of those. An induction over a finite set is first-order here: a
nonempty set of subsets of it has a minimal element (`MinimalSet` in
SessionTurnProofs), which is how a lemma about an enumeration in order
(`InOrderEnumerates`) is proved. So is one over the length of a sequence: of the
lengths at which a fold goes wrong one is the least (`LeastOf` in FrontDoorProofs),
which gives both that the recursive function of `OnEvents` exists (`OnEventsUnfolds`)
and what it computes (`OnEventsDoes`).

`LeastOf` in SessionPathsProofs serves the filters and loops of the event path in the
same way (`OnlyUnfolds`, `OnlyDoes`, ...).

Every invariant and action property the passing runs check is stated by a theorem. Only
model-checked: all liveness (fairness and ENABLED are outside the prover), among it
`ReservationEnds`, `OrphanIsCancelled` and `FollowedToTheEnd`; and the event path
across a restart that loses events.

## Not modelled

- StateStore: cold starts and snapshot drop (`truncate` is there for a start behind
  one that halted), v4 migration, quarantine, the strict and off fsync modes.
  TaskStore: messages, links, polling intervals, cursors. TaskCommit: `input_required`,
  result artifacts and previews, records written before 1.7.2, several tasks on
  one session, a start-up failure other than the rotation's.
- SessionTurn: pinned sessions, steering, adoption, the await for a workspace's
  removal, shutdown, a second restore joined by an explicit one (`_restoring` with
  `if`, `gateway-service.js:1478`), ids a worker reuses (WorkerOps has them).
- WorkerOps: more than one session, byte budgets, `terminal/output` and
  `wait_for_exit`, the protected-inode check, tokenising of commands, the by-path
  fallback of a terminal's directory. EventStream: several sessions, records or
  connections, the older kind of subscriber, timeouts of single calls, autostart,
  early buffers of more than 1000 events (not reachable with these lanes).
- FrontDoor: poll, run's own wait, management and observer clients, timeouts of a
  subscribe, verdicts of several Mains. A terminal status is one value.
- ProviderPool: several providers, keys or roots; session counts of
  `withSessionAdmission`; sizes of copies (each weighs one); the awaits of a close,
  which are SessionTurn's; copies made before 1.8.0, marked at a start.
- The components marked `not_modelled` in `PROJECT.json`: installation, updates,
  settings and artifacts are sequential I/O around the core, and attention cursors
  and caller lookups are pure.

## Plan

1. **DurableLog**, the abstract promise of the store (a set of promised
   operations that survives), refined by StateStore where the unsynced segment and
   the unsynced name are excluded, and used by TaskCommit.
2. What the event path still promises across a restart that loses events, as a
   property weaker than `NothingLostForGood`.
3. **TaskList**: pages of a list over a clock that repeats or steps back.
4. Pinned sessions, steering and shutdown in SessionTurn; StateStore's recovery
   modes, cold start and migration; artifacts.
