----------------------------- MODULE StateStore -----------------------------
(***************************************************************************)
(* The durable state of the Gateway (src/src/state-store.js): a snapshot   *)
(* file, a live write-ahead log and, while a rotation is under way, the    *)
(* segment rolled aside (.rot).  The store is synchronous JavaScript, so   *)
(* nothing of the Gateway runs between two file operations of one call;    *)
(* what does come in between is the death of the process, or of the        *)
(* machine.  One action is one file operation: every action leaves a disk  *)
(* that the next start may have to read.                                   *)
(*                                                                         *)
(* An operation (a task created, a result committed, ...) is a number.     *)
(* The state is the set of the operations applied to it; what an operation *)
(* does to a task or a session is the business of the other modules.       *)
(* Operation 0 is the wal.opened marker, which changes no state.           *)
(*                                                                         *)
(* File system assumptions.  A process death loses nothing a write call    *)
(* returned for.  A power loss keeps every byte an fsync covered, of an    *)
(* unsynced log a prefix and perhaps part of the next record, and of the   *)
(* directory any state it had since its last sync (renames are atomic and  *)
(* directory operations reach the disk in order).  An ftruncate is undone  *)
(* by one until an fsync of that file, whatever else was synced meanwhile. *)
(***************************************************************************)
EXTENDS Integers, Sequences, FiniteSets, SequencesExt

CONSTANTS
  WalModes,      \* the values ACP_GATEWAY_WAL may have at a start: TRUE is on
  Faults,        \* which file operations may fail (FaultKinds)
  Crashes,       \* how a Gateway may die: "kill", "power"
  MaxOps,        \* bound: operations appended in a behaviour
  MaxFaults,     \* bound: file operations that fail
  MaxStops,      \* bound: times the Gateway stops, by a death or by close()
  MaxRotations   \* bound: rotations of a log that still takes records

FaultKinds == {"write", "openMarker", "cut", "fsync", "snapshot", "rename",
               "remove", "open", "dirsync"}

ASSUME StateStoreAssumption ==
  /\ WalModes \subseteq BOOLEAN /\ WalModes # {}
  /\ Faults \subseteq FaultKinds
  /\ Crashes \subseteq {"kill", "power"}
  /\ MaxOps \in Nat /\ MaxFaults \in Nat /\ MaxStops \in Nat /\ MaxRotations \in Nat

VARIABLES
  pc,       \* the next file operation of the call under way; "idle" between calls
  call,     \* ret: where writeSnapshot returns to; job: rotate() or #replaceTornWal(); closing: close() is under way
  store,    \* the private fields of the StateStore, and the state its snapshotProvider returns (mem)
  dir,      \* what the names in the state directory stand for
  maybe,    \* the directories a power loss may leave
  logs,     \* every log file made so far; the directory names one by its index, 0 is no file
  written,  \* ghost: operations that reached a file under one of the store's names
  durable,  \* ghost: operations answered for by a call that returned, while the file's name was synced
  history,  \* ghost: the records of the log, by seq
  nextOp,   \* the next operation a caller journals
  used      \* the bounds spent

vars == <<pc, call, store, dir, maybe, logs, written, durable, history, nextOp, used>>

disk == <<dir, maybe, logs>>
ghosts == <<written, durable, history>>

NoSnapshot == [here |-> FALSE, walSeq |-> 0, body |-> {}]
\* damage is what follows the whole records of a log: nothing; the bytes of part
\* of a record; those bytes, cut off by an ftruncate that is not synced, which a
\* reader does not see and a power loss may bring back; or more records behind them.
EmptyLog == [recs |-> <<>>, synced |-> 0, damage |-> "no"]

Steps == {"down", "halted", "idle", "boot_marker", "boot_rotate",
          "snap_barrier", "snap_rename", "snap_sync",
          "rot_barrier", "rot_cut", "rot_fold", "fold_remove", "rot_rename", "retire",
          "torn_remove_rot", "torn_remove_wal", "torn_sync",
          "open_wal", "marker", "sync_names", "exit"}

Init ==
  /\ pc = "down"
  /\ call = [ret |-> "idle", job |-> "rotate", closing |-> FALSE]
  /\ store = [wal |-> TRUE, mem |-> {}, seq |-> 0, fd |-> 0, torn |-> FALSE,
              pending |-> FALSE, dirty |-> FALSE]
  /\ dir = [snap |-> NoSnapshot, wal |-> 0, rot |-> 0]
  /\ maybe = {dir}
  /\ logs = <<>>
  /\ written = {} /\ durable = {} /\ history = {}
  /\ nextOp = 1
  /\ used = [faults |-> 0, stops |-> 0, rotations |-> 0]

-----------------------------------------------------------------------------
(* Helpers *)

\* A file operation of this kind fails.
Fault(kind) ==
  /\ kind \in Faults
  /\ used.faults < MaxFaults
  /\ used' = [used EXCEPT !.faults = @ + 1]

\* An exception out of a snapshot or a rotation ends in a catch: of
\* flushPersist, of #rotateState, of the gc tick, or of close().
AfterCall == IF call.closing THEN "exit" ELSE "idle"

\* A change of the directory that no sync has covered yet.  Where no power is
\* lost, only the directory as it is matters.
SetDir(d) ==
  /\ dir' = d
  /\ maybe' = IF "power" \in Crashes THEN maybe \cup {d} ELSE {d}

\* The index of a new log file: one past the others, or that of a file that no
\* name stands for any more, now or after a power loss.
NewLog ==
  LET named == UNION {{d.wal, d.rot} : d \in maybe}
  IN Min((1 .. Len(logs) + 1) \ named)

\* The logs with that file empty.
WithNewLog(ls) ==
  [id \in 1 .. (IF NewLog > Len(ls) THEN NewLog ELSE Len(ls)) |->
     IF id = NewLog THEN EmptyLog ELSE ls[id]]

\* What an ftruncate leaves of part of a record.  Where no power is lost, nothing.
CutOff == IF "power" \in Crashes THEN "cut" ELSE "no"

\* fsync of the log: everything in it now survives a power loss.
SyncLog(id) ==
  logs' = [logs EXCEPT ![id].synced = Len(logs[id].recs), ![id].damage = IF @ = "cut" THEN "no" ELSE @]

\* fsync of the directory (#syncDirectory).
SyncDir == maybe' = {dir}

\* A call that returned answers for these operations; held says whether the
\* name of the file they are in is synced as well.
Promise(ops, held) ==
  durable' = IF held THEN durable \cup ops ELSE durable

\* The operations journaled in a log.
OpsIn(id) == {logs[id].recs[i].op : i \in DOMAIN logs[id].recs} \ {0}

\* No power loss leaves a directory without the log.
LogNamed(id) == \A d \in maybe : id \in {d.wal, d.rot}

-----------------------------------------------------------------------------
(* append() *)

\* One record into the log, with the fields of the store as st.  A log that is
\* torn or not open refuses it; a failed write, of which part may have reached the
\* file, is cut back off it (#takeBack), and where that fails too the log takes no
\* more records.  A record that lands has no cut before it that could be undone
\* and leave it: a power loss takes it along (LeftOf).
WriteRecord(st, op, kind) ==
  \/ /\ ~st.wal \/ st.torn \/ st.fd = 0
     /\ store' = st
     /\ UNCHANGED <<logs, history, written, used>>
  \/ /\ st.wal /\ ~st.torn /\ st.fd # 0
     /\ \/ /\ store' = [st EXCEPT !.seq = @ + 1, !.pending = TRUE]
           /\ logs' = [logs EXCEPT ![st.fd].recs = Append(@, [seq |-> st.seq + 1, op |-> op]),
                                   ![st.fd].damage = IF @ \in {"no", "cut"} THEN "no" ELSE "middle"]
           /\ history' = history \cup {[seq |-> st.seq + 1, op |-> op]}
           /\ written' = written \cup ({op} \ {0})
           /\ UNCHANGED used
        \/ /\ Fault(kind)
           /\ store' = st
           /\ \E damage \in {logs[st.fd].damage, CutOff} : logs' = [logs EXCEPT ![st.fd].damage = damage]
           /\ UNCHANGED <<history, written>>
        \/ /\ kind \in Faults /\ Fault("cut")
           /\ store' = [st EXCEPT !.torn = TRUE]
           /\ \E damage \in {logs[st.fd].damage, "tail"} : logs' = [logs EXCEPT ![st.fd].damage = damage]
           /\ UNCHANGED <<history, written>>

\* A caller has changed the state in memory and journals the change.
AppendRecord ==
  /\ pc = "idle" /\ nextOp <= MaxOps
  /\ nextOp' = nextOp + 1
  /\ WriteRecord([store EXCEPT !.mem = @ \cup {nextOp}, !.dirty = TRUE], nextOp, "write")
  /\ UNCHANGED <<pc, call, dir, maybe, durable>>

-----------------------------------------------------------------------------
(* barrier() *)

\* A barrier that takes the records for synced without the fsync.
LogBarrier_NoFsync(next) ==
  /\ store' = [store EXCEPT !.pending = FALSE]
  /\ IF store.wal /\ store.pending
       THEN Promise(OpsIn(store.fd), LogNamed(store.fd))
       ELSE UNCHANGED durable
  /\ pc' = next
  /\ UNCHANGED <<logs, used>>

\* The fsync of the pending records; next is the step after it.  Nothing to do
\* without any, or with the WAL off.
LogBarrier(next) ==
  \/ /\ ~(store.wal /\ store.pending)
     /\ pc' = next
     /\ UNCHANGED <<store, logs, durable, used>>
  \/ /\ store.wal /\ store.pending
     /\ SyncLog(store.fd)
     /\ store' = [store EXCEPT !.pending = FALSE]
     /\ Promise(OpsIn(store.fd), LogNamed(store.fd))
     /\ pc' = next
     /\ UNCHANGED used
  \/ /\ store.wal /\ store.pending
     /\ Fault("fsync")
     /\ pc' = AfterCall
     /\ UNCHANGED <<store, logs, durable>>

\* A caller's barrier, or the group commit's: with the WAL off it is a snapshot.
Barrier ==
  /\ pc = "idle"
  /\ IF store.wal
       THEN store.pending /\ LogBarrier("idle") /\ UNCHANGED call
       ELSE /\ store.dirty
            /\ pc' = "snap_barrier"
            /\ call' = [call EXCEPT !.ret = "idle"]
            /\ UNCHANGED <<store, logs, durable, used>>
  /\ UNCHANGED <<dir, maybe, written, history, nextOp>>

-----------------------------------------------------------------------------
(* writeSnapshot(): barrier, temporary file and its fsync, rename, directory sync *)

\* The debounced writer (persist()).
PersistSnapshot ==
  /\ pc = "idle" /\ store.dirty
  /\ pc' = "snap_barrier"
  /\ call' = [call EXCEPT !.ret = "idle"]
  /\ UNCHANGED <<store, disk, ghosts, nextOp, used>>

SnapBarrier ==
  /\ pc = "snap_barrier"
  /\ LogBarrier("snap_rename")
  /\ UNCHANGED <<call, dir, maybe, written, history, nextOp>>

\* The snapshot names the last seq it covers; synced before it gets its name.
SnapshotOf(st) == [here |-> TRUE, walSeq |-> st.seq, body |-> st.mem]

SnapRename ==
  /\ pc = "snap_rename"
  /\ \/ /\ SetDir([dir EXCEPT !.snap = SnapshotOf(store)])
        /\ written' = written \cup store.mem
        /\ pc' = "snap_sync"
        /\ UNCHANGED used
     \/ /\ Fault("snapshot")
        /\ pc' = AfterCall
        /\ UNCHANGED <<dir, maybe, written>>
  /\ UNCHANGED <<call, store, logs, durable, history, nextOp>>

SnapSync ==
  /\ pc = "snap_sync"
  /\ \/ /\ SyncDir
        /\ Promise(store.mem, TRUE)
        /\ store' = [store EXCEPT !.dirty = FALSE]
        /\ pc' = IF call.ret = "idle" THEN AfterCall ELSE call.ret
        /\ UNCHANGED used
     \/ /\ Fault("dirsync")
        /\ pc' = AfterCall
        /\ UNCHANGED <<maybe, durable, store>>
  /\ UNCHANGED <<call, dir, logs, written, history, nextOp>>

-----------------------------------------------------------------------------
(* rotate() *)

\* Without the clause for a log that is not open.
Due_OnlyTorn ==
  \/ store.torn
  \/ store.fd # 0 /\ used.rotations < MaxRotations

\* rotateIfNeeded(): at once for a log that takes no records, and when its
\* size, its record count or its age says so, which the model leaves open.
Due ==
  \/ store.torn \/ store.fd = 0
  \/ used.rotations < MaxRotations

StartRotate ==
  /\ pc = "idle" /\ store.wal /\ Due
  /\ pc' = "rot_barrier"
  /\ used' = IF store.torn \/ store.fd = 0 THEN used ELSE [used EXCEPT !.rotations = @ + 1]
  /\ UNCHANGED <<call, store, disk, ghosts, nextOp>>

RotBarrier ==
  /\ pc = "rot_barrier"
  /\ LogBarrier("rot_cut")
  /\ UNCHANGED <<call, dir, maybe, written, history, nextOp>>

\* A torn log is cut back to its whole records, unsynced (#cutTornTail); where that fails, or the log is
\* not open any more, it is replaced instead of rolled aside (#replaceTornWal).
RotCut ==
  /\ pc = "rot_cut"
  /\ \/ /\ ~store.torn
        /\ pc' = "rot_fold"
        /\ UNCHANGED <<call, store, logs, used>>
     \/ /\ store.torn /\ store.fd # 0
        /\ logs' = [logs EXCEPT ![store.fd].damage = IF @ = "tail" THEN CutOff ELSE @]
        /\ store' = [store EXCEPT !.torn = FALSE]
        /\ pc' = "rot_fold"
        /\ UNCHANGED <<call, used>>
     \/ /\ store.torn
        /\ \/ store.fd = 0 /\ UNCHANGED used
           \/ store.fd # 0 /\ Fault("cut")
        /\ pc' = "snap_barrier"
        /\ call' = [call EXCEPT !.ret = "torn_remove_rot"]
        /\ UNCHANGED <<store, logs>>
  /\ UNCHANGED <<dir, maybe, ghosts, nextOp>>

\* A segment an interrupted rotation left is folded into a snapshot first: the
\* rename that follows would overwrite it.
RotFold ==
  /\ pc = "rot_fold"
  /\ IF dir.rot # 0
       THEN pc' = "snap_barrier" /\ call' = [call EXCEPT !.ret = "fold_remove"]
       ELSE pc' = "rot_rename" /\ UNCHANGED call
  /\ UNCHANGED <<store, disk, ghosts, nextOp, used>>

\* removeFile() of a name; next is the step after it.
RemoveName(name, next) ==
  /\ \/ /\ SetDir([dir EXCEPT ![name] = 0])
        /\ pc' = next
        /\ UNCHANGED used
     \/ /\ dir[name] # 0
        /\ Fault("remove")
        /\ pc' = AfterCall
        /\ UNCHANGED <<dir, maybe>>
  /\ UNCHANGED <<call, logs, ghosts, nextOp>>

FoldRemove == pc = "fold_remove" /\ RemoveName("rot", "rot_rename") /\ UNCHANGED store

\* The log is closed and rolled aside.  A rename that fails reopens it, if the
\* reopening does not fail too; one that finds no log (an interrupted rotation's)
\* goes on.
RotRename ==
  /\ pc = "rot_rename"
  /\ \/ /\ SetDir(IF dir.wal = 0 THEN dir ELSE [dir EXCEPT !.rot = dir.wal, !.wal = 0])
        /\ store' = [store EXCEPT !.fd = 0]
        /\ pc' = "open_wal"
        /\ UNCHANGED used
     \/ /\ dir.wal # 0
        /\ Fault("rename")
        /\ \E fd \in {dir.wal} \cup (IF "open" \in Faults THEN {0} ELSE {}) :
             store' = [store EXCEPT !.fd = fd]
        /\ pc' = AfterCall
        /\ UNCHANGED <<dir, maybe>>
  /\ call' = [call EXCEPT !.job = "rotate"]
  /\ UNCHANGED <<logs, ghosts, nextOp>>

\* #openWal(), which makes the log where there is none.
OpenWal ==
  /\ pc = "open_wal"
  /\ \/ /\ IF dir.wal = 0
             THEN logs' = WithNewLog(logs) /\ SetDir([dir EXCEPT !.wal = NewLog])
             ELSE UNCHANGED disk
        /\ store' = [store EXCEPT !.fd = dir'.wal]
        /\ pc' = "marker"
        /\ UNCHANGED used
     \/ /\ Fault("open")
        /\ pc' = AfterCall
        /\ UNCHANGED <<store, disk>>
  /\ UNCHANGED <<call, ghosts, nextOp>>

\* #writeOpenedMarker(), an append like any other: a failure does not stop the caller.
Marker ==
  /\ pc = "marker"
  /\ pc' = "sync_names"
  /\ WriteRecord([store EXCEPT !.dirty = TRUE], 0, "write")
  /\ UNCHANGED <<call, dir, maybe, durable, nextOp>>

\* The segment retired first, then the snapshot that covers it.
SyncNames_RetireFirst ==
  /\ pc = "sync_names"
  /\ pc' = "snap_barrier"
  /\ call' = [call EXCEPT !.ret = "idle"]
  /\ SetDir([dir EXCEPT !.rot = 0])
  /\ UNCHANGED <<store, logs, ghosts, nextOp, used>>

\* The directory sync behind the new log's name, and in rotate() the rename's;
\* rotate() goes on to the snapshot that makes the segment redundant.
SyncNames ==
  /\ pc = "sync_names"
  /\ \/ /\ SyncDir
        /\ IF call.job = "rotate"
             THEN pc' = "snap_barrier" /\ call' = [call EXCEPT !.ret = "retire"]
             ELSE pc' = AfterCall /\ UNCHANGED call
        /\ UNCHANGED used
     \/ /\ Fault("dirsync")
        /\ pc' = AfterCall
        /\ UNCHANGED <<call, maybe>>
  /\ UNCHANGED <<store, dir, logs, ghosts, nextOp>>

\* Retired once the snapshot that covers it is synced.
Retire == pc = "retire" /\ RemoveName("rot", AfterCall) /\ UNCHANGED store

-----------------------------------------------------------------------------
(* #replaceTornWal(): a synced snapshot, then both logs go and a new one starts *)

TornRemoveRot ==
  /\ pc = "torn_remove_rot"
  /\ RemoveName("rot", "torn_remove_wal")
  /\ store' = [store EXCEPT !.fd = 0]

TornRemoveWal ==
  /\ pc = "torn_remove_wal"
  /\ RemoveName("wal", "torn_sync")
  /\ UNCHANGED store

TornSync ==
  /\ pc = "torn_sync"
  /\ \/ /\ SyncDir
        /\ store' = [store EXCEPT !.torn = FALSE]
        /\ call' = [call EXCEPT !.job = "replace"]
        /\ pc' = "open_wal"
        /\ UNCHANGED used
     \/ /\ Fault("dirsync")
        /\ pc' = AfterCall
        /\ UNCHANGED <<call, store, maybe>>
  /\ UNCHANGED <<dir, logs, ghosts, nextOp>>

-----------------------------------------------------------------------------
(* close(), deaths and open() *)

\* The daemon shuts down: one last rotation (a snapshot with the WAL off).
Close ==
  /\ pc = "idle" /\ used.stops < MaxStops
  /\ pc' = IF store.wal THEN "rot_barrier" ELSE "snap_barrier"
  /\ call' = [call EXCEPT !.ret = "idle", !.closing = TRUE]
  /\ used' = [used EXCEPT !.stops = @ + 1]
  /\ UNCHANGED <<store, disk, ghosts, nextOp>>

Exit ==
  /\ pc = "exit"
  /\ pc' = "down"
  /\ UNCHANGED <<call, store, disk, ghosts, nextOp, used>>

Up == pc \notin {"down", "halted"}

\* The process dies (kill -9), perhaps part way through the write of a record.
Kill ==
  /\ "kill" \in Crashes /\ used.stops < MaxStops /\ Up
  /\ used' = [used EXCEPT !.stops = @ + 1]
  /\ \/ UNCHANGED logs
     \/ /\ pc \in {"idle", "boot_marker", "marker"}
        /\ store.fd # 0 /\ ~store.torn
        /\ logs' = [logs EXCEPT ![store.fd].damage = "tail"]
  /\ pc' = "down"
  /\ UNCHANGED <<call, store, dir, maybe, ghosts, nextOp>>

\* What a power loss may leave of a log file: its synced records and some of the
\* others, then perhaps part of a record, unless nothing but the whole records
\* was ever there since the last fsync.
LeftOf(id) ==
  IF id = 0 THEN {EmptyLog}
  ELSE LET log == logs[id]
           whole == Len(log.recs)
       IN {[recs |-> SubSeq(log.recs, 1, kept), synced |-> kept, damage |-> damage] :
             kept \in log.synced .. whole, damage \in {"no", "tail"}}
            \ (IF log.damage = "no" THEN {[log EXCEPT !.synced = whole, !.damage = "tail"]} ELSE {})

PowerLoss ==
  /\ "power" \in Crashes /\ used.stops < MaxStops
  /\ used' = [used EXCEPT !.stops = @ + 1]
  /\ \E left \in maybe : \E live \in LeftOf(left.wal), rolled \in LeftOf(left.rot) :
       /\ dir' = left
       /\ maybe' = {left}
       /\ logs' = [id \in DOMAIN logs |-> CASE id = left.wal -> live
                                            [] id = left.rot -> rolled
                                            [] OTHER -> EmptyLog]
  /\ written' = durable
  /\ pc' = "down"
  /\ UNCHANGED <<call, store, durable, history, nextOp>>

\* One record of a log (#consume, #discontinuity): folded into the snapshot
\* already, seen already, the next one, or one that others are missing before.
ConsumeRecord(base, acc, record) ==
  CASE acc.halt # "no" -> acc
    [] acc.halt = "no" /\ record.seq <= base.walSeq ->
         [acc EXCEPT !.seq = IF record.seq > @ THEN record.seq ELSE @]
    [] acc.halt = "no" /\ record.seq > base.walSeq /\ record.seq <= acc.seq -> acc
    [] acc.halt = "no" /\ record.seq > base.walSeq /\ record.seq = acc.seq + 1 ->
         [acc EXCEPT !.seq = record.seq, !.mem = @ \cup ({record.op} \ {0})]
    [] OTHER -> [acc EXCEPT !.halt = IF acc.seq = 0 /\ ~base.here THEN "snapshot_missing" ELSE "gap"]

\* The records of a log, one after the other.
Read(base, acc, recs) ==
  LET after[n \in 0 .. Len(recs)] ==
        IF n = 0 THEN acc ELSE ConsumeRecord(base, after[n - 1], recs[n])
  IN after[Len(recs)]

\* One log file.  A damaged last record is dropped in the live one (final), as a
\* torn write, and in the segment only where the operator asks for it.
Consume(base, acc, id, drop) ==
  IF id = 0 THEN acc
  ELSE LET read == Read(base, acc, logs[id].recs)
       IN IF logs[id].damage = "middle" \/ (logs[id].damage = "tail" /\ ~drop)
            THEN [read EXCEPT !.halt = IF @ = "no" THEN "damaged" ELSE @]
            ELSE read

\* The state on disk (#recover): the snapshot and both logs replayed onto it.
\* truncate is ACP_GATEWAY_STATE_RECOVERY=truncate: replay stops in a log at the
\* damaged record instead of halting.
Recovered(truncate) ==
  LET base == dir.snap
      start == [mem |-> base.body, seq |-> base.walSeq, halt |-> "no"]
  IN Consume(base, Consume(base, start, dir.rot, truncate), dir.wal, TRUE)

\* open(): recovery, the torn tail of the live log cut off and the cut synced,
\* the log opened.  A state that cannot be read halts the start.
OpenWith(truncate) ==
  /\ \E wal \in WalModes :
       LET got == Recovered(truncate)
           repaired == IF dir.wal # 0 /\ logs[dir.wal].damage = "tail"
                         THEN [logs EXCEPT ![dir.wal].damage = "no",
                                           ![dir.wal].synced = Len(logs[dir.wal].recs)]
                         ELSE logs
       IN IF got.halt # "no"
            THEN /\ pc' = "halted"
                 /\ UNCHANGED <<store, dir, maybe, logs, history>>
            ELSE /\ IF wal /\ dir.wal = 0
                      THEN logs' = WithNewLog(repaired) /\ SetDir([dir EXCEPT !.wal = NewLog])
                      ELSE /\ logs' = repaired
                           /\ UNCHANGED <<dir, maybe>>
                 /\ store' = [wal |-> wal, mem |-> got.mem, seq |-> got.seq,
                              fd |-> IF wal THEN dir'.wal ELSE 0,
                              torn |-> FALSE, pending |-> FALSE, dirty |-> FALSE]
                 /\ history' = {record \in history : record.seq <= got.seq}
                 /\ pc' = "boot_marker"
  /\ call' = [call EXCEPT !.closing = FALSE]
  /\ UNCHANGED <<written, durable, nextOp, used>>

Open == pc = "down" /\ OpenWith(FALSE)

\* What the error of a halted start tells the operator to do.
OpenTruncating == pc = "halted" /\ OpenWith(TRUE)

\* The end of open(): the marker.
BootMarker ==
  /\ pc = "boot_marker"
  /\ pc' = "boot_rotate"
  /\ WriteRecord([store EXCEPT !.dirty = TRUE], 0, "openMarker")
  /\ UNCHANGED <<call, dir, maybe, durable, nextOp>>

\* init() rotates at once, behind the restart conversions.
BootRotate ==
  /\ pc = "boot_rotate"
  /\ pc' = IF store.wal THEN "rot_barrier" ELSE "snap_barrier"
  /\ call' = [call EXCEPT !.ret = "idle"]
  /\ UNCHANGED <<store, disk, ghosts, nextOp, used>>

-----------------------------------------------------------------------------
\* The file operations of the call under way.
Step ==
  \/ SnapBarrier \/ SnapRename \/ SnapSync
  \/ RotBarrier \/ RotCut \/ RotFold \/ FoldRemove \/ RotRename \/ Retire
  \/ TornRemoveRot \/ TornRemoveWal \/ TornSync
  \/ OpenWal \/ Marker \/ SyncNames \/ Exit
  \/ BootMarker \/ BootRotate

Next ==
  \/ AppendRecord \/ Barrier \/ PersistSnapshot \/ StartRotate \/ Close
  \/ Step
  \/ Kill \/ PowerLoss \/ Open \/ OpenTruncating

Spec == Init /\ [][Next]_vars

\* A call runs to its end, and the gc tick (runMaintenance) calls
\* rotateIfNeeded() for as long as the daemon runs.
FairSpec == Spec /\ WF_vars(Step) /\ WF_vars(StartRotate)

-----------------------------------------------------------------------------
(* Properties *)

Logs == [recs : Seq([seq : Nat \ {0}, op : Nat]), synced : Nat, damage : {"no", "tail", "cut", "middle"}]
Snapshots == [here : BOOLEAN, walSeq : Nat, body : SUBSET Nat]
Directories == [snap : Snapshots, wal : Nat, rot : Nat]

\* Types, with the file names and the open log among the logs that exist.
TypeOK ==
  /\ pc \in Steps
  /\ call \in [ret : Steps, job : {"rotate", "replace"}, closing : BOOLEAN]
  /\ store \in [wal : BOOLEAN, mem : SUBSET Nat, seq : Nat, fd : 0 .. Len(logs),
                torn : BOOLEAN, pending : BOOLEAN, dirty : BOOLEAN]
  /\ logs \in Seq(Logs)
  /\ maybe \subseteq Directories /\ dir \in maybe
  /\ \A d \in maybe : {d.wal, d.rot} \subseteq 0 .. Len(logs)
  /\ written \in SUBSET Nat /\ durable \in SUBSET Nat
  /\ history \subseteq [seq : Nat \ {0}, op : Nat]
  /\ nextOp \in Nat
  /\ used \in [faults : Nat, stops : Nat, rotations : Nat]

\* Replay never applies a record without those before it: every operation
\* journaled at or below the seq the store goes on from is in the state.
RecoversAPrefix ==
  \A record \in history : record.seq <= store.seq /\ record.op # 0 => record.op \in store.mem

\* The Gateway that is up holds every operation whose record or snapshot had
\* reached the file system (after a power loss, every operation that a barrier or
\* a synced snapshot had answered for), without a hole before the last.  A start
\* halts on one thing only, the bytes of a failed write at the end of the
\* segment, whose unsynced cut a power loss undid (#cutTornTail, #takeBack); and
\* told to truncate it reads the rest, and loses nothing by it.
RecoversWhatWasPromised ==
  /\ TypeOK
  /\ pc = "halted" => dir.rot # 0 /\ logs[dir.rot].damage = "tail" /\ Recovered(TRUE).halt = "no"
  /\ Up => written \subseteq store.mem /\ RecoversAPrefix

\* "Every crash point in here leaves one complete story on disk" (rotate()):
\* besides, whatever file operation a death came before, no start halts on the
\* state as damaged or incomplete.
RecoversWhatWasWritten == RecoversWhatWasPromised /\ pc # "halted"

\* A log that takes no records is replaced: torn or closed, it does not stay so
\* while the daemon runs, since every retry gets past rotate()'s barrier.
LogTakesRecordsAgain ==
  (Up /\ store.wal /\ (store.torn \/ store.fd = 0))
    ~> (~Up \/ (~store.torn /\ store.fd # 0))
=============================================================================
