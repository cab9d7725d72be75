-------------------------- MODULE TaskCommitProofs --------------------------
(***************************************************************************)
(* "not_started" is never said of a prompt that left, and what was         *)
(* promised of a task is kept, whatever operations fail, however often and *)
(* however the Gateway dies, with or without a WAL.                        *)
(***************************************************************************)
EXTENDS TaskCommit, TLAPS

\* An image that claims nothing false of a prompt that was sent.
Clean(image) ==
  /\ image.status = "working" => image.stamp
  /\ image.verdict # "not_started"

\* Before the task there is nothing.
Unborn ==
  ~born => /\ disk.power = {Gone} /\ mem = Gone /\ ~expired
           /\ prep = "none" /\ turn = "none" /\ ~sent
           /\ io.for \notin {"create", "stamp", "commit"} /\ io.at # "send"

\* A prompt still to be sent: its task comes from no restart, so no image of it
\* carries a verdict.
Early ==
  (prep # "none" \/ io.for \in {"create", "stamp"}) =>
    /\ ~sent /\ turn = "none"
    /\ mem.verdict = "none"
    /\ \A image \in disk.power : image.verdict = "none"
    /\ io.for = "commit" => io.out.verdict = "none"

\* Which write may be under way when.
Purposes ==
  /\ io.for = "stamp" \/ io.at = "send" => prep = "preparing"
  /\ io.at = "remove" \/ io.for = "create" => prep = "none"
  /\ (prep = "preparing" \/ (io.for = "create" /\ io.at # "remove")) /\ mem = Gone => expired
  /\ io.for = "commit" => io.out.verdict # "not_started"
  /\ io.at = "idle" => io.for = "none"
  /\ turn = "running" => sent
  /\ expired => mem = Gone

\* How far the stamp has got.
Stamping ==
  io.for = "stamp" =>
    /\ io.at = "sync" => \A image \in disk.heads : (image.status = "working" => image.stamp)
    /\ io.at = "append" /\ mode = "snapshot" /\ mem.status = "working" => mem.stamp
    /\ io.at = "rename" /\ mem.status = "working" => mem.stamp
    /\ io.at = "dirsync" /\ disk.now.status = "working" => disk.now.stamp

\* Once the prompt is about to leave, or has left, every image that may come
\* back says so.
Stamped ==
  (sent \/ io.at = "send") /\ ~expired =>
    Clean(mem) /\ \A image \in disk.power : Clean(image)

DispatchInv == TypeOK /\ Unborn /\ Early /\ Purposes /\ Stamping /\ Stamped

-----------------------------------------------------------------------------
(* Images *)

\* A record: an image that is not Gone.
Kept == [status : {"working"} \cup Terminal, stamp : BOOLEAN, verdict : Verdicts]

\* The images are Gone and the records.
LEMMA KeptFacts ==
  /\ \A image \in Images : image # Gone <=> image \in Kept
  /\ \A image \in Images : image # Gone <=> image.status # "gone"
  /\ \A image \in Kept : image.status # "gone" /\ image.stamp \in BOOLEAN /\ image.verdict \in Verdicts
PROOF
  <1>1. \A image \in Kept : image.status # "gone" /\ image.stamp \in BOOLEAN /\ image.verdict \in Verdicts
    BY DEF Kept, Terminal
  <1>2. Gone.status = "gone"
    BY DEF Gone
  <1> QED BY <1>1, <1>2 DEF Images, Kept

\* An image with another stamp.
LEMMA StampFacts ==
  ASSUME NEW image \in Images, image # Gone, NEW on \in BOOLEAN
  PROVE  /\ Stamp(image, on) \in Images /\ Stamp(image, on) # Gone
         /\ Stamp(image, on).status = image.status
         /\ Stamp(image, on).stamp = on
         /\ Stamp(image, on).verdict = image.verdict
PROOF
  <1>1. image \in Kept
    BY KeptFacts
  <1>2. /\ Stamp(image, on) \in Kept
        /\ Stamp(image, on).status = image.status
        /\ Stamp(image, on).stamp = on
        /\ Stamp(image, on).verdict = image.verdict
    BY <1>1 DEF Stamp, Kept
  <1> QED BY <1>2, KeptFacts DEF Images, Kept

\* An image that has ended.
LEMMA EndedFacts ==
  ASSUME NEW image \in Images, image # Gone, NEW status \in Terminal, NEW verdict \in Verdicts
  PROVE  /\ Ended(image, status, verdict) \in Images /\ Ended(image, status, verdict) # Gone
         /\ Ended(image, status, verdict).status = status
         /\ Ended(image, status, verdict).status # "working"
         /\ Ended(image, status, verdict).verdict = verdict
PROOF
  <1>1. image \in Kept
    BY KeptFacts
  <1>2. /\ Ended(image, status, verdict) \in Kept
        /\ Ended(image, status, verdict).status = status
        /\ Ended(image, status, verdict).verdict = verdict
    BY <1>1 DEF Ended, Kept
  <1>3. status # "working"
    BY DEF Terminal
  <1> QED BY <1>2, <1>3, KeptFacts DEF Images, Kept

\* Gone is an image that stays as it is.
LEMMA GoneFacts ==
  /\ Gone \in Images /\ Gone.status = "gone" /\ Gone.verdict = "none"
  /\ \A on : Stamp(Gone, on) = Gone
  /\ Minted \in Images /\ Minted.verdict = "none" /\ Minted # Gone
  /\ NoOutcome \in Outcomes /\ NoOutcome.verdict = "none"
PROOF
  <1>1. Gone \in Images /\ Gone.status = "gone" /\ Gone.verdict = "none"
    BY DEF Gone, Images
  <1>2. \A on : Stamp(Gone, on) = Gone
    BY DEF Stamp
  <1>3. Minted \in Images /\ Minted.verdict = "none" /\ Minted # Gone
    <2>1. Minted \in [status : {"working"} \cup Terminal, stamp : BOOLEAN, verdict : Verdicts]
      BY DEF Minted, Verdicts
    <2>2. Minted.verdict = "none" /\ Minted.status = "working"
      BY DEF Minted
    <2> QED BY <1>1, <2>1, <2>2 DEF Images
  <1>4. NoOutcome \in Outcomes /\ NoOutcome.verdict = "none"
    BY DEF NoOutcome, Outcome, Outcomes, Terminal, Verdicts
  <1> QED BY <1>1, <1>2, <1>3, <1>4

\* A stamp set or taken back leaves an image.
LEMMA StampTypes ==
  ASSUME NEW image \in Images, NEW on \in BOOLEAN
  PROVE  /\ Stamp(image, on) \in Images
         /\ Stamp(image, on) = Gone <=> image = Gone
         /\ Stamp(image, on).verdict = image.verdict
         /\ Stamp(image, on).status = image.status
PROOF
  <1>1. CASE image = Gone
    BY <1>1, GoneFacts
  <1>2. CASE image # Gone
    BY <1>2, StampFacts
  <1> QED BY <1>1, <1>2

-----------------------------------------------------------------------------
(* The disk *)

Disks == [now : Images, heads : SUBSET Images, power : SUBSET Images]

\* The disk's part of TypeOK.
DiskOK == disk \in Disks /\ disk.now \in disk.heads /\ disk.heads \subseteq disk.power

\* What replaying one record makes of an image.
LEMMA ApplyFacts ==
  ASSUME NEW image \in Images, NEW type, NEW out \in Outcomes
  PROVE  /\ Apply(image, type, out) \in Images
         /\ type = "stamp" => (Apply(image, type, out).status = "working" => Apply(image, type, out).stamp)
         /\ type \notin {"create", "stamp", "commit"} => Apply(image, type, out) = Gone
         /\ Clean(image) /\ type # "create" /\ (type = "commit" => out.verdict # "not_started")
              => Clean(Apply(image, type, out))
         /\ image.verdict = "none" /\ (type = "commit" => out.verdict = "none")
              => Apply(image, type, out).verdict = "none"
PROOF
  <1>1. CASE type = "create"
    BY <1>1 DEF Apply, Images, Gone, Minted, Clean, Verdicts, Terminal
  <1>2. CASE type = "stamp"
    <2>1. CASE image.status = "working"
      <3>1. Apply(image, type, out) = Stamp(image, TRUE) /\ image # Gone
        BY <1>2, <2>1, GoneFacts DEF Apply
      <3> QED BY <1>2, <3>1, StampFacts DEF Clean
    <2>2. CASE image.status # "working"
      BY <1>2, <2>2 DEF Apply
    <2> QED BY <2>1, <2>2
  <1>3. CASE type = "commit"
    <2>1. CASE image.status = "working"
      <3>1. Apply(image, type, out) = Ended(image, out.status, out.verdict) /\ image # Gone
        BY <1>3, <2>1, GoneFacts DEF Apply
      <3>2. out.status \in Terminal /\ out.verdict \in Verdicts /\ out.status # "working"
        BY DEF Outcomes, Terminal
      <3> QED BY <1>3, <3>1, <3>2, EndedFacts DEF Clean
    <2>2. CASE image.status # "working"
      BY <1>3, <2>2 DEF Apply
    <2> QED BY <2>1, <2>2
  <1>4. CASE type \notin {"create", "stamp", "commit"}
    BY <1>4 DEF Apply, Images, Gone, Clean
  <1> QED BY <1>1, <1>2, <1>3, <1>4

\* What appending a record does to the images that may come back.
LEMMA JournalFacts ==
  ASSUME DiskOK, NEW type, NEW out \in Outcomes, Journal(type, out)
  PROVE  /\ DiskOK'
         /\ type = "stamp" => \A image \in disk'.heads : (image.status = "working" => image.stamp)
         /\ type \notin {"create", "stamp", "commit"} => disk'.heads = {Gone}
         /\ (\A image \in disk.power : Clean(image)) /\ type # "create"
              /\ (type = "commit" => out.verdict # "not_started")
              => \A image \in disk'.power : Clean(image)
         /\ (\A image \in disk.power : image.verdict = "none") /\ (type = "commit" => out.verdict = "none")
              => \A image \in disk'.power : image.verdict = "none"
PROOF
  <1> DEFINE heads == {Apply(image, type, out) : image \in disk.heads}
  <1>1. /\ disk'.now = Apply(disk.now, type, out)
        /\ disk'.heads = heads
        /\ disk'.power = disk.power \cup heads
        /\ disk' = [now |-> disk'.now, heads |-> disk'.heads, power |-> disk'.power]
    BY DEF Journal
  <1>2. /\ disk.now \in Images /\ disk.now \in disk.heads
        /\ disk.heads \subseteq Images /\ disk.power \subseteq Images
        /\ disk.heads \subseteq disk.power
    BY DEF DiskOK, Disks
  <1>3. \A image \in disk.heads : image \in Images
    BY <1>2
  <1>4. heads \subseteq Images /\ Apply(disk.now, type, out) \in heads
    BY <1>2, <1>3, ApplyFacts
  <1>5. DiskOK'
    BY <1>1, <1>2, <1>4 DEF DiskOK, Disks
  <1>6. type = "stamp" => \A image \in disk'.heads : (image.status = "working" => image.stamp)
    BY <1>1, <1>3, ApplyFacts
  <1>7. type \notin {"create", "stamp", "commit"} => disk'.heads = {Gone}
    BY <1>1, <1>2, <1>3, ApplyFacts
  <1>8. ASSUME \A image \in disk.power : Clean(image), type # "create",
               type = "commit" => out.verdict # "not_started"
        PROVE  \A image \in disk'.power : Clean(image)
    BY <1>1, <1>2, <1>3, <1>8, ApplyFacts
  <1>9. ASSUME \A image \in disk.power : image.verdict = "none", type = "commit" => out.verdict = "none"
        PROVE  \A image \in disk'.power : image.verdict = "none"
    BY <1>1, <1>2, <1>3, <1>9, ApplyFacts
  <1> QED BY <1>5, <1>6, <1>7, <1>8, <1>9

-----------------------------------------------------------------------------
(* Types *)

\* The durable writes.
Writes == [at : {"idle", "append", "sync", "rename", "dirsync", "send", "remove"},
           for : {"none", "create", "stamp", "commit"} \cup Snapshots, out : Outcomes]

\* Everything but the disk.
LocalOK ==
  /\ mode \in Modes
  /\ phase \in {"up", "stopping", "down"}
  /\ io \in Writes
  /\ mem \in Images
  /\ prep \in {"none", "preparing", "failed"}
  /\ turn \in {"none", "running", "over"}
  /\ cancel \in {"none", "queued", "asked"}
  /\ {asked, healthy, born, expired, handed, sent} \subseteq BOOLEAN
  /\ told \subseteq Outcomes
  /\ used \in [faults : Nat, stops : Nat]

\* The two halves of the type invariant.
LEMMA TypeParts == TypeOK <=> LocalOK /\ DiskOK
PROOF BY DEF TypeOK, LocalOK, DiskOK, Disks, Writes

\* No write, and the ones that begin with no outcome.
LEMMA WriteFacts ==
  /\ Idle \in Writes /\ Idle.at = "idle" /\ Idle.for = "none"
  /\ \A at \in {"append", "sync", "rename", "send", "remove"},
       for \in {"none", "create", "stamp"} \cup Snapshots :
         /\ Chain(at, for, NoOutcome) \in Writes
         /\ Chain(at, for, NoOutcome).at = at
         /\ Chain(at, for, NoOutcome).for = for
PROOF BY GoneFacts DEF Idle, Chain, Writes

\* A removal nobody waits for: the images it may leave are the old ones and Gone.
LEMMA RemovedFacts ==
  ASSUME LocalOK, DiskOK, AppendRemoved
  PROVE  /\ DiskOK' /\ used' \in [faults : Nat, stops : Nat] /\ healthy' \in BOOLEAN
         /\ (\A image \in disk.power : Clean(image)) => \A image \in disk'.power : Clean(image)
         /\ (\A image \in disk.power : image.verdict = "none") => \A image \in disk'.power : image.verdict = "none"
         /\ disk'.heads \in {disk.heads, {Gone}}
PROOF
  <1>1. used \in [faults : Nat, stops : Nat] /\ healthy \in BOOLEAN
    BY DEF LocalOK
  <1>2. CASE mode = "wal" /\ Journal("remove", NoOutcome) /\ UNCHANGED <<used, healthy>>
    BY <1>1, <1>2, GoneFacts, JournalFacts
  <1>3. CASE Fault("append") /\ healthy' = FALSE /\ UNCHANGED disk
    <2>1. used' \in [faults : Nat, stops : Nat]
      BY <1>1, <1>3 DEF Fault
    <2> QED BY <1>3, <2>1 DEF DiskOK
  <1>4. CASE UNCHANGED <<disk, used, healthy>>
    BY <1>1, <1>4 DEF DiskOK
  <1> QED BY <1>2, <1>3, <1>4 DEF AppendRemoved

\* The outcomes the code commits.
LEMMA OutcomeFacts ==
  ASSUME NEW status \in Terminal, NEW verdict \in Verdicts
  PROVE  Outcome(status, verdict) \in Outcomes /\ Outcome(status, verdict).verdict = verdict
PROOF BY DEF Outcome, Outcomes

\* A commit begins on a record, and leaves a record.
LEMMA CommitTypes ==
  ASSUME LocalOK, mem.status = "working", NEW status \in Terminal, NEW verdict \in Verdicts,
         Commit(status, verdict)
  PROVE  /\ mem # Gone /\ mem' # Gone
         /\ mem' \in Images
         /\ mem' = mem \/ (mem'.status # "working" /\ mem'.verdict = verdict)
         /\ io' = Chain("append", "commit", Outcome(status, verdict))
         /\ io'.at = "append" /\ io'.for = "commit" /\ io'.out.verdict = verdict
         /\ io' \in [at : {"append"}, for : {"commit"}, out : Outcomes]
PROOF
  <1>1. mem \in Images /\ mem # Gone
    BY GoneFacts DEF LocalOK
  <1>2. /\ mem' # Gone /\ mem' \in Images
        /\ mem' = mem \/ (mem'.status # "working" /\ mem'.verdict = verdict)
    BY <1>1, EndedFacts DEF Commit
  <1>3. /\ io' = Chain("append", "commit", Outcome(status, verdict))
        /\ io'.at = "append" /\ io'.for = "commit" /\ io'.out = Outcome(status, verdict)
    BY DEF Commit, Chain
  <1>4. io' \in [at : {"append"}, for : {"commit"}, out : Outcomes]
    BY <1>3, OutcomeFacts DEF Chain
  <1> QED BY <1>1, <1>2, <1>3, <1>4, OutcomeFacts

\* What a durable write that held does to memory.
LEMMA HeldTypes ==
  ASSUME LocalOK, Held
  PROVE  /\ mem' \in Images
         /\ io' \in [at : {"idle", "send"}, for : {"none", "stamp"}, out : Outcomes]
         /\ prep' \in {"none", "preparing", "failed"}
         /\ phase' \in {"up", "stopping", "down"}
         /\ {handed', healthy'} \subseteq BOOLEAN
PROOF
  <1>1. mem \in Images /\ io.out.status \in Terminal /\ io.out.verdict \in Verdicts
        /\ phase \in {"up", "stopping", "down"} /\ prep \in {"none", "preparing", "failed"}
        /\ handed \in BOOLEAN
    BY DEF LocalOK, Outcomes, Writes
  <1>2. Idle \in [at : {"idle", "send"}, for : {"none", "stamp"}, out : Outcomes]
        /\ Chain("send", "stamp", NoOutcome) \in [at : {"idle", "send"}, for : {"none", "stamp"}, out : Outcomes]
    BY GoneFacts DEF Idle, Chain
  <1>3. CASE io.for = "create"
    BY <1>1, <1>2, <1>3 DEF Held, CreateHeld, StampHeld, CommitHeld, SnapshotHeld, Snapshots
  <1>4. CASE io.for = "stamp"
    <2>1. mem' = Stamp(mem, TRUE) /\ UNCHANGED <<phase, handed>> /\ healthy' = TRUE
          /\ io' \in {Idle, Chain("send", "stamp", NoOutcome)} /\ prep' \in {prep, "failed"}
      BY <1>4 DEF Held, CreateHeld, StampHeld, CommitHeld, SnapshotHeld, Snapshots
    <2>2. mem' \in Images
      BY <1>1, <2>1, StampTypes
    <2> QED BY <1>1, <1>2, <2>1, <2>2
  <1>5. CASE io.for = "commit"
    <2>1. mem' = (IF mem.status = "working" THEN Ended(mem, io.out.status, io.out.verdict) ELSE mem)
      BY <1>5 DEF Held, CreateHeld, StampHeld, CommitHeld, SnapshotHeld, Snapshots
    <2>2. mem.status = "working" => mem # Gone
      BY GoneFacts
    <2>3. mem' \in Images
      BY <1>1, <2>1, <2>2, EndedFacts
    <2> QED BY <1>1, <1>2, <1>5, <2>3 DEF Held, CreateHeld, StampHeld, CommitHeld, SnapshotHeld, Snapshots
  <1>6. CASE io.for \in Snapshots
    BY <1>1, <1>2, <1>6 DEF Held, CreateHeld, StampHeld, CommitHeld, SnapshotHeld, Snapshots
  <1> QED BY <1>3, <1>4, <1>5, <1>6 DEF Held, CreateHeld, StampHeld, CommitHeld, SnapshotHeld

\* What one that did not hold does to memory.
LEMMA FailedTypes ==
  ASSUME LocalOK, Failed
  PROVE  /\ mem' \in Images
         /\ io' \in [at : {"idle", "remove"}, for : {"none", "create"}, out : Outcomes]
         /\ prep' \in {"none", "preparing", "failed"}
         /\ phase' \in {"up", "stopping", "down"}
         /\ {handed', healthy'} \subseteq BOOLEAN
         /\ mem = Gone <=> mem' = Gone
         /\ mem'.verdict \in {mem.verdict, "none"}
PROOF
  <1>1. mem \in Images
        /\ phase \in {"up", "stopping", "down"} /\ prep \in {"none", "preparing", "failed"}
        /\ handed \in BOOLEAN
    BY DEF LocalOK
  <1>2. Idle \in [at : {"idle", "remove"}, for : {"none", "create"}, out : Outcomes]
        /\ Chain("remove", "create", NoOutcome) \in [at : {"idle", "remove"}, for : {"none", "create"}, out : Outcomes]
    BY GoneFacts DEF Idle, Chain
  <1>3. /\ mem' \in Images
        /\ mem = Gone <=> mem' = Gone
        /\ mem'.verdict \in {mem.verdict, "none"}
    <2>1. CASE io.for = "stamp" /\ mode = "snapshot"
      <3>1. mem' = Stamp(mem, FALSE)
        BY <2>1 DEF Failed
      <3>2. CASE mem = Gone
        BY <3>1, <3>2, GoneFacts
      <3>3. CASE mem # Gone
        BY <1>1, <3>1, <3>3, StampFacts
      <3> QED BY <3>2, <3>3
    <2>2. CASE io.for = "commit" /\ mem # Gone
      <3>1. mem' = Ended(mem, "failed", "none")
        BY <2>2 DEF Failed
      <3>2. "failed" \in Terminal /\ "none" \in Verdicts
        BY DEF Terminal, Verdicts
      <3> QED BY <1>1, <2>2, <3>1, <3>2, EndedFacts
    <2>3. CASE ~(io.for = "stamp" /\ mode = "snapshot") /\ ~(io.for = "commit" /\ mem # Gone)
      BY <1>1, <2>3 DEF Failed
    <2> QED BY <2>1, <2>2, <2>3
  <1> QED BY <1>1, <1>2, <1>3 DEF Failed

\* No step leaves the types.
LEMMA TypeStep == TypeOK /\ [Next]_vars => TypeOK'
PROOF
  <1> SUFFICES ASSUME LocalOK, DiskOK, [Next]_vars PROVE LocalOK' /\ DiskOK'
    BY DEF TypeOK, LocalOK, DiskOK, Disks, Writes
  <1> USE GoneFacts DEF files, life
  <1>1. /\ io.for \in {"none", "create", "stamp", "commit"} \cup Snapshots /\ io.out \in Outcomes
        /\ mem \in Images /\ disk \in Disks
        /\ \A image \in disk.power : image \in Images
    BY DEF LocalOK, DiskOK, Disks, Writes
  <1>2. CASE AppendStep
    BY <1>2, <1>1, JournalFacts, FailedTypes DEF LocalOK, DiskOK, AppendStep, Go, Fault, Writes
  <1>3. CASE SyncStep
    BY <1>3, <1>1, FailedTypes, HeldTypes DEF LocalOK, DiskOK, Disks, SyncStep, Go, Fault, IoFault, SyncLog, Writes
  <1>4. CASE RenameStep
    BY <1>4, <1>1, FailedTypes DEF LocalOK, DiskOK, Disks, RenameStep, Go, Fault, IoFault, PutSnapshot, Writes
  <1>5. CASE DirSyncStep
    <2>1. UNCHANGED <<mode, turn, cancel, asked, born, expired, sent, told>>
      BY <1>5 DEF DirSyncStep
    <2>2. CASE SyncDirectory /\ Held /\ UNCHANGED used
      <3>1. DiskOK'
        BY <1>1, <2>2 DEF DiskOK, Disks, SyncDirectory
      <3> QED BY <2>1, <2>2, <3>1, HeldTypes DEF LocalOK, Writes
    <2>3. CASE IoFault("dirsync") /\ Failed /\ UNCHANGED disk
      BY <2>1, <2>3, FailedTypes DEF LocalOK, DiskOK, Writes, Fault, IoFault
    <2> QED BY <1>5, <2>2, <2>3 DEF DirSyncStep
  <1>6. CASE RemoveStep
    BY <1>6, RemovedFacts, WriteFacts DEF LocalOK, DiskOK, RemoveStep
  <1>7. CASE SendStep
    <2>1. mem' \in Images /\ io' \in Writes
      BY <1>7, <1>1, StampTypes, WriteFacts DEF SendStep
    <2> QED BY <1>7, <2>1 DEF LocalOK, DiskOK, SendStep
  <1>8. CASE Create
    BY <1>8, WriteFacts DEF LocalOK, DiskOK, Create
  <1>9. CASE Start
    <2>1. mem' \in Images /\ io' \in Writes
      <3>1. mem' \in {mem, Stamp(mem, TRUE)} /\ io' \in {io, Chain("send", "none", NoOutcome), Chain("append", "stamp", NoOutcome)}
        BY <1>9 DEF Start, StampPromptDispatched
      <3>2. mem' \in Images
        BY <1>1, <3>1, StampTypes
      <3>3. io' \in Writes
        BY <3>1, WriteFacts DEF LocalOK
      <3> QED BY <3>2, <3>3
    <2> QED BY <1>9, <2>1 DEF LocalOK, DiskOK, Start
  <1>10. CASE StartFails
    BY <1>10 DEF LocalOK, DiskOK, StartFails
  <1>11. CASE StartFailed
    BY <1>11, CommitTypes, WriteFacts DEF LocalOK, DiskOK, Writes, StartFailed, Terminal, Verdicts
  <1>12. CASE FinishTurn
    BY <1>12, CommitTypes DEF LocalOK, DiskOK, Writes, FinishTurn, EndTurn, Terminal, Verdicts
  <1>13. CASE ProviderExit
    BY <1>13, CommitTypes DEF LocalOK, DiskOK, Writes, ProviderExit, EndTurn, Verdict, Terminal, Verdicts
  <1>14. CASE CancelUnsent
    BY <1>14, CommitTypes DEF LocalOK, DiskOK, Writes, CancelUnsent, Terminal, Verdicts
  <1>15. CASE CancelQueued
    BY <1>15 DEF LocalOK, DiskOK, CancelQueued
  <1>16. CASE CancelLocked
    BY <1>16 DEF LocalOK, DiskOK, CancelLocked
  <1>17. CASE CancelCommit
    BY <1>17, CommitTypes DEF LocalOK, DiskOK, Writes, CancelCommit, Terminal, Verdicts
  <1>18. CASE Deliver
    BY <1>18 DEF LocalOK, DiskOK, Deliver, Outcome, Outcomes, Images
  <1>19. CASE Expire
    BY <1>19, RemovedFacts DEF LocalOK, DiskOK, Expire
  <1>20. CASE Persist \/ Close
    BY <1>20, WriteFacts DEF LocalOK, DiskOK, Persist, Close, Snapshot, Snapshots
  <1>21. CASE Shutdown
    BY <1>21 DEF LocalOK, DiskOK, Shutdown
  <1>22. CASE Kill
    <2>1. used' \in [faults : Nat, stops : Nat]
      BY <1>22 DEF LocalOK, Kill, Stopped
    <2> QED BY <1>22, <2>1, WriteFacts DEF LocalOK, DiskOK, Kill, Stopped
  <1>23. CASE PowerLoss
    <2>1. LocalOK'
      <3>1. used' \in [faults : Nat, stops : Nat]
        BY <1>23 DEF LocalOK, PowerLoss, Stopped
      <3> QED BY <1>23, <3>1, WriteFacts DEF LocalOK, PowerLoss, Stopped
    <2>2. DiskOK'
      BY <1>23, <1>1 DEF DiskOK, Disks, PowerLoss
    <2> QED BY <2>1, <2>2
  <1>24. CASE Restart
    <2>1. disk.now \in Images
      BY DEF DiskOK, Disks
    <2>2. Recovered(disk.now) \in Images
      BY <2>1, EndedFacts DEF Recovered, Verdict, Terminal, Verdicts
    <2> QED BY <1>24, <2>2, WriteFacts DEF LocalOK, DiskOK, Restart, Snapshot, Snapshots
  <1>25. CASE UNCHANGED vars
    BY <1>25 DEF LocalOK, DiskOK, vars
  <1> QED
    BY <1>2, <1>3, <1>4, <1>5, <1>6, <1>7, <1>8, <1>9, <1>10, <1>11, <1>12, <1>13, <1>14, <1>15,
       <1>16, <1>17, <1>18, <1>19, <1>20, <1>21, <1>22, <1>23, <1>24, <1>25, Zenon DEF Next, Step

-----------------------------------------------------------------------------
(* The dispatch invariant *)

\* The invariant without its types.
DispatchParts == Unborn /\ Early /\ Purposes /\ Stamping /\ Stamped

\* A write that held keeps it, once the disk it leaves can only bring back what
\* it could before and, after a stamp, only what is stamped.
LEMMA HeldKeeps ==
  ASSUME LocalOK, DispatchParts, Held, LocalOK', DiskOK', io.at \in {"sync", "dirsync"},
         UNCHANGED <<mode, turn, born, expired, sent>>,
         disk'.power \subseteq disk.power,
         io.for = "stamp" => \A image \in disk'.power : (image.status = "working" => image.stamp),
         ~born => disk'.power = {Gone}
  PROVE  DispatchParts'
PROOF
  <1> USE GoneFacts, WriteFacts DEF DispatchParts
  <1>1. CASE io.for = "create"
    <2>1. io' = Idle /\ prep' = "preparing" /\ UNCHANGED mem
      BY <1>1 DEF Held, CreateHeld, StampHeld, CommitHeld, SnapshotHeld, Snapshots
    <2> QED BY <1>1, <2>1 DEF Unborn, Early, Purposes, Stamping, Stamped
  <1>2. CASE io.for = "stamp"
    <2>1. /\ \/ io' = Idle /\ prep' = "failed"
             \/ io' = Chain("send", "stamp", NoOutcome) /\ UNCHANGED prep
          /\ mem' = Stamp(mem, TRUE)
      BY <1>2 DEF Held, CreateHeld, StampHeld, CommitHeld, SnapshotHeld, Snapshots
    <2>2. mem' = Gone <=> mem = Gone
      BY <2>1, StampTypes DEF LocalOK
    <2>3. mem'.verdict = mem.verdict /\ mem'.status = mem.status
      BY <2>1, StampTypes DEF LocalOK
    <2>4. mem # Gone => mem'.stamp
      BY <2>1, StampFacts DEF LocalOK
    <2>5. Unborn' /\ Early' /\ Purposes' /\ Stamping'
      <3>1. \/ io'.at = "idle" /\ io'.for = "none" /\ prep' = "failed"
            \/ io'.at = "send" /\ io'.for = "stamp" /\ prep' = prep
        BY <2>1
      <3>2. Unborn' /\ Stamping'
        BY <1>2, <3>1 DEF Unborn, Stamping
      <3>3. Early'
        BY <1>2, <2>3, <3>1 DEF Early
      <3>4. Purposes'
        BY <1>2, <2>2, <3>1 DEF Purposes
      <3> QED BY <3>2, <3>3, <3>4
    <2>6. Stamped'
      <3>1. prep = "preparing" /\ ~expired => mem # Gone /\ mem'.stamp
        BY <2>4 DEF Purposes
      <3>2. prep = "preparing" /\ mem'.verdict = "none" /\ \A image \in disk'.power : image.verdict = "none"
        BY <1>2, <2>3 DEF Early, Purposes
      <3> QED BY <1>2, <3>1, <3>2 DEF Stamped, Clean
    <2> QED BY <2>5, <2>6
  <1>3. CASE io.for = "commit"
    <2>1. io' = Idle /\ UNCHANGED prep
          /\ mem' = (IF mem.status = "working" THEN Ended(mem, io.out.status, io.out.verdict) ELSE mem)
      BY <1>3 DEF Held, CreateHeld, StampHeld, CommitHeld, SnapshotHeld, Snapshots
    <2>2. mem' = mem \/ (mem # Gone /\ mem' # Gone /\ mem'.status # "working" /\ mem'.verdict = io.out.verdict)
      <3>1. mem \in Images /\ io.out.status \in Terminal /\ io.out.verdict \in Verdicts
        BY DEF LocalOK, Writes, Outcomes
      <3>2. mem.status = "working" => mem # Gone
        OBVIOUS
      <3> QED BY <2>1, <3>1, <3>2, EndedFacts
    <2> QED BY <1>3, <2>1, <2>2 DEF Unborn, Early, Purposes, Stamping, Stamped, Clean
  <1>4. CASE io.for \in Snapshots
    <2>1. io' = Idle /\ UNCHANGED <<prep, mem>>
      BY <1>4 DEF Held, CreateHeld, StampHeld, CommitHeld, SnapshotHeld, Snapshots
    <2> QED BY <1>4, <2>1 DEF Unborn, Early, Purposes, Stamping, Stamped, Snapshots
  <1> QED BY <1>1, <1>2, <1>3, <1>4 DEF Held, CreateHeld, StampHeld, CommitHeld, SnapshotHeld

\* One that did not hold keeps it too: the stamp is out of memory before anyone
\* can ask, and the prompt stays where it is.
LEMMA FailedKeeps ==
  ASSUME LocalOK, DispatchParts, Failed, LocalOK',
         io.at \in {"append", "sync", "rename", "dirsync"},
         UNCHANGED <<mode, disk, turn, born, expired, sent>>
  PROVE  DispatchParts'
PROOF
  <1> USE GoneFacts, WriteFacts DEF DispatchParts
  <1>1. /\ mem = Gone <=> mem' = Gone
        /\ mem'.verdict \in {mem.verdict, "none"}
    BY FailedTypes
  <1>2. CASE io.for = "create"
    <2>1. io' = Chain("remove", "create", NoOutcome) /\ UNCHANGED <<mem, prep>>
      BY <1>2 DEF Failed
    <2> QED BY <1>2, <2>1 DEF Unborn, Early, Purposes, Stamping, Stamped
  <1>3. CASE io.for = "stamp"
    <2>1. io' = Idle /\ prep' = "failed"
      BY <1>3 DEF Failed
    <2> QED BY <1>1, <1>3, <2>1 DEF Unborn, Early, Purposes, Stamping, Stamped
  <1>4. CASE io.for \notin {"create", "stamp"}
    <2>1. io' = Idle /\ UNCHANGED prep
      BY <1>4 DEF Failed
    <2>2. mem' = mem \/ (mem' = Ended(mem, "failed", "none") /\ mem # Gone)
      BY <1>4 DEF Failed
    <2>3. mem' = mem \/ mem'.status # "working"
      <3>1. mem \in Images /\ "failed" \in Terminal /\ "none" \in Verdicts
        BY DEF LocalOK, Terminal, Verdicts
      <3> QED BY <2>2, <3>1, EndedFacts
    <2> QED BY <1>1, <1>4, <2>1, <2>3 DEF Unborn, Early, Purposes, Stamping, Stamped, Clean
  <1> QED BY <1>2, <1>3, <1>4

\* A commit that begins keeps it.
LEMMA CommitKeeps ==
  ASSUME LocalOK, DispatchParts, io = Idle, mem.status = "working",
         NEW status \in Terminal, NEW verdict \in {"none", "unknown"}, Commit(status, verdict),
         prep' \in {prep, "none"}, turn' \in {turn, "over"},
         prep # "none" => verdict = "none" /\ turn' = turn,
         UNCHANGED <<mode, disk, born, expired, sent>>
  PROVE  DispatchParts'
PROOF
  <1>1. verdict \in Verdicts
    BY DEF Verdicts
  <1>2. /\ mem # Gone /\ mem' # Gone
        /\ mem' = mem \/ (mem'.status # "working" /\ mem'.verdict = verdict)
        /\ io'.at = "append" /\ io'.for = "commit" /\ io'.out.verdict = verdict
    BY <1>1, CommitTypes
  <1>3. Unborn' /\ Stamping'
    BY <1>2 DEF DispatchParts, Unborn, Stamping
  <1>4. Early'
    BY <1>2 DEF DispatchParts, Early
  <1>5. Purposes'
    BY <1>2, WriteFacts DEF DispatchParts, Early, Purposes
  <1>6. Stamped'
    BY <1>2, WriteFacts DEF DispatchParts, Stamped, Clean
  <1> QED BY <1>3, <1>4, <1>5, <1>6 DEF DispatchParts

\* The file operations keep it.
LEMMA WriteKeeps ==
  ASSUME LocalOK, DiskOK, DispatchParts, LocalOK', DiskOK',
         AppendStep \/ SyncStep \/ RenameStep \/ DirSyncStep
  PROVE  DispatchParts'
PROOF
  <1> USE DEF files, life
  <1>1. /\ io \in Writes /\ io.out \in Outcomes /\ mem \in Images
        /\ disk.now \in disk.heads /\ disk.heads \subseteq disk.power
        /\ (~born => disk.heads = {Gone} /\ disk.now = Gone)
    BY DEF LocalOK, DiskOK, DispatchParts, Unborn, Writes
  <1>2. UNCHANGED <<mode, turn, born, expired, sent>>
    BY DEF AppendStep, SyncStep, RenameStep, DirSyncStep
  <1>3. ASSUME NEW at, Go(at), at \in {"sync", "rename", "dirsync"}
        PROVE  io'.at = at /\ io'.for = io.for /\ io'.out = io.out /\ UNCHANGED <<mem, prep>>
    BY <1>1, <1>3 DEF Go, Writes
  <1>4. CASE AppendStep
    <2>1. CASE mode = "wal" /\ Journal(io.for, io.out) /\ Go("sync")
      <3>1. io'.at = "sync" /\ io'.for = io.for /\ io'.out = io.out /\ UNCHANGED <<mem, prep>>
        BY <1>3, <2>1
      <3>2. /\ io.for = "stamp" => \A image \in disk'.heads : (image.status = "working" => image.stamp)
            /\ ~sent \/ io.for # "create"
            /\ io.for = "commit" => io.out.verdict # "not_started"
        BY <1>1, <2>1, JournalFacts DEF DispatchParts, Early, Purposes
      <3>3. /\ (\A image \in disk.power : Clean(image)) /\ io.for # "create" => \A image \in disk'.power : Clean(image)
            /\ (\A image \in disk.power : image.verdict = "none") /\ (io.for = "commit" => io.out.verdict = "none")
                 => \A image \in disk'.power : image.verdict = "none"
            /\ io.for \notin {"create", "stamp", "commit"} => disk'.heads = {Gone}
        BY <1>1, <2>1, <3>2, JournalFacts
      <3>4. Unborn'
        <4>1. disk'.power = disk.power \cup disk'.heads
          BY <2>1 DEF Journal
        <4> QED BY <1>2, <3>1, <3>3, <4>1 DEF DispatchParts, Unborn
      <3>5. Early' /\ Purposes'
        BY <1>2, <1>4, <3>1, <3>3 DEF DispatchParts, Early, Purposes, AppendStep
      <3>6. Stamping' /\ Stamped'
        BY <1>2, <1>4, <3>1, <3>2, <3>3 DEF DispatchParts, Stamping, Stamped, AppendStep
      <3> QED BY <3>4, <3>5, <3>6 DEF DispatchParts
    <2>2. CASE Failed /\ UNCHANGED disk
      BY <1>2, <1>4, <2>2, FailedKeeps DEF AppendStep
    <2>3. CASE mode = "snapshot" /\ Go("rename") /\ UNCHANGED files
      <3>1. io'.at = "rename" /\ io'.for = io.for /\ io'.out = io.out /\ UNCHANGED <<mem, prep, disk>>
        BY <1>3, <2>3
      <3> QED BY <1>2, <1>4, <2>3, <3>1 DEF DispatchParts, Unborn, Early, Purposes, Stamping, Stamped, AppendStep
    <2> QED BY <1>4, <2>1, <2>2, <2>3 DEF AppendStep
  <1>5. CASE SyncStep
    <2>1. CASE SyncLog /\ io.for \in Snapshots /\ Go("rename")
      <3>1. io'.at = "rename" /\ io'.for = io.for /\ io'.out = io.out /\ UNCHANGED <<mem, prep>>
        BY <1>3, <2>1
      <3>2. disk'.power \subseteq disk.power /\ (~born => disk'.power = {Gone})
        BY <1>1, <2>1 DEF SyncLog, DiskOK, Disks
      <3>3. io.for \notin {"create", "stamp", "commit"}
        BY <2>1 DEF Snapshots
      <3> QED BY <1>2, <1>5, <3>1, <3>2, <3>3 DEF DispatchParts, Unborn, Early, Purposes, Stamping, Stamped, SyncStep
    <2>2. CASE SyncLog /\ Held
      <3>1. disk'.power = disk.heads
        BY <2>2 DEF SyncLog, DiskOK, Disks
      <3> QED BY <1>1, <1>2, <1>5, <2>2, <3>1, HeldKeeps DEF DispatchParts, Stamping, SyncStep
    <2>3. CASE Failed /\ UNCHANGED disk
      BY <1>2, <1>5, <2>3, FailedKeeps DEF SyncStep
    <2> QED BY <1>5, <2>1, <2>2, <2>3 DEF SyncStep
  <1>6. CASE RenameStep
    <2>1. CASE PutSnapshot /\ Go("dirsync")
      <3>1. io'.at = "dirsync" /\ io'.for = io.for /\ io'.out = io.out /\ UNCHANGED <<mem, prep>>
        BY <1>3, <2>1
      <3>2. disk'.power = disk.power \cup {mem} /\ disk'.now = mem
        BY <2>1 DEF PutSnapshot
      <3> QED BY <1>2, <1>6, <3>1, <3>2 DEF DispatchParts, Unborn, Early, Purposes, Stamping, Stamped, RenameStep
    <2>2. CASE Failed /\ UNCHANGED disk
      BY <1>2, <1>6, <2>2, FailedKeeps DEF RenameStep
    <2> QED BY <1>6, <2>1, <2>2 DEF RenameStep
  <1>7. CASE DirSyncStep
    <2>1. CASE SyncDirectory /\ Held
      <3>1. disk'.power = {disk.now}
        BY <2>1 DEF SyncDirectory, DiskOK, Disks
      <3> QED BY <1>1, <1>2, <1>7, <2>1, <3>1, HeldKeeps DEF DispatchParts, Stamping, DirSyncStep
    <2>2. CASE Failed /\ UNCHANGED disk
      BY <1>2, <1>7, <2>2, FailedKeeps DEF DirSyncStep
    <2> QED BY <1>7, <2>1, <2>2 DEF DirSyncStep
  <1> QED BY <1>4, <1>5, <1>6, <1>7

\* Every step keeps it.
LEMMA DispatchStep == DispatchInv /\ [Next]_vars => DispatchInv'
PROOF
  <1> SUFFICES ASSUME TypeOK, DispatchParts, [Next]_vars, TypeOK' PROVE DispatchParts'
    BY TypeStep DEF DispatchInv, DispatchParts
  <1> USE DEF files, life
  <1>1. LocalOK /\ DiskOK /\ LocalOK' /\ DiskOK'
    BY DEF TypeOK, LocalOK, DiskOK, Disks, Writes
  <1>2. /\ mem \in Images /\ (mem.status = "working" => mem # Gone)
        /\ (mem.status \in Terminal => mem # Gone) /\ Clean(Gone)
        /\ disk.now \in disk.heads /\ disk.heads \subseteq disk.power
    BY <1>1, GoneFacts DEF LocalOK, DiskOK, Terminal, Clean
  <1>3. Idle.at = "idle" /\ Idle.for = "none"
    BY WriteFacts
  <1>4. CASE AppendStep \/ SyncStep \/ RenameStep \/ DirSyncStep
    BY <1>1, <1>4, WriteKeeps
  <1>5. CASE RemoveStep
    <2>1. io' = Idle /\ mem' = Gone /\ UNCHANGED <<mode, prep, turn, born, expired, sent>> /\ prep = "none"
      BY <1>5 DEF RemoveStep, DispatchParts, Purposes
    <2>2. /\ ~born => disk'.power = {Gone}
          /\ (\A image \in disk.power : Clean(image)) => \A image \in disk'.power : Clean(image)
      BY <1>1, <1>5, RemovedFacts DEF RemoveStep, DispatchParts, Unborn
    <2> QED BY <1>2, <1>3, <2>1, <2>2 DEF DispatchParts, Unborn, Early, Purposes, Stamping, Stamped
  <1>6. CASE SendStep
    <2>1. prep = "preparing" /\ ~sent /\ mem.verdict = "none"
      BY <1>6 DEF SendStep, DispatchParts, Purposes, Early
    <2>2. CASE UNCHANGED mem /\ sent' = TRUE /\ prep' = "none" /\ turn' = "running"
      BY <1>3, <1>6, <2>1, <2>2 DEF SendStep, DispatchParts, Unborn, Early, Purposes, Stamping, Stamped
    <2>3. CASE prep' = "failed" /\ mem' = Stamp(mem, FALSE) /\ UNCHANGED <<sent, turn>>
      <3>1. (mem' = Gone <=> mem = Gone) /\ mem'.verdict = mem.verdict
        BY <1>2, <2>3, StampTypes
      <3> QED BY <1>3, <1>6, <2>1, <2>3, <3>1 DEF SendStep, DispatchParts, Unborn, Early, Purposes, Stamping, Stamped
    <2> QED BY <1>6, <2>2, <2>3 DEF SendStep
  <1>7. CASE Create
    <2>1. io'.at = "append" /\ io'.for = "create"
      BY <1>7, WriteFacts DEF Create
    <2> QED BY <1>3, <1>7, <2>1, GoneFacts DEF Create, DispatchParts, Unborn, Early, Purposes, Stamping, Stamped
  <1>8. CASE Start
    <2>1. prep = "preparing" /\ ~sent /\ mem.verdict = "none" /\ UNCHANGED <<mode, disk, turn, born, expired, sent>>
      BY <1>8 DEF Start, StampPromptDispatched, DispatchParts, Early
    <2>2. CASE mem.status \in Terminal /\ prep' = "none" /\ UNCHANGED <<io, mem>>
      BY <1>3, <1>8, <2>1, <2>2 DEF Start, StampPromptDispatched, Running, DispatchParts, Unborn, Early, Purposes, Stamping, Stamped
    <2>3. CASE mem = Gone /\ io' = Chain("send", "none", NoOutcome) /\ UNCHANGED <<mem, prep>>
      <3>1. io'.at = "send" /\ io'.for = "none"
        BY <2>3, WriteFacts
      <3> QED BY <2>1, <2>3, <3>1 DEF DispatchParts, Unborn, Early, Purposes, Stamping, Stamped
    <2>4. CASE /\ mem.status = "working" /\ io' = Chain("append", "stamp", NoOutcome)
               /\ mem' = (IF mode = "snapshot" THEN Stamp(mem, TRUE) ELSE mem) /\ UNCHANGED prep
      <3>1. io'.at = "append" /\ io'.for = "stamp"
        BY <2>4, WriteFacts
      <3>2. mem' # Gone /\ mem'.verdict = mem.verdict /\ (mode = "snapshot" => mem'.stamp)
        BY <1>2, <2>4, StampFacts
      <3> QED BY <1>2, <2>1, <2>4, <3>1, <3>2 DEF DispatchParts, Unborn, Early, Purposes, Stamping, Stamped
    <2> QED BY <1>8, <2>2, <2>3, <2>4 DEF Start, StampPromptDispatched
  <1>9. CASE StartFails
    BY <1>3, <1>9 DEF StartFails, Running, DispatchParts, Unborn, Early, Purposes, Stamping, Stamped
  <1>10. "failed" \in Terminal /\ "cancelled" \in Terminal /\ "completed" \in Terminal
    BY DEF Terminal
  <1>11. CASE StartFailed
    <2>1. io = Idle /\ prep' = "none" /\ UNCHANGED <<mode, disk, turn, born, expired, sent>>
      BY <1>11 DEF StartFailed, Running
    <2>2. CASE mem.status = "working" /\ Commit("failed", "none")
      BY <1>1, <1>10, <2>1, <2>2, CommitKeeps
    <2>3. CASE UNCHANGED <<io, mem>>
      BY <1>3, <2>1, <2>3 DEF DispatchParts, Unborn, Early, Purposes, Stamping, Stamped
    <2>4. CASE io' = Chain("remove", "none", NoOutcome) /\ UNCHANGED mem
      <3>1. io'.at = "remove" /\ io'.for = "none"
        BY <2>4, WriteFacts
      <3> QED BY <2>1, <2>4, <3>1 DEF DispatchParts, Unborn, Early, Purposes, Stamping, Stamped
    <2> QED BY <1>11, <2>2, <2>3, <2>4 DEF StartFailed
  <1>12. ASSUME NEW status \in Terminal, NEW verdict, turn = "running", io = Idle, EndTurn(status, verdict),
                mem.status = "working" => verdict \in {"none", "unknown"}
         PROVE  DispatchParts'
    <2>1. sent /\ prep = "none" /\ turn' = "over" /\ UNCHANGED <<mode, disk, prep, born, expired, sent>>
      BY <1>12, <1>1 DEF EndTurn, DispatchParts, Purposes, Early, LocalOK
    <2>2. CASE mem.status = "working" /\ Commit(status, verdict)
      BY <1>1, <1>12, <2>1, <2>2, CommitKeeps
    <2>3. CASE UNCHANGED <<io, mem>>
      BY <1>3, <1>12, <2>1, <2>3 DEF DispatchParts, Unborn, Early, Purposes, Stamping, Stamped
    <2> QED BY <1>12, <2>2, <2>3 DEF EndTurn
  <1>13. CASE FinishTurn
    <2>1. turn = "running" /\ io = Idle
      BY <1>13 DEF FinishTurn
    <2>2. PICK status \in Terminal : EndTurn(status, "none")
      BY <1>10, <1>13 DEF FinishTurn
    <2> QED BY <1>12, <2>1, <2>2
  <1>14. CASE ProviderExit
    <2>1. turn = "running" /\ io = Idle /\ EndTurn("failed", Verdict(mem))
      BY <1>14 DEF ProviderExit, Running
    <2>2. mem.status = "working" => Verdict(mem) = "unknown"
      BY <1>2, <2>1 DEF DispatchParts, Purposes, Stamped, Clean, Verdict
    <2> QED BY <1>10, <1>12, <2>1, <2>2
  <1>15. CASE CancelUnsent
    <2>1. io = Idle /\ mem.status = "working" /\ Commit("cancelled", "none")
          /\ UNCHANGED <<mode, disk, prep, turn, born, expired, sent>>
      BY <1>15 DEF CancelUnsent
    <2> QED BY <1>1, <1>10, <2>1, CommitKeeps
  <1>16. CASE CancelCommit
    <2>1. io = Idle /\ UNCHANGED <<mode, disk, prep, turn, born, expired, sent>>
      BY <1>16 DEF CancelCommit, Running
    <2>2. CASE mem.status = "working" /\ Commit("cancelled", "none")
      BY <1>1, <1>10, <2>1, <2>2, CommitKeeps
    <2>3. CASE UNCHANGED <<io, mem>>
      BY <2>1, <2>3 DEF DispatchParts, Unborn, Early, Purposes, Stamping, Stamped
    <2> QED BY <1>16, <2>2, <2>3 DEF CancelCommit
  <1>17. CASE CancelQueued \/ CancelLocked \/ Deliver \/ Shutdown \/ UNCHANGED vars
    <2>1. UNCHANGED <<mode, io, mem, disk, prep, turn, born, expired, sent>>
      BY <1>17 DEF CancelQueued, CancelLocked, Deliver, Shutdown, vars
    <2> QED BY <2>1 DEF DispatchParts, Unborn, Early, Purposes, Stamping, Stamped
  <1>18. CASE Expire
    <2>1. mem' = Gone /\ expired' /\ born /\ io.at \in {"idle", "sync", "rename"}
          /\ UNCHANGED <<mode, io, prep, turn, born, sent>>
      BY <1>18 DEF Expire
    <2>2. /\ (\A image \in disk.power : image.verdict = "none") => \A image \in disk'.power : image.verdict = "none"
          /\ disk'.heads \in {disk.heads, {Gone}}
      BY <1>1, <1>18, RemovedFacts DEF Expire
    <2> QED BY <2>1, <2>2, GoneFacts DEF DispatchParts, Unborn, Early, Purposes, Stamping, Stamped
  <1>19. CASE Persist \/ Close
    <2>1. io = Idle /\ UNCHANGED <<mode, mem, disk, prep, turn, born, expired, sent>>
      BY <1>19 DEF Persist, Close
    <2>2. io'.at \in {"sync", "rename"} /\ io'.for \in {"persist", "close"}
      BY <1>19, WriteFacts DEF Persist, Close, Snapshot, Snapshots
    <2> QED BY <1>3, <2>1, <2>2 DEF DispatchParts, Unborn, Early, Purposes, Stamping, Stamped
  <1>20. CASE Kill \/ PowerLoss
    <2>1. io' = Idle /\ mem' = Gone /\ prep' = "none" /\ turn' = "none" /\ UNCHANGED <<mode, born, expired, sent>>
      BY <1>20 DEF Kill, PowerLoss, Stopped
    <2>2. disk'.power \subseteq disk.power /\ (~born => disk'.power = {Gone})
      BY <1>20 DEF Kill, PowerLoss, DispatchParts, Unborn
    <2> QED BY <1>2, <1>3, <2>1, <2>2 DEF DispatchParts, Unborn, Early, Purposes, Stamping, Stamped
  <1>21. CASE Restart
    <2>1. prep' = "none" /\ turn' = "none" /\ UNCHANGED <<mode, disk, born, expired, sent>>
          /\ mem' = (IF expired THEN Gone ELSE Recovered(disk.now))
      BY <1>21 DEF Restart
    <2>2. io'.at \in {"sync", "rename"} /\ io'.for = "boot"
      BY <1>21, WriteFacts DEF Restart, Snapshot, Snapshots
    <2>3. Recovered(Gone) = Gone
      BY GoneFacts DEF Recovered
    <2>4. Clean(disk.now) => Clean(Recovered(disk.now))
      <3>1. disk.now \in Images /\ "unknown" \in Verdicts
        BY <1>1 DEF DiskOK, Disks, Verdicts
      <3>2. CASE disk.now.status = "working" /\ disk.now.stamp
        <4>1. Recovered(disk.now) = Ended(disk.now, "failed", "unknown") /\ disk.now # Gone
          BY <3>2, GoneFacts DEF Recovered, Verdict
        <4> QED BY <1>10, <3>1, <4>1, EndedFacts DEF Clean
      <3>3. CASE disk.now.status # "working"
        BY <3>3 DEF Recovered
      <3> QED BY <3>2, <3>3 DEF Clean
    <2> QED BY <1>2, <2>1, <2>2, <2>3, <2>4 DEF DispatchParts, Unborn, Early, Purposes, Stamping, Stamped
  <1> QED
    BY <1>4, <1>5, <1>6, <1>7, <1>8, <1>9, <1>11, <1>13, <1>14, <1>15, <1>16, <1>17, <1>18,
       <1>19, <1>20, <1>21, Zenon DEF Next, Step

\* It holds before anything happened.
LEMMA DispatchInit == Init => DispatchInv
PROOF
  <1> SUFFICES ASSUME Init PROVE DispatchInv
    OBVIOUS
  <1>1. TypeOK
    <2>1. mem \in Images /\ io \in Writes
      BY GoneFacts, WriteFacts DEF Init
    <2>2. disk \in Disks /\ disk.now \in disk.heads /\ disk.heads \subseteq disk.power
      BY GoneFacts DEF Init, Disks
    <2>3. used \in [faults : Nat, stops : Nat] /\ told \subseteq Outcomes
      BY DEF Init
    <2>4. {asked, healthy, born, expired, handed, sent} \subseteq BOOLEAN
      BY DEF Init
    <2> QED BY <2>1, <2>2, <2>3, <2>4 DEF Init, TypeOK, Writes, Disks
  <1>2. Unborn /\ Early /\ Purposes /\ Stamping /\ Stamped
    BY GoneFacts, WriteFacts DEF Init, Unborn, Early, Purposes, Stamping, Stamped, Snapshots
  <1> QED BY <1>1, <1>2 DEF DispatchInv

-----------------------------------------------------------------------------
(* Ended tasks *)

\* Once a reader was told an outcome no prompt is being sent, and what is being
\* prepared finds the task ended, until its TTL elapses.
ToldInv ==
  /\ ~born => told = {}
  /\ told # {} /\ ~expired => io.for \notin {"create", "stamp"} /\ io.at # "send"
  /\ told # {} /\ ~expired /\ prep # "none" => mem.status \in Terminal

\* The file operations keep it: what they compensate, they compensate with an
\* outcome.
LEMMA ToldWrites ==
  ASSUME TypeOK, ToldInv, AppendStep \/ SyncStep \/ RenameStep \/ DirSyncStep
  PROVE  ToldInv'
PROOF
  <1> USE DEF life, files
  <1>1. /\ io \in Writes /\ mem \in Images /\ io.out.status \in Terminal /\ io.out.verdict \in Verdicts
        /\ io.for \in {"none", "create", "stamp", "commit"} \cup Snapshots
        /\ UNCHANGED <<born, told, expired>>
    BY DEF TypeOK, Writes, Outcomes, AppendStep, SyncStep, RenameStep, DirSyncStep
  <1>2. CASE told = {} \/ expired
    BY <1>1, <1>2 DEF ToldInv
  <1>3. CASE told # {} /\ ~expired
    <2>1. io.for \in {"none", "commit"} \cup Snapshots
      BY <1>1, <1>3 DEF ToldInv
    <2>2. ASSUME NEW at \in {"sync", "rename", "dirsync"}, Go(at) PROVE ToldInv'
      <3>1. io'.at = at /\ io'.for = io.for /\ UNCHANGED <<mem, prep>>
        BY <1>1, <2>2 DEF Go, Writes
      <3> QED BY <1>1, <2>1, <3>1 DEF ToldInv, Snapshots
    <2>3. ASSUME UNCHANGED prep, io' = Idle,
                 mem' = mem \/ mem'.status \in Terminal
          PROVE  ToldInv'
      BY <1>1, <2>3, WriteFacts DEF ToldInv
    <2>4. CASE Held
      <3>1. io' = Idle /\ UNCHANGED prep
            /\ mem' \in {mem, IF mem.status = "working" THEN Ended(mem, io.out.status, io.out.verdict) ELSE mem}
        BY <2>1, <2>4 DEF Held, CreateHeld, StampHeld, CommitHeld, SnapshotHeld, Snapshots
      <3>2. mem.status = "working" => mem # Gone
        BY GoneFacts
      <3>3. mem' = mem \/ mem'.status \in Terminal
        BY <1>1, <3>1, <3>2, EndedFacts
      <3> QED BY <2>3, <3>1, <3>3
    <2>5. CASE Failed
      <3>1. io' = Idle /\ UNCHANGED prep
            /\ (mem' = mem \/ (mem' = Ended(mem, "failed", "none") /\ mem # Gone))
        BY <2>1, <2>5 DEF Failed, Snapshots
      <3>2. "failed" \in Terminal /\ "none" \in Verdicts
        BY DEF Terminal, Verdicts
      <3>3. mem' = mem \/ mem'.status \in Terminal
        BY <1>1, <3>1, <3>2, EndedFacts
      <3> QED BY <2>3, <3>1, <3>3
    <2> QED BY <2>2, <2>4, <2>5 DEF AppendStep, SyncStep, RenameStep, DirSyncStep
  <1> QED BY <1>2, <1>3

\* Every step keeps it: a live task no reader was told of is stamped and sent, one
\* that ended is left alone.
LEMMA ToldStep == DispatchInv /\ ToldInv /\ [Next]_vars => ToldInv'
PROOF
  <1> SUFFICES ASSUME DispatchInv, ToldInv, [Next]_vars PROVE ToldInv'
    OBVIOUS
  <1> USE DEF files, life
  <1>1. TypeOK /\ Unborn /\ Early /\ Purposes /\ {expired, born} \subseteq BOOLEAN
    BY DEF DispatchInv, TypeOK
  <1>2. Idle.at = "idle" /\ Idle.for = "none" /\ "working" \notin Terminal /\ Gone.status \notin Terminal
    BY WriteFacts, GoneFacts DEF Terminal
  <1>3. ASSUME NEW at \in {"append", "sync", "rename", "remove"}, NEW for \in {"none", "commit"} \cup Snapshots, NEW out,
               \/ io' = Chain(at, for, out)
               \/ io' = Idle
               \/ UNCHANGED io,
               UNCHANGED <<told, born, expired>>,
               prep' = "none" \/ (UNCHANGED prep /\ (UNCHANGED mem \/ prep = "none" \/ mem.status = "working"))
        PROVE  ToldInv'
    <2>1. UNCHANGED io \/ (io'.for \notin {"create", "stamp"} /\ io'.at # "send")
      BY <1>2, <1>3 DEF Chain, Snapshots
    <2> QED BY <1>2, <1>3, <2>1 DEF ToldInv
  <1>4. CASE AppendStep \/ SyncStep \/ RenameStep \/ DirSyncStep
    BY <1>1, <1>4, ToldWrites
  <1>5. CASE RemoveStep
    <2>1. prep = "none"
      BY <1>1, <1>5 DEF RemoveStep, Purposes
    <2> QED BY <1>3, <1>5, <2>1 DEF RemoveStep
  <1>6. CASE SendStep
    BY <1>1, <1>2, <1>6 DEF SendStep, ToldInv
  <1>7. CASE Create
    BY <1>7 DEF Create, ToldInv
  <1>8. CASE Start
    <2>1. prep = "preparing" /\ UNCHANGED <<told, born, expired>>
      BY <1>8 DEF Start
    <2>2. CASE mem.status \in Terminal
      <3>1. UNCHANGED io /\ prep' = "none"
        BY <1>2, <1>8, <2>2 DEF Start, StampPromptDispatched
      <3> QED BY <1>3, <2>1, <3>1
    <2>3. CASE mem.status \notin Terminal
      <3>1. told = {} \/ expired
        BY <2>1, <2>3 DEF ToldInv
      <3> QED BY <2>1, <3>1 DEF ToldInv
    <2> QED BY <2>2, <2>3
  <1>9. CASE StartFails
    BY <1>9 DEF StartFails, ToldInv
  <1>10. CASE StartFailed
    BY <1>3, <1>10 DEF StartFailed, Commit, Running
  <1>11. CASE FinishTurn \/ ProviderExit
    <2>1. turn = "running" /\ \E status, verdict : EndTurn(status, verdict)
      BY <1>11 DEF FinishTurn, ProviderExit
    <2>2. prep = "none"
      BY <1>1, <2>1 DEF Early, TypeOK
    <2> QED BY <1>3, <2>1, <2>2 DEF EndTurn, Commit
  <1>12. CASE CancelUnsent \/ CancelCommit
    BY <1>3, <1>12 DEF CancelUnsent, CancelCommit, Commit
  <1>13. CASE CancelQueued \/ CancelLocked \/ Shutdown \/ UNCHANGED vars
    BY <1>3, <1>13 DEF CancelQueued, CancelLocked, Shutdown, vars
  <1>14. CASE Deliver
    <2>1. mem.status \in Terminal /\ io = Idle /\ UNCHANGED <<io, mem, prep, born, expired>>
      BY <1>14 DEF Deliver, Running
    <2>2. born
      BY <1>1, <1>2, <2>1 DEF Unborn
    <2> QED BY <1>2, <2>1, <2>2 DEF ToldInv
  <1>15. CASE Expire
    BY <1>15 DEF Expire, ToldInv
  <1>16. CASE Persist \/ Close
    <2>1. \E at \in {"sync", "rename"}, for \in Snapshots : io' = Chain(at, for, NoOutcome)
      BY <1>16 DEF Persist, Close, Snapshot, Snapshots
    <2> QED BY <1>3, <1>16, <2>1 DEF Persist, Close
  <1>17. CASE Kill \/ PowerLoss
    BY <1>3, <1>17 DEF Kill, PowerLoss, Stopped
  <1>18. CASE Restart
    <2>1. \E at \in {"sync", "rename"}, for \in Snapshots : io' = Chain(at, for, NoOutcome)
      BY <1>18 DEF Restart, Snapshot, Snapshots
    <2> QED BY <1>3, <1>18, <2>1 DEF Restart
  <1> QED
    BY <1>4, <1>5, <1>6, <1>7, <1>8, <1>9, <1>10, <1>11, <1>12, <1>13, <1>14, <1>15, <1>16, <1>17, <1>18,
       Zenon DEF Next, Step

-----------------------------------------------------------------------------
(* Theorems *)

\* The dispatch invariant, which everything below follows from.
THEOREM DispatchInvariant == Spec => []DispatchInv
PROOF
  <1>1. Init => DispatchInv
    BY DispatchInit
  <1>2. DispatchInv /\ [Next]_vars => DispatchInv'
    BY DispatchStep
  <1> QED BY <1>1, <1>2, PTL DEF Spec

\* Every variable keeps its type, with or without a WAL: an outcome's verdict is
\* always on the closed list Main branches on (taskInterruption).
THEOREM TaskCommitTypes == Spec => []TypeOK
PROOF
  <1>1. DispatchInv => TypeOK
    BY DEF DispatchInv
  <1> QED BY <1>1, DispatchInvariant, PTL

\* No task whose prompt reached the worker is ever said not to have been started
\* (#stampPromptDispatched before sendPrompt, taskInterruption, recover), for any
\* number of failures, kills and power losses.
THEOREM NotStartedIsTrue == Spec => []NotStartedMeansUnsent
PROOF
  <1>1. DispatchInv => NotStartedMeansUnsent
    <2> SUFFICES ASSUME DispatchInv, mem.verdict = "not_started", sent PROVE FALSE
      BY DEF NotStartedMeansUnsent, DispatchInv, TypeOK
    <2>1. CASE expired
      BY <2>1, GoneFacts DEF DispatchInv, Purposes
    <2>2. CASE ~expired
      BY <2>2 DEF DispatchInv, Stamped, Clean
    <2> QED BY <2>1, <2>2
  <1> QED BY <1>1, DispatchInvariant, PTL

\* A task a reader was told has ended sends no prompt afterwards, until its TTL
\* elapses: not one whose session was being prepared, nor one whose stamp, cancel
\* or compensation failed, nor one a restart brought back (#taskEnded in
\* #promptLocked).
THEOREM EndedSendsNothing == Spec => EndedIsNeverSent
PROOF
  <1>1. Init => ToldInv
    BY DEF Init, ToldInv
  <1>2. DispatchInv /\ ToldInv /\ [Next]_vars => ToldInv'
    BY ToldStep
  <1>3. ToldInv /\ [Next]_vars => [told # {} /\ ~expired => sent' = sent]_vars
    <2> SUFFICES ASSUME ToldInv, Next, told # {}, ~expired PROVE sent' = sent
      BY DEF vars
    <2>1. ~SendStep
      BY DEF ToldInv, SendStep
    <2> QED
      BY <2>1, Zenon DEF Next, Step, life, AppendStep, SyncStep, RenameStep, DirSyncStep, RemoveStep, Create,
         Start, StartFails, StartFailed, FinishTurn, ProviderExit, EndTurn, CancelUnsent, CancelQueued, CancelLocked,
         CancelCommit, Deliver, Expire, Persist, Shutdown, Close, Kill, PowerLoss, Stopped, Restart
  <1> QED BY <1>1, <1>2, <1>3, DispatchInvariant, PTL DEF Spec, EndedIsNeverSent
----------------------------------------------------------------------------
(* What was promised of a task is kept: an outcome a reader was given, and
   the handle of a prompt that left or that the caller was given, through any
   number of failures, kills and power losses, with or without a WAL, as long as
   the rotation a start begins with does not fail. *)

Good == {"completed", "cancelled"}

\* Where a write begins and goes on; a process that is down writes nothing.
Orders ==
  /\ io.at = "append" => io.for \in {"create", "stamp", "commit"}
  /\ io.for = "commit" /\ io.at = "rename" => mode = "snapshot"
  /\ io.at = "send" => io.for \in {"none", "stamp"}
  /\ phase = "down" => io.at = "idle"

\* What the caller's handle and a cancel may meet.
Handles ==
  /\ ~born \/ io.for = "create" => cancel = "none"
  /\ cancel = "asked" => prep = "none"
  /\ ~born \/ io.for = "create" \/ io.at = "remove" => ~handed /\ ~sent
  /\ io.for = "commit" => prep = "none" \/ handed

\* While its caller has no handle, nothing ends the task but its removal.
Unheld == io.for = "create" \/ (prep # "none" /\ ~handed) => mem.status = "working"

\* Nobody is told of a task that has not ended.
Untold == mem.status = "working" \/ io.for = "commit" \/ io.at = "remove" => told = {}

\* A task whose creation held is in every image that may come back ...
Found ==
  phase # "down" /\ mem.status # "gone" /\ io.for \notin {"create", "boot"} =>
    \A image \in disk.power : image.status # "gone"

\* ... for as long as somebody may ask for it ...
HandleKept ==
  handed \/ sent =>
    /\ \A image \in disk.power : image.status # "gone"
    /\ phase # "down" => mem.status # "gone"

\* ... and gets there by its creation.
Creating ==
  io.for = "create" =>
    /\ io.at = "sync" => \A image \in disk.heads : image.status # "gone"
    /\ io.at = "dirsync" => disk.now.status # "gone"

\* A task that has not ended has not ended on any disk.
Undecided ==
  phase # "down" /\ mem.status = "working" /\ (io.for = "commit" => io.at = "append") =>
    \A image \in disk.power : image.status \in {"gone", "working"}

\* An outcome on its way.
Committing ==
  io.for = "commit" =>
    /\ mem.status = IF mode = "snapshot" THEN io.out.status ELSE "working"
    /\ io.at = "sync" => \A image \in disk.heads : image.status = io.out.status
    /\ io.at = "dirsync" => disk.now.status = io.out.status

\* A success or a cancel that readers may be given is in every image that may come
\* back.
Decided ==
  phase # "down" /\ mem.status \in Good /\ io.for \notin {"commit", "boot"} =>
    \A image \in disk.power : image.status = mem.status

\* One they were given is there for good.
ToldKept ==
  \A outcome \in told : outcome.status \in Good =>
    /\ \A image \in disk.power : image.status = outcome.status
    /\ phase # "down" => mem.status = outcome.status

\* The snapshot of a start is of what it recovered.
Booting == io.for = "boot" /\ io.at = "dirsync" => disk.now.status = mem.status

Promises ==
  /\ Unheld /\ Untold /\ Found /\ HandleKept /\ Creating /\ Undecided /\ Committing
  /\ Decided /\ ToldKept /\ Booting

PromiseInv == Orders /\ Handles /\ (~expired => Promises)

-----------------------------------------------------------------------------
(* Statuses *)

\* What is gone has no status but "gone".
LEMMA StatusFacts ==
  /\ \A image \in Images : image.status \in {"gone", "working"} \cup Terminal
  /\ \A image \in Images : image = Gone <=> image.status = "gone"
  /\ "gone" \notin Terminal /\ "working" \notin Terminal /\ Good \subseteq Terminal
  /\ "failed" \in Terminal \ Good /\ Terminal \subseteq Good \cup {"failed"}
PROOF
  <1>1. \A image \in Images : image = Gone <=> image.status = "gone"
    BY KeptFacts
  <1>2. \A image \in Images : image = Gone \/ image.status \in {"working"} \cup Terminal
    BY DEF Images
  <1> QED BY <1>1, <1>2, GoneFacts DEF Terminal, Good

\* What replaying a record makes of a status.
LEMMA ApplyStatus ==
  ASSUME NEW image \in Images, NEW out \in Outcomes
  PROVE  /\ Apply(image, "create", out).status = IF image.status = "gone" THEN "working" ELSE image.status
         /\ Apply(image, "stamp", out).status = image.status
         /\ Apply(image, "commit", out).status = IF image.status = "working" THEN out.status ELSE image.status
PROOF
  <1>1. out.status \in Terminal /\ out.verdict \in Verdicts
    BY DEF Outcomes
  <1>2. image = Gone <=> image.status = "gone"
    BY StatusFacts
  <1>3. Apply(image, "create", out).status = IF image.status = "gone" THEN "working" ELSE image.status
    BY <1>2 DEF Apply, Minted
  <1>4. Apply(image, "stamp", out).status = image.status
    BY StampTypes DEF Apply
  <1>5. Apply(image, "commit", out).status = IF image.status = "working" THEN out.status ELSE image.status
    BY <1>1, <1>2, EndedFacts DEF Apply
  <1> QED BY <1>3, <1>4, <1>5

\* A restart leaves an outcome as it is, and gives one to a task without.
LEMMA RecoveredStatus ==
  ASSUME NEW image \in Images
  PROVE  /\ Recovered(image).status # "working"
         /\ image.status # "working" => Recovered(image) = image
         /\ image.status # "gone" => Recovered(image).status # "gone"
PROOF
  <1>1. image.status = "working" => image # Gone
    BY GoneFacts
  <1>2. "failed" \in Terminal /\ Verdict(image) \in Verdicts
    BY DEF Terminal, Verdict, Verdicts
  <1> QED BY <1>1, <1>2, EndedFacts, StatusFacts DEF Recovered

-----------------------------------------------------------------------------
(* The order of things *)

LEMMA OrderWrites ==
  ASSUME TypeOK, Unborn, Early, Purposes, Orders, Handles,
         AppendStep \/ SyncStep \/ RenameStep \/ DirSyncStep
  PROVE  Orders' /\ Handles'
PROOF
  <1> USE DEF life, files
  <1>1. /\ io \in Writes /\ UNCHANGED <<mode, born, cancel, sent>>
    BY DEF TypeOK, Writes, AppendStep, SyncStep, RenameStep, DirSyncStep
  <1>2. io.at \in {"append", "sync", "rename", "dirsync"}
    BY DEF AppendStep, SyncStep, RenameStep, DirSyncStep
  <1>3. ASSUME NEW at \in {"sync", "rename", "dirsync"}, Go(at),
               at = "rename" => mode = "snapshot" \/ io.for \in Snapshots
        PROVE  Orders' /\ Handles'
    <2>1. io'.at = at /\ io'.for = io.for /\ UNCHANGED <<phase, prep, handed>>
      BY <1>1, <1>3 DEF Go, Writes
    <2> QED BY <1>1, <1>2, <1>3, <2>1 DEF Orders, Handles, Snapshots
  <1>4. CASE Held
    <2>1. /\ io' = Idle \/ (io' = Chain("send", "stamp", NoOutcome) /\ io.for = "stamp")
          /\ phase' \in {phase, "down"} /\ (phase' # phase => io' = Idle)
          /\ io.for # "create" => UNCHANGED handed /\ prep' \in {prep, "failed"} /\ (prep' # prep => io.for = "stamp")
      BY <1>4 DEF Held, CreateHeld, StampHeld, CommitHeld, SnapshotHeld, Snapshots
    <2>2. io'.at \in {"idle", "send"} /\ io'.for \in {"none", "stamp"} /\ (phase' # phase => io'.at = "idle")
      BY <2>1, WriteFacts
    <2>3. Orders'
      BY <1>2, <2>1, <2>2 DEF Orders
    <2>4. \/ born /\ io.for \in {"create", "stamp", "commit"}
          \/ (UNCHANGED <<prep, handed>> /\ io.for \in Snapshots)
      BY <1>4 DEF Held, CreateHeld, StampHeld, CommitHeld, SnapshotHeld, Unborn
    <2>5. io.for = "stamp" => prep = "preparing"
      BY DEF Purposes
    <2> QED BY <1>1, <2>1, <2>2, <2>3, <2>4, <2>5 DEF Handles
  <1>5. CASE Failed
    <2>1. /\ io' = (IF io.for = "create" THEN Chain("remove", "create", NoOutcome) ELSE Idle)
          /\ phase' = (IF io.for = "close" THEN "down" ELSE phase) /\ UNCHANGED handed
          /\ prep' = IF io.for = "stamp" THEN "failed" ELSE prep
      BY <1>5 DEF Failed
    <2>2. IF io.for = "create" THEN io'.at = "remove" /\ io'.for = "create" ELSE io'.at = "idle" /\ io'.for = "none"
      BY <2>1, WriteFacts
    <2>3. io.for = "stamp" => prep = "preparing"
      BY DEF Purposes
    <2> QED BY <1>1, <1>2, <2>1, <2>2, <2>3 DEF Orders, Handles
  <1> QED
    BY <1>3, <1>4, <1>5 DEF AppendStep, SyncStep, RenameStep, DirSyncStep

LEMMA OrderStep == DispatchInv /\ Orders /\ Handles /\ [Next]_vars => Orders' /\ Handles'
PROOF
  <1> SUFFICES ASSUME DispatchInv, Orders, Handles, [Next]_vars PROVE Orders' /\ Handles'
    OBVIOUS
  <1> USE DEF files, life
  <1>1. TypeOK /\ Unborn /\ Early /\ Purposes
    BY DEF DispatchInv
  <1>2. Idle.at = "idle" /\ Idle.for = "none" /\ io \in Writes
    BY <1>1, WriteFacts DEF TypeOK, Writes
  <1>3. CASE AppendStep \/ SyncStep \/ RenameStep \/ DirSyncStep
    BY <1>1, <1>3, OrderWrites
  <1>4. CASE RemoveStep
    BY <1>2, <1>4 DEF RemoveStep, Orders, Handles
  <1>5. CASE SendStep
    <2>1. prep = "preparing" /\ born
      BY <1>1, <1>5 DEF SendStep, Purposes, Unborn
    <2> QED BY <1>2, <1>5, <2>1 DEF SendStep, Orders, Handles
  <1>6. CASE Create
    <2>1. io'.at = "append" /\ io'.for = "create"
      BY <1>6, WriteFacts DEF Create
    <2> QED BY <1>6, <2>1 DEF Create, Orders, Handles
  <1>7. CASE Start
    <2>1. prep = "preparing" /\ born /\ io = Idle /\ phase # "down" /\ UNCHANGED <<mode, phase, born, cancel, sent>>
      BY <1>1, <1>7 DEF Start, Running, Unborn
    <2>2. CASE prep' = "none" /\ UNCHANGED io
      BY <1>2, <2>1, <2>2 DEF Orders, Handles
    <2>3. CASE io' \in {Chain("send", "none", NoOutcome), Chain("append", "stamp", NoOutcome)} /\ UNCHANGED <<prep, handed>>
      <3>1. io'.at \in {"send", "append"} /\ io'.for \in {"none", "stamp"} /\ (io'.at = "append" => io'.for = "stamp")
        BY <2>3, WriteFacts
      <3> QED BY <2>1, <2>3, <3>1 DEF Orders, Handles
    <2> QED BY <1>7, <2>2, <2>3 DEF Start, StampPromptDispatched
  <1>8. CASE StartFails
    BY <1>2, <1>8 DEF StartFails, Running, Orders, Handles
  <1>9. ASSUME NEW status, NEW verdict, Commit(status, verdict), phase # "down", UNCHANGED <<mode, born, sent, handed, phase>>,
                mem.status = "working", cancel' \in {cancel, "none"}, prep' \in {prep, "none"}, prep' = "none" \/ handed
         PROVE  Orders' /\ Handles'
    <2>1. io'.at = "append" /\ io'.for = "commit"
      BY <1>9 DEF Commit, Chain
    <2>2. born
      BY <1>1, <1>9, GoneFacts DEF Unborn
    <2> QED BY <1>9, <2>1, <2>2 DEF Orders, Handles
  <1>10. CASE StartFailed
    <2>1. io = Idle /\ prep = "failed" /\ prep' = "none" /\ born /\ ~sent /\ phase # "down"
          /\ UNCHANGED <<mode, phase, born, cancel, sent, handed>>
      BY <1>1, <1>10 DEF StartFailed, Running, Unborn, Early
    <2>2. CASE mem.status = "working" /\ Commit("failed", "none")
      BY <1>9, <2>1, <2>2
    <2>3. CASE UNCHANGED io
      BY <1>2, <2>1, <2>3 DEF Orders, Handles
    <2>4. CASE ~handed /\ io' = Chain("remove", "none", NoOutcome)
      <3>1. io'.at = "remove" /\ io'.for = "none"
        BY <2>4, WriteFacts
      <3> QED BY <2>1, <2>4, <3>1 DEF Orders, Handles
    <2> QED BY <1>10, <2>2, <2>3, <2>4 DEF StartFailed
  <1>11. CASE FinishTurn \/ ProviderExit
    <2>1. /\ turn = "running" /\ io = Idle /\ phase # "down"
          /\ \E status, verdict : EndTurn(status, verdict)
      BY <1>11 DEF FinishTurn, ProviderExit, Running
    <2>2. prep = "none"
      BY <1>1, <2>1 DEF Early, TypeOK
    <2>3. CASE UNCHANGED io
      BY <1>2, <2>1, <2>2, <2>3 DEF EndTurn, Orders, Handles
    <2>4. CASE mem.status = "working" /\ \E status, verdict : Commit(status, verdict)
      BY <1>9, <2>1, <2>2, <2>4 DEF EndTurn
    <2> QED BY <2>1, <2>3, <2>4 DEF EndTurn
  <1>12. CASE CancelUnsent
    BY <1>9, <1>12 DEF CancelUnsent
  <1>13. CASE CancelQueued
    <2>1. born
      BY <1>1, <1>13, GoneFacts DEF CancelQueued, Unborn
    <2> QED BY <1>2, <1>13, <2>1 DEF CancelQueued, Orders, Handles
  <1>14. CASE CancelLocked
    BY <1>2, <1>14 DEF CancelLocked, Running, Orders, Handles
  <1>15. CASE CancelCommit
    <2>1. io = Idle /\ prep = "none" /\ phase # "down" /\ cancel' = "none"
          /\ UNCHANGED <<mode, phase, born, prep, sent, handed>>
      BY <1>15 DEF CancelCommit, Running, Handles
    <2>2. CASE mem.status = "working" /\ Commit("cancelled", "none")
      BY <1>9, <2>1, <2>2
    <2>3. CASE UNCHANGED io
      BY <1>2, <2>1, <2>3 DEF Orders, Handles
    <2> QED BY <1>15, <2>2, <2>3 DEF CancelCommit
  <1>16. CASE Deliver \/ Expire \/ Shutdown \/ UNCHANGED vars
    <2>1. UNCHANGED <<mode, io, born, cancel, prep, sent, handed>> /\ (phase' = phase \/ phase' # "down")
      BY <1>16 DEF Deliver, Expire, Shutdown, vars
    <2> QED BY <2>1 DEF Orders, Handles
  <1>17. CASE Persist \/ Close \/ Restart
    <2>1. io'.at \in {"sync", "rename"} /\ io'.for \in {"persist", "close", "boot"} /\ phase' # "down"
      BY <1>17, WriteFacts DEF Persist, Close, Restart, Snapshot, Snapshots
    <2>2. UNCHANGED <<born, sent, handed>> /\ (UNCHANGED <<prep, cancel>> \/ (prep' = "none" /\ cancel' = "none"))
      BY <1>17 DEF Persist, Close, Restart
    <2> QED BY <2>1, <2>2 DEF Orders, Handles
  <1>18. CASE Kill \/ PowerLoss
    BY <1>2, <1>18 DEF Kill, PowerLoss, Stopped, Orders, Handles
  <1> QED
    BY <1>3, <1>4, <1>5, <1>6, <1>7, <1>8, <1>10, <1>11, <1>12, <1>13, <1>14, <1>15, <1>16, <1>17, <1>18,
       Zenon DEF Next, Step

-----------------------------------------------------------------------------
(* What is promised *)

\* A step that neither writes nor ends the task.
LEMMA PromisesStay ==
  ASSUME Promises, UNCHANGED <<disk, told>>, mem'.status = mem.status,
         phase' # "down" => phase # "down",
         io.for \notin {"create", "commit", "boot"}, io'.for \notin {"create", "commit", "boot"},
         io'.at = "remove" => told = {},
         (handed' \/ sent') => (handed \/ sent) \/ (phase # "down" /\ mem.status # "gone"),
         prep' = "none" \/ handed' \/ (prep # "none" /\ ~handed)
  PROVE  Promises'
PROOF
  <1> USE DEF Promises
  <1>1. Unheld' /\ Untold'
    BY DEF Unheld, Untold
  <1>2. Found' /\ HandleKept'
    BY DEF Found, HandleKept
  <1>3. Creating' /\ Committing' /\ Booting'
    BY DEF Creating, Committing, Booting
  <1>4. Undecided' /\ Decided'
    BY DEF Undecided, Decided
  <1>5. ToldKept'
    BY DEF ToldKept
  <1> QED BY <1>1, <1>2, <1>3, <1>4, <1>5

\* A write that goes on, over images the disk had.
LEMMA GoesOn ==
  ASSUME Promises, phase # "down", io'.for = io.for, io'.out = io.out,
         UNCHANGED <<mode, phase, mem, told, handed, sent, prep>>,
         disk'.power \subseteq disk.power,
         io'.at \in {"sync", "rename"} /\ io.at # "remove",
         io'.at = "sync" => io.for \notin {"create", "commit"},
         io.for = "commit" => io.at = "append" /\ mode = "snapshot"
  PROVE  Promises'
PROOF
  <1> USE DEF Promises
  <1>1. Unheld' /\ Untold' /\ Found' /\ HandleKept'
    BY DEF Unheld, Untold, Found, HandleKept
  <1>2. Creating' /\ Committing' /\ Booting'
    BY DEF Creating, Committing, Booting
  <1>3. Undecided' /\ Decided' /\ ToldKept'
    BY DEF Undecided, Decided, ToldKept
  <1> QED BY <1>1, <1>2, <1>3

\* A record is appended.
LEMMA JournalKeeps ==
  ASSUME Promises, TypeOK, phase # "down", io.at = "append", io.for \in {"create", "stamp", "commit"}, mode = "wal",
         Journal(io.for, io.out), io'.at = "sync", io'.for = io.for, io'.out = io.out,
         UNCHANGED <<mode, phase, mem, told, handed, sent, prep>>
  PROVE  Promises'
PROOF
  <1> USE DEF Promises
  <1>1. /\ io.out \in Outcomes /\ disk.heads \subseteq disk.power /\ disk.power \subseteq Images
        /\ io.out.status \in Terminal
    BY DEF TypeOK, Writes, Outcomes
  <1>2. /\ disk'.power = disk.power \cup disk'.heads
        /\ \A image \in disk'.heads : \E old \in disk.heads : image = Apply(old, io.for, io.out)
    BY DEF Journal
  <1>3. ASSUME NEW image \in disk'.heads
        PROVE  \E old \in disk.power : old \in disk.heads /\ image.status =
                 IF io.for = "create" /\ old.status = "gone" THEN "working"
                 ELSE IF io.for = "commit" /\ old.status = "working" THEN io.out.status ELSE old.status
    <2>1. PICK old \in disk.heads : image = Apply(old, io.for, io.out)
      BY <1>2
    <2> QED BY <1>1, <2>1, ApplyStatus
  <1>4. "gone" \notin Terminal /\ "working" \notin Terminal /\ Good \subseteq Terminal
    BY StatusFacts
  <1>5. Unheld' /\ Untold'
    BY DEF Unheld, Untold
  <1>6. Found' /\ HandleKept' /\ Creating'
    <2>1. ASSUME \A image \in disk.power : image.status # "gone"
          PROVE  \A image \in disk'.power : image.status # "gone"
      BY <1>1, <1>2, <1>3, <1>4, <2>1
    <2>2. io.for = "create" => \A image \in disk'.heads : image.status # "gone"
      BY <1>3
    <2>3. Found'
      BY <2>1 DEF Found
    <2>4. HandleKept'
      BY <2>1 DEF HandleKept
    <2>5. Creating'
      BY <2>2 DEF Creating
    <2> QED BY <2>3, <2>4, <2>5
  <1>7. Undecided'
    BY <1>2, <1>3 DEF Undecided
  <1>8. Committing' /\ Booting'
    <2>1. ASSUME io.for = "commit" PROVE \A image \in disk'.heads : image.status = io.out.status
      <3>1. mem.status = "working"
        BY <2>1 DEF Committing
      <3>2. \A image \in disk.power : image.status = "working"
        BY <2>1, <3>1 DEF Found, Undecided
      <3> QED BY <1>3, <2>1, <3>2
    <2> QED BY <2>1 DEF Committing, Booting
  <1>9. Decided' /\ ToldKept'
    <2>1. ASSUME NEW status \in Good, \A image \in disk.power : image.status = status
          PROVE  \A image \in disk'.power : image.status = status
      BY <1>2, <1>3, <1>4, <2>1
    <2>2. Decided'
      BY <1>4, <2>1 DEF Decided
    <2>3. ToldKept'
      BY <1>4, <2>1 DEF ToldKept
    <2> QED BY <2>2, <2>3
  <1> QED BY <1>5, <1>6, <1>7, <1>8, <1>9

\* A snapshot's name is put in place.
LEMMA SnapshotKeeps ==
  ASSUME Promises, phase # "down", io.at = "rename", io.for = "commit" => mode = "snapshot",
         PutSnapshot, io'.at = "dirsync", io'.for = io.for, io'.out = io.out,
         UNCHANGED <<mode, phase, mem, told, handed, sent, prep>>
  PROVE  Promises'
PROOF
  <1> USE DEF Promises
  <1>1. disk'.power = disk.power \cup {mem} /\ disk'.now = mem
    BY DEF PutSnapshot
  <1>2. Unheld' /\ Untold' /\ Found' /\ HandleKept'
    BY <1>1 DEF Unheld, Untold, Found, HandleKept
  <1>3. Creating' /\ Committing' /\ Booting'
    BY <1>1 DEF Unheld, Creating, Committing, Booting
  <1>4. Undecided'
    BY <1>1 DEF Undecided
  <1>5. Decided' /\ ToldKept'
    BY <1>1 DEF Decided, ToldKept
  <1> QED BY <1>2, <1>3, <1>4, <1>5

\* The disk as the write that held leaves it is what was written.
LEMMA HeldPromises ==
  ASSUME Promises, TypeOK, Purposes, Handles, phase # "down", Held,
         UNCHANGED <<mode, told, sent>>, disk'.power \subseteq disk.power,
         io.for = "create" => \A image \in disk'.power : image.status # "gone",
         io.for = "commit" => \A image \in disk'.power : image.status = io.out.status,
         io.for = "boot" => \A image \in disk'.power : image.status = mem.status
  PROVE  Promises'
PROOF
  <1> USE DEF Promises
  <1>1. mem \in Images /\ io.out \in Outcomes /\ io.out.status \in Terminal /\ io.out.verdict \in Verdicts
    BY DEF TypeOK, Outcomes
  <1>2. Idle.at = "idle" /\ Idle.for = "none"
    BY WriteFacts
  <1>3. "gone" \notin Terminal /\ "working" \notin Terminal /\ Good \subseteq Terminal
    BY StatusFacts
  <1>4. CASE io.for = "create"
    <2>1. io' = Idle /\ UNCHANGED <<phase, mem>>
      BY <1>4 DEF Held, CreateHeld, StampHeld, CommitHeld, SnapshotHeld, Snapshots
    <2>2. mem.status = "working"
      BY <1>4 DEF Unheld
    <2>3. Unheld' /\ Untold' /\ Found' /\ HandleKept'
      BY <1>2, <1>4, <2>1, <2>2 DEF Unheld, Untold, Found, HandleKept
    <2>4. Creating' /\ Committing' /\ Booting'
      BY <1>2, <2>1 DEF Creating, Committing, Booting
    <2>5. Undecided' /\ Decided' /\ ToldKept'
      BY <1>2, <1>4, <2>1 DEF Undecided, Decided, ToldKept
    <2> QED BY <2>3, <2>4, <2>5
  <1>5. CASE io.for = "stamp"
    <2>1. /\ \/ io' = Idle /\ prep' = "failed"
             \/ io' = Chain("send", "stamp", NoOutcome) /\ UNCHANGED prep
          /\ mem' = Stamp(mem, TRUE) /\ UNCHANGED <<phase, handed>>
      BY <1>5 DEF Held, CreateHeld, StampHeld, CommitHeld, SnapshotHeld, Snapshots
    <2>2. mem'.status = mem.status /\ prep = "preparing"
      BY <1>1, <1>5, <2>1, StampTypes DEF Purposes
    <2>3. io'.at \in {"idle", "send"} /\ io'.for \in {"none", "stamp"}
      BY <2>1, WriteFacts
    <2>4. Unheld' /\ Untold' /\ Found' /\ HandleKept'
      BY <1>5, <2>1, <2>2, <2>3 DEF Unheld, Untold, Found, HandleKept
    <2>5. Creating' /\ Committing' /\ Booting'
      BY <2>3 DEF Creating, Committing, Booting
    <2>6. Undecided' /\ Decided' /\ ToldKept'
      BY <1>5, <2>1, <2>2, <2>3 DEF Undecided, Decided, ToldKept
    <2> QED BY <2>4, <2>5, <2>6
  <1>6. CASE io.for = "commit"
    <2>1. /\ io' = Idle /\ UNCHANGED <<phase, prep, handed>>
          /\ mem' = (IF mem.status = "working" THEN Ended(mem, io.out.status, io.out.verdict) ELSE mem)
      BY <1>6 DEF Held, CreateHeld, StampHeld, CommitHeld, SnapshotHeld, Snapshots
    <2>2. mem.status \in {"working", io.out.status} /\ (mem.status = "working" => mem # Gone)
      BY <1>6, GoneFacts DEF Committing
    <2>3. mem'.status = io.out.status
      BY <1>1, <2>1, <2>2, EndedFacts
    <2>4. mem.status # "gone" /\ told = {}
      BY <1>1, <1>3, <1>6, <2>2 DEF Untold
    <2>5. prep = "none" \/ handed
      BY <1>6 DEF Handles
    <2> QED BY <1>1, <1>2, <1>3, <1>6, <2>1, <2>3, <2>4, <2>5
         DEF Unheld, Untold, Found, HandleKept, Creating, Undecided, Committing, Decided, ToldKept, Booting
  <1>7. CASE io.for \in Snapshots
    <2>1. io' = Idle /\ UNCHANGED <<mem, prep, handed>> /\ (phase' # "down" => phase # "down")
      BY <1>7 DEF Held, CreateHeld, StampHeld, CommitHeld, SnapshotHeld, Snapshots
    <2>2. io.for \notin {"create", "commit"}
      BY <1>7 DEF Snapshots
    <2>3. Unheld' /\ Untold' /\ Creating' /\ Committing' /\ Booting'
      BY <1>2, <2>1 DEF Unheld, Untold, Creating, Committing, Booting
    <2>4. Found' /\ HandleKept' /\ Undecided' /\ Decided' /\ ToldKept'
      BY <1>2, <2>1, <2>2 DEF Found, HandleKept, Undecided, Decided, ToldKept
    <2> QED BY <2>3, <2>4
  <1> QED BY <1>4, <1>5, <1>6, <1>7 DEF Held, CreateHeld, StampHeld, CommitHeld, SnapshotHeld

\* One that did not hold takes back nothing that was promised.
LEMMA FailedPromises ==
  ASSUME Promises, TypeOK, Purposes, Handles, phase # "down", Failed, io.for # "boot",
         UNCHANGED <<mode, disk, told, sent>>
  PROVE  Promises'
PROOF
  <1> USE DEF Promises
  <1>1. mem \in Images /\ "failed" \in Terminal \ Good /\ "none" \in Verdicts
    BY StatusFacts DEF TypeOK, Verdicts
  <1>2. "gone" \notin Terminal /\ "working" \notin Terminal
    BY StatusFacts
  <1>3. UNCHANGED handed /\ (phase' = phase \/ phase' = "down")
    BY DEF Failed
  <1>4. CASE io.for = "create"
    <2>1. io' = Chain("remove", "create", NoOutcome) /\ UNCHANGED <<mem, prep, phase>>
      BY <1>4 DEF Failed
    <2>2. io'.at = "remove" /\ io'.for = "create" /\ mem.status = "working" /\ told = {}
      BY <1>4, <2>1, WriteFacts DEF Unheld, Untold
    <2>3. Unheld' /\ Untold' /\ Found' /\ HandleKept' /\ Undecided'
      BY <1>3, <1>4, <2>1, <2>2 DEF Unheld, Untold, Found, HandleKept, Undecided
    <2>4. Creating' /\ Committing' /\ Booting' /\ Decided' /\ ToldKept'
      BY <2>1, <2>2 DEF Creating, Committing, Booting, Decided, ToldKept, Good
    <2> QED BY <2>3, <2>4
  <1>5. CASE io.for = "commit"
    <2>1. /\ io' = Idle /\ UNCHANGED <<prep, phase>>
          /\ mem' = IF mem # Gone THEN Ended(mem, "failed", "none") ELSE mem
      BY <1>5 DEF Failed
    <2>2. mem.status \in {"working"} \cup Terminal
      BY <1>5 DEF Committing, TypeOK, Outcomes
    <2>3. mem'.status = "failed" /\ mem.status # "gone"
      BY <1>1, <1>2, <2>1, <2>2, EndedFacts, StatusFacts
    <2>4. told = {} /\ (prep = "none" \/ handed)
      BY <1>5 DEF Untold, Handles
    <2>5. Unheld' /\ Untold' /\ Found' /\ HandleKept'
      BY <1>3, <1>5, <2>1, <2>3, <2>4, WriteFacts DEF Unheld, Untold, Found, HandleKept
    <2>6. Creating' /\ Committing' /\ Booting'
      BY <2>1, WriteFacts DEF Creating, Committing, Booting
    <2>7. Undecided' /\ Decided' /\ ToldKept'
      BY <1>1, <2>3, <2>4 DEF Undecided, Decided, ToldKept
    <2> QED BY <2>5, <2>6, <2>7
  <1>6. CASE io.for \notin {"create", "commit"}
    <2>1. io' = Idle /\ prep' = (IF io.for = "stamp" THEN "failed" ELSE prep)
          /\ mem' \in {mem, Stamp(mem, FALSE)}
      BY <1>6 DEF Failed
    <2>2. mem'.status = mem.status
      BY <1>1, <2>1, StampTypes
    <2>3. io'.at = "idle" /\ io'.for = "none"
      BY <2>1, WriteFacts
    <2>4. io.for = "stamp" => prep = "preparing"
      BY DEF Purposes
    <2> QED BY <1>3, <1>6, <2>1, <2>2, <2>3, <2>4, PromisesStay
  <1> QED BY <1>4, <1>5, <1>6

LEMMA PromiseWrites ==
  ASSUME "boot" \notin Faults, DispatchInv, PromiseInv, ~expired,
         AppendStep \/ SyncStep \/ RenameStep \/ DirSyncStep
  PROVE  Promises'
PROOF
  <1> USE DEF life, files
  <1>1. /\ TypeOK /\ Purposes /\ Orders /\ Handles /\ Promises
        /\ io \in Writes /\ disk.heads \subseteq disk.power /\ disk.now \in disk.heads
        /\ disk \in Disks
    BY DEF DispatchInv, PromiseInv, TypeOK, Writes, Disks
  <1>2. io.at \in {"append", "sync", "rename", "dirsync"} /\ phase # "down"
        /\ UNCHANGED <<mode, expired, told, sent>>
    BY <1>1 DEF AppendStep, SyncStep, RenameStep, DirSyncStep, Orders
  <1>3. ASSUME NEW at \in {"sync", "rename", "dirsync"}, Go(at)
        PROVE  io'.at = at /\ io'.for = io.for /\ io'.out = io.out /\ UNCHANGED <<phase, mem, prep, handed>>
    BY <1>1, <1>3 DEF Go, Writes
  <1>4. ASSUME NEW kind, IoFault(kind), kind # "boot", Failed, UNCHANGED disk PROVE Promises'
    <2>1. io.for # "boot"
      BY <1>4 DEF IoFault, Fault
    <2> QED BY <1>1, <1>2, <1>4, <2>1, FailedPromises
  <1>5. CASE AppendStep
    <2>1. io.at = "append" /\ io.for \in {"create", "stamp", "commit"}
      BY <1>1, <1>5 DEF AppendStep, Orders
    <2>2. CASE mode = "wal" /\ Journal(io.for, io.out) /\ Go("sync")
      BY <1>1, <1>2, <1>3, <2>1, <2>2, JournalKeeps
    <2>3. CASE Failed /\ UNCHANGED disk
      BY <1>1, <1>2, <2>1, <2>3, FailedPromises
    <2>4. CASE mode = "snapshot" /\ Go("rename") /\ UNCHANGED files
      BY <1>1, <1>2, <1>3, <2>1, <2>4, GoesOn
    <2> QED BY <1>5, <2>2, <2>3, <2>4 DEF AppendStep
  <1>6. CASE SyncStep
    <2>1. CASE SyncLog /\ io.for \in Snapshots /\ Go("rename")
      <3>1. disk'.power \subseteq disk.power
        BY <1>1, <2>1 DEF SyncLog, Disks
      <3>2. io.for \notin {"create", "commit"} /\ io.at = "sync"
        BY <1>6, <2>1 DEF Snapshots, SyncStep
      <3> QED BY <1>1, <1>2, <1>3, <2>1, <3>1, <3>2, GoesOn
    <2>2. CASE SyncLog /\ io.for \notin Snapshots /\ Held
      <3>1. disk'.power = disk.heads /\ io.at = "sync" /\ io.for # "boot"
        BY <1>1, <1>6, <2>2 DEF SyncLog, Disks, SyncStep, Snapshots
      <3>2. /\ io.for = "create" => \A image \in disk.heads : image.status # "gone"
            /\ io.for = "commit" => \A image \in disk.heads : image.status = io.out.status
        BY <1>1, <3>1 DEF Promises, Creating, Committing
      <3> QED BY <1>1, <1>2, <2>2, <3>1, <3>2, HeldPromises
    <2>3. CASE IoFault("fsync") /\ Failed /\ UNCHANGED disk
      BY <1>4, <2>3
    <2> QED BY <1>6, <2>1, <2>2, <2>3 DEF SyncStep
  <1>7. CASE RenameStep
    <2>1. CASE PutSnapshot /\ Go("dirsync")
      <3>1. io.at = "rename" /\ (io.for = "commit" => mode = "snapshot")
        BY <1>1, <1>7 DEF RenameStep, Orders
      <3> QED BY <1>1, <1>2, <1>3, <2>1, <3>1, SnapshotKeeps
    <2>2. CASE IoFault("snapshot") /\ Failed /\ UNCHANGED disk
      BY <1>4, <2>2
    <2> QED BY <1>7, <2>1, <2>2 DEF RenameStep
  <1>8. CASE DirSyncStep
    <2>1. CASE SyncDirectory /\ Held
      <3>1. disk'.power = {disk.now} /\ io.at = "dirsync"
        BY <1>1, <1>8, <2>1 DEF SyncDirectory, Disks, DirSyncStep
      <3>2. /\ io.for = "create" => disk.now.status # "gone"
            /\ io.for = "commit" => disk.now.status = io.out.status
            /\ io.for = "boot" => disk.now.status = mem.status
        BY <1>1, <3>1 DEF Promises, Creating, Committing, Booting
      <3> QED BY <1>1, <1>2, <2>1, <3>1, <3>2, HeldPromises
    <2>2. CASE IoFault("dirsync") /\ Failed /\ UNCHANGED disk
      BY <1>4, <2>2
    <2> QED BY <1>8, <2>1, <2>2 DEF DirSyncStep
  <1> QED BY <1>5, <1>6, <1>7, <1>8

\* An outcome is about to be written.
LEMMA CommitPromises ==
  ASSUME Promises, TypeOK, io = Idle, phase # "down", mem.status = "working",
         NEW status \in Terminal, NEW verdict \in Verdicts, Commit(status, verdict),
         UNCHANGED <<mode, phase, disk, told, handed, sent>>,
         prep' = "none" \/ handed
  PROVE  Promises'
PROOF
  <1> USE DEF Promises
  <1>1. LocalOK
    BY TypeParts
  <1>2. io'.at = "append" /\ io'.for = "commit" /\ io'.out = Outcome(status, verdict) /\ io'.out.status = status
    BY DEF Commit, Chain, Outcome
  <1>3. mem \in Images /\ mem # Gone
    BY GoneFacts DEF TypeOK
  <1>4. mem'.status = IF mode = "snapshot" THEN status ELSE "working"
    BY <1>3, EndedFacts DEF Commit
  <1>5. "gone" \notin Terminal /\ "working" \notin Terminal
    BY StatusFacts
  <1>6. told = {} /\ io.for = "none" /\ io.at = "idle"
    BY WriteFacts DEF Untold
  <1>7. Unheld' /\ Untold' /\ Found' /\ HandleKept'
    BY <1>2, <1>4, <1>5, <1>6 DEF Unheld, Untold, Found, HandleKept
  <1>8. Creating' /\ Committing' /\ Booting'
    BY <1>2, <1>4 DEF Creating, Committing, Booting
  <1>9. Undecided' /\ Decided' /\ ToldKept'
    BY <1>2, <1>4, <1>5, <1>6 DEF Undecided, Decided, ToldKept
  <1> QED BY <1>7, <1>8, <1>9

\* A death takes the process, not what its disk may bring back.
LEMMA StopPromises ==
  ASSUME Promises, Kill \/ PowerLoss
  PROVE  Promises'
PROOF
  <1> USE DEF Promises
  <1>1. /\ phase' = "down" /\ prep' = "none" /\ io' = Idle /\ mem' = Gone /\ UNCHANGED <<told, handed, sent>>
        /\ disk'.power \subseteq disk.power
    BY DEF Kill, PowerLoss, Stopped
  <1>2. io'.at = "idle" /\ io'.for = "none" /\ mem'.status = "gone"
    BY <1>1, WriteFacts, GoneFacts
  <1>3. Unheld' /\ Untold' /\ Found' /\ HandleKept'
    BY <1>1, <1>2 DEF Unheld, Untold, Found, HandleKept
  <1>4. Creating' /\ Committing' /\ Booting' /\ Undecided' /\ Decided' /\ ToldKept'
    BY <1>1, <1>2 DEF Creating, Committing, Booting, Undecided, Decided, ToldKept
  <1> QED BY <1>3, <1>4

\* A start finds what was promised.
LEMMA RestartPromises ==
  ASSUME Promises, TypeOK, ~expired, Restart
  PROVE  Promises'
PROOF
  <1> USE DEF Promises, files
  <1>1. phase = "down" /\ prep' = "none" /\ mem' = Recovered(disk.now) /\ UNCHANGED <<disk, told, handed, sent>>
    BY DEF Restart
  <1>2. io'.at \in {"sync", "rename"} /\ io'.for = "boot"
    BY WriteFacts DEF Restart, Snapshot, Snapshots
  <1>3. disk.now \in disk.power /\ disk.now \in Images
    BY DEF TypeOK
  <1>4. /\ mem'.status # "working"
        /\ disk.now.status # "working" => mem'.status = disk.now.status
        /\ disk.now.status # "gone" => mem'.status # "gone"
    BY <1>1, <1>3, RecoveredStatus
  <1>5. Unheld' /\ Untold' /\ Found' /\ HandleKept'
    BY <1>1, <1>2, <1>3, <1>4 DEF Unheld, Untold, Found, HandleKept
  <1>6. Creating' /\ Committing' /\ Booting' /\ Undecided' /\ Decided'
    BY <1>2, <1>4 DEF Creating, Committing, Booting, Undecided, Decided
  <1>7. ToldKept'
    BY <1>1, <1>3, <1>4 DEF ToldKept, Good
  <1> QED BY <1>5, <1>6, <1>7

LEMMA PromiseStep ==
  ASSUME "boot" \notin Faults
  PROVE  DispatchInv /\ ToldInv /\ PromiseInv /\ [Next]_vars => PromiseInv'
PROOF
  <1> SUFFICES ASSUME DispatchInv, ToldInv, PromiseInv, [Next]_vars, ~expired' PROVE Promises'
    BY OrderStep DEF PromiseInv
  <1> USE DEF files, life
  <1>1. TypeOK /\ Unborn /\ Early /\ Purposes /\ Orders /\ Handles
    BY DEF DispatchInv, PromiseInv
  <1>2. ~expired
    BY <1>1, Zenon DEF Next, Step, AppendStep, SyncStep, RenameStep, DirSyncStep, RemoveStep, SendStep, Create, Start,
       StartFails, StartFailed, FinishTurn, ProviderExit, EndTurn, CancelUnsent, CancelQueued, CancelLocked, CancelCommit,
       Deliver, Expire, Persist, Shutdown, Close, Kill, PowerLoss, Stopped, Restart, vars
  <1>3. Promises /\ Unheld /\ Untold
    BY <1>2 DEF PromiseInv, Promises
  <1>4. Idle.at = "idle" /\ Idle.for = "none" /\ mem \in Images /\ "working" \notin Terminal /\ "gone" \notin Terminal
    BY <1>1, WriteFacts, StatusFacts DEF TypeOK
  <1>5. CASE AppendStep \/ SyncStep \/ RenameStep \/ DirSyncStep
    BY <1>2, <1>5, PromiseWrites
  <1>6. CASE RemoveStep
    <2>1. /\ io' = Idle /\ mem' = Gone /\ prep' = "none" /\ ~handed' /\ ~sent' /\ told' = {} /\ mem'.status = "gone"
      BY <1>1, <1>3, <1>6, GoneFacts DEF RemoveStep, Handles, Purposes, Untold
    <2>2. io'.at = "idle" /\ io'.for = "none"
      BY <1>4, <2>1
    <2>3. Unheld' /\ Untold' /\ Found' /\ HandleKept'
      BY <1>4, <2>1, <2>2 DEF Unheld, Untold, Found, HandleKept
    <2>4. Creating' /\ Committing' /\ Booting' /\ Undecided' /\ Decided' /\ ToldKept'
      BY <2>1, <2>2 DEF Creating, Committing, Booting, Undecided, Decided, ToldKept, Good
    <2> QED BY <2>3, <2>4 DEF Promises
  <1>7. CASE SendStep
    <2>1. io.at = "send" /\ prep = "preparing" /\ phase # "down" /\ io' = Idle /\ UNCHANGED <<phase, disk, told>>
      BY <1>1, <1>7 DEF SendStep, Purposes, Orders
    <2>2. mem'.status = mem.status /\ mem.status # "gone"
      <3>1. mem # Gone
        BY <1>1, <1>2, <2>1 DEF Purposes
      <3>2. mem' \in {mem, Stamp(mem, FALSE)}
        BY <1>7 DEF SendStep
      <3> QED BY <1>4, <3>1, <3>2, StampTypes, StatusFacts
    <2>3. io.for \notin {"create", "commit", "boot"}
      BY <1>1, <2>1 DEF Orders
    <2>4. prep' = "none" \/ handed' \/ (prep # "none" /\ ~handed)
      BY <1>7, <2>1 DEF SendStep
    <2> QED BY <1>3, <1>4, <2>1, <2>2, <2>3, <2>4, PromisesStay
  <1>8. CASE Create
    <2>1. /\ mem' = Minted /\ prep' = "none" /\ disk'.power = {Gone} /\ ~handed' /\ ~sent' /\ told' = {}
          /\ io'.at = "append" /\ io'.for = "create"
      BY <1>1, <1>8, WriteFacts DEF Create, Unborn, Handles, ToldInv
    <2>2. mem'.status = "working" /\ \A image \in disk'.power : image.status = "gone"
      BY <2>1, GoneFacts DEF Minted
    <2>3. Unheld' /\ Untold' /\ Found' /\ HandleKept'
      BY <2>1, <2>2 DEF Unheld, Untold, Found, HandleKept
    <2>4. Creating' /\ Committing' /\ Booting' /\ Undecided' /\ Decided' /\ ToldKept'
      BY <2>1, <2>2 DEF Creating, Committing, Booting, Undecided, Decided, ToldKept, Good
    <2> QED BY <2>3, <2>4 DEF Promises
  <1>9. CASE Start
    <2>1. prep = "preparing" /\ mem # Gone /\ io = Idle /\ phase # "down"
          /\ UNCHANGED <<mode, phase, disk, told, sent>>
      BY <1>1, <1>2, <1>9 DEF Start, Running, Purposes
    <2>2. CASE prep' = "none" /\ UNCHANGED <<io, mem>>
      BY <1>3, <1>4, <2>1, <2>2, StatusFacts, PromisesStay
    <2>3. CASE io' = Chain("append", "stamp", NoOutcome) /\ mem' \in {mem, Stamp(mem, TRUE)} /\ UNCHANGED <<prep, handed>>
      <3>1. io'.at = "append" /\ io'.for = "stamp"
        BY <2>3, WriteFacts
      <3>2. mem'.status = mem.status
        BY <1>4, <2>3, StampTypes
      <3> QED BY <1>3, <1>4, <2>1, <2>3, <3>1, <3>2, PromisesStay
    <2> QED BY <1>9, <2>1, <2>2, <2>3 DEF Start, StampPromptDispatched
  <1>10. CASE StartFails \/ CancelQueued \/ CancelLocked \/ Shutdown \/ UNCHANGED vars
    <2>1. CASE UNCHANGED <<mode, io, mem, disk, told, handed, sent, prep>> /\ (phase' = phase \/ (phase # "down" /\ phase' # "down"))
      BY <1>3, <2>1 DEF Promises, Unheld, Untold, Found, HandleKept, Creating, Undecided, Committing, Decided, ToldKept, Booting
    <2>2. CASE StartFails
      BY <1>3, <1>4, <2>2, PromisesStay DEF StartFails, Running
    <2> QED BY <1>10, <2>1, <2>2 DEF CancelQueued, CancelLocked, Shutdown, vars
  <1>11. {"failed", "cancelled", "completed"} \subseteq Terminal /\ {"none"} \subseteq Verdicts /\ Verdict(mem) \in Verdicts
    BY DEF Terminal, Verdicts, Verdict
  <1>12. CASE StartFailed
    <2>1. io = Idle /\ prep = "failed" /\ prep' = "none" /\ phase # "down" /\ UNCHANGED <<mode, phase, disk, told, sent, handed>>
      BY <1>12 DEF StartFailed, Running
    <2>2. CASE mem.status = "working" /\ Commit("failed", "none")
      BY <1>1, <1>3, <1>11, <2>1, <2>2, CommitPromises
    <2>3. CASE UNCHANGED <<io, mem>>
      BY <1>3, <1>4, <2>1, <2>3, PromisesStay
    <2>4. CASE ~handed /\ io' = Chain("remove", "none", NoOutcome) /\ UNCHANGED mem
      <3>1. io'.at = "remove" /\ io'.for = "none"
        BY <2>4, WriteFacts
      <3>2. told = {}
        BY <1>3, <2>1, <2>4 DEF Unheld, Untold
      <3> QED BY <1>3, <1>4, <2>1, <2>4, <3>1, <3>2, PromisesStay
    <2> QED BY <1>12, <2>2, <2>3, <2>4 DEF StartFailed
  <1>13. CASE FinishTurn \/ ProviderExit
    <2>1. /\ turn = "running" /\ io = Idle /\ phase # "down"
          /\ \E status \in Terminal, verdict \in Verdicts : EndTurn(status, verdict)
      BY <1>11, <1>13 DEF FinishTurn, ProviderExit, Running
    <2>2. prep = "none"
      BY <1>1, <2>1 DEF Early, TypeOK
    <2>3. UNCHANGED <<mode, phase, disk, told, sent, handed, prep>>
      BY <2>1 DEF EndTurn
    <2>4. CASE UNCHANGED <<io, mem>>
      BY <1>3, <1>4, <2>1, <2>2, <2>3, <2>4, PromisesStay
    <2>5. CASE mem.status = "working" /\ \E status \in Terminal, verdict \in Verdicts : Commit(status, verdict)
      BY <1>1, <1>3, <2>1, <2>2, <2>3, <2>5, CommitPromises
    <2> QED BY <2>1, <2>4, <2>5 DEF EndTurn
  <1>14. CASE CancelUnsent
    <2>1. /\ io = Idle /\ phase # "down" /\ handed /\ mem.status = "working" /\ Commit("cancelled", "none")
          /\ UNCHANGED <<mode, phase, disk, told, sent, handed, prep>>
      BY <1>14 DEF CancelUnsent
    <2> QED BY <1>1, <1>3, <1>11, <2>1, CommitPromises
  <1>15. CASE CancelCommit
    <2>1. /\ io = Idle /\ phase # "down" /\ prep = "none"
          /\ UNCHANGED <<mode, phase, disk, told, sent, handed, prep>>
      BY <1>1, <1>15 DEF CancelCommit, Running, Handles
    <2>2. CASE UNCHANGED <<io, mem>>
      BY <1>3, <1>4, <2>1, <2>2, PromisesStay
    <2>3. CASE mem.status = "working" /\ Commit("cancelled", "none")
      BY <1>1, <1>3, <1>11, <2>1, <2>3, CommitPromises
    <2> QED BY <1>15, <2>2, <2>3 DEF CancelCommit
  <1>16. CASE Deliver
    <2>1. /\ io = Idle /\ phase # "down" /\ mem.status \in Terminal
          /\ told' = told \cup {Outcome(mem.status, mem.verdict)}
          /\ UNCHANGED <<mode, phase, io, mem, disk, prep, handed, sent>>
      BY <1>16 DEF Deliver, Running
    <2>2. Unheld' /\ Untold' /\ Found' /\ HandleKept'
      BY <1>3, <1>4, <2>1 DEF Promises, Unheld, Untold, Found, HandleKept
    <2>3. Creating' /\ Committing' /\ Booting' /\ Undecided' /\ Decided'
      BY <1>3, <2>1 DEF Promises, Creating, Committing, Booting, Undecided, Decided
    <2>4. ToldKept'
      <3>1. mem.status \in Good => \A image \in disk.power : image.status = mem.status
        BY <1>3, <1>4, <2>1 DEF Promises, Decided
      <3>2. Outcome(mem.status, mem.verdict).status = mem.status
        BY DEF Outcome
      <3> QED BY <1>3, <2>1, <3>1, <3>2 DEF Promises, ToldKept
    <2> QED BY <2>2, <2>3, <2>4 DEF Promises
  <1>17. CASE Expire
    BY <1>17 DEF Expire
  <1>18. CASE Persist \/ Close
    <2>1. io = Idle /\ phase # "down" /\ UNCHANGED <<mode, phase, mem, disk, told, prep, handed, sent>>
      BY <1>18 DEF Persist, Close
    <2>2. io'.at \in {"sync", "rename"} /\ io'.for \in {"persist", "close"}
      BY <1>18, WriteFacts DEF Persist, Close, Snapshot, Snapshots
    <2> QED BY <1>3, <1>4, <2>1, <2>2, PromisesStay
  <1>19. CASE Kill \/ PowerLoss
    BY <1>3, <1>19, StopPromises
  <1>20. CASE Restart
    BY <1>1, <1>2, <1>3, <1>20, RestartPromises
  <1> QED
    BY <1>5, <1>6, <1>7, <1>8, <1>9, <1>10, <1>12, <1>13, <1>14, <1>15, <1>16, <1>17, <1>18, <1>19, <1>20,
       Zenon DEF Next, Step

-----------------------------------------------------------------------------
(* Theorem *)

LEMMA PromisesHold == ASSUME "boot" \notin Faults PROVE Spec => []PromiseInv
PROOF
  <1>1. Init => PromiseInv
    <2> SUFFICES ASSUME Init PROVE PromiseInv
      OBVIOUS
    <2>1. /\ io.at = "idle" /\ io.for = "none" /\ mem.status = "gone" /\ phase = "up" /\ prep = "none"
          /\ cancel = "none" /\ ~handed /\ ~sent /\ told = {}
      BY WriteFacts, GoneFacts DEF Init
    <2>2. Orders /\ Handles
      BY <2>1 DEF Orders, Handles
    <2>3. Promises
      BY <2>1 DEF Promises, Unheld, Untold, Found, HandleKept, Creating, Undecided, Committing, Decided, ToldKept, Booting, Good
    <2> QED BY <2>2, <2>3 DEF PromiseInv
  <1>2. Init => ToldInv
    BY DEF Init, ToldInv
  <1>3. DispatchInv /\ ToldInv /\ [Next]_vars => ToldInv'
    BY ToldStep
  <1>4. DispatchInv /\ ToldInv /\ PromiseInv /\ [Next]_vars => PromiseInv'
    BY PromiseStep
  <1> QED BY <1>1, <1>2, <1>3, <1>4, DispatchInvariant, PTL DEF Spec

\* A success or a cancel a reader was given is what the task still says, and the
\* handle of a prompt that left, or that the caller was given, is there ("Publish
\* only after the WAL barrier", #commitTaskTerminal; taskPrompt), for any number of
\* failing writes, kills and power losses, as long as no rotation of a start fails.
THEOREM PromisesAreKept == ASSUME "boot" \notin Faults PROVE Spec => []PromisesStand
PROOF
  <1>1. DispatchInv /\ PromiseInv => PromisesStand
    <2> SUFFICES ASSUME TypeOK, PromiseInv, Answerable PROVE
                   /\ \A outcome \in told : outcome.status # "failed" => mem.status = outcome.status
                   /\ handed \/ sent => mem # Gone
      BY DEF DispatchInv, PromisesStand
    <2>1. ToldKept /\ HandleKept /\ phase # "down"
      BY DEF PromiseInv, Promises, Answerable
    <2>2. \A outcome \in told : outcome.status \in Good \cup {"failed"}
      BY StatusFacts DEF TypeOK, Outcomes
    <2> QED BY <2>1, <2>2, GoneFacts DEF ToldKept, HandleKept
  <1> QED BY <1>1, PromisesHold, DispatchInvariant, PTL
=============================================================================
