------------------------ MODULE StateDirectoryProofs ------------------------
(***************************************************************************)
(* What keeps a state directory: its lock and its store.                   *)
(*                                                                         *)
(* The lock implements the abstract lock, for any number of Gateways, lock *)
(* files, attempts, starts, deaths and failed writes, with and without     *)
(* hard links; so one Gateway writes at a time unless the lock is          *)
(* contested.                                                              *)
(*                                                                         *)
(* Whatever file operation a death comes before, the next start of the     *)
(* store reads one complete story from the disk: RecoversWhatWasWritten    *)
(* holds of every choice of faults, crashes, modes and bounds, except that *)
(* where power is lost the marker of a log just opened is written.         *)
(***************************************************************************)
EXTENDS StateLock, StateStore, SequenceTheorems, FiniteSetTheorems, WellFoundedInduction, TLAPS

-----------------------------------------------------------------------------
(* The lock: its inductive invariant *)

\* A process that does not run holds nothing.
OffIsOff == \A p \in Procs : proc[p].at = "off" => proc[p] = Off

\* The steps of a process the file at the path belongs to.
Stakes == {"write", "unmake", "unlink", "hold", "leave", "remove"}

\* What is at the path while p has a stake in it.
PathIsOf(p) ==
  /\ path # None
  /\ proc[p].at \in {"write", "unmake", "unlink"} => path = proc[p].made /\ text[path] = None
  /\ proc[p].at \in {"hold", "leave", "remove"} => text[path] = p
  /\ proc[p].at = "hold" => path = proc[p].mine

\* While no claim has gone wrong, the file at the path belongs to one process at
\* most, nobody holds a stale judgement of it, and no holder finds it changed.
Uncontested ==
  /\ \A p \in Procs : proc[p].at \notin {"restore", "read", "retake", "rewrite", "reread", "lost"}
  /\ \A p \in Procs : proc[p].at # "hold" => proc[p].mine = None
  /\ \A p \in Procs : proc[p].at = "compare" => aside[p] = proc[p].judged
  /\ \A p \in Procs : proc[p].at \in Stakes => PathIsOf(p)
  /\ \A p, q \in Procs : proc[p].at \in Stakes /\ proc[q].at \in Stakes => p = q
  /\ \A p, q \in Procs : proc[p].at \in Stakes /\ proc[q].at = "claim" => proc[q].judged # path

LockInv == LockTypeOK /\ OffIsOff /\ (~ displaced => Uncontested)

\* The fields of a process, which the steps below rest on.
LEMMA ProcFacts ==
  ASSUME LockTypeOK, NEW p \in Procs
  PROVE  /\ proc[p].at \in LockSteps /\ proc[p].attempt \in 1..Attempts
         /\ proc[p].judged \in Files \cup {None} /\ proc[p].made \in Files \cup {None}
         /\ proc[p].mine \in Files \cup {None}
         /\ aside[p] \in Files \cup {None}
PROOF BY DEF LockTypeOK

\* A new file is a file nobody stands for.
LEMMA NewFileFacts ==
  ASSUME Files \ InUse # {}
  PROVE  NewFile \in Files /\ NewFile \notin InUse
PROOF BY DEF NewFile

LEMMA StartInv == LockInit => LockInv
PROOF
  <1> SUFFICES ASSUME LockInit PROVE LockInv
    OBVIOUS
  <1> USE StateLockAssumption
  <1>1. Off \in [at : LockSteps, attempt : 1..Attempts, judged : Files \cup {None},
                 made : Files \cup {None}, mine : Files \cup {None}]
    BY DEF Off, LockSteps
  <1>2. LockTypeOK
    <2>1. path \in Files \cup {None}
      BY DEF LockInit
    <2>2. aside \in [Procs -> Files \cup {None}]
      BY DEF LockInit
    <2>3. proc \in [Procs -> [at : LockSteps, attempt : 1..Attempts, judged : Files \cup {None},
                              made : Files \cup {None}, mine : Files \cup {None}]]
      BY <1>1 DEF LockInit
    <2>4. starts \in 0..MaxStarts /\ fails \in 0..MaxFails
      BY DEF LockInit
    <2> QED BY <2>1, <2>2, <2>3, <2>4 DEF LockInit, LockTypeOK
  <1>3. \A p \in Procs : proc[p] = Off
    BY DEF LockInit
  <1>4. Uncontested
    BY <1>3 DEF Uncontested, Off, Stakes
  <1> QED BY <1>2, <1>3, <1>4 DEF LockInv, OffIsOff

-----------------------------------------------------------------------------
(* The lock: what a process's record becomes *)

\* The records of processes.
Records == [at : LockSteps, attempt : 1..Attempts, judged : Files \cup {None},
            made : Files \cup {None}, mine : Files \cup {None}]

LEMMA OffFacts ==
  /\ Off \in Records
  /\ Off.at = "off" /\ Off.judged = None /\ Off.made = None /\ Off.mine = None
PROOF BY StateLockAssumption DEF Off, Records, LockSteps

\* Go: only the step changes.
LEMMA GoFacts ==
  ASSUME LockTypeOK, NEW p \in Procs, NEW next \in LockSteps, Go(p, next)
  PROVE  /\ proc' \in [Procs -> Records]
         /\ \A q \in Procs \ {p} : proc'[q] = proc[q]
         /\ proc'[p].at = next /\ proc'[p].judged = proc[p].judged
         /\ proc'[p].made = proc[p].made /\ proc'[p].mine = proc[p].mine
         /\ displaced' = displaced
PROOF BY DEF Go, LockTypeOK, Records

\* Gone: the process is off, and the contest may be over.
LEMMA GoneFacts ==
  ASSUME LockTypeOK, NEW p \in Procs, Gone(p)
  PROVE  /\ proc' \in [Procs -> Records]
         /\ \A q \in Procs \ {p} : proc'[q] = proc[q]
         /\ proc'[p] = Off
         /\ displaced' = (displaced /\ \E q \in Procs \ {p} : Alive(q))
         /\ displaced' \in BOOLEAN
PROOF BY OffFacts DEF Gone, LockTypeOK, Records

\* Again: a fresh attempt, or the end of the start.
LEMMA AgainFacts ==
  ASSUME LockTypeOK, NEW p \in Procs, Again(p)
  PROVE  \/ /\ proc' \in [Procs -> Records]
            /\ \A q \in Procs \ {p} : proc'[q] = proc[q]
            /\ proc'[p].at = "create" /\ proc'[p].judged = None
            /\ proc'[p].made = None /\ proc'[p].mine = None
            /\ displaced' = displaced
         \/ Gone(p)
PROOF
  <1>1. CASE proc[p].attempt < Attempts
    <2>1. proc[p].attempt + 1 \in 1..Attempts
      BY <1>1, ProcFacts, StateLockAssumption
    <2>2. [Off EXCEPT !.at = "create", !.attempt = proc[p].attempt + 1] \in Records
      BY <2>1, OffFacts DEF Records, LockSteps
    <2>3. /\ proc' = [proc EXCEPT ![p] = [Off EXCEPT !.at = "create", !.attempt = proc[p].attempt + 1]]
          /\ UNCHANGED displaced
      BY <1>1 DEF Again
    <2>4. /\ [Off EXCEPT !.at = "create", !.attempt = proc[p].attempt + 1].at = "create"
          /\ [Off EXCEPT !.at = "create", !.attempt = proc[p].attempt + 1].judged = None
          /\ [Off EXCEPT !.at = "create", !.attempt = proc[p].attempt + 1].made = None
          /\ [Off EXCEPT !.at = "create", !.attempt = proc[p].attempt + 1].mine = None
      BY DEF Off
    <2> QED BY <2>2, <2>3, <2>4 DEF LockTypeOK, Records
  <1>2. CASE ~ (proc[p].attempt < Attempts)
    BY <1>2 DEF Again
  <1> QED BY <1>1, <1>2

-----------------------------------------------------------------------------
(* The lock: what every step keeps *)

\* The part of the invariant a step of a process can disturb.
Shape ==
  /\ path \in Files \cup {None} /\ text \in [Files -> Procs \cup {None}]
  /\ aside \in [Procs -> Files \cup {None}] /\ proc \in [Procs -> Records]
  /\ displaced \in BOOLEAN
LockKept == Shape /\ OffIsOff /\ (~ displaced => Uncontested)

LEMMA KeptIsEnough ==
  ASSUME LockKept', hardLinks' \in LinkModes, starts' \in 0..MaxStarts, fails' \in 0..MaxFails
  PROVE  LockInv'
PROOF BY DEF LockInv, LockKept, Shape, LockTypeOK, Records

\* A process that is gone leaves nobody confused: whoever is left is in no
\* contest, or a contest goes on.
LEMMA GoneKeeps ==
  ASSUME LockInv, NEW p \in Procs, Gone(p), UNCHANGED <<path, text>>,
         aside' \in [Procs -> Files \cup {None}], \A q \in Procs \ {p} : aside'[q] = aside[q]
  PROVE  LockKept'
PROOF
  <1> USE StateLockAssumption
  <1>1. /\ proc' \in [Procs -> Records]
        /\ \A q \in Procs \ {p} : proc'[q] = proc[q]
        /\ proc'[p] = Off
        /\ displaced' = (displaced /\ \E q \in Procs \ {p} : Alive(q))
        /\ displaced' \in BOOLEAN
    BY GoneFacts DEF LockInv
  <1>2. Shape'
    BY <1>1 DEF Shape, lockFiles, LockInv, LockTypeOK
  <1>3. OffIsOff'
    BY <1>1 DEF OffIsOff, LockInv
  <1>4. ASSUME ~ displaced' PROVE Uncontested'
    <2>1. CASE displaced
      <3>1. \A q \in Procs : proc'[q] = Off
        BY <1>1, <1>4, <2>1 DEF OffIsOff, LockInv, Alive
      <3> QED BY <3>1, OffFacts DEF Uncontested, Stakes
    <2>2. CASE ~ displaced
      BY <1>1, <2>2, OffFacts DEF LockInv, Uncontested, Stakes, PathIsOf, lockFiles
    <2> QED BY <2>1, <2>2
  <1> QED BY <1>2, <1>3, <1>4 DEF LockKept

\* A claim or release by which the path stands empty, and the process's end.
LEMMA EmptyingKeeps ==
  ASSUME LockInv, NEW p \in Procs, Gone(p), path' = None, UNCHANGED <<text, aside>>,
         proc[p].at \in Stakes
  PROVE  LockKept'
PROOF
  <1> USE StateLockAssumption
  <1>1. /\ proc' \in [Procs -> Records]
        /\ \A q \in Procs \ {p} : proc'[q] = proc[q]
        /\ proc'[p] = Off
        /\ displaced' = (displaced /\ \E q \in Procs \ {p} : Alive(q))
        /\ displaced' \in BOOLEAN
    BY GoneFacts DEF LockInv
  <1>2. Shape'
    BY <1>1 DEF Shape, LockInv, LockTypeOK
  <1>3. OffIsOff'
    BY <1>1 DEF OffIsOff, LockInv
  <1>4. ASSUME ~ displaced' PROVE Uncontested'
    <2>1. CASE displaced
      <3>1. \A q \in Procs : proc'[q] = Off
        BY <1>1, <1>4, <2>1 DEF OffIsOff, LockInv, Alive
      <3> QED BY <3>1, OffFacts DEF Uncontested, Stakes
    <2>2. CASE ~ displaced
      <3>1. \A q \in Procs \ {p} : proc[q].at \notin Stakes
        BY <2>2 DEF LockInv, Uncontested
      <3> QED BY <1>1, <2>2, <3>1, OffFacts DEF LockInv, Uncontested, Stakes
    <2> QED BY <2>1, <2>2
  <1> QED BY <1>2, <1>3, <1>4 DEF LockKept

\* A step that leaves the files alone and takes p to a step at which it has no
\* stake and no judgement.
LEMMA QuietKeeps ==
  ASSUME LockInv, NEW p \in Procs, NEW next \in LockSteps, Go(p, next), UNCHANGED lockFiles,
         next # "off",
         ~ displaced =>
           /\ next \notin {"restore", "read", "retake", "rewrite", "reread", "lost", "claim", "compare", "hold"}
           /\ proc[p].mine = None
           /\ next \in Stakes => /\ proc[p].at \in Stakes
                                 /\ next \in {"write", "unmake", "unlink"} => path = proc[p].made /\ text[path] = None
                                 /\ next \in {"leave", "remove"} => text[path] = p
  PROVE  LockKept'
PROOF
  <1> USE StateLockAssumption
  <1>1. /\ proc' \in [Procs -> Records]
        /\ \A q \in Procs \ {p} : proc'[q] = proc[q]
        /\ proc'[p].at = next /\ proc'[p].judged = proc[p].judged
        /\ proc'[p].made = proc[p].made /\ proc'[p].mine = proc[p].mine
        /\ displaced' = displaced
    BY GoFacts DEF LockInv
  <1>2. Shape'
    BY <1>1 DEF Shape, lockFiles, LockInv, LockTypeOK
  <1>3. OffIsOff'
    BY <1>1 DEF OffIsOff, LockInv
  <1>4. ASSUME ~ displaced' PROVE Uncontested'
    BY <1>1, <1>4 DEF LockInv, Uncontested, Stakes, PathIsOf, lockFiles
  <1> QED BY <1>2, <1>3, <1>4 DEF LockKept

\* Another attempt, or the end of them, by a process that has no stake.
LEMMA AgainKeeps ==
  ASSUME LockInv, NEW p \in Procs, Again(p), UNCHANGED <<path, text>>,
         aside' \in [Procs -> Files \cup {None}], \A q \in Procs \ {p} : aside'[q] = aside[q]
  PROVE  LockKept'
PROOF
  <1> USE StateLockAssumption
  <1>1. CASE Gone(p)
    BY <1>1, GoneKeeps
  <1>2. CASE ~ Gone(p)
    <2>1. /\ proc' \in [Procs -> Records]
          /\ \A q \in Procs \ {p} : proc'[q] = proc[q]
          /\ proc'[p].at = "create" /\ proc'[p].judged = None
          /\ proc'[p].made = None /\ proc'[p].mine = None
          /\ displaced' = displaced
      BY <1>2, AgainFacts DEF LockInv
    <2>2. Shape'
      BY <2>1 DEF Shape, LockInv, LockTypeOK
    <2>3. OffIsOff'
      BY <2>1 DEF OffIsOff, LockInv
    <2>4. ASSUME ~ displaced' PROVE Uncontested'
      BY <2>1, <2>4 DEF LockInv, Uncontested, Stakes, PathIsOf
    <2> QED BY <2>2, <2>3, <2>4 DEF LockKept
  <1> QED BY <1>1, <1>2

-----------------------------------------------------------------------------
(* The lock: the steps of claimStateLock *)

LEMMA StartKeeps == ASSUME LockInv, NEW p \in Procs, Start(p) PROVE LockKept'
PROOF
  <1>1. Go(p, "create") /\ UNCHANGED lockFiles /\ proc[p].at = "off"
    BY DEF Start
  <1>2. ~ displaced => proc[p].mine = None
    BY <1>1 DEF LockInv, Uncontested
  <1> QED BY <1>1, <1>2, QuietKeeps DEF LockSteps, Stakes

LEMMA CreateKeeps == ASSUME LockInv, NEW p \in Procs, Create(p) PROVE LockKept'
PROOF
  <1> USE StateLockAssumption
  <1>1. proc[p].at = "create"
    BY DEF Create
  <1>2. ~ displaced => proc[p].mine = None
    BY <1>1 DEF LockInv, Uncontested
  <1>3. CASE path # None
    <2>1. Go(p, "judge") /\ UNCHANGED lockFiles
      BY <1>3 DEF Create, Make
    <2> QED BY <2>1, <1>2, QuietKeeps DEF LockSteps, Stakes
  <1>4. CASE path = None
    <2>1. /\ Files \ InUse # {}
          /\ path' = NewFile
          /\ text' = [f \in Files |-> IF f \in InUse THEN text[f] ELSE None]
          /\ proc' = [proc EXCEPT ![p].at = "write", ![p].made = NewFile]
          /\ UNCHANGED <<aside, displaced>>
      BY <1>4 DEF Create, Make
    <2>2. NewFile \in Files /\ NewFile \notin InUse
      BY <2>1, NewFileFacts
    <2>3. \A q \in Procs : proc[q].judged # NewFile
      BY <2>2 DEF InUse
    <2>4. /\ proc' \in [Procs -> Records]
          /\ \A q \in Procs \ {p} : proc'[q] = proc[q]
          /\ proc'[p].at = "write" /\ proc'[p].made = NewFile /\ proc'[p].mine = proc[p].mine
      <3> DEFINE mid == [proc EXCEPT ![p].at = "write"]
      <3>1. /\ mid \in [Procs -> Records]
            /\ \A q \in Procs \ {p} : mid[q] = proc[q]
            /\ mid[p].at = "write" /\ mid[p].mine = proc[p].mine
        BY DEF LockInv, LockTypeOK, Records, LockSteps
      <3>2. proc' = [mid EXCEPT ![p].made = NewFile]
        BY <2>1
      <3> HIDE DEF mid
      <3>3. /\ [mid[p] EXCEPT !.made = NewFile] \in Records
            /\ [mid[p] EXCEPT !.made = NewFile].at = mid[p].at
            /\ [mid[p] EXCEPT !.made = NewFile].made = NewFile
            /\ [mid[p] EXCEPT !.made = NewFile].mine = mid[p].mine
        BY <2>2, <3>1 DEF Records
      <3> QED BY <3>1, <3>2, <3>3
    <2>5. text' \in [Files -> Procs \cup {None}] /\ text'[NewFile] = None
      BY <2>1, <2>2 DEF LockInv, LockTypeOK
    <2>6. Shape'
      BY <2>1, <2>2, <2>4, <2>5 DEF Shape, LockInv, LockTypeOK
    <2>7. OffIsOff'
      BY <2>4 DEF OffIsOff, LockInv
    <2>8. ASSUME ~ displaced' PROVE Uncontested'
      <3>1. \A q \in Procs : proc[q].at \notin Stakes
        BY <1>4, <2>1, <2>8 DEF LockInv, Uncontested, PathIsOf
      <3>2. NewFile # None
        BY <2>2
      <3> QED BY <1>2, <2>1, <2>3, <2>4, <2>5, <2>8, <3>1, <3>2 DEF LockInv, Uncontested, Stakes, PathIsOf
    <2> QED BY <2>6, <2>7, <2>8 DEF LockKept
  <1> QED BY <1>3, <1>4

\* Naming the file, by a start or by a holder that made its lock anew.
LEMMA NamedFacts ==
  ASSUME LockInv, NEW p \in Procs, Named(p)
  PROVE  /\ text' \in [Files -> Procs \cup {None}]
         /\ proc[p].made # None => text'[proc[p].made] = p
         /\ proc' \in [Procs -> Records]
         /\ \A q \in Procs \ {p} : proc'[q] = proc[q]
         /\ proc'[p].at = "hold" /\ proc'[p].mine = proc[p].made
PROOF
  <1> USE StateLockAssumption
  <1>1. proc[p].made \in Files \cup {None}
    BY ProcFacts DEF LockInv
  <1>2. [Off EXCEPT !.at = "hold", !.mine = proc[p].made] \in Records
    BY <1>1, OffFacts DEF Records, LockSteps
  <1>3. /\ [Off EXCEPT !.at = "hold", !.mine = proc[p].made].at = "hold"
        /\ [Off EXCEPT !.at = "hold", !.mine = proc[p].made].mine = proc[p].made
    BY DEF Off
  <1>4. /\ text' = [text EXCEPT ![proc[p].made] = p]
        /\ proc' = [proc EXCEPT ![p] = [Off EXCEPT !.at = "hold", !.mine = proc[p].made]]
    BY DEF Named
  <1> QED BY <1>1, <1>2, <1>3, <1>4 DEF LockInv, LockTypeOK, Records

LEMMA LockWriteKeeps == ASSUME LockInv, NEW p \in Procs, Write(p) PROVE LockKept'
PROOF
  <1> USE StateLockAssumption
  <1>1. /\ proc[p].at = "write" /\ Named(p)
        /\ aside' = [q \in Procs |-> IF Alive(q) THEN aside[q] ELSE None]
        /\ UNCHANGED <<path, displaced>>
    BY DEF Write, Named
  <1>2. /\ text' \in [Files -> Procs \cup {None}]
        /\ proc[p].made # None => text'[proc[p].made] = p
        /\ proc' \in [Procs -> Records]
        /\ \A q \in Procs \ {p} : proc'[q] = proc[q]
        /\ proc'[p].at = "hold" /\ proc'[p].mine = proc[p].made
    BY <1>1, NamedFacts
  <1>3. Shape'
    BY <1>1, <1>2 DEF Shape, LockInv, LockTypeOK
  <1>4. OffIsOff'
    BY <1>2 DEF OffIsOff, LockInv
  <1>5. ASSUME ~ displaced' PROVE Uncontested'
    <2>1. path # None /\ path = proc[p].made /\ \A q \in Procs \ {p} : proc[q].at \notin Stakes
      BY <1>1, <1>5 DEF LockInv, Uncontested, Stakes, PathIsOf
    <2>2. \A q \in Procs : proc[q].at = "compare" => aside'[q] = aside[q]
      BY <1>1 DEF Alive
    <2> QED BY <1>1, <1>2, <1>5, <2>1, <2>2 DEF LockInv, Uncontested, Stakes, PathIsOf
  <1> QED BY <1>3, <1>4, <1>5 DEF LockKept

LEMMA WriteFailsKeeps == ASSUME LockInv, NEW p \in Procs, WriteFails(p) PROVE LockKept'
PROOF
  <1>1. Go(p, "unmake") /\ UNCHANGED lockFiles /\ proc[p].at \in {"write", "rewrite"}
    BY DEF WriteFails
  <1>2. ~ displaced => /\ proc[p].mine = None /\ proc[p].at \in Stakes
                       /\ path = proc[p].made /\ text[path] = None
    BY <1>1 DEF LockInv, Uncontested, Stakes, PathIsOf
  <1> QED BY <1>1, <1>2, QuietKeeps DEF LockSteps, Stakes

\* createLock's failure ends a start, or, of a holder, happens in a contest.
LEMMA UnmadeFacts ==
  ASSUME LockInv, NEW p \in Procs, Unmade(p), proc[p].at \in {"unmake", "unlink"}
  PROVE  \/ Gone(p)
         \/ /\ displaced /\ UNCHANGED displaced
            /\ proc' \in [Procs -> Records]
            /\ \A q \in Procs \ {p} : proc'[q] = proc[q]
            /\ proc'[p].at # "off"
PROOF
  <1> USE StateLockAssumption
  <1>1. CASE proc[p].mine = None
    BY <1>1 DEF Unmade
  <1>2. CASE proc[p].mine # None
    <2>1. displaced
      BY <1>2 DEF LockInv, Uncontested
    <2>2. proc' = [proc EXCEPT ![p].at = "hold", ![p].made = None] /\ UNCHANGED displaced
      BY <1>2 DEF Unmade
    <2> DEFINE mid == [proc EXCEPT ![p].at = "hold"]
    <2>3. /\ mid \in [Procs -> Records]
          /\ \A q \in Procs \ {p} : mid[q] = proc[q]
          /\ mid[p].at = "hold"
      BY DEF LockInv, LockTypeOK, Records, LockSteps
    <2>4. proc' = [mid EXCEPT ![p].made = None]
      BY <2>2
    <2> HIDE DEF mid
    <2>5. /\ [mid[p] EXCEPT !.made = None] \in Records
          /\ [mid[p] EXCEPT !.made = None].at = "hold"
      BY <2>3 DEF Records
    <2> QED BY <2>1, <2>2, <2>3, <2>4, <2>5
  <1> QED BY <1>1, <1>2

LEMMA UnmakeStatKeeps == ASSUME LockInv, NEW p \in Procs, UnmakeStat(p) PROVE LockKept'
PROOF
  <1>1. proc[p].at = "unmake" /\ UNCHANGED lockFiles
    BY DEF UnmakeStat
  <1>2. CASE Go(p, "unlink")
    <2>1. ~ displaced => /\ proc[p].mine = None /\ proc[p].at \in Stakes
                         /\ path = proc[p].made /\ text[path] = None
      BY <1>1 DEF LockInv, Uncontested, Stakes, PathIsOf
    <2> QED BY <1>1, <1>2, <2>1, QuietKeeps DEF LockSteps, Stakes
  <1>3. CASE Unmade(p)
    <2>1. CASE Gone(p)
      BY <1>1, <2>1, GoneKeeps DEF lockFiles, LockInv, LockTypeOK
    <2>2. CASE ~ Gone(p)
      <3>1. /\ displaced /\ UNCHANGED displaced
            /\ proc' \in [Procs -> Records]
            /\ \A q \in Procs \ {p} : proc'[q] = proc[q]
            /\ proc'[p].at # "off"
        BY <1>1, <1>3, <2>2, UnmadeFacts
      <3> QED BY <1>1, <3>1 DEF LockKept, Shape, OffIsOff, LockInv, LockTypeOK, lockFiles
    <2> QED BY <2>1, <2>2
  <1> QED BY <1>2, <1>3 DEF UnmakeStat

LEMMA UnmakeUnlinkKeeps == ASSUME LockInv, NEW p \in Procs, UnmakeUnlink(p) PROVE LockKept'
PROOF
  <1>1. proc[p].at = "unlink" /\ path' = None /\ Unmade(p) /\ UNCHANGED <<text, aside>>
    BY DEF UnmakeUnlink
  <1>2. CASE Gone(p)
    BY <1>1, <1>2, EmptyingKeeps DEF Stakes
  <1>3. CASE ~ Gone(p)
    <2>1. /\ displaced /\ UNCHANGED displaced
          /\ proc' \in [Procs -> Records]
          /\ \A q \in Procs \ {p} : proc'[q] = proc[q]
          /\ proc'[p].at # "off"
      BY <1>1, <1>3, UnmadeFacts
    <2> QED BY <1>1, <2>1 DEF LockKept, Shape, OffIsOff, LockInv, LockTypeOK
  <1> QED BY <1>2, <1>3

LEMMA JudgeKeeps == ASSUME LockInv, NEW p \in Procs, Judge(p) PROVE LockKept'
PROOF
  <1> USE StateLockAssumption
  <1>1. proc[p].at = "judge" /\ UNCHANGED lockFiles
    BY DEF Judge
  <1>2. CASE Again(p)
    BY <1>1, <1>2, AgainKeeps DEF lockFiles, LockInv, LockTypeOK
  <1>3. CASE Gone(p)
    BY <1>1, <1>3, GoneKeeps DEF lockFiles, LockInv, LockTypeOK
  <1>4. CASE /\ path # None /\ Stale(p, path)
             /\ proc' = [proc EXCEPT ![p].at = "claim", ![p].judged = path]
             /\ UNCHANGED displaced
    <2>1. path \in Files
      BY <1>4 DEF LockInv, LockTypeOK
    <2> DEFINE mid == [proc EXCEPT ![p].at = "claim"]
    <2>2. /\ mid \in [Procs -> Records]
          /\ \A q \in Procs \ {p} : mid[q] = proc[q]
          /\ mid[p].at = "claim" /\ mid[p].mine = proc[p].mine
      BY DEF LockInv, LockTypeOK, Records, LockSteps
    <2>3. proc' = [mid EXCEPT ![p].judged = path]
      BY <1>4
    <2> HIDE DEF mid
    <2>4. /\ [mid[p] EXCEPT !.judged = path] \in Records
          /\ [mid[p] EXCEPT !.judged = path].at = "claim"
          /\ [mid[p] EXCEPT !.judged = path].judged = path
          /\ [mid[p] EXCEPT !.judged = path].mine = mid[p].mine
      BY <2>1, <2>2 DEF Records
    <2>5. /\ proc' \in [Procs -> Records]
          /\ \A q \in Procs \ {p} : proc'[q] = proc[q]
          /\ proc'[p].at = "claim" /\ proc'[p].judged = path /\ proc'[p].mine = proc[p].mine
      BY <2>2, <2>3, <2>4
    <2>6. Shape'
      BY <1>1, <1>4, <2>5 DEF Shape, LockInv, LockTypeOK, lockFiles
    <2>7. OffIsOff'
      BY <2>5 DEF OffIsOff, LockInv
    <2>8. ASSUME ~ displaced' PROVE Uncontested'
      <3>1. \A q \in Procs : proc[q].at \notin Stakes
        \* The lock is a dead process's, and a process with a stake is alive.
        <4> SUFFICES ASSUME NEW q \in Procs, proc[q].at \in Stakes PROVE FALSE
          OBVIOUS
        <4>1. text[path] \in {None, q}
          BY <1>4, <2>8 DEF LockInv, Uncontested, Stakes, PathIsOf
        <4>2. Alive(q) /\ q # p
          BY <1>1 DEF Alive, Stakes
        <4> QED BY <1>4, <4>1, <4>2 DEF Stale
      <3> QED BY <1>1, <1>4, <2>5, <2>8, <3>1 DEF LockInv, Uncontested, Stakes, PathIsOf, lockFiles
    <2> QED BY <2>6, <2>7, <2>8 DEF LockKept
  <1> QED BY <1>2, <1>3, <1>4 DEF Judge

LEMMA ClaimKeeps == ASSUME LockInv, NEW p \in Procs, Claim(p) PROVE LockKept'
PROOF
  <1> USE StateLockAssumption
  <1>1. proc[p].at = "claim" /\ UNCHANGED text
    BY DEF Claim
  <1>2. CASE Again(p) /\ UNCHANGED <<path, aside>>
    BY <1>1, <1>2, AgainKeeps DEF LockInv, LockTypeOK
  <1>3. CASE /\ path # None
             /\ aside' = [aside EXCEPT ![p] = path]
             /\ path' = None
             /\ proc' = [proc EXCEPT ![p].at = "compare"]
             /\ displaced' = (displaced \/ path # proc[p].judged)
    <2>1. /\ proc' \in [Procs -> Records]
          /\ \A q \in Procs \ {p} : proc'[q] = proc[q]
          /\ proc'[p].at = "compare" /\ proc'[p].judged = proc[p].judged /\ proc'[p].mine = proc[p].mine
      BY <1>3 DEF LockInv, LockTypeOK, Records, LockSteps
    <2>2. /\ aside' \in [Procs -> Files \cup {None}]
          /\ aside'[p] = path /\ \A q \in Procs \ {p} : aside'[q] = aside[q]
      BY <1>3 DEF LockInv, LockTypeOK
    <2>3. Shape'
      BY <1>1, <1>3, <2>1, <2>2 DEF Shape, LockInv, LockTypeOK
    <2>4. OffIsOff'
      BY <2>1 DEF OffIsOff, LockInv
    <2>5. ASSUME ~ displaced' PROVE Uncontested'
      <3>1. ~ displaced /\ path = proc[p].judged
        BY <1>3, <2>5
      \* The lock taken is the one judged, so it is nobody's.
      <3>2. \A q \in Procs : proc[q].at \notin Stakes
        BY <1>1, <3>1 DEF LockInv, Uncontested
      <3> QED BY <1>1, <1>3, <2>1, <2>2, <3>1, <3>2 DEF LockInv, Uncontested, Stakes
    <2> QED BY <2>3, <2>4, <2>5 DEF LockKept
  <1> QED BY <1>2, <1>3 DEF Claim

\* In a contest a step has only the types to keep.
LEMMA ContestedKeeps ==
  ASSUME LockInv, NEW p \in Procs, displaced, UNCHANGED displaced,
         path' \in Files \cup {None}, text' \in [Files -> Procs \cup {None}],
         aside' \in [Procs -> Files \cup {None}], proc' \in [Procs -> Records],
         \A q \in Procs \ {p} : proc'[q] = proc[q], proc'[p].at # "off"
  PROVE  LockKept'
PROOF BY DEF LockKept, Shape, OffIsOff, LockInv, LockTypeOK

LEMMA CompareKeeps == ASSUME LockInv, NEW p \in Procs, Compare(p) PROVE LockKept'
PROOF
  <1>1. proc[p].at = "compare" /\ UNCHANGED lockFiles
    BY DEF Compare
  <1>2. CASE displaced
    <2>1. \E next \in {"drop", "restore"} : Go(p, next)
      BY DEF Compare
    <2>2. PICK next \in {"drop", "restore"} : Go(p, next)
      BY <2>1
    <2>3. /\ proc' \in [Procs -> Records] /\ \A q \in Procs \ {p} : proc'[q] = proc[q]
          /\ proc'[p].at = next /\ displaced' = displaced
      BY <2>2, GoFacts DEF LockSteps, LockInv
    <2> QED BY <1>1, <1>2, <2>3, ContestedKeeps DEF LockInv, LockTypeOK, lockFiles
  <1>3. CASE ~ displaced
    <2>1. Go(p, "drop") /\ proc[p].mine = None
      BY <1>1, <1>3 DEF Compare, LockInv, Uncontested
    <2> QED BY <1>1, <2>1, QuietKeeps DEF LockSteps, Stakes
  <1> QED BY <1>2, <1>3

LEMMA RestoreKeeps == ASSUME LockInv, NEW p \in Procs, Restore(p) PROVE LockKept'
PROOF
  <1>1. displaced /\ Go(p, "drop") /\ UNCHANGED <<text, aside>>
    BY DEF Restore, LockInv, Uncontested
  <1>2. path' \in Files \cup {None}
    BY DEF Restore, LockInv, LockTypeOK
  <1>3. /\ proc' \in [Procs -> Records] /\ \A q \in Procs \ {p} : proc'[q] = proc[q]
        /\ proc'[p].at = "drop" /\ displaced' = displaced
    BY <1>1, GoFacts DEF LockSteps, LockInv
  <1> QED BY <1>1, <1>2, <1>3, ContestedKeeps DEF LockInv, LockTypeOK

LEMMA DropKeeps == ASSUME LockInv, NEW p \in Procs, Drop(p) PROVE LockKept'
PROOF
  <1>1. Again(p) /\ UNCHANGED <<path, text>> /\ aside' = [aside EXCEPT ![p] = None]
    BY DEF Drop
  <1>2. aside' \in [Procs -> Files \cup {None}] /\ \A q \in Procs \ {p} : aside'[q] = aside[q]
    BY <1>1 DEF LockInv, LockTypeOK
  <1> QED BY <1>1, <1>2, AgainKeeps

-----------------------------------------------------------------------------
(* The lock: the steps of a holder *)

\* A check goes on only in a contest: until then the holder finds its own lock.
LEMMA CheckIsContested ==
  ASSUME LockInv, NEW p \in Procs, CheckStat(p) \/ CheckRead(p) \/ Retake(p) \/ Rewrite(p) \/ Reread(p)
  PROVE  displaced
PROOF BY DEF LockInv, Uncontested, Stakes, PathIsOf, CheckStat, CheckRead, Retake, Rewrite, Reread

LEMMA SettledKeeps == ASSUME LockInv, NEW p \in Procs, displaced, Settled(p) PROVE LockKept'
PROOF
  <1>1. UNCHANGED lockFiles
    BY DEF Settled
  <1>2. CASE path # None /\ text[path] = p
    <2>1. path \in Files
      BY <1>2 DEF LockInv, LockTypeOK
    <2>2. proc' = [proc EXCEPT ![p].at = "hold", ![p].mine = path] /\ UNCHANGED displaced
      BY <1>2 DEF Settled
    <2> DEFINE mid == [proc EXCEPT ![p].at = "hold"]
    <2>3. /\ mid \in [Procs -> Records]
          /\ \A q \in Procs \ {p} : mid[q] = proc[q]
          /\ mid[p].at = "hold"
      BY DEF LockInv, LockTypeOK, Records, LockSteps
    <2>4. proc' = [mid EXCEPT ![p].mine = path]
      BY <2>2
    <2> HIDE DEF mid
    <2>5. [mid[p] EXCEPT !.mine = path] \in Records /\ [mid[p] EXCEPT !.mine = path].at = "hold"
      BY <2>1, <2>3 DEF Records
    <2>6. /\ proc' \in [Procs -> Records] /\ \A q \in Procs \ {p} : proc'[q] = proc[q]
          /\ proc'[p].at = "hold"
      BY <2>3, <2>4, <2>5
    <2> QED BY <1>1, <2>2, <2>6, ContestedKeeps DEF LockInv, LockTypeOK, lockFiles
  <1>3. CASE ~ (path # None /\ text[path] = p)
    <2>1. Go(p, "lost")
      BY <1>3 DEF Settled
    <2>2. /\ proc' \in [Procs -> Records] /\ \A q \in Procs \ {p} : proc'[q] = proc[q]
          /\ proc'[p].at = "lost" /\ displaced' = displaced
      BY <2>1, GoFacts DEF LockSteps, LockInv
    <2> QED BY <1>1, <2>2, ContestedKeeps DEF LockInv, LockTypeOK, lockFiles
  <1> QED BY <1>2, <1>3

LEMMA CheckKeeps == ASSUME LockInv, NEW p \in Procs, CheckStat(p) \/ CheckRead(p) PROVE LockKept'
PROOF
  <1>1. displaced
    BY CheckIsContested
  <1>2. CASE Settled(p)
    BY <1>1, <1>2, SettledKeeps
  <1>3. CASE UNCHANGED lockFiles /\ \E next \in {"retake", "read"} : Go(p, next)
    <2>1. PICK next \in {"retake", "read"} : Go(p, next)
      BY <1>3
    <2>2. /\ proc' \in [Procs -> Records] /\ \A q \in Procs \ {p} : proc'[q] = proc[q]
          /\ proc'[p].at = next /\ displaced' = displaced
      BY <2>1, GoFacts DEF LockSteps, LockInv
    <2> QED BY <1>1, <1>3, <2>2, ContestedKeeps DEF LockInv, LockTypeOK, lockFiles
  <1> QED BY <1>2, <1>3 DEF CheckStat, CheckRead

LEMMA RetakeKeeps == ASSUME LockInv, NEW p \in Procs, Retake(p) PROVE LockKept'
PROOF
  <1>1. displaced
    BY CheckIsContested
  <1>2. CASE path # None
    <2>1. Go(p, "reread") /\ UNCHANGED lockFiles
      BY <1>2 DEF Retake, Make
    <2>2. /\ proc' \in [Procs -> Records] /\ \A q \in Procs \ {p} : proc'[q] = proc[q]
          /\ proc'[p].at = "reread" /\ displaced' = displaced
      BY <2>1, GoFacts DEF LockSteps, LockInv
    <2> QED BY <1>1, <2>1, <2>2, ContestedKeeps DEF LockInv, LockTypeOK, lockFiles
  <1>3. CASE path = None
    <2>1. /\ Files \ InUse # {}
          /\ path' = NewFile
          /\ text' = [f \in Files |-> IF f \in InUse THEN text[f] ELSE None]
          /\ proc' = [proc EXCEPT ![p].at = "rewrite", ![p].made = NewFile]
          /\ UNCHANGED <<aside, displaced>>
      BY <1>3 DEF Retake, Make
    <2>2. NewFile \in Files
      BY <2>1, NewFileFacts
    <2> DEFINE mid == [proc EXCEPT ![p].at = "rewrite"]
    <2>3. /\ mid \in [Procs -> Records]
          /\ \A q \in Procs \ {p} : mid[q] = proc[q]
          /\ mid[p].at = "rewrite"
      BY DEF LockInv, LockTypeOK, Records, LockSteps
    <2>4. proc' = [mid EXCEPT ![p].made = NewFile]
      BY <2>1
    <2> HIDE DEF mid
    <2>5. [mid[p] EXCEPT !.made = NewFile] \in Records /\ [mid[p] EXCEPT !.made = NewFile].at = "rewrite"
      BY <2>2, <2>3 DEF Records
    <2>6. /\ proc' \in [Procs -> Records] /\ \A q \in Procs \ {p} : proc'[q] = proc[q]
          /\ proc'[p].at = "rewrite"
      BY <2>3, <2>4, <2>5
    <2>7. text' \in [Files -> Procs \cup {None}]
      BY <2>1 DEF LockInv, LockTypeOK
    <2> QED BY <1>1, <2>1, <2>2, <2>6, <2>7, ContestedKeeps DEF LockInv, LockTypeOK
  <1> QED BY <1>2, <1>3

LEMMA RewriteKeeps == ASSUME LockInv, NEW p \in Procs, Rewrite(p) PROVE LockKept'
PROOF
  <1>1. displaced /\ Named(p) /\ UNCHANGED <<aside, path, displaced>>
    BY CheckIsContested DEF Rewrite, Named
  <1>2. /\ text' \in [Files -> Procs \cup {None}]
        /\ proc' \in [Procs -> Records] /\ \A q \in Procs \ {p} : proc'[q] = proc[q]
        /\ proc'[p].at = "hold"
    BY <1>1, NamedFacts
  <1> QED BY <1>1, <1>2, ContestedKeeps DEF LockInv, LockTypeOK

LEMMA RereadKeeps == ASSUME LockInv, NEW p \in Procs, Reread(p) PROVE LockKept'
PROOF BY CheckIsContested, SettledKeeps DEF Reread

LEMMA ReleaseKeeps == ASSUME LockInv, NEW p \in Procs, Release(p) PROVE LockKept'
PROOF
  <1> USE StateLockAssumption
  <1>1. /\ proc[p].at \in {"hold", "lost"}
        /\ proc' = [proc EXCEPT ![p].at = "leave", ![p].mine = None]
        /\ UNCHANGED <<lockFiles, displaced>>
    BY DEF Release
  <1> DEFINE mid == [proc EXCEPT ![p].at = "leave"]
  <1>2. /\ mid \in [Procs -> Records]
        /\ \A q \in Procs \ {p} : mid[q] = proc[q]
        /\ mid[p].at = "leave"
    BY DEF LockInv, LockTypeOK, Records, LockSteps
  <1>3. proc' = [mid EXCEPT ![p].mine = None]
    BY <1>1
  <1> HIDE DEF mid
  <1>4. /\ [mid[p] EXCEPT !.mine = None] \in Records
        /\ [mid[p] EXCEPT !.mine = None].at = "leave" /\ [mid[p] EXCEPT !.mine = None].mine = None
    BY <1>2 DEF Records
  <1>5. /\ proc' \in [Procs -> Records] /\ \A q \in Procs \ {p} : proc'[q] = proc[q]
        /\ proc'[p].at = "leave" /\ proc'[p].mine = None
    BY <1>2, <1>3, <1>4
  <1>6. Shape' /\ OffIsOff'
    BY <1>1, <1>5 DEF Shape, OffIsOff, LockInv, LockTypeOK, lockFiles
  <1>7. ASSUME ~ displaced' PROVE Uncontested'
    <2>1. proc[p].at = "hold" /\ PathIsOf(p) /\ text[path] = p
      BY <1>1, <1>7 DEF LockInv, Uncontested, Stakes, PathIsOf
    <2> QED BY <1>1, <1>5, <1>7, <2>1 DEF LockInv, Uncontested, Stakes, PathIsOf, lockFiles
  <1> QED BY <1>6, <1>7 DEF LockKept

LEMMA ReleaseReadKeeps == ASSUME LockInv, NEW p \in Procs, ReleaseRead(p) PROVE LockKept'
PROOF
  <1>1. proc[p].at = "leave" /\ UNCHANGED lockFiles
    BY DEF ReleaseRead
  <1>2. CASE path # None /\ text[path] = p
    <2>1. Go(p, "remove")
      BY <1>2 DEF ReleaseRead
    <2>2. ~ displaced => proc[p].mine = None
      BY <1>1 DEF LockInv, Uncontested
    <2> QED BY <1>1, <1>2, <2>1, <2>2, QuietKeeps DEF LockSteps, Stakes
  <1>3. CASE ~ (path # None /\ text[path] = p)
    <2>1. Gone(p)
      BY <1>3 DEF ReleaseRead
    <2> QED BY <1>1, <2>1, GoneKeeps DEF lockFiles, LockInv, LockTypeOK
  <1> QED BY <1>2, <1>3

LEMMA ReleaseUnlinkKeeps == ASSUME LockInv, NEW p \in Procs, ReleaseUnlink(p) PROVE LockKept'
PROOF BY EmptyingKeeps DEF ReleaseUnlink, Stakes

LEMMA CrashKeeps == ASSUME LockInv, NEW p \in Procs, Crash(p) PROVE LockKept'
PROOF BY GoneKeeps DEF Crash, lockFiles, LockInv, LockTypeOK

-----------------------------------------------------------------------------
(* The lock: its invariant *)

LEMMA StepInv == LockInv /\ [LockNext]_lockVars => LockInv'
PROOF
  <1> SUFFICES ASSUME LockInv, [LockNext]_lockVars PROVE LockInv'
    OBVIOUS
  <1> USE StateLockAssumption
  <1>1. ASSUME NEW p \in Procs, LockStep(p) PROVE LockInv'
    <2>1. LockKept'
      BY <1>1, CreateKeeps, LockWriteKeeps, UnmakeStatKeeps, UnmakeUnlinkKeeps, JudgeKeeps, ClaimKeeps,
         CompareKeeps, RestoreKeeps, DropKeeps, CheckKeeps, RetakeKeeps, RewriteKeeps, RereadKeeps,
         ReleaseReadKeeps, ReleaseUnlinkKeeps DEF LockStep
    <2>2. UNCHANGED bounds
      BY <1>1 DEF LockStep
    <2> QED BY <2>1, <2>2, KeptIsEnough DEF bounds, LockInv, LockTypeOK
  <1>2. ASSUME NEW p \in Procs, Start(p) PROVE LockInv'
    <2>1. LockKept'
      BY <1>2, StartKeeps
    <2>2. starts' \in 0..MaxStarts /\ UNCHANGED <<hardLinks, fails>>
      BY <1>2 DEF Start, LockInv, LockTypeOK
    <2> QED BY <2>1, <2>2, KeptIsEnough DEF LockInv, LockTypeOK
  <1>3. ASSUME NEW p \in Procs, Fail(p) PROVE LockInv'
    <2>1. LockKept'
      BY <1>3, WriteFailsKeeps, CrashKeeps DEF Fail
    <2>2. fails' \in 0..MaxFails /\ UNCHANGED <<hardLinks, starts>>
      BY <1>3 DEF Fail, LockInv, LockTypeOK
    <2> QED BY <2>1, <2>2, KeptIsEnough DEF LockInv, LockTypeOK
  <1>4. ASSUME NEW p \in Procs, Release(p), UNCHANGED bounds PROVE LockInv'
    BY <1>4, ReleaseKeeps, KeptIsEnough DEF bounds, LockInv, LockTypeOK
  <1>5. CASE UNCHANGED lockVars
    BY <1>5 DEF lockVars, LockInv, LockTypeOK, OffIsOff, Uncontested, PathIsOf, Stakes
  <1> QED BY <1>1, <1>2, <1>3, <1>4, <1>5 DEF LockNext

\* The types of the state lock's variables, and what holds of the path while no
\* claim went wrong, in every reachable state (claimStateLock, #checkLock).
THEOREM LockIsSound == LockSpec => []LockInv
PROOF BY StartInv, StepInv, PTL DEF LockSpec

-----------------------------------------------------------------------------
(* The lock: its refinement *)

\* A step by which no process becomes or stops being a writer.
LEMMA SameWriters ==
  ASSUME NEW p \in Procs, \A q \in Procs \ {p} : proc'[q] = proc[q],
         proc'[p].mine = proc[p].mine, proc'[p].at # "lost", proc[p].at # "lost"
  PROVE  Writers' = Writers
PROOF BY DEF Writers

LEMMA GoneLeaves ==
  ASSUME LockInv, NEW p \in Procs, Gone(p)
  PROVE  Lock!Leave(p)
PROOF
  <1>1. /\ \A q \in Procs \ {p} : proc'[q] = proc[q]
        /\ proc'[p] = Off
        /\ displaced' = (displaced /\ \E q \in Procs \ {p} : Alive(q))
    BY GoneFacts DEF LockInv
  <1>2. Writers' = Writers \ {p}
    BY <1>1, OffFacts DEF Writers
  <1>3. (displaced' # displaced) => Writers' = {}
    <2> SUFFICES ASSUME displaced' # displaced, NEW q \in Writers' PROVE FALSE
      OBVIOUS
    <2>1. q \in Procs /\ q # p /\ proc[q].mine # None
      BY <1>1, <1>2 DEF Writers
    <2>2. proc[q].at = "off"
      BY <1>1, <2>1 DEF Alive, LockInv, LockTypeOK
    <2> QED BY <2>1, <2>2, OffFacts DEF LockInv, OffIsOff
  <1>4. displaced \in BOOLEAN
    BY DEF LockInv, LockTypeOK
  <1> QED BY <1>1, <1>2, <1>3, <1>4 DEF Lock!Leave

LEMMA AgainLeaves ==
  ASSUME LockInv, NEW p \in Procs, Again(p)
  PROVE  Lock!Leave(p)
PROOF
  <1>1. CASE Gone(p)
    BY <1>1, GoneLeaves
  <1>2. CASE ~ Gone(p)
    <2>1. /\ \A q \in Procs \ {p} : proc'[q] = proc[q]
          /\ proc'[p].mine = None /\ displaced' = displaced
      BY <1>2, AgainFacts DEF LockInv
    <2> QED BY <2>1 DEF Lock!Leave, Writers
  <1> QED BY <1>1, <1>2

\* A process that goes to a step other than "lost" is a writer if it was one.
LEMMA GoStutters ==
  ASSUME LockInv, NEW p \in Procs, NEW next \in LockSteps \ {"lost"}, Go(p, next), proc[p].at # "lost"
  PROVE  UNCHANGED Lock!vars
PROOF
  <1>1. /\ \A q \in Procs \ {p} : proc'[q] = proc[q]
        /\ proc'[p].at = next /\ proc'[p].mine = proc[p].mine /\ displaced' = displaced
    BY GoFacts DEF LockInv
  <1> QED BY <1>1, SameWriters DEF Lock!vars

\* Making a lock file does not make a writer.
LEMMA MakeStutters ==
  ASSUME LockInv, NEW p \in Procs, Create(p) \/ Retake(p)
  PROVE  UNCHANGED Lock!vars
PROOF
  <1>1. proc[p].at # "lost"
    BY DEF Create, Retake
  <1>2. CASE \E next \in {"judge", "reread"} : Go(p, next)
    BY <1>1, <1>2, GoStutters DEF LockSteps
  <1>3. CASE \E next \in {"write", "rewrite"} :
               proc' = [proc EXCEPT ![p].at = next, ![p].made = NewFile] /\ UNCHANGED displaced
    <2>1. PICK next \in {"write", "rewrite"} :
                 proc' = [proc EXCEPT ![p].at = next, ![p].made = NewFile] /\ UNCHANGED displaced
      BY <1>3
    <2> DEFINE mid == [proc EXCEPT ![p].at = next]
    <2>2. /\ mid \in [Procs -> Records] /\ \A q \in Procs \ {p} : mid[q] = proc[q]
          /\ mid[p].at = next /\ mid[p].mine = proc[p].mine
      BY DEF LockInv, LockTypeOK, Records, LockSteps
    <2>3. proc' = [mid EXCEPT ![p].made = NewFile]
      BY <2>1
    <2> HIDE DEF mid
    <2>4. /\ [mid[p] EXCEPT !.made = NewFile].at = mid[p].at
          /\ [mid[p] EXCEPT !.made = NewFile].mine = mid[p].mine
      BY <2>2 DEF Records
    <2>5. /\ \A q \in Procs \ {p} : proc'[q] = proc[q]
          /\ proc'[p].at = next /\ proc'[p].mine = proc[p].mine
      BY <2>2, <2>3, <2>4
    <2> QED BY <1>1, <2>1, <2>5, SameWriters DEF Lock!vars
  <1> QED BY <1>2, <1>3 DEF Create, Retake, Make

LEMMA UnmadeLeavesOrStutters ==
  ASSUME LockInv, NEW p \in Procs, Unmade(p), proc[p].at \in {"unmake", "unlink"}
  PROVE  Lock!Leave(p) \/ UNCHANGED Lock!vars
PROOF
  <1>1. CASE proc[p].mine = None
    BY <1>1, GoneLeaves DEF Unmade
  <1>2. CASE proc[p].mine # None
    <2>1. proc' = [proc EXCEPT ![p].at = "hold", ![p].made = None] /\ UNCHANGED displaced
      BY <1>2 DEF Unmade
    <2> DEFINE mid == [proc EXCEPT ![p].at = "hold"]
    <2>2. /\ mid \in [Procs -> Records] /\ \A q \in Procs \ {p} : mid[q] = proc[q]
          /\ mid[p].at = "hold" /\ mid[p].mine = proc[p].mine
      BY DEF LockInv, LockTypeOK, Records, LockSteps
    <2>3. proc' = [mid EXCEPT ![p].made = None]
      BY <2>1
    <2> HIDE DEF mid
    <2>4. /\ [mid[p] EXCEPT !.made = None].at = mid[p].at
          /\ [mid[p] EXCEPT !.made = None].mine = mid[p].mine
      BY <2>2 DEF Records
    <2>5. /\ \A q \in Procs \ {p} : proc'[q] = proc[q]
          /\ proc'[p].at = "hold" /\ proc'[p].mine = proc[p].mine
      BY <2>2, <2>3, <2>4
    <2> QED BY <2>1, <2>5, SameWriters DEF Lock!vars
  <1> QED BY <1>1, <1>2

LEMMA JudgeMaps ==
  ASSUME LockInv, NEW p \in Procs, Judge(p)
  PROVE  Lock!Leave(p) \/ UNCHANGED Lock!vars
PROOF
  <1>1. CASE Again(p) \/ Gone(p)
    BY <1>1, AgainLeaves, GoneLeaves
  <1>2. CASE proc' = [proc EXCEPT ![p].at = "claim", ![p].judged = path] /\ UNCHANGED displaced
    <2>1. path \in Files \cup {None} /\ proc[p].at = "judge"
      BY DEF Judge, LockInv, LockTypeOK
    <2> DEFINE mid == [proc EXCEPT ![p].at = "claim"]
    <2>2. /\ mid \in [Procs -> Records] /\ \A q \in Procs \ {p} : mid[q] = proc[q]
          /\ mid[p].at = "claim" /\ mid[p].mine = proc[p].mine
      BY DEF LockInv, LockTypeOK, Records, LockSteps
    <2>3. proc' = [mid EXCEPT ![p].judged = path]
      BY <1>2
    <2> HIDE DEF mid
    <2>4. /\ [mid[p] EXCEPT !.judged = path].at = mid[p].at
          /\ [mid[p] EXCEPT !.judged = path].mine = mid[p].mine
      BY <2>2 DEF Records
    <2>5. /\ \A q \in Procs \ {p} : proc'[q] = proc[q]
          /\ proc'[p].at = "claim" /\ proc'[p].mine = proc[p].mine
      BY <2>2, <2>3, <2>4
    <2> QED BY <1>2, <2>1, <2>5, SameWriters DEF Lock!vars
  <1> QED BY <1>1, <1>2 DEF Judge

\* A claim contends when it takes aside a lock it had not judged.
LEMMA ClaimMaps ==
  ASSUME LockInv, NEW p \in Procs, Claim(p)
  PROVE  Lock!Leave(p) \/ Lock!Contend \/ UNCHANGED Lock!vars
PROOF
  <1>1. CASE Again(p)
    BY <1>1, AgainLeaves
  <1>2. CASE proc' = [proc EXCEPT ![p].at = "compare"] /\ displaced' = (displaced \/ path # proc[p].judged)
    <2>1. /\ \A q \in Procs \ {p} : proc'[q] = proc[q]
          /\ proc'[p].at = "compare" /\ proc'[p].mine = proc[p].mine /\ proc[p].at = "claim"
      BY <1>2 DEF LockInv, LockTypeOK, Claim
    <2>2. Writers' = Writers
      BY <2>1, SameWriters
    <2>3. displaced \in BOOLEAN
      BY DEF LockInv, LockTypeOK
    <2> QED BY <1>2, <2>2, <2>3 DEF Lock!Contend, Lock!vars
  <1> QED BY <1>1, <1>2 DEF Claim

\* Naming a lock file is how a Gateway becomes a writer: nobody else is one, or
\* the lock is contested.
LEMMA NamedEnters ==
  ASSUME LockInv, NEW p \in Procs, Named(p), proc[p].at = "write" \/ proc[p].at = "rewrite"
  PROVE  Lock!Enter(p) \/ Lock!Leave(p)
PROOF
  <1>1. /\ \A q \in Procs \ {p} : proc'[q] = proc[q]
        /\ proc'[p].at = "hold" /\ proc'[p].mine = proc[p].made /\ displaced' = displaced
    BY NamedFacts DEF Named
  <1>2. CASE displaced
    <2>1. CASE proc[p].made # None
      BY <1>1, <1>2, <2>1 DEF Lock!Enter, Writers
    <2>2. CASE proc[p].made = None
      BY <1>1, <2>2 DEF Lock!Leave, Writers
    <2> QED BY <2>1, <2>2
  <1>3. CASE ~ displaced
    <2>1. Writers = {}
      BY <1>3 DEF LockInv, Uncontested, Stakes, Writers
    <2>2. proc[p].made # None
      BY <1>3 DEF LockInv, Uncontested, Stakes, PathIsOf
    <2> QED BY <1>1, <2>1, <2>2 DEF Lock!Enter, Writers
  <1> QED BY <1>2, <1>3

\* A check ends in a lock of this process's own, or in the end of its writing.
LEMMA SettledMaps ==
  ASSUME LockInv, NEW p \in Procs, displaced, Settled(p)
  PROVE  Lock!Enter(p) \/ Lock!Leave(p)
PROOF
  <1>1. CASE path # None /\ text[path] = p
    <2>1. proc' = [proc EXCEPT ![p].at = "hold", ![p].mine = path] /\ UNCHANGED displaced
      BY <1>1 DEF Settled
    <2> DEFINE mid == [proc EXCEPT ![p].at = "hold"]
    <2>2. /\ mid \in [Procs -> Records] /\ \A q \in Procs \ {p} : mid[q] = proc[q]
          /\ mid[p].at = "hold"
      BY DEF LockInv, LockTypeOK, Records, LockSteps
    <2>3. proc' = [mid EXCEPT ![p].mine = path]
      BY <2>1
    <2> HIDE DEF mid
    <2>4. /\ [mid[p] EXCEPT !.mine = path].at = mid[p].at
          /\ [mid[p] EXCEPT !.mine = path].mine = path
      BY <2>2 DEF Records
    <2>5. /\ \A q \in Procs \ {p} : proc'[q] = proc[q]
          /\ proc'[p].at = "hold" /\ proc'[p].mine = path
      BY <2>2, <2>3, <2>4
    <2> QED BY <1>1, <2>1, <2>5 DEF Lock!Enter, Writers
  <1>2. CASE ~ (path # None /\ text[path] = p)
    <2>1. Go(p, "lost")
      BY <1>2 DEF Settled
    <2>2. /\ \A q \in Procs \ {p} : proc'[q] = proc[q]
          /\ proc'[p].at = "lost" /\ displaced' = displaced
      BY <2>1, GoFacts DEF LockSteps, LockInv
    <2> QED BY <2>2 DEF Lock!Leave, Writers
  <1> QED BY <1>1, <1>2

LEMMA CheckMaps ==
  ASSUME LockInv, NEW p \in Procs, CheckStat(p) \/ CheckRead(p)
  PROVE  Lock!Enter(p) \/ Lock!Leave(p) \/ UNCHANGED Lock!vars
PROOF
  <1>1. displaced /\ proc[p].at \in {"hold", "read"}
    BY CheckIsContested DEF CheckStat, CheckRead
  <1>2. CASE Settled(p)
    BY <1>1, <1>2, SettledMaps
  <1>3. CASE \E next \in {"retake", "read"} : Go(p, next)
    BY <1>1, <1>3, GoStutters DEF LockSteps
  <1> QED BY <1>2, <1>3 DEF CheckStat, CheckRead

LEMMA ReleaseLeaves ==
  ASSUME LockInv, NEW p \in Procs, Release(p)
  PROVE  Lock!Leave(p)
PROOF
  <1>1. proc' = [proc EXCEPT ![p].at = "leave", ![p].mine = None] /\ UNCHANGED displaced
    BY DEF Release
  <1> DEFINE mid == [proc EXCEPT ![p].at = "leave"]
  <1>2. mid \in [Procs -> Records] /\ \A q \in Procs \ {p} : mid[q] = proc[q]
    BY DEF LockInv, LockTypeOK, Records, LockSteps
  <1>3. proc' = [mid EXCEPT ![p].mine = None]
    BY <1>1
  <1> HIDE DEF mid
  <1>4. [mid[p] EXCEPT !.mine = None].mine = None
    BY <1>2 DEF Records
  <1>5. /\ \A q \in Procs \ {p} : proc'[q] = proc[q]
        /\ proc'[p].mine = None
    BY <1>2, <1>3, <1>4
  <1> QED BY <1>1, <1>5 DEF Lock!Leave, Writers

LEMMA StepMaps == LockInv /\ [LockNext]_lockVars => [Lock!Next]_Lock!vars
PROOF
  <1> SUFFICES ASSUME LockInv, [LockNext]_lockVars PROVE [Lock!Next]_Lock!vars
    OBVIOUS
  <1>1. ASSUME NEW p \in Procs, LockStep(p) PROVE [Lock!Next]_Lock!vars
    <2>1. CASE Create(p) \/ Retake(p)
      BY <2>1, MakeStutters
    <2>2. CASE Write(p) \/ Rewrite(p)
      BY <2>2, NamedEnters DEF Write, Rewrite, Lock!Next
    <2>3. CASE UnmakeStat(p)
      <3>1. CASE Go(p, "unlink")
        BY <2>3, <3>1, GoStutters DEF UnmakeStat, LockSteps
      <3>2. CASE Unmade(p)
        BY <2>3, <3>2, UnmadeLeavesOrStutters DEF UnmakeStat, Lock!Next
      <3> QED BY <2>3, <3>1, <3>2 DEF UnmakeStat
    <2>4. CASE UnmakeUnlink(p)
      BY <2>4, UnmadeLeavesOrStutters DEF UnmakeUnlink, Lock!Next
    <2>5. CASE Judge(p)
      BY <2>5, JudgeMaps DEF Lock!Next
    <2>6. CASE Claim(p)
      BY <2>6, ClaimMaps DEF Lock!Next
    <2>7. CASE Compare(p) \/ Restore(p)
      <3>1. proc[p].at # "lost" /\ \E next \in {"drop", "restore"} : Go(p, next)
        BY <2>7 DEF Compare, Restore
      <3> QED BY <3>1, GoStutters DEF LockSteps
    <2>8. CASE Drop(p)
      BY <2>8, AgainLeaves DEF Drop, Lock!Next
    <2>9. CASE CheckStat(p) \/ CheckRead(p)
      BY <2>9, CheckMaps DEF Lock!Next
    <2>10. CASE Reread(p)
      BY <2>10, CheckIsContested, SettledMaps DEF Reread, Lock!Next
    <2>11. CASE ReleaseRead(p)
      <3>1. CASE Go(p, "remove")
        BY <2>11, <3>1, GoStutters DEF ReleaseRead, LockSteps
      <3>2. CASE Gone(p)
        BY <3>2, GoneLeaves DEF Lock!Next
      <3> QED BY <2>11, <3>1, <3>2 DEF ReleaseRead
    <2>12. CASE ReleaseUnlink(p)
      BY <2>12, GoneLeaves DEF ReleaseUnlink, Lock!Next
    <2> QED BY <1>1, <2>1, <2>2, <2>3, <2>4, <2>5, <2>6, <2>7, <2>8, <2>9, <2>10, <2>11, <2>12 DEF LockStep
  <1>2. ASSUME NEW p \in Procs, Start(p) PROVE [Lock!Next]_Lock!vars
    BY <1>2, GoStutters DEF Start, LockSteps
  <1>3. ASSUME NEW p \in Procs, Fail(p) PROVE [Lock!Next]_Lock!vars
    <2>1. CASE WriteFails(p)
      BY <2>1, GoStutters DEF WriteFails, LockSteps
    <2>2. CASE Crash(p)
      BY <2>2, GoneLeaves DEF Crash, Lock!Next
    <2> QED BY <1>3, <2>1, <2>2 DEF Fail
  <1>4. ASSUME NEW p \in Procs, Release(p) PROVE [Lock!Next]_Lock!vars
    BY <1>4, ReleaseLeaves DEF Lock!Next
  <1>5. CASE UNCHANGED lockVars
    BY <1>5 DEF lockVars, Lock!vars, Writers
  <1> QED BY <1>1, <1>2, <1>3, <1>4, <1>5 DEF LockNext

LEMMA StartMaps == LockInit => Lock!Init
PROOF
  <1> SUFFICES ASSUME LockInit PROVE Lock!Init
    OBVIOUS
  <1>1. \A p \in Procs : proc[p].mine = None
    BY OffFacts DEF LockInit
  <1> QED BY <1>1 DEF LockInit, Lock!Init, Writers

\* claimStateLock, #checkLock, #retakeLock and #releaseLock implement the lock of
\* a state directory: each of their file operations is a Gateway that becomes or
\* stops being its writer, a claim that contends, or nothing the abstract lock
\* sees.
THEOREM LockIsImplemented == LockSpec => IsADirectoryLock
PROOF
  <1>1. LockInv /\ [LockNext]_lockVars => [Lock!Next]_Lock!vars
    BY StepMaps
  <1> QED BY <1>1, StartMaps, LockIsSound, PTL DEF LockSpec, IsADirectoryLock, Lock!Spec

LEMMA PromiseHolds == Lock!Spec => []Lock!OneWriter
PROOF
  <1>1. Lock!Init => Lock!OneWriter
    BY DEF Lock!Init, Lock!OneWriter
  <1>2. Lock!OneWriter /\ [Lock!Next]_Lock!vars => Lock!OneWriter'
    <2> SUFFICES ASSUME Lock!OneWriter, [Lock!Next]_Lock!vars PROVE Lock!OneWriter'
      OBVIOUS
    <2>1. ASSUME NEW p \in Procs, Lock!Enter(p) PROVE Lock!OneWriter'
      BY <2>1 DEF Lock!Enter, Lock!OneWriter
    <2>2. ASSUME NEW p \in Procs, Lock!Leave(p) PROVE Lock!OneWriter'
      BY <2>2 DEF Lock!Leave, Lock!OneWriter
    <2>3. CASE Lock!Contend
      BY <2>3 DEF Lock!Contend, Lock!OneWriter
    <2>4. CASE UNCHANGED Lock!vars
      BY <2>4 DEF Lock!vars, Lock!OneWriter
    <2> QED BY <2>1, <2>2, <2>3, <2>4 DEF Lock!Next
  <1> QED BY <1>1, <1>2, PTL DEF Lock!Spec

\* So two Gateways never write one state directory unless a claim has taken aside
\* a lock it had not judged, and somebody it disturbed is still there.
THEOREM OneGatewayWrites == LockSpec => [](displaced \/ \A p, q \in Writers : p = q)
PROOF
  <1>1. Lock!OneWriter => displaced \/ \A p, q \in Writers : p = q
    BY DEF Lock!OneWriter
  <1> QED BY <1>1, LockIsImplemented, PromiseHolds, PTL DEF IsADirectoryLock

-----------------------------------------------------------------------------
(* The store: a log, and what a directory stands for *)

Record == [seq : Nat \ {0}, op : Nat]

Powerless == "power" \notin Crashes

\* No power loss undoes a cut: none comes, or no write fails that one takes back.
CutsLast == Powerless \/ {"write", "openMarker"} \cap Faults = {}

\* What may follow the records of a log that takes more, of a live one, and of
\* one rolled aside.
CleanEnds == IF CutsLast THEN {"no"} ELSE {"no", "cut"}
LiveEnds == CleanEnds \cup {"tail"}
AsideEnds == IF CutsLast THEN {"no"} ELSE {"no", "cut", "tail"}

Later(a, b) == IF a > b THEN a ELSE b

LogOf(ls, id) == IF id = 0 THEN EmptyLog ELSE ls[id]
RecsOf(ls, id) == LogOf(ls, id).recs

\* The seq replay stands at behind these records, from seq s on.
Behind(s, recs) == IF Len(recs) = 0 THEN s ELSE Later(s, recs[Len(recs)].seq)

Ascending(recs) == \A i, j \in DOMAIN recs : i < j => recs[i].seq < recs[j].seq

\* From seq s on, replay misses no record before one of these.
Chained(s, recs) ==
  \A i \in DOMAIN recs : recs[i].seq <= 1 + (IF i = 1 THEN s ELSE Later(s, recs[i - 1].seq))

OpsOf(recs, n) == {recs[i].op : i \in 1 .. n} \ {0}

Middle(ls, d) == Behind(d.snap.walSeq, RecsOf(ls, d.rot))
Top(ls, d) == Behind(Middle(ls, d), RecsOf(ls, d.wal))

\* The operations that the next start finds, and those a power loss leaves it.
Kept(ls, d) ==
  d.snap.body \cup OpsOf(RecsOf(ls, d.rot), Len(RecsOf(ls, d.rot)))
              \cup OpsOf(RecsOf(ls, d.wal), Len(RecsOf(ls, d.wal)))
Held(ls, d) ==
  d.snap.body \cup OpsOf(RecsOf(ls, d.rot), Len(RecsOf(ls, d.rot)))
              \cup OpsOf(RecsOf(ls, d.wal), LogOf(ls, d.wal).synced)

Synced(ls, id) == LogOf(ls, id).synced = Len(RecsOf(ls, id))

\* The history gives a seq once.
OneEach(hist) == \A h, k \in hist : h.seq = k.seq => h = k

\* The snapshot and the logs of a directory are one story.
Story(hist, ls, d) ==
  /\ Ascending(RecsOf(ls, d.rot)) /\ Ascending(RecsOf(ls, d.wal))
  /\ Chained(d.snap.walSeq, RecsOf(ls, d.rot)) /\ Chained(Middle(ls, d), RecsOf(ls, d.wal))
  /\ LogOf(ls, d.rot).damage \in AsideEnds /\ LogOf(ls, d.wal).damage \in LiveEnds
  /\ d.wal # 0 => d.rot # d.wal
  /\ \A i \in DOMAIN RecsOf(ls, d.rot) : RecsOf(ls, d.rot)[i] \in hist
  /\ \A i \in DOMAIN RecsOf(ls, d.wal) : RecsOf(ls, d.wal)[i] \in hist
  /\ \A h \in hist : h.seq <= d.snap.walSeq /\ h.op # 0 => h.op \in d.snap.body

\* Every directory the next start may find.
Stories(hist, ls, mb, d) ==
  /\ d \in mb
  /\ OneEach(hist)
  /\ \A x \in mb : Story(hist, ls, x)
  /\ \A x \in mb : Top(ls, x) <= Top(ls, d)
  /\ \A x \in mb : d.wal # 0 => x.rot # d.wal /\ (x.wal = d.wal => Top(ls, x) = Top(ls, d))

\* What a power loss cannot take.
Safe(dur, ls, mb) ==
  \A x \in mb : Synced(ls, x.rot) /\ dur \subseteq Held(ls, x) /\ LogOf(ls, x.wal).synced \in 0 .. Len(RecsOf(ls, x.wal))

-----------------------------------------------------------------------------
(* The store: its inductive invariant *)

\* The files are there, and the directory is one that a power loss may leave.
DiskType(ls, mb, d) ==
  /\ ls \in Seq(Logs) /\ mb \subseteq Directories /\ d \in mb
  /\ \A x \in mb : x.wal \in 0..Len(ls) /\ x.rot \in 0..Len(ls)

\* The disk, with what reached it and what was answered for.
Disk(hist, ls, mb, d, wr, dur) ==
  /\ DiskType(ls, mb, d) /\ hist \in SUBSET Record
  /\ Stories(hist, ls, mb, d)
  /\ wr \subseteq Kept(ls, d)
  /\ Powerless \/ Safe(dur, ls, mb)

\* What a store that is up holds of it.
Holds(st, hist, ls, d, wr, dur) ==
  /\ st.seq = Top(ls, d)
  /\ \A h \in hist : h.seq <= st.seq
  /\ \A h \in hist : h.op # 0 => h.op \in st.mem
  /\ wr \subseteq st.mem
  /\ st.fd # 0 => st.fd = d.wal /\ st.wal
  /\ st.pending => st.fd # 0
  /\ ~st.torn => LogOf(ls, d.wal).damage \in CleanEnds
  /\ st.torn /\ CutsLast => Powerless
  /\ Powerless \/ dur \subseteq st.mem

\* Its log is synced, or the next barrier will sync it.
Covered(st, ls, d) == Powerless \/ st.pending \/ ~st.wal \/ Synced(ls, d.wal)

Snapping == {"snap_barrier", "snap_rename", "snap_sync"}

\* What holds at the next file operation p, for the call under way.
Place(p, ret, st, d) ==
  /\ p \in {"snap_sync", "fold_remove", "retire", "torn_remove_rot", "torn_remove_wal"} =>
       d.snap = SnapshotOf(st)
  /\ p \in {"snap_rename", "snap_sync", "rot_cut", "rot_fold", "fold_remove", "rot_rename", "torn_remove_rot"} =>
       ~st.pending
  /\ p \in {"rot_barrier", "rot_cut", "rot_fold", "fold_remove", "rot_rename", "torn_remove_rot",
            "torn_remove_wal", "torn_sync", "open_wal", "marker", "sync_names", "retire"} => st.wal
  /\ p \in Snapping /\ ret # "idle" => st.wal
  /\ p \in {"rot_fold", "fold_remove", "rot_rename"} => ~st.torn
  /\ p \in Snapping /\ ret = "fold_remove" => ~st.torn
  /\ p = "rot_rename" => d.rot = 0
  /\ p \in {"torn_remove_wal", "torn_sync", "open_wal"} => st.fd = 0
  /\ p \in {"torn_sync", "open_wal"} => d.wal = 0
  /\ p = "boot_marker" /\ st.wal => st.fd # 0 /\ ~st.torn

Rets == {"idle", "fold_remove", "retire", "torn_remove_rot"}
Calls == [ret : Rets, job : {"rotate", "replace"}, closing : BOOLEAN]
Stores(n) == [wal : BOOLEAN, mem : SUBSET Nat, seq : Nat, fd : 0 .. n,
              torn : BOOLEAN, pending : BOOLEAN, dirty : BOOLEAN]
Bounds == [faults : Nat, stops : Nat, rotations : Nat]

\* A start halts on one thing only.
Types ==
  /\ \/ pc \in Steps \ {"halted"}
     \/ pc = "halted" /\ ~CutsLast /\ LogOf(logs, dir.rot).damage = "tail"
  /\ call \in Calls
  /\ store \in Stores(Len(logs))
  /\ written \in SUBSET Nat /\ durable \in SUBSET Nat
  /\ nextOp \in Nat /\ used \in Bounds

IInv ==
  /\ Types
  /\ Disk(history, logs, maybe, dir, written, durable)
  /\ Up => /\ Holds(store, history, logs, dir, written, durable)
           /\ pc = "boot_marker" \/ Covered(store, logs, dir)
           /\ Place(pc, call.ret, store, dir)

-----------------------------------------------------------------------------
(* The store: numbers *)

\* A set of numbers from 0 to N has one whose predecessor is not in it: induction, for least counterexamples.
LEMMA LeastOf ==
  ASSUME NEW N \in Nat, NEW B \in SUBSET (0..N), B # {}
  PROVE  \E m \in B : m = 0 \/ m - 1 \notin B
<1> DEFINE S == 0..N
<1> DEFINE Bad == {0..m : m \in B}
<1>1. IsFiniteSet(S) BY FS_Interval
<1>2. Bad \in SUBSET (SUBSET S) /\ Bad # {}
  <2>1. \A m \in B : 0..m \subseteq 0..N OBVIOUS
  <2> QED BY <2>1
<1>3. IsWellFoundedOn(StrictSubsetOrdering(S), SUBSET S)
  BY <1>1, FS_StrictSubsetOrderingWellFounded, FS_FiniteSubsetsOfFinite
<1> HIDE DEF S, Bad
<1>4. PICK T \in Bad : \A U \in Bad : ~(<<U, T>> \in StrictSubsetOrdering(S))
  BY <1>2, <1>3, WFMin
<1>5. PICK m \in B : T = 0..m BY DEF Bad
<1>6. ASSUME m # 0, m - 1 \in B PROVE FALSE
  <2>1. 0..(m - 1) \in Bad BY <1>6 DEF Bad
  <2>2. m \in Nat /\ m \in 0..m /\ m \notin 0..(m - 1) /\ 0..(m - 1) \subseteq 0..m BY <1>6
  <2>3. <<0..(m - 1), T>> \in StrictSubsetOrdering(S)
    BY <1>2, <1>5, <2>1, <2>2 DEF StrictSubsetOrdering
  <2> QED BY <1>4, <2>1, <2>3
<1> QED BY <1>6

\* Min picks the least number of a set that has one.
LEMMA MinIsLeast ==
  ASSUME NEW N \in Nat, NEW S \in SUBSET (1..N), S # {}
  PROVE  Min(S) \in S
<1> DEFINE B == {n \in 0..N : \E x \in S : x <= n}
<1>1. PICK x \in S : TRUE OBVIOUS
<1>2. x \in B OBVIOUS
<1>3. B \in SUBSET (0..N) /\ B # {} BY <1>2
<1>4. PICK m \in B : m = 0 \/ m - 1 \notin B
  <2> HIDE DEF B
  <2> QED BY <1>3, LeastOf
<1>5. PICK y \in S : y <= m OBVIOUS
<1>6. m # 0 /\ m \in 0..N /\ y \in 1..N BY <1>5
<1>7. \A z \in S : y <= z
  <2> SUFFICES ASSUME NEW z \in S, z < y PROVE FALSE BY <1>6
  <2>1. z <= m - 1 /\ m - 1 \in 0..N BY <1>5, <1>6
  <2> QED BY <1>4, <1>6, <2>1
<1> QED BY <1>7 DEF Min

-----------------------------------------------------------------------------
(* The store: a log *)

LEMMA EndsAre ==
  /\ "no" \in CleanEnds /\ CleanEnds \subseteq LiveEnds /\ CleanEnds \subseteq AsideEnds
  /\ LiveEnds \subseteq {"no", "tail", "cut"} /\ "tail" \in LiveEnds /\ LiveEnds \ {"tail"} \subseteq CleanEnds
  /\ AsideEnds \subseteq {"no", "tail", "cut"} /\ {"no", "tail"} \subseteq LiveEnds /\ "no" \in AsideEnds
  /\ CutsLast => AsideEnds = {"no"}
  /\ ~CutsLast => AsideEnds = {"no", "cut", "tail"} /\ CleanEnds = {"no", "cut"}
BY DEF CleanEnds, LiveEnds, AsideEnds

LEMMA EmptyLogType == EmptyLog \in Logs /\ EmptyLog.recs = <<>> /\ EmptyLog.synced = 0 /\ EmptyLog.damage = "no"
<1> DEFINE none == <<>>
<1>1. none \in Seq(Record) OBVIOUS
<1> HIDE DEF none
<1>2. [recs |-> none, synced |-> 0, damage |-> "no"] \in Logs BY <1>1 DEF Logs, Record
<1>3. EmptyLog = [recs |-> none, synced |-> 0, damage |-> "no"] BY DEF EmptyLog, none
<1> QED BY <1>2, <1>3 DEF none

\* A name stands for a log, or for none, which reads like an empty one.
LEMMA LogOfType ==
  ASSUME NEW ls \in Seq(Logs), NEW id \in 0..Len(ls)
  PROVE  /\ LogOf(ls, id) \in Logs
         /\ RecsOf(ls, id) \in Seq(Record)
         /\ Len(RecsOf(ls, id)) \in Nat /\ DOMAIN RecsOf(ls, id) = 1..Len(RecsOf(ls, id))
         /\ \A i \in 1..Len(RecsOf(ls, id)) : RecsOf(ls, id)[i] \in Record
         /\ LogOf(ls, id).synced \in Nat
         /\ LogOf(ls, id).damage \in {"no", "tail", "cut", "middle"}
         /\ id # 0 => LogOf(ls, id) = ls[id] /\ RecsOf(ls, id) = ls[id].recs
<1>1. LogOf(ls, id) \in Logs
  <2>1. CASE id = 0 BY <2>1, EmptyLogType DEF LogOf
  <2>2. CASE id # 0
    <3>1. id \in 1..Len(ls) BY <2>2
    <3>2. ls[id] \in Logs BY <3>1
    <3> QED BY <2>2, <3>2 DEF LogOf
  <2> QED BY <2>1, <2>2
<1>2. RecsOf(ls, id) \in Seq(Record) BY <1>1 DEF RecsOf, Logs, Record
<1>3. id # 0 => LogOf(ls, id) = ls[id] /\ RecsOf(ls, id) = ls[id].recs BY DEF LogOf, RecsOf
<1>4. LogOf(ls, id).synced \in Nat /\ LogOf(ls, id).damage \in {"no", "tail", "cut", "middle"} BY <1>1 DEF Logs
<1> DEFINE recs == RecsOf(ls, id)
<1>5. recs \in Seq(Record) BY <1>2
<1> HIDE DEF recs
<1>6. Len(recs) \in Nat /\ DOMAIN recs = 1..Len(recs) /\ \A i \in 1..Len(recs) : recs[i] \in Record BY <1>5
<1> QED BY <1>1, <1>2, <1>3, <1>4, <1>6 DEF recs

\* Where replay stands behind a log.
LEMMA BehindDoes ==
  ASSUME NEW recs \in Seq(Record), NEW s \in Nat, Ascending(recs)
  PROVE  /\ Behind(s, recs) \in Nat /\ s <= Behind(s, recs)
         /\ \A i \in 1..Len(recs) : recs[i].seq <= Behind(s, recs)
         /\ Behind(s, recs) = s \/ \E i \in 1..Len(recs) : Behind(s, recs) = recs[i].seq
<1>1. Len(recs) \in Nat /\ DOMAIN recs = 1..Len(recs) OBVIOUS
<1>2. \A i \in 1..Len(recs) : recs[i] \in Record /\ recs[i].seq \in Nat
  <2> SUFFICES ASSUME NEW i \in 1..Len(recs) PROVE recs[i] \in Record /\ recs[i].seq \in Nat OBVIOUS
  <2>1. recs[i] \in Record OBVIOUS
  <2> QED BY <2>1 DEF Record
<1>3. CASE Len(recs) = 0 BY <1>1, <1>3 DEF Behind
<1>4. CASE Len(recs) # 0
  <2>1. Len(recs) \in 1..Len(recs) BY <1>1, <1>4
  <2>2. \A i \in 1..Len(recs) : recs[i].seq <= recs[Len(recs)].seq
    <3> SUFFICES ASSUME NEW i \in 1..Len(recs) PROVE recs[i].seq <= recs[Len(recs)].seq OBVIOUS
    <3>1. CASE i = Len(recs) BY <1>2, <3>1
    <3>2. CASE i # Len(recs)
      <4>1. i < Len(recs)
        <5> DEFINE n == Len(recs)
        <5>1. n \in Nat /\ i \in 1..n /\ i # n BY <1>1, <3>2
        <5> HIDE DEF n
        <5>2. i < n BY ONLY <5>1
        <5> QED BY <5>2 DEF n
      <4>2. recs[i].seq < recs[Len(recs)].seq BY <1>1, <2>1, <4>1 DEF Ascending
      <4> QED BY <1>2, <2>1, <4>2
    <3> QED BY <3>1, <3>2
  <2>3. recs[Len(recs)].seq \in Nat BY <1>2, <2>1
  <2> QED BY <1>2, <1>4, <2>1, <2>2, <2>3 DEF Behind, Later
<1> QED BY <1>3, <1>4

-----------------------------------------------------------------------------
(* The store: replay *)

Halts == {"no", "damaged", "gap", "snapshot_missing"}
Accs == [mem : SUBSET Nat, seq : Nat, halt : Halts]

\* What the replay has so far holds every operation of the history up to its seq.
Tells(hist, acc) == \A h \in hist : h.seq <= acc.seq /\ h.op # 0 => h.op \in acc.mem

LEMMA ConsumeRecordDoes ==
  ASSUME NEW base \in Snapshots, NEW hist \in SUBSET Record, OneEach(hist),
         NEW acc \in Accs, acc.halt = "no", base.walSeq <= acc.seq, Tells(hist, acc),
         NEW r \in hist, r.seq <= acc.seq + 1
  PROVE  LET a == ConsumeRecord(base, acc, r) IN
         /\ a \in Accs /\ a.halt = "no" /\ a.seq = Later(acc.seq, r.seq)
         /\ acc.mem \subseteq a.mem /\ Tells(hist, a)
<1> DEFINE a == ConsumeRecord(base, acc, r)
<1>1. base.walSeq \in Nat /\ acc.seq \in Nat /\ r.seq \in Nat /\ r.op \in Nat /\ acc.mem \in SUBSET Nat
  BY DEF Snapshots, Accs, Record
<1>2. CASE r.seq <= acc.seq
  <2>1. a = acc
    <3>1. CASE r.seq <= base.walSeq
      <4>1. a = [acc EXCEPT !.seq = IF r.seq > @ THEN r.seq ELSE @] BY <1>1, <3>1 DEF ConsumeRecord
      <4>2. a = [acc EXCEPT !.seq = acc.seq] BY <1>1, <1>2, <4>1
      <4> QED BY <4>2 DEF Accs
    <3>2. CASE ~(r.seq <= base.walSeq)
      BY <1>1, <1>2, <3>2 DEF ConsumeRecord
    <3> QED BY <3>1, <3>2
  <2>2. Later(acc.seq, r.seq) = acc.seq BY <1>1, <1>2 DEF Later
  <2> QED BY <2>1, <2>2
<1>3. CASE r.seq = acc.seq + 1
  <2>1. a = [acc EXCEPT !.seq = r.seq, !.mem = @ \cup ({r.op} \ {0})]
    BY <1>1, <1>3 DEF ConsumeRecord
  <2>2. a.seq = r.seq /\ a.mem = acc.mem \cup ({r.op} \ {0}) /\ a.halt = "no" /\ a \in Accs
    BY <1>1, <2>1 DEF Accs
  <2>3. Later(acc.seq, r.seq) = r.seq BY <1>1, <1>3 DEF Later
  <2>4. Tells(hist, a)
    <3> SUFFICES ASSUME NEW h \in hist, h.seq <= a.seq, h.op # 0 PROVE h.op \in a.mem BY DEF Tells
    <3>1. h.seq \in Nat BY DEF Record
    <3>2. CASE h.seq <= acc.seq BY <2>2, <3>2 DEF Tells
    <3>3. CASE h.seq = r.seq BY <2>2, <3>3 DEF OneEach
    <3> QED BY <1>1, <1>3, <2>2, <3>1, <3>2, <3>3
  <2> QED BY <2>2, <2>3, <2>4
<1> QED BY <1>1, <1>2, <1>3

\* g says where replay stands after each of these records.
ReadBy(g, base, acc, recs) ==
  /\ g[0] = acc /\ \A n \in 1..Len(recs) : g[n] = ConsumeRecord(base, g[n - 1], recs[n])
  /\ Read(base, acc, recs) = g[Len(recs)]

\* The function that Read picks is there.
LEMMA ReadUnfolds ==
  ASSUME NEW base, NEW acc, NEW recs, Len(recs) \in Nat
  PROVE  \E g : ReadBy(g, base, acc, recs)
<1> DEFINE UpTo(g, n) == g = [k \in 0..n |-> IF k = 0 THEN acc ELSE ConsumeRecord(base, g[k - 1], recs[k])]
<1> DEFINE B == {n \in 0..Len(recs) : ~\E g : UpTo(g, n)}
<1>1. B = {}
  <2> SUFFICES ASSUME B # {} PROVE FALSE OBVIOUS
  <2>1. B \in SUBSET (0..Len(recs)) OBVIOUS
  <2>2. PICK m \in B : m = 0 \/ m - 1 \notin B
    <3> HIDE DEF B
    <3> QED BY <2>1, LeastOf
  <2>3. m \in 0..Len(recs) /\ ~\E g : UpTo(g, m) OBVIOUS
  <2>4. CASE m = 0
    <3> DEFINE g == [k \in 0..0 |-> acc]
    <3>1. \A k \in 0..0 : k = 0 OBVIOUS
    <3>2. UpTo(g, 0) BY <3>1
    <3> QED BY <2>3, <2>4, <3>2
  <2>5. CASE m # 0
    <3>1. m - 1 \in 0..Len(recs) /\ m \in Nat BY <2>3, <2>5
    <3>2. PICK g : UpTo(g, m - 1) BY <2>2, <2>5, <3>1
    <3> DEFINE h == [k \in 0..m |-> IF k = m THEN ConsumeRecord(base, g[m - 1], recs[m]) ELSE g[k]]
    <3>3. \A k \in 0..m : h[k] = IF k = m THEN ConsumeRecord(base, g[m - 1], recs[m]) ELSE g[k] OBVIOUS
    <3>4. \A k \in 0..(m - 1) : g[k] = IF k = 0 THEN acc ELSE ConsumeRecord(base, g[k - 1], recs[k]) BY <3>2
    <3>5. DOMAIN h = 0..m /\ h = [k \in 0..m |-> h[k]] OBVIOUS
    <3> HIDE DEF h, UpTo
    <3>6. \A k \in 0..m : h[k] = IF k = 0 THEN acc ELSE ConsumeRecord(base, h[k - 1], recs[k])
      <4> SUFFICES ASSUME NEW k \in 0..m PROVE h[k] = IF k = 0 THEN acc ELSE ConsumeRecord(base, h[k - 1], recs[k]) OBVIOUS
      <4>1. k # 0 => k - 1 \in 0..m /\ k - 1 # m BY <3>1
      <4>2. k # m => k \in 0..(m - 1) BY <3>1
      <4> QED BY <2>5, <3>3, <3>4, <4>1, <4>2
    <3>7. h = [k \in 0..m |-> IF k = 0 THEN acc ELSE ConsumeRecord(base, h[k - 1], recs[k])] BY <3>5, <3>6
    <3> QED BY <2>3, <3>7 DEF UpTo
  <2> QED BY <2>4, <2>5
<1>2. \E g : UpTo(g, Len(recs)) BY <1>1
<1> DEFINE after == CHOOSE g : UpTo(g, Len(recs))
<1>3. UpTo(after, Len(recs)) BY <1>2
<1>4. Read(base, acc, recs) = after[Len(recs)] BY DEF Read
<1>5. \A k \in 0..Len(recs) : after[k] = IF k = 0 THEN acc ELSE ConsumeRecord(base, after[k - 1], recs[k]) BY <1>3
<1> HIDE DEF after
<1>6. after[0] = acc /\ \A n \in 1..Len(recs) : after[n] = ConsumeRecord(base, after[n - 1], recs[n]) BY <1>5
<1>7. ReadBy(after, base, acc, recs) BY <1>4, <1>6 DEF ReadBy
<1> QED BY <1>7

\* A log that misses no record is read to its end.
LEMMA ReadDoes ==
  ASSUME NEW base \in Snapshots, NEW hist \in SUBSET Record, OneEach(hist),
         NEW acc \in Accs, acc.halt = "no", base.walSeq <= acc.seq, Tells(hist, acc),
         NEW recs \in Seq(Record), \A i \in DOMAIN recs : recs[i] \in hist,
         Ascending(recs), Chained(acc.seq, recs)
  PROVE  LET a == Read(base, acc, recs) IN
         /\ a \in Accs /\ a.halt = "no" /\ a.seq = Behind(acc.seq, recs)
         /\ acc.mem \subseteq a.mem /\ Tells(hist, a)
<1>1. Len(recs) \in Nat /\ DOMAIN recs = 1..Len(recs) /\ \A i \in 1..Len(recs) : recs[i] \in Record /\ recs[i].seq \in Nat
  BY DEF Record
<1>a. PICK g : ReadBy(g, base, acc, recs)
  <2>1. Len(recs) \in Nat BY <1>1
  <2> QED BY <2>1, ReadUnfolds
<1>2. /\ g[0] = acc /\ \A n \in 1..Len(recs) : g[n] = ConsumeRecord(base, g[n - 1], recs[n])
      /\ Read(base, acc, recs) = g[Len(recs)]
  BY <1>a DEF ReadBy
<1> DEFINE Good(n) == /\ g[n] \in Accs /\ g[n].halt = "no"
                      /\ g[n].seq = (IF n = 0 THEN acc.seq ELSE Later(acc.seq, recs[n].seq))
                      /\ acc.mem \subseteq g[n].mem /\ Tells(hist, g[n])
<1> DEFINE B == {n \in 0..Len(recs) : ~Good(n)}
<1>3. B = {}
  <2> SUFFICES ASSUME B # {} PROVE FALSE OBVIOUS
  <2>1. B \in SUBSET (0..Len(recs)) OBVIOUS
  <2>2. PICK m \in B : m = 0 \/ m - 1 \notin B
    <3> HIDE DEF B
    <3> QED BY <1>1, <2>1, LeastOf
  <2>3. m \in 0..Len(recs) /\ ~Good(m) OBVIOUS
  <2>4. CASE m = 0 BY <1>2, <2>3, <2>4
  <2>5. CASE m # 0
    <3>1. m - 1 \in 0..Len(recs) /\ m \in 1..Len(recs) BY <1>1, <2>3, <2>5
    <3>2. Good(m - 1) BY <2>2, <2>5, <3>1
    <3>3. g[m] = ConsumeRecord(base, g[m - 1], recs[m]) BY <1>2, <3>1
    <3> DEFINE a == g[m - 1]
    <3> DEFINE r == recs[m]
    <3> DEFINE b == ConsumeRecord(base, a, r)
    <3>4. r \in hist /\ r.seq \in Nat BY <1>1, <3>1
    <3>5. acc.seq \in Nat /\ a.seq \in Nat /\ base.walSeq \in Nat BY <3>2 DEF Accs, Snapshots
    <3>6. r.seq <= 1 + (IF m = 1 THEN acc.seq ELSE Later(acc.seq, recs[m - 1].seq)) BY <1>1, <3>1 DEF Chained
    <3>7. a.seq = (IF m = 1 THEN acc.seq ELSE Later(acc.seq, recs[m - 1].seq)) BY <3>1, <3>2
    <3>8. r.seq <= a.seq + 1 BY <3>4, <3>5, <3>6, <3>7
    <3>9. m # 1 => recs[m - 1].seq < r.seq /\ recs[m - 1].seq \in Nat
      <4> HAVE m # 1
      <4>1. m - 1 \in 1..Len(recs) /\ m - 1 < m BY <3>1
      <4> QED BY <1>1, <3>1, <4>1 DEF Ascending
    <3>10. base.walSeq <= a.seq BY <3>5, <3>7, <3>9 DEF Later
    <3>11. a \in Accs /\ a.halt = "no" /\ Tells(hist, a) /\ acc.mem \subseteq a.mem BY <3>2
    <3>12. b \in Accs /\ b.halt = "no" /\ b.seq = Later(a.seq, r.seq) /\ a.mem \subseteq b.mem /\ Tells(hist, b)
      <4> HIDE DEF a, r
      <4> QED BY <3>4, <3>8, <3>10, <3>11, ConsumeRecordDoes
    <3>13. Later(a.seq, r.seq) = Later(acc.seq, r.seq)
      <4> HIDE DEF a, r
      <4> QED BY <3>4, <3>5, <3>7, <3>9 DEF Later
    <3>14. g[m] = b BY <3>3
    <3> HIDE DEF b, a
    <3>15. Good(m) BY <2>5, <3>11, <3>12, <3>13, <3>14
    <3> QED BY <2>3, <3>15
  <2> QED BY <2>4, <2>5
<1>4. Good(Len(recs)) BY <1>1, <1>3
<1>5. g[Len(recs)].seq = Behind(acc.seq, recs) BY <1>4 DEF Behind
<1> QED BY <1>2, <1>4, <1>5

\* A log that replay reads to its end: what it takes to, and what reading it gives.
Readable(base, hist, acc, id, drop) ==
  /\ base \in Snapshots /\ hist \in SUBSET Record /\ OneEach(hist)
  /\ acc \in Accs /\ acc.halt = "no" /\ base.walSeq <= acc.seq /\ Tells(hist, acc)
  /\ logs \in Seq(Logs) /\ id \in 0..Len(logs) /\ drop \in BOOLEAN
  /\ LogOf(logs, id).damage # "middle" /\ (LogOf(logs, id).damage = "tail" => drop)
  /\ \A i \in DOMAIN RecsOf(logs, id) : RecsOf(logs, id)[i] \in hist
  /\ Ascending(RecsOf(logs, id)) /\ Chained(acc.seq, RecsOf(logs, id))

ReadTo(hist, acc, id, a) ==
  /\ a \in Accs /\ a.halt = "no" /\ a.seq = Behind(acc.seq, RecsOf(logs, id))
  /\ acc.mem \subseteq a.mem /\ Tells(hist, a)

\* One log of a directory: a torn tail is dropped, or not there.
LEMMA ConsumeDoes ==
  ASSUME NEW base, NEW hist, NEW acc, NEW id, NEW drop, Readable(base, hist, acc, id, drop),
         NEW a, a = Consume(base, acc, id, drop)
  PROVE  ReadTo(hist, acc, id, a)
<1>0. /\ base \in Snapshots /\ hist \in SUBSET Record /\ OneEach(hist)
      /\ acc \in Accs /\ acc.halt = "no" /\ base.walSeq <= acc.seq /\ Tells(hist, acc)
      /\ logs \in Seq(Logs) /\ id \in 0..Len(logs) /\ drop \in BOOLEAN
      /\ LogOf(logs, id).damage # "middle" /\ (LogOf(logs, id).damage = "tail" => drop)
      /\ \A i \in DOMAIN RecsOf(logs, id) : RecsOf(logs, id)[i] \in hist
      /\ Ascending(RecsOf(logs, id)) /\ Chained(acc.seq, RecsOf(logs, id))
  BY DEF Readable
<1>1. CASE id = 0
  <2>1. a = acc BY <1>1 DEF Consume
  <2>2. RecsOf(logs, id) = <<>> BY <1>1, EmptyLogType DEF RecsOf, LogOf
  <2>3. Behind(acc.seq, RecsOf(logs, id)) = acc.seq BY <2>2 DEF Behind
  <2> QED BY <1>0, <2>1, <2>3 DEF ReadTo
<1>2. CASE id # 0
  <2> DEFINE recs == RecsOf(logs, id)
  <2>1. recs \in Seq(Record) /\ recs = logs[id].recs /\ LogOf(logs, id) = logs[id] BY <1>0, <1>2, LogOfType
  <2> DEFINE b == Read(base, acc, recs)
  <2>2. /\ b \in Accs /\ b.halt = "no" /\ b.seq = Behind(acc.seq, recs)
        /\ acc.mem \subseteq b.mem /\ Tells(hist, b)
    <3> HIDE DEF recs
    <3> QED BY <1>0, <2>1, ReadDoes DEF recs
  <2>3. ~(logs[id].damage = "middle" \/ (logs[id].damage = "tail" /\ ~drop)) BY <1>0, <2>1
  <2>4. a = b BY <1>2, <2>1, <2>3 DEF Consume
  <2> HIDE DEF b
  <2> QED BY <2>2, <2>4 DEF ReadTo
<1> QED BY <1>1, <1>2

\* One story on disk is read to its end, and tells the history up to there.
LEMMA RecoveredDoes ==
  ASSUME history \in SUBSET Record, DiskType(logs, maybe, dir), Stories(history, logs, maybe, dir),
         NEW truncate \in BOOLEAN, LogOf(logs, dir.rot).damage = "tail" => truncate
  PROVE  LET got == Recovered(truncate) IN
         /\ got \in Accs /\ got.halt = "no" /\ got.seq = Top(logs, dir)
         /\ Tells(history, got) /\ Kept(logs, dir) \subseteq got.mem
<1> DEFINE base == dir.snap
<1> DEFINE start == [mem |-> base.body, seq |-> base.walSeq, halt |-> "no"]
<1> DEFINE one == Consume(base, start, dir.rot, truncate)
<1> DEFINE got == Consume(base, one, dir.wal, TRUE)
<1>1. got = Recovered(truncate) BY DEF Recovered
<1>2. dir \in Directories /\ logs \in Seq(Logs) /\ dir.wal \in 0..Len(logs) /\ dir.rot \in 0..Len(logs)
  BY DEF DiskType
<1>3. base \in Snapshots /\ base.walSeq \in Nat /\ base.body \in SUBSET Nat BY <1>2 DEF Directories, Snapshots
<1>4. Story(history, logs, dir) /\ OneEach(history) BY DEF Stories
<1>5. start \in Accs /\ start.halt = "no" /\ start.seq = base.walSeq /\ start.mem = base.body
  BY <1>3 DEF Accs, Halts
<1>6. Tells(history, start) BY <1>4, <1>5 DEF Tells, Story
<1> HIDE DEF start
<1>7. /\ one \in Accs /\ one.halt = "no" /\ one.seq = Middle(logs, dir)
      /\ start.mem \subseteq one.mem /\ Tells(history, one)
  <2>1. /\ LogOf(logs, dir.rot).damage # "middle" /\ Ascending(RecsOf(logs, dir.rot))
        /\ \A i \in DOMAIN RecsOf(logs, dir.rot) : RecsOf(logs, dir.rot)[i] \in history
        /\ Chained(start.seq, RecsOf(logs, dir.rot))
    BY <1>4, <1>5, EndsAre DEF Story
  <2>2. base.walSeq <= start.seq BY <1>3, <1>5
  <2>3. /\ one \in Accs /\ one.halt = "no" /\ one.seq = Behind(start.seq, RecsOf(logs, dir.rot))
        /\ start.mem \subseteq one.mem /\ Tells(history, one)
    <3>1. one = Consume(base, start, dir.rot, truncate) OBVIOUS
    <3> HIDE DEF base, start, one
    <3>2. base \in Snapshots /\ base.walSeq <= start.seq BY <1>3, <2>2
    <3>3. Readable(base, history, start, dir.rot, truncate) BY <1>2, <1>4, <1>5, <1>6, <2>1, <3>2 DEF Readable
    <3>4. ReadTo(history, start, dir.rot, one) BY ONLY <3>1, <3>3, ConsumeDoes
    <3> QED BY <3>4 DEF ReadTo
  <2> HIDE DEF one
  <2> QED BY <1>5, <2>3 DEF Middle
<1> HIDE DEF one
<1>8. base.walSeq <= one.seq
  <2>1. RecsOf(logs, dir.rot) \in Seq(Record) /\ Ascending(RecsOf(logs, dir.rot)) BY <1>2, <1>4, LogOfType DEF Story
  <2> QED BY <1>3, <1>7, <2>1, BehindDoes DEF Middle
<1>9. /\ got \in Accs /\ got.halt = "no" /\ got.seq = Top(logs, dir)
      /\ one.mem \subseteq got.mem /\ Tells(history, got)
  <2>1. /\ LogOf(logs, dir.wal).damage # "middle" /\ Ascending(RecsOf(logs, dir.wal))
        /\ \A i \in DOMAIN RecsOf(logs, dir.wal) : RecsOf(logs, dir.wal)[i] \in history
        /\ Chained(one.seq, RecsOf(logs, dir.wal))
    BY <1>4, <1>7, EndsAre DEF Story
  <2>2. got \in Accs /\ got.halt = "no" /\ got.seq = Behind(one.seq, RecsOf(logs, dir.wal))
        /\ one.mem \subseteq got.mem /\ Tells(history, got)
    <3>1. got = Consume(base, one, dir.wal, TRUE) OBVIOUS
    <3> HIDE DEF base, got
    <3>2. Readable(base, history, one, dir.wal, TRUE) BY <1>2, <1>3, <1>4, <1>7, <1>8, <2>1 DEF Readable
    <3>3. ReadTo(history, one, dir.wal, got) BY ONLY <3>1, <3>2, ConsumeDoes
    <3> QED BY <3>3 DEF ReadTo
  <2> QED BY <1>7, <2>2 DEF Top
<1> HIDE DEF got
<1>10. Kept(logs, dir) \subseteq got.mem
  <2> DEFINE rot == RecsOf(logs, dir.rot)
  <2> DEFINE wal == RecsOf(logs, dir.wal)
  <2>1. rot \in Seq(Record) /\ wal \in Seq(Record) BY <1>2, LogOfType
  <2>2. Ascending(rot) /\ Ascending(wal) BY <1>4 DEF Story
  <2>3. /\ \A i \in DOMAIN rot : rot[i] \in history
        /\ \A i \in DOMAIN wal : wal[i] \in history BY <1>4 DEF Story
  <2>4. Middle(logs, dir) = Behind(base.walSeq, rot) /\ got.seq = Behind(Middle(logs, dir), wal)
    BY <1>9 DEF Middle, Top
  <2> HIDE DEF rot, wal
  <2>5. Middle(logs, dir) \in Nat /\ \A i \in 1..Len(rot) : rot[i].seq <= Middle(logs, dir)
    BY <1>3, <2>1, <2>2, <2>4, BehindDoes
  <2>6. Middle(logs, dir) <= got.seq /\ \A i \in 1..Len(wal) : wal[i].seq <= got.seq
    BY <2>1, <2>2, <2>4, <2>5, BehindDoes
  <2>7. \A i \in 1..Len(rot) : rot[i].op # 0 => rot[i].op \in got.mem
    <3> SUFFICES ASSUME NEW i \in 1..Len(rot), rot[i].op # 0 PROVE rot[i].op \in got.mem OBVIOUS
    <3>1. rot[i] \in history /\ i \in DOMAIN rot BY <2>1, <2>3
    <3>2. rot[i].seq \in Nat /\ got.seq \in Nat BY <1>9, <3>1 DEF Record, Accs
    <3>3. rot[i].seq <= got.seq BY <2>5, <2>6, <3>2
    <3> QED BY <1>9, <3>1, <3>3 DEF Tells
  <2>8. \A i \in 1..Len(wal) : wal[i].op # 0 => wal[i].op \in got.mem
    BY <1>9, <2>1, <2>3, <2>6 DEF Tells
  <2>9. OpsOf(rot, Len(rot)) \subseteq got.mem /\ OpsOf(wal, Len(wal)) \subseteq got.mem BY <2>7, <2>8 DEF OpsOf
  <2>10. base.body \subseteq got.mem BY <1>5, <1>7, <1>9
  <2> QED BY <2>9, <2>10 DEF Kept, rot, wal
<1> QED BY <1>1, <1>9, <1>10

\* A read that has halted reads nothing more.
LEMMA ReadStops ==
  ASSUME NEW base, NEW acc, acc.halt # "no", NEW recs, Len(recs) \in Nat
  PROVE  Read(base, acc, recs) = acc
<1>1. PICK g : ReadBy(g, base, acc, recs) BY ReadUnfolds
<1>2. /\ g[0] = acc /\ \A n \in 1..Len(recs) : g[n] = ConsumeRecord(base, g[n - 1], recs[n])
      /\ Read(base, acc, recs) = g[Len(recs)]
  BY <1>1 DEF ReadBy
<1> DEFINE B == {n \in 0..Len(recs) : g[n] # acc}
<1>3. B = {}
  <2> SUFFICES ASSUME B # {} PROVE FALSE OBVIOUS
  <2>1. B \in SUBSET (0..Len(recs)) OBVIOUS
  <2>2. PICK m \in B : m = 0 \/ m - 1 \notin B
    <3> HIDE DEF B
    <3> QED BY <2>1, LeastOf
  <2>3. m \in 0..Len(recs) /\ g[m] # acc OBVIOUS
  <2>4. CASE m = 0 BY <1>2, <2>3, <2>4
  <2>5. CASE m # 0
    <3>1. m - 1 \in 0..Len(recs) /\ m \in 1..Len(recs) BY <2>3, <2>5
    <3>2. g[m - 1] = acc BY <2>2, <2>5, <3>1
    <3>3. g[m] = ConsumeRecord(base, acc, recs[m]) BY <1>2, <3>1, <3>2
    <3>4. ConsumeRecord(base, acc, recs[m]) = acc BY DEF ConsumeRecord
    <3> QED BY <2>3, <3>3, <3>4
  <2> QED BY <2>4, <2>5
<1> QED BY <1>2, <1>3

\* A segment with a torn tail halts a start that is not told to truncate.
LEMMA TornSegmentHalts ==
  ASSUME history \in SUBSET Record, DiskType(logs, maybe, dir), Stories(history, logs, maybe, dir),
         LogOf(logs, dir.rot).damage = "tail"
  PROVE  Recovered(FALSE).halt # "no"
<1> DEFINE base == dir.snap
<1> DEFINE start == [mem |-> base.body, seq |-> base.walSeq, halt |-> "no"]
<1> DEFINE recs == logs[dir.rot].recs
<1> DEFINE read == Read(base, start, recs)
<1> DEFINE one == Consume(base, start, dir.rot, FALSE)
<1>1. dir \in Directories /\ logs \in Seq(Logs) /\ dir.wal \in 0..Len(logs) /\ dir.rot \in 0..Len(logs)
  BY DEF DiskType
<1>2. base \in Snapshots /\ base.walSeq \in Nat /\ base.body \in SUBSET Nat BY <1>1 DEF Directories, Snapshots
<1>3. Story(history, logs, dir) /\ OneEach(history) BY DEF Stories
<1>4. dir.rot # 0 BY EmptyLogType DEF LogOf
<1>5. dir.rot \in 1..Len(logs) BY <1>1, <1>4
<1>6. recs \in Seq(Record) /\ logs[dir.rot].damage = "tail" /\ RecsOf(logs, dir.rot) = recs
  BY <1>1, <1>4, LogOfType
<1>7. start \in Accs /\ start.halt = "no" /\ start.seq = base.walSeq /\ start.mem = base.body
  BY <1>2 DEF Accs, Halts
<1>8. Tells(history, start) BY <1>3, <1>7 DEF Tells, Story
<1>9. /\ Ascending(recs) /\ Chained(start.seq, recs)
      /\ \A i \in DOMAIN recs : recs[i] \in history
  BY <1>3, <1>6, <1>7 DEF Story
<1>10. base.walSeq <= start.seq BY <1>2, <1>7
<1> HIDE DEF base, start, recs
<1>11. read \in Accs BY ONLY history \in SUBSET Record, <1>2, <1>3, <1>6, <1>7, <1>8, <1>9, <1>10, ReadDoes
<1> HIDE DEF read
<1>12. one = [read EXCEPT !.halt = IF @ = "no" THEN "damaged" ELSE @]
  BY <1>4, <1>6 DEF Consume, read, recs
<1> HIDE DEF one
<1>13. one.halt # "no" BY <1>11, <1>12 DEF Accs
<1> DEFINE got == Consume(base, one, dir.wal, TRUE)
<1>14. got.halt # "no"
  <2>1. CASE dir.wal = 0 BY <1>13, <2>1 DEF Consume
  <2>2. CASE dir.wal # 0
    <3>1. dir.wal \in 1..Len(logs) BY <1>1, <2>2
    <3>2. Len(logs[dir.wal].recs) \in Nat BY <1>1, <2>2, LogOfType
    <3>3. Read(base, one, logs[dir.wal].recs) = one BY <1>13, <3>2, ReadStops
    <3>4. one \in Accs
      <4>1. DOMAIN read = {"mem", "seq", "halt"} BY <1>11 DEF Accs
      <4> QED BY <1>11, <1>12 DEF Accs, Halts
    <3>5. got = one \/ got = [one EXCEPT !.halt = IF @ = "no" THEN "damaged" ELSE @] BY <2>2, <3>3 DEF Consume
    <3> QED BY <1>13, <3>4, <3>5 DEF Accs
  <2> QED BY <2>1, <2>2
<1>15. Recovered(FALSE) = got BY DEF Recovered, one, start, base
<1> QED BY <1>14, <1>15

-----------------------------------------------------------------------------
(* The store: what a step does to the logs *)

\* Only this log changes, or is made.
OnlyLog(ls, ls2, w) ==
  /\ ls2 \in Seq(Logs) /\ Len(ls) <= Len(ls2)
  /\ \A i \in (0..Len(ls)) \ {w} : LogOf(ls2, i) = LogOf(ls, i)

\* A directory whose logs tell the same tells the same story.
LEMMA StoryStays ==
  ASSUME NEW hist, NEW hist2, NEW ls, NEW ls2, NEW d, Story(hist, ls, d),
         RecsOf(ls2, d.rot) = RecsOf(ls, d.rot), RecsOf(ls2, d.wal) = RecsOf(ls, d.wal),
         LogOf(ls2, d.rot).damage \in AsideEnds, LogOf(ls2, d.wal).damage \in LiveEnds,
         hist \subseteq hist2,
         \A h \in hist2 \ hist : ~(h.seq <= d.snap.walSeq)
  PROVE  /\ Story(hist2, ls2, d) /\ Middle(ls2, d) = Middle(ls, d) /\ Top(ls2, d) = Top(ls, d)
         /\ Kept(ls2, d) = Kept(ls, d)
<1>1. Middle(ls2, d) = Middle(ls, d) BY DEF Middle
<1>2. Top(ls2, d) = Top(ls, d) BY <1>1 DEF Top
<1>3. Kept(ls2, d) = Kept(ls, d) BY DEF Kept
<1>4. Story(hist2, ls2, d) BY <1>1 DEF Story
<1> QED BY <1>1, <1>2, <1>3, <1>4

\* The log that takes the next record.
LEMMA AppendedLog ==
  ASSUME NEW recs \in Seq(Record), NEW r \in Record, NEW s \in Nat,
         Ascending(recs), Chained(s, recs), NEW to \in Nat, Behind(s, recs) = to,
         r.seq = to + 1, \A i \in DOMAIN recs : recs[i].seq <= to
  PROVE  LET new == Append(recs, r) IN
         /\ new \in Seq(Record) /\ Len(new) = Len(recs) + 1
         /\ \A i \in 1..Len(recs) : new[i] = recs[i]
         /\ new[Len(recs) + 1] = r
         /\ Ascending(new) /\ Chained(s, new) /\ Behind(s, new) = r.seq
<1> DEFINE new == Append(recs, r)
<1> DEFINE n == Len(recs)
<1>1. n \in Nat /\ DOMAIN recs = 1..n OBVIOUS
<1>2. /\ new \in Seq(Record) /\ Len(new) = n + 1
      /\ \A i \in 1..n : new[i] = recs[i]
      /\ new[n + 1] = r
  OBVIOUS
<1>3. DOMAIN new = 1..(n + 1) BY <1>2
<1>4. \A i \in 1..n : recs[i].seq \in Nat /\ recs[i].seq <= to
  <2> SUFFICES ASSUME NEW i \in 1..n PROVE recs[i].seq \in Nat /\ recs[i].seq <= to OBVIOUS
  <2>1. recs[i] \in Record OBVIOUS
  <2> QED BY <1>1, <2>1 DEF Record
<1>5. r.seq \in Nat BY DEF Record
<1>6. \A i, j \in 1..n : i < j => recs[i].seq < recs[j].seq BY <1>1 DEF Ascending
<1>7. \A i \in 1..n : recs[i].seq <= 1 + (IF i = 1 THEN s ELSE Later(s, recs[i - 1].seq)) BY <1>1 DEF Chained
<1>8. to = IF n = 0 THEN s ELSE Later(s, recs[n].seq) BY DEF Behind
<1> HIDE DEF new, n
<1>9. Ascending(new)
  <2> SUFFICES ASSUME NEW i \in 1..(n + 1), NEW j \in 1..(n + 1), i < j PROVE new[i].seq < new[j].seq
    BY <1>3 DEF Ascending
  <2>1. i \in 1..n BY <1>1
  <2>2. CASE j = n + 1 BY <1>2, <1>4, <1>5, <2>1, <2>2
  <2>3. CASE j # n + 1
    <3>1. j \in 1..n BY <1>1, <2>3
    <3> QED BY <1>2, <1>6, <2>1, <3>1
  <2> QED BY <2>2, <2>3
<1>10. Chained(s, new)
  <2> SUFFICES ASSUME NEW i \in 1..(n + 1)
               PROVE  new[i].seq <= 1 + (IF i = 1 THEN s ELSE Later(s, new[i - 1].seq))
    BY <1>3 DEF Chained
  <2>1. i # 1 => i - 1 \in 1..n /\ new[i - 1] = recs[i - 1] BY <1>1, <1>2
  <2>2. CASE i = n + 1
    <3>1. to = IF i = 1 THEN s ELSE Later(s, new[i - 1].seq)
      <4>1. i = 1 <=> n = 0 BY <1>1, <2>2
      <4>2. i - 1 = n BY <1>1, <2>2
      <4> QED BY <1>8, <2>1, <4>1, <4>2
    <3> QED BY <1>2, <1>5, <2>2, <3>1
  <2>3. CASE i # n + 1
    <3>1. i \in 1..n BY <1>1, <2>3
    <3> QED BY <1>2, <1>7, <2>1, <3>1
  <2> QED BY <2>2, <2>3
<1>11. Behind(s, new) = r.seq
  <2>1. s <= to
    <3>1. CASE n = 0 BY <1>8, <3>1
    <3>2. CASE n # 0
      <4>1. n \in 1..n BY <1>1, <3>2
      <4> QED BY <1>4, <1>8, <3>2, <4>1 DEF Later
    <3> QED BY <3>1, <3>2
  <2>2. Len(new) # 0 /\ new[Len(new)] = r BY <1>1, <1>2
  <2> QED BY <1>5, <2>1, <2>2 DEF Behind, Later
<1> QED BY <1>2, <1>9, <1>10, <1>11 DEF n, new

\* Where replay gets to, and what it reads, lies between the snapshot and there.
LEMMA TopDoes ==
  ASSUME NEW hist, NEW ls, NEW mb, NEW d, DiskType(ls, mb, d), NEW x \in mb, Story(hist, ls, x)
  PROVE  /\ x \in Directories /\ x.snap \in Snapshots /\ x.snap.walSeq \in Nat /\ x.snap.body \in SUBSET Nat
         /\ x.wal \in 0..Len(ls) /\ x.rot \in 0..Len(ls) /\ ls \in Seq(Logs)
         /\ Middle(ls, x) \in Nat /\ Top(ls, x) \in Nat
         /\ x.snap.walSeq <= Middle(ls, x) /\ Middle(ls, x) <= Top(ls, x)
         /\ RecsOf(ls, x.rot) \in Seq(Record) /\ RecsOf(ls, x.wal) \in Seq(Record)
         /\ \A i \in 1..Len(RecsOf(ls, x.rot)) : RecsOf(ls, x.rot)[i].seq <= Middle(ls, x)
         /\ \A i \in 1..Len(RecsOf(ls, x.wal)) : RecsOf(ls, x.wal)[i].seq <= Top(ls, x)
<1>1. x \in Directories /\ x.wal \in 0..Len(ls) /\ x.rot \in 0..Len(ls) /\ ls \in Seq(Logs) BY DEF DiskType
<1>2. x.snap \in Snapshots /\ x.snap.walSeq \in Nat /\ x.snap.body \in SUBSET Nat BY <1>1 DEF Directories, Snapshots
<1>3. RecsOf(ls, x.rot) \in Seq(Record) /\ RecsOf(ls, x.wal) \in Seq(Record) BY <1>1, LogOfType
<1>4. Ascending(RecsOf(ls, x.rot)) /\ Ascending(RecsOf(ls, x.wal)) BY DEF Story
<1>5. /\ Middle(ls, x) \in Nat /\ x.snap.walSeq <= Middle(ls, x)
      /\ \A i \in 1..Len(RecsOf(ls, x.rot)) : RecsOf(ls, x.rot)[i].seq <= Middle(ls, x)
  BY <1>2, <1>3, <1>4, BehindDoes DEF Middle
<1>6. /\ Top(ls, x) \in Nat /\ Middle(ls, x) <= Top(ls, x)
      /\ \A i \in 1..Len(RecsOf(ls, x.wal)) : RecsOf(ls, x.wal)[i].seq <= Top(ls, x)
  <2> DEFINE m == Middle(ls, x)
  <2>1. m \in Nat BY <1>5
  <2> HIDE DEF m
  <2>2. Top(ls, x) = Behind(m, RecsOf(ls, x.wal)) BY DEF Top, m
  <2>3. /\ Top(ls, x) \in Nat /\ m <= Top(ls, x)
        /\ \A i \in 1..Len(RecsOf(ls, x.wal)) : RecsOf(ls, x.wal)[i].seq <= Top(ls, x)
    BY <1>3, <1>4, <2>1, <2>2, BehindDoes
  <2> QED BY <2>3 DEF m
<1> QED BY <1>1, <1>2, <1>3, <1>5, <1>6

\* The next record goes into the live log, whichever directory a power loss leaves.
LEMMA AppendKeeps ==
  ASSUME NEW hist \in SUBSET Record, NEW ls, NEW mb, NEW d, DiskType(ls, mb, d), Stories(hist, ls, mb, d),
         d.wal # 0, \A h \in hist : h.seq <= Top(ls, d),
         NEW r \in Record, r.seq = Top(ls, d) + 1,
         NEW ls2, OnlyLog(ls, ls2, d.wal), RecsOf(ls2, d.wal) = Append(RecsOf(ls, d.wal), r),
         LogOf(ls2, d.wal).damage = "no", LogOf(ls2, d.wal).synced = LogOf(ls, d.wal).synced
  PROVE  /\ DiskType(ls2, mb, d) /\ Stories(hist \cup {r}, ls2, mb, d)
         /\ Top(ls2, d) = r.seq
         /\ Kept(ls, d) \cup ({r.op} \ {0}) \subseteq Kept(ls2, d)
         /\ \A dur : Safe(dur, ls, mb) => Safe(dur, ls2, mb)
<1> DEFINE w == d.wal
<1> DEFINE recs == RecsOf(ls, w)
<1> DEFINE new == Append(recs, r)
<1> DEFINE hist2 == hist \cup {r}
<1>1. d \in mb /\ \A x \in mb : Story(hist, ls, x) BY DEF Stories
<1>2. \A x \in mb : x.rot # w /\ Top(ls, x) <= Top(ls, d) /\ (x.wal = w => Top(ls, x) = Top(ls, d))
  BY DEF Stories
<1>3. w \in 0..Len(ls) /\ w # 0 /\ recs \in Seq(Record) /\ Top(ls, d) \in Nat BY <1>1, TopDoes
<1>4. r.seq \in Nat /\ r.op \in Nat BY DEF Record
<1>5. DiskType(ls2, mb, d)
  <2>1. Len(ls) \in Nat /\ Len(ls2) \in Nat /\ Len(ls) <= Len(ls2) /\ ls2 \in Seq(Logs) BY DEF DiskType, OnlyLog
  <2> QED BY <2>1 DEF DiskType
<1>6. RecsOf(ls2, w) = new OBVIOUS
<1>7. \A x \in mb : /\ LogOf(ls2, x.rot) = LogOf(ls, x.rot) /\ RecsOf(ls2, x.rot) = RecsOf(ls, x.rot)
                    /\ x.wal # w => LogOf(ls2, x.wal) = LogOf(ls, x.wal) /\ RecsOf(ls2, x.wal) = RecsOf(ls, x.wal)
  BY <1>2 DEF OnlyLog, DiskType, RecsOf
<1>8. \A x \in mb : x.wal = w => Story(hist2, ls2, x) /\ Top(ls2, x) = r.seq
  <2> SUFFICES ASSUME NEW x \in mb, x.wal = w PROVE Story(hist2, ls2, x) /\ Top(ls2, x) = r.seq OBVIOUS
  <2>1. Story(hist, ls, x) BY <1>1
  <2>2. Middle(ls2, x) = Middle(ls, x) BY <1>7 DEF Middle
  <2>3. Middle(ls, x) \in Nat /\ Behind(Middle(ls, x), recs) = Top(ls, d)
    <3>1. Middle(ls, x) \in Nat BY <2>1, TopDoes
    <3>2. Top(ls, x) = Behind(Middle(ls, x), recs) BY DEF Top
    <3> QED BY <1>2, <3>1, <3>2
  <2>4. Ascending(recs) /\ Chained(Middle(ls, x), recs) BY <2>1 DEF Story
  <2>5. \A i \in DOMAIN recs : recs[i].seq <= Top(ls, d)
    <3>1. \A i \in 1..Len(recs) : recs[i].seq <= Top(ls, x) BY <2>1, TopDoes
    <3>2. DOMAIN recs = 1..Len(recs) BY <1>3
    <3> QED BY <1>2, <3>1, <3>2
  <2> DEFINE m == Middle(ls, x)
  <2> DEFINE to == Top(ls, d)
  <2>6. /\ Len(new) = Len(recs) + 1 /\ new \in Seq(Record)
        /\ \A i \in 1..Len(recs) : new[i] = recs[i]
        /\ new[Len(recs) + 1] = r
        /\ Ascending(new) /\ Chained(m, new) /\ Behind(m, new) = r.seq
    <3>1. m \in Nat /\ to \in Nat /\ Behind(m, recs) = to /\ r.seq = to + 1 BY <1>3, <2>3
    <3>2. Ascending(recs) /\ Chained(m, recs) /\ \A i \in DOMAIN recs : recs[i].seq <= to BY <2>4, <2>5
    <3>3. recs \in Seq(Record) BY <1>3
    <3> HIDE DEF m, to, recs
    <3> QED BY <3>1, <3>2, <3>3, AppendedLog
  <2>7. Top(ls2, x) = r.seq BY <1>6, <2>2, <2>6 DEF Top
  <2>8. \A i \in DOMAIN new : new[i] \in hist2
    <3> SUFFICES ASSUME NEW i \in DOMAIN new PROVE new[i] \in hist2 OBVIOUS
    <3>1. Len(recs) \in Nat /\ DOMAIN recs = 1..Len(recs) BY <1>3
    <3>2. i \in 1..(Len(recs) + 1) BY <2>6
    <3>3. CASE i \in 1..Len(recs)
      <4>1. recs[i] \in hist BY <2>1, <3>1, <3>3 DEF Story
      <4> QED BY <2>6, <3>3, <4>1
    <3>4. CASE i = Len(recs) + 1 BY <2>6, <3>4
    <3> HIDE DEF new, hist2, recs
    <3> QED BY <3>1, <3>2, <3>3, <3>4
  <2>9. \A h \in hist2 : h.seq <= x.snap.walSeq /\ h.op # 0 => h.op \in x.snap.body
    <3> SUFFICES ASSUME NEW h \in hist2, h.seq <= x.snap.walSeq, h.op # 0 PROVE h.op \in x.snap.body OBVIOUS
    <3>1. /\ x.snap.walSeq \in Nat /\ Top(ls, x) \in Nat /\ Middle(ls, x) \in Nat
          /\ x.snap.walSeq <= Middle(ls, x) /\ Middle(ls, x) <= Top(ls, x)
      BY <2>1, TopDoes
    <3>2. h # r BY <1>2, <1>3, <3>1
    <3>3. h \in hist BY <3>2
    <3> QED BY <2>1, <3>3 DEF Story
  <2>10. RecsOf(ls2, x.wal) = new /\ LogOf(ls2, x.wal).damage \in LiveEnds BY <1>6, EndsAre
  <2>11. RecsOf(ls2, x.rot) = RecsOf(ls, x.rot) /\ LogOf(ls2, x.rot) = LogOf(ls, x.rot) BY <1>7
  <2>12. hist \subseteq hist2 OBVIOUS
  <2>13. Ascending(new) /\ Chained(Middle(ls2, x), new) BY <2>2, <2>6
  <2> HIDE DEF new, hist2, recs, w, m, to
  <2>14. Story(hist2, ls2, x) BY <2>1, <2>8, <2>9, <2>10, <2>11, <2>12, <2>13 DEF Story
  <2> QED BY <2>7, <2>14
<1>9. \A x \in mb : x.wal # w => Story(hist2, ls2, x) /\ Top(ls2, x) = Top(ls, x)
  <2> SUFFICES ASSUME NEW x \in mb, x.wal # w PROVE Story(hist2, ls2, x) /\ Top(ls2, x) = Top(ls, x) OBVIOUS
  <2>1. Story(hist, ls, x) BY <1>1
  <2>2. LogOf(ls2, x.rot).damage \in AsideEnds /\ LogOf(ls2, x.wal).damage \in LiveEnds BY <1>7, <2>1 DEF Story
  <2>3. \A h \in hist2 \ hist : ~(h.seq <= x.snap.walSeq)
    <3>1. x.snap.walSeq \in Nat /\ Top(ls, x) \in Nat /\ x.snap.walSeq <= Top(ls, x)
      <4>1. /\ x.snap.walSeq \in Nat /\ Top(ls, x) \in Nat /\ Middle(ls, x) \in Nat
            /\ x.snap.walSeq <= Middle(ls, x) /\ Middle(ls, x) <= Top(ls, x) BY <2>1, TopDoes
      <4> QED BY <4>1
    <3>2. Top(ls, x) <= Top(ls, d) BY <1>2
    <3> QED BY <1>3, <1>4, <3>1, <3>2
  <2>4. hist \subseteq hist2 OBVIOUS
  <2> HIDE DEF hist2
  <2>5. RecsOf(ls2, x.rot) = RecsOf(ls, x.rot) /\ RecsOf(ls2, x.wal) = RecsOf(ls, x.wal) BY <1>7
  <2>6. \A h \in hist2 \ hist : ~(h.seq <= x.snap.walSeq) BY <2>3
  <2> QED BY ONLY <2>1, <2>2, <2>4, <2>5, <2>6, StoryStays
<1>10. Top(ls2, d) = r.seq BY <1>1, <1>8
<1>11. \A x \in mb : Top(ls2, x) <= Top(ls2, d)
  <2> SUFFICES ASSUME NEW x \in mb PROVE Top(ls2, x) <= r.seq BY <1>10
  <2>1. CASE x.wal = w BY <1>4, <1>8, <2>1
  <2>2. CASE x.wal # w
    <3>1. Top(ls, x) \in Nat /\ Top(ls, x) <= Top(ls, d) BY <1>1, <1>2, TopDoes
    <3> QED BY <1>3, <1>9, <2>2, <3>1
  <2> QED BY <2>1, <2>2
<1>12. OneEach(hist2)
  <2>1. OneEach(hist) BY DEF Stories
  <2>2. \A h \in hist : h.seq # r.seq
    <3> SUFFICES ASSUME NEW h \in hist PROVE h.seq # r.seq OBVIOUS
    <3>1. h.seq \in Nat /\ h.seq <= Top(ls, d) BY DEF Record
    <3> QED BY <1>3, <3>1
  <2> QED BY <2>1, <2>2 DEF OneEach
<1>13. Stories(hist2, ls2, mb, d)
  <2>1. \A x \in mb : Story(hist2, ls2, x) BY <1>8, <1>9
  <2>2. \A x \in mb : x.wal = d.wal => Top(ls2, x) = Top(ls2, d) BY <1>8, <1>10
  <2> HIDE DEF hist2
  <2> QED BY <1>1, <1>2, <1>11, <1>12, <2>1, <2>2 DEF Stories
<1>14. /\ Len(recs) \in Nat /\ Len(new) = Len(recs) + 1
       /\ \A i \in 1..Len(recs) : new[i] = recs[i]
       /\ new[Len(recs) + 1] = r
  BY <1>3
<1>15. Kept(ls, d) \cup ({r.op} \ {0}) \subseteq Kept(ls2, d)
  <2>1. OpsOf(recs, Len(recs)) \cup ({r.op} \ {0}) \subseteq OpsOf(new, Len(new))
    <3> HIDE DEF recs, new
    <3>1. Len(recs) + 1 \in 1..Len(new) /\ \A i \in 1..Len(recs) : i \in 1..Len(new) BY <1>14
    <3> QED BY <1>14, <3>1 DEF OpsOf
  <2>2. RecsOf(ls2, d.rot) = RecsOf(ls, d.rot) BY <1>1, <1>7
  <2> HIDE DEF new, recs
  <2> QED BY <1>6, <2>1, <2>2 DEF Kept, recs
<1>16. \A dur : Safe(dur, ls, mb) => Safe(dur, ls2, mb)
  <2> SUFFICES ASSUME NEW dur, Safe(dur, ls, mb), NEW x \in mb
               PROVE  /\ Synced(ls2, x.rot) /\ dur \subseteq Held(ls2, x)
                      /\ LogOf(ls2, x.wal).synced \in 0 .. Len(RecsOf(ls2, x.wal))
    BY DEF Safe
  <2>1. /\ Synced(ls, x.rot) /\ dur \subseteq Held(ls, x)
        /\ LogOf(ls, x.wal).synced \in 0 .. Len(RecsOf(ls, x.wal))
    BY DEF Safe
  <2>2. Synced(ls2, x.rot) BY <1>7, <2>1 DEF Synced
  <2>3. CASE x.wal # w
    <3>1. Held(ls2, x) = Held(ls, x) BY <1>7, <2>3 DEF Held
    <3> QED BY <1>7, <2>1, <2>2, <2>3, <3>1
  <2>4. CASE x.wal = w
    <3> DEFINE sy == LogOf(ls, w).synced
    <3>1. sy \in 0..Len(recs) /\ LogOf(ls2, x.wal).synced = sy BY <2>1, <2>4
    <3> HIDE DEF sy
    <3>2. sy \in 0..Len(new) BY <1>14, <3>1
    <3>3. OpsOf(recs, sy) = OpsOf(new, sy)
      <4> HIDE DEF recs, new
      <4>1. \A i \in 1..sy : new[i] = recs[i] BY <1>14, <3>1
      <4> QED BY <4>1 DEF OpsOf
    <3> HIDE DEF new, recs
    <3>4. Held(ls2, x) = Held(ls, x) BY <1>6, <1>7, <2>4, <3>1, <3>3 DEF Held, recs, sy
    <3> QED BY <1>6, <2>1, <2>2, <2>4, <3>1, <3>2, <3>4
  <2> QED BY <2>3, <2>4
<1> QED BY <1>5, <1>10, <1>13, <1>15, <1>16

\* A log keeps its records: it is synced, a write left it torn, or its torn tail is cut off.
LEMMA RelogKeeps ==
  ASSUME NEW hist, NEW ls, NEW mb, NEW d, DiskType(ls, mb, d), Stories(hist, ls, mb, d),
         NEW w \in 0..Len(ls), w # 0 => w = d.wal,
         NEW ls2, OnlyLog(ls, ls2, w), RecsOf(ls2, w) = RecsOf(ls, w), LogOf(ls2, w).damage \in LiveEnds,
         w = 0 => LogOf(ls2, w) = LogOf(ls, w)
  PROVE  /\ DiskType(ls2, mb, d) /\ Stories(hist, ls2, mb, d)
         /\ Top(ls2, d) = Top(ls, d) /\ Kept(ls2, d) = Kept(ls, d)
<1>1. d \in mb /\ \A x \in mb : Story(hist, ls, x) BY DEF Stories
<1>2. DiskType(ls2, mb, d)
  <2>1. Len(ls) \in Nat /\ Len(ls2) \in Nat /\ Len(ls) <= Len(ls2) /\ ls2 \in Seq(Logs) BY DEF DiskType, OnlyLog
  <2> QED BY <2>1 DEF DiskType
<1>3. \A x \in mb : /\ LogOf(ls2, x.rot) = LogOf(ls, x.rot)
                    /\ x.wal # w => LogOf(ls2, x.wal) = LogOf(ls, x.wal)
  <2>1. \A x \in mb : w # 0 => x.rot # w BY DEF Stories
  <2> QED BY <2>1 DEF OnlyLog, DiskType
<1>4. \A x \in mb : RecsOf(ls2, x.rot) = RecsOf(ls, x.rot) /\ RecsOf(ls2, x.wal) = RecsOf(ls, x.wal)
  BY <1>3 DEF RecsOf
<1>5. \A x \in mb : LogOf(ls2, x.rot).damage \in AsideEnds /\ LogOf(ls2, x.wal).damage \in LiveEnds
  <2> SUFFICES ASSUME NEW x \in mb PROVE LogOf(ls2, x.rot).damage \in AsideEnds /\ LogOf(ls2, x.wal).damage \in LiveEnds OBVIOUS
  <2>1. Story(hist, ls, x) BY <1>1
  <2>2. CASE x.wal = w BY <1>3, <2>1, <2>2 DEF Story
  <2>3. CASE x.wal # w BY <1>3, <2>1, <2>3 DEF Story
  <2> QED BY <2>2, <2>3
<1>6. \A x \in mb : Story(hist, ls2, x) /\ Top(ls2, x) = Top(ls, x) /\ Kept(ls2, x) = Kept(ls, x)
  BY <1>1, <1>4, <1>5, StoryStays
<1>7. Stories(hist, ls2, mb, d) BY <1>1, <1>6 DEF Stories
<1> QED BY <1>1, <1>2, <1>6, <1>7

\* A sync takes nothing back, and what it covers is safe wherever the log has its name.
LEMMA SyncKeeps ==
  ASSUME NEW ls, NEW mb, NEW d, DiskType(ls, mb, d), NEW dur, Safe(dur, ls, mb),
         NEW w \in 0..Len(ls),
         NEW ls2, OnlyLog(ls, ls2, w), RecsOf(ls2, w) = RecsOf(ls, w), Synced(ls2, w) \/ LogOf(ls2, w).synced = LogOf(ls, w).synced
  PROVE  /\ Safe(dur, ls2, mb)
         /\ Synced(ls2, w) /\ (\A x \in mb : w \in {x.wal, x.rot}) =>
              Safe(dur \cup OpsOf(RecsOf(ls, w), Len(RecsOf(ls, w))), ls2, mb)
<1>1. \A x \in mb : RecsOf(ls2, x.rot) = RecsOf(ls, x.rot) /\ RecsOf(ls2, x.wal) = RecsOf(ls, x.wal)
  BY DEF OnlyLog, DiskType, RecsOf
<1>2. \A x \in mb : Synced(ls2, x.rot)
  <2> SUFFICES ASSUME NEW x \in mb PROVE Synced(ls2, x.rot) OBVIOUS
  <2>1. Synced(ls, x.rot) BY DEF Safe
  <2>2. CASE x.rot = w BY <2>1, <2>2 DEF Synced
  <2>3. CASE x.rot # w
    <3>1. LogOf(ls2, x.rot) = LogOf(ls, x.rot) BY <2>3 DEF OnlyLog, DiskType
    <3> QED BY <1>1, <2>1, <3>1 DEF Synced
  <2> QED BY <2>2, <2>3
<1>3. \A x \in mb : /\ LogOf(ls2, x.wal).synced \in 0..Len(RecsOf(ls, x.wal))
                    /\ \/ LogOf(ls2, x.wal).synced = LogOf(ls, x.wal).synced
                       \/ LogOf(ls2, x.wal).synced = Len(RecsOf(ls, x.wal))
  <2> SUFFICES ASSUME NEW x \in mb
               PROVE  /\ LogOf(ls2, x.wal).synced \in 0..Len(RecsOf(ls, x.wal))
                      /\ \/ LogOf(ls2, x.wal).synced = LogOf(ls, x.wal).synced
                         \/ LogOf(ls2, x.wal).synced = Len(RecsOf(ls, x.wal))
    OBVIOUS
  <2>1. LogOf(ls, x.wal).synced \in 0..Len(RecsOf(ls, x.wal)) BY DEF Safe
  <2>2. Len(RecsOf(ls, x.wal)) \in Nat
    <3>1. x.wal \in 0..Len(ls) /\ ls \in Seq(Logs) BY DEF DiskType
    <3> QED BY <3>1, LogOfType
  <2>3. CASE x.wal = w BY <2>1, <2>2, <2>3 DEF Synced
  <2>4. CASE x.wal # w
    <3>1. LogOf(ls2, x.wal) = LogOf(ls, x.wal) BY <2>4 DEF OnlyLog, DiskType
    <3> QED BY <2>1, <3>1
  <2> QED BY <2>3, <2>4
<1>4. \A x \in mb : Held(ls, x) \subseteq Held(ls2, x)
  <2> SUFFICES ASSUME NEW x \in mb PROVE Held(ls, x) \subseteq Held(ls2, x) OBVIOUS
  <2> DEFINE recs == RecsOf(ls, x.wal)
  <2> DEFINE a == LogOf(ls, x.wal).synced
  <2> DEFINE b == LogOf(ls2, x.wal).synced
  <2>1. a \in 0..Len(recs) BY DEF Safe
  <2>2. b \in 0..Len(recs) /\ (b = a \/ b = Len(recs)) BY <1>3
  <2> HIDE DEF a, b, recs
  <2>3. \A i \in 1..a : i \in 1..b BY <2>1, <2>2
  <2>4. OpsOf(recs, a) \subseteq OpsOf(recs, b) BY <2>3 DEF OpsOf
  <2> QED BY <1>1, <2>4 DEF Held, a, b, recs
<1>5. \A x \in mb : dur \subseteq Held(ls2, x) BY <1>4 DEF Safe
<1>6. Safe(dur, ls2, mb) BY <1>1, <1>2, <1>3, <1>5 DEF Safe
<1>7. ASSUME Synced(ls2, w), \A x \in mb : w \in {x.wal, x.rot}
      PROVE  Safe(dur \cup OpsOf(RecsOf(ls, w), Len(RecsOf(ls, w))), ls2, mb)
  <2>1. \A x \in mb : OpsOf(RecsOf(ls, w), Len(RecsOf(ls, w))) \subseteq Held(ls2, x)
    <3> SUFFICES ASSUME NEW x \in mb PROVE OpsOf(RecsOf(ls, w), Len(RecsOf(ls, w))) \subseteq Held(ls2, x) OBVIOUS
    <3>1. CASE x.rot = w BY <1>1, <3>1 DEF Held
    <3>2. CASE x.wal = w
      <4>1. LogOf(ls2, x.wal).synced = Len(RecsOf(ls, w)) BY <1>7, <3>2 DEF Synced
      <4> QED BY <1>1, <3>2, <4>1 DEF Held
    <3> QED BY <1>7, <3>1, <3>2
  <2> QED BY <1>6, <2>1 DEF Safe
<1> QED BY <1>6, <1>7

-----------------------------------------------------------------------------
(* The store: what a step does to the directory *)

NamedLog(d, w) == [d EXCEPT !.wal = w]

\* A file that no name stands for is made, or made anew, and the live log's name given to it.
LEMMA NewLogKeeps ==
  ASSUME NEW hist, NEW ls, NEW mb, NEW d, DiskType(ls, mb, d), Stories(hist, ls, mb, d), d.wal = 0,
         NEW ls2, NEW w \in 1..Len(ls2), \A x \in mb : w \notin {x.wal, x.rot},
         OnlyLog(ls, ls2, w), LogOf(ls2, w) = EmptyLog,
         NEW mb2, mb2 \subseteq mb \cup {NamedLog(d, w)}, NamedLog(d, w) \in mb2
  PROVE  LET d2 == NamedLog(d, w) IN
         /\ DiskType(ls2, mb2, d2) /\ Stories(hist, ls2, mb2, d2)
         /\ Top(ls2, d2) = Top(ls, d) /\ Kept(ls2, d2) = Kept(ls, d)
         /\ \A dur : Safe(dur, ls, mb) => Safe(dur, ls2, mb2)
<1> DEFINE d2 == NamedLog(d, w)
<1>0. d2 = [d EXCEPT !.wal = w] /\ mb2 \subseteq mb \cup {d2} /\ d2 \in mb2 BY DEF NamedLog
<1> HIDE DEF d2
<1>1. d \in mb /\ \A x \in mb : Story(hist, ls, x) BY DEF Stories
<1>2. d \in Directories /\ Len(ls) \in Nat /\ Len(ls2) \in Nat /\ Len(ls) <= Len(ls2) /\ ls2 \in Seq(Logs) /\ w \in Nat /\ w # 0
  BY DEF DiskType, OnlyLog
<1>3. d2 \in Directories /\ d2.wal = w /\ d2.rot = d.rot /\ d2.snap = d.snap BY <1>0, <1>2 DEF Directories
<1>4. DiskType(ls2, mb2, d2)
  <2>1. mb \subseteq Directories /\ \A x \in mb : x.wal \in 0..Len(ls) /\ x.rot \in 0..Len(ls) BY DEF DiskType
  <2>2. \A x \in mb : x.wal \in 0..Len(ls2) /\ x.rot \in 0..Len(ls2) BY <1>2, <2>1
  <2>3. d2.wal \in 0..Len(ls2) /\ d2.rot \in 0..Len(ls2) BY <1>1, <1>2, <1>3, <2>2
  <2> QED BY <1>0, <1>2, <1>3, <2>1, <2>2, <2>3 DEF DiskType
<1>5. \A x \in mb : LogOf(ls2, x.rot) = LogOf(ls, x.rot) /\ LogOf(ls2, x.wal) = LogOf(ls, x.wal)
  BY DEF OnlyLog, DiskType
<1>6. \A x \in mb : RecsOf(ls2, x.rot) = RecsOf(ls, x.rot) /\ RecsOf(ls2, x.wal) = RecsOf(ls, x.wal)
  BY <1>5 DEF RecsOf
<1>7. \A x \in mb : Story(hist, ls2, x) /\ Top(ls2, x) = Top(ls, x) /\ Kept(ls2, x) = Kept(ls, x) /\ Middle(ls2, x) = Middle(ls, x)
  <2> SUFFICES ASSUME NEW x \in mb
               PROVE  /\ Story(hist, ls2, x) /\ Top(ls2, x) = Top(ls, x) /\ Kept(ls2, x) = Kept(ls, x)
                      /\ Middle(ls2, x) = Middle(ls, x)
    OBVIOUS
  <2>1. Story(hist, ls, x) BY <1>1
  <2>2. LogOf(ls2, x.rot).damage \in AsideEnds /\ LogOf(ls2, x.wal).damage \in LiveEnds BY <1>5, <2>1 DEF Story
  <2>3. hist \subseteq hist /\ \A h \in hist \ hist : ~(h.seq <= x.snap.walSeq) OBVIOUS
  <2> QED BY <1>6, <2>1, <2>2, <2>3, StoryStays
<1>8. RecsOf(ls2, w) = <<>> /\ RecsOf(ls2, 0) = <<>> /\ LogOf(ls2, w).synced = 0 /\ LogOf(ls2, w).damage = "no"
  BY EmptyLogType DEF RecsOf, LogOf
<1>9. Middle(ls2, d2) = Middle(ls2, d) BY <1>3 DEF Middle
<1>10. Top(ls2, d2) = Middle(ls2, d2) /\ Top(ls2, d) = Middle(ls2, d) BY <1>3, <1>8 DEF Top, Behind
<1>11. Top(ls2, d2) = Top(ls, d) BY <1>1, <1>7, <1>9, <1>10
<1>12. OpsOf(RecsOf(ls2, w), 0) = {} /\ OpsOf(RecsOf(ls2, 0), 0) = {} BY DEF OpsOf
<1>13. Kept(ls2, d2) = Kept(ls, d)
  <2>1. Kept(ls2, d2) = Kept(ls2, d) BY <1>3, <1>8, <1>12 DEF Kept
  <2> QED BY <1>1, <1>7, <2>1
<1>14. Story(hist, ls2, d2)
  <2>1. Story(hist, ls2, d) BY <1>1, <1>7
  <2>2. Ascending(<<>>) /\ Chained(Middle(ls2, d2), <<>>) BY DEF Ascending, Chained
  <2>3. d2.rot # d2.wal BY <1>1, <1>3
  <2>4. DOMAIN RecsOf(ls2, d2.wal) = {} BY <1>3, <1>8
  <2>5. RecsOf(ls2, d2.wal) = <<>> /\ LogOf(ls2, d2.wal).damage \in LiveEnds BY <1>3, <1>8, EndsAre
  <2> HIDE DEF Story
  <2>6. Ascending(RecsOf(ls2, d2.wal)) /\ Chained(Middle(ls2, d2), RecsOf(ls2, d2.wal)) BY <2>2, <2>5
  <2> QED BY ONLY <1>3, <2>1, <2>3, <2>4, <2>5, <2>6 DEF Story
<1>15. Stories(hist, ls2, mb2, d2)
  <2>1. \A x \in mb2 : Story(hist, ls2, x) BY <1>0, <1>7, <1>14
  <2>2. \A x \in mb2 : Top(ls2, x) <= Top(ls2, d2)
    <3>1. Top(ls, d) \in Nat BY <1>1, TopDoes
    <3>2. \A x \in mb : Top(ls2, x) <= Top(ls2, d2) BY <1>7, <1>11 DEF Stories
    <3> QED BY <1>0, <1>11, <3>1, <3>2
  <2>3. \A x \in mb2 : x.rot # w
    <3>1. d2.rot # w BY <1>1, <1>3
    <3> QED BY <1>0, <3>1
  <2>4. \A x \in mb2 : x.wal = w => x = d2 BY <1>0
  <2>5. OneEach(hist) BY DEF Stories
  <2> QED BY <1>0, <1>3, <2>1, <2>2, <2>3, <2>4, <2>5 DEF Stories
<1>16. ASSUME NEW dur, Safe(dur, ls, mb) PROVE Safe(dur, ls2, mb2)
  <2>1. \A x \in mb : /\ Synced(ls2, x.rot) /\ dur \subseteq Held(ls2, x)
                      /\ LogOf(ls2, x.wal).synced \in 0..Len(RecsOf(ls2, x.wal))
    BY <1>5, <1>6, <1>16 DEF Safe, Synced, Held
  <2>2. Held(ls2, d2) = Held(ls2, d)
    <3>1. LogOf(ls2, d.wal).synced = 0 BY EmptyLogType DEF LogOf
    <3> QED BY <1>3, <1>8, <1>12, <3>1 DEF Held
  <2>3. Synced(ls2, d2.rot) /\ dur \subseteq Held(ls2, d2) /\ LogOf(ls2, d2.wal).synced \in 0..Len(RecsOf(ls2, d2.wal))
    BY <1>1, <1>3, <1>8, <2>1, <2>2
  <2> QED BY <1>0, <2>1, <2>3 DEF Safe
<1> QED BY <1>4, <1>11, <1>13, <1>15, <1>16 DEF d2

\* The directory changes to one that tells as much, and the live log keeps its name or loses it.
LEMMA DirKeeps ==
  ASSUME NEW hist, NEW ls, NEW mb, NEW d, DiskType(ls, mb, d), Stories(hist, ls, mb, d),
         NEW d2 \in Directories, d2.wal \in 0..Len(ls), d2.rot \in 0..Len(ls),
         Story(hist, ls, d2), Top(ls, d2) = Top(ls, d),
         d2.wal # 0 => d2.wal = d.wal /\ d2.rot # d2.wal,
         NEW mb2, mb2 \subseteq mb \cup {d2}, d2 \in mb2
  PROVE  /\ DiskType(ls, mb2, d2) /\ Stories(hist, ls, mb2, d2)
         /\ \A dur : /\ Safe(dur, ls, mb) /\ Synced(ls, d2.rot) /\ dur \subseteq Held(ls, d2)
                     /\ LogOf(ls, d2.wal).synced \in 0..Len(RecsOf(ls, d2.wal))
                     => Safe(dur, ls, mb2)
<1>1. DiskType(ls, mb2, d2) BY DEF DiskType
<1>2. Top(ls, d) \in Nat BY TopDoes DEF Stories
<1>3. Stories(hist, ls, mb2, d2)
  <2>1. \A x \in mb2 : Story(hist, ls, x) BY DEF Stories
  <2>2. \A x \in mb2 : Top(ls, x) <= Top(ls, d2) BY <1>2 DEF Stories
  <2>3. \A x \in mb2 : d2.wal # 0 => x.rot # d2.wal /\ (x.wal = d2.wal => Top(ls, x) = Top(ls, d2)) BY DEF Stories
  <2>4. OneEach(hist) BY DEF Stories
  <2> QED BY <2>1, <2>2, <2>3, <2>4 DEF Stories
<1>4. ASSUME NEW dur, Safe(dur, ls, mb), Synced(ls, d2.rot), dur \subseteq Held(ls, d2),
             LogOf(ls, d2.wal).synced \in 0..Len(RecsOf(ls, d2.wal))
      PROVE  Safe(dur, ls, mb2)
  BY <1>4 DEF Safe
<1> QED BY <1>1, <1>3, <1>4

\* The directory is synced.
LEMMA SyncDirKeeps ==
  ASSUME NEW hist, NEW ls, NEW mb, NEW d, DiskType(ls, mb, d), Stories(hist, ls, mb, d)
  PROVE  /\ DiskType(ls, {d}, d) /\ Stories(hist, ls, {d}, d)
         /\ \A dur : Safe(dur, ls, mb) => Safe(dur, ls, {d})
<1>1. d \in mb BY DEF DiskType
<1>2. DiskType(ls, {d}, d) BY DEF DiskType
<1>3. Stories(hist, ls, {d}, d) BY <1>1 DEF Stories
<1> QED BY <1>1, <1>2, <1>3 DEF Safe

\* A log behind which replay already stands moves it no further.
LEMMA BehindStands ==
  ASSUME NEW recs \in Seq(Record), NEW s \in Nat, \A i \in 1..Len(recs) : recs[i].seq <= s
  PROVE  Behind(s, recs) = s
<1>1. CASE Len(recs) = 0 BY <1>1 DEF Behind
<1>2. CASE Len(recs) # 0
  <2>1. Len(recs) \in 1..Len(recs)
    <3>1. Len(recs) \in Nat OBVIOUS
    <3> QED BY <1>2, <3>1
  <2>2. recs[Len(recs)] \in Record BY <2>1, ElementOfSeq
  <2>3. recs[Len(recs)].seq \in Nat /\ recs[Len(recs)].seq <= s BY <2>1, <2>2 DEF Record
  <2> QED BY <1>2, <2>3 DEF Behind, Later
<1> QED BY <1>1, <1>2

LEMMA ChainedOn ==
  ASSUME NEW recs \in Seq(Record), NEW s \in Nat, NEW t \in Nat, s <= t, Chained(s, recs)
  PROVE  Chained(t, recs)
<1> SUFFICES ASSUME NEW i \in DOMAIN recs
             PROVE  recs[i].seq <= 1 + (IF i = 1 THEN t ELSE Later(t, recs[i - 1].seq))
  BY DEF Chained
<1>1. i \in 1..Len(recs) /\ Len(recs) \in Nat OBVIOUS
<1>2. recs[i].seq \in Nat
  <2>1. recs[i] \in Record BY <1>1, ElementOfSeq
  <2> QED BY <2>1 DEF Record
<1>3. i # 1 => recs[i - 1].seq \in Nat
  <2> HAVE i # 1
  <2>1. i - 1 \in 1..Len(recs) BY <1>1
  <2>2. recs[i - 1] \in Record BY <2>1, ElementOfSeq
  <2> QED BY <2>2 DEF Record
<1>4. recs[i].seq <= 1 + (IF i = 1 THEN s ELSE Later(s, recs[i - 1].seq)) BY DEF Chained
<1> QED BY <1>2, <1>3, <1>4 DEF Later

TellsAll(hist, ls, d, mem) == \A h \in hist : h.seq <= Top(ls, d) /\ h.op # 0 => h.op \in mem

Snapped(ls, d, mem) == [d EXCEPT !.snap = [here |-> TRUE, walSeq |-> Top(ls, d), body |-> mem]]

\* A snapshot of all that replay would find.
LEMMA SnapshotTells ==
  ASSUME NEW hist \in SUBSET Record, NEW ls, NEW mb, NEW d, DiskType(ls, mb, d), Stories(hist, ls, mb, d),
         NEW mem \in SUBSET Nat, TellsAll(hist, ls, d, mem)
  PROVE  LET d2 == Snapped(ls, d, mem) IN
         /\ d2 \in Directories /\ d2.wal = d.wal /\ d2.rot = d.rot
         /\ Story(hist, ls, d2) /\ Top(ls, d2) = Top(ls, d)
         /\ mem \subseteq Kept(ls, d2) /\ mem \subseteq Held(ls, d2)
<1> DEFINE d2 == Snapped(ls, d, mem)
<1>0. d2 = [d EXCEPT !.snap = [here |-> TRUE, walSeq |-> Top(ls, d), body |-> mem]] BY DEF Snapped
<1> HIDE DEF d2
<1>1. d \in mb /\ Story(hist, ls, d) BY DEF Stories
<1>2. /\ d \in Directories /\ Middle(ls, d) \in Nat /\ Top(ls, d) \in Nat /\ d.snap.walSeq \in Nat
      /\ d.snap.walSeq <= Middle(ls, d) /\ Middle(ls, d) <= Top(ls, d)
      /\ RecsOf(ls, d.rot) \in Seq(Record) /\ RecsOf(ls, d.wal) \in Seq(Record)
      /\ \A i \in 1..Len(RecsOf(ls, d.rot)) : RecsOf(ls, d.rot)[i].seq <= Middle(ls, d)
      /\ \A i \in 1..Len(RecsOf(ls, d.wal)) : RecsOf(ls, d.wal)[i].seq <= Top(ls, d)
  BY <1>1, TopDoes
<1> DEFINE to == Top(ls, d)
<1> DEFINE sn == [here |-> TRUE, walSeq |-> to, body |-> mem]
<1>3. to \in Nat BY <1>2
<1> HIDE DEF to
<1>4. sn \in Snapshots /\ sn.walSeq = to /\ sn.body = mem BY <1>3 DEF Snapshots
<1>5. d2 = [d EXCEPT !.snap = sn] BY <1>0 DEF to
<1> HIDE DEF sn
<1>6. d2 \in Directories /\ d2.wal = d.wal /\ d2.rot = d.rot /\ d2.snap = sn
  BY ONLY <1>2, <1>4, <1>5 DEF Directories
<1> DEFINE rot == RecsOf(ls, d.rot)
<1> DEFINE wal == RecsOf(ls, d.wal)
<1>7. \A i \in 1..Len(rot) : rot[i].seq <= to
  <2> SUFFICES ASSUME NEW i \in 1..Len(rot) PROVE rot[i].seq <= to OBVIOUS
  <2>1. rot[i] \in Record BY <1>2, ElementOfSeq
  <2>2. rot[i].seq \in Nat BY <2>1 DEF Record
  <2> QED BY <1>2, <2>2 DEF to
<1>8. Middle(ls, d2) = to
  <2>1. Behind(to, rot) = to BY <1>2, <1>3, <1>7, BehindStands
  <2> QED BY <1>4, <1>6, <2>1 DEF Middle
<1>9. Top(ls, d2) = to
  <2>1. Behind(to, wal) = to BY <1>2, <1>3, BehindStands DEF to
  <2> QED BY <1>6, <1>8, <2>1 DEF Top
<1>10. Chained(to, rot) /\ Chained(to, wal)
  <2>1. Chained(d.snap.walSeq, rot) /\ Chained(Middle(ls, d), wal) BY <1>1 DEF Story
  <2> DEFINE m == Middle(ls, d)
  <2>2. m \in Nat /\ m <= to /\ d.snap.walSeq <= m BY <1>2 DEF to
  <2>3. d.snap.walSeq <= to BY <1>2, <1>3, <2>2
  <2>4. Chained(to, rot)
    <3> HIDE DEF rot, wal, m
    <3> QED BY <1>2, <1>3, <2>1, <2>3, ChainedOn DEF rot
  <2>5. Chained(to, wal) BY <1>2, <1>3, <2>1, <2>2, ChainedOn
  <2> QED BY <2>4, <2>5
<1>11. Story(hist, ls, d2)
  <2>1. \A h \in hist : h.seq <= d2.snap.walSeq /\ h.op # 0 => h.op \in d2.snap.body
    BY <1>4, <1>6 DEF to, TellsAll
  <2> QED BY <1>1, <1>4, <1>6, <1>8, <1>10, <2>1 DEF Story
<1> QED BY <1>4, <1>6, <1>9, <1>11 DEF Kept, Held, to, d2

\* A directory that lost a name nobody needs any more.
Emptied(hist, ls, d, d2) ==
  /\ d2 \in Directories /\ d2.snap = d.snap
  /\ Story(hist, ls, d2) /\ Top(ls, d2) = Top(ls, d)
  /\ d.snap.body \subseteq Kept(ls, d2) /\ d.snap.body \subseteq Held(ls, d2)

NoRot(d) == [d EXCEPT !.rot = 0]

\* The segment goes once the snapshot stands where replay would get to.
LEMMA WithoutRot ==
  ASSUME NEW hist \in SUBSET Record, NEW ls, NEW mb, NEW d, DiskType(ls, mb, d), Stories(hist, ls, mb, d),
         d.snap.walSeq = Top(ls, d), NEW d2, d2 = NoRot(d)
  PROVE  Emptied(hist, ls, d, d2) /\ d2.wal = d.wal /\ d2.rot = 0
<1>0. d2 = [d EXCEPT !.rot = 0] BY DEF NoRot
<1>1. d \in mb /\ Story(hist, ls, d) BY DEF Stories
<1>2. /\ d \in Directories /\ Middle(ls, d) \in Nat /\ Top(ls, d) \in Nat
      /\ d.snap.walSeq <= Middle(ls, d) /\ Middle(ls, d) <= Top(ls, d)
  BY <1>1, TopDoes
<1>3. d2 \in Directories /\ d2.wal = d.wal /\ d2.rot = 0 /\ d2.snap = d.snap BY <1>0, <1>2 DEF Directories
<1>4. RecsOf(ls, 0) = <<>> /\ LogOf(ls, 0).damage \in AsideEnds /\ LogOf(ls, 0).damage \in LiveEnds
  BY EmptyLogType, EndsAre DEF RecsOf, LogOf
<1>5. Middle(ls, d) = Top(ls, d) BY <1>2
<1>6. Middle(ls, d2) = Middle(ls, d)
  <2>1. Middle(ls, d2) = d.snap.walSeq BY <1>3, <1>4 DEF Middle, Behind
  <2> QED BY <1>5, <2>1
<1>7. Top(ls, d2) = Top(ls, d) BY <1>3, <1>6 DEF Top
<1>8. Story(hist, ls, d2)
  <2>1. Ascending(<<>>) /\ Chained(d2.snap.walSeq, <<>>) BY DEF Ascending, Chained
  <2> QED BY <1>1, <1>3, <1>4, <1>6, <2>1 DEF Story
<1>9. d.snap.body \subseteq Kept(ls, d2) /\ d.snap.body \subseteq Held(ls, d2) BY <1>3 DEF Kept, Held
<1> QED BY <1>3, <1>7, <1>8, <1>9 DEF Emptied

NoWal(d) == [d EXCEPT !.wal = 0]

\* So does the live log.
LEMMA WithoutWal ==
  ASSUME NEW hist \in SUBSET Record, NEW ls, NEW mb, NEW d, DiskType(ls, mb, d), Stories(hist, ls, mb, d),
         d.snap.walSeq = Top(ls, d), NEW d2, d2 = NoWal(d)
  PROVE  Emptied(hist, ls, d, d2) /\ d2.wal = 0 /\ d2.rot = d.rot
<1>0. d2 = [d EXCEPT !.wal = 0] BY DEF NoWal
<1>1. d \in mb /\ Story(hist, ls, d) BY DEF Stories
<1>2. /\ d \in Directories /\ Middle(ls, d) \in Nat /\ Top(ls, d) \in Nat
      /\ d.snap.walSeq <= Middle(ls, d) /\ Middle(ls, d) <= Top(ls, d)
  BY <1>1, TopDoes
<1>3. d2 \in Directories /\ d2.wal = 0 /\ d2.rot = d.rot /\ d2.snap = d.snap BY <1>0, <1>2 DEF Directories
<1>4. RecsOf(ls, 0) = <<>> /\ LogOf(ls, 0).damage \in AsideEnds /\ LogOf(ls, 0).damage \in LiveEnds
  BY EmptyLogType, EndsAre DEF RecsOf, LogOf
<1>5. Middle(ls, d) = Top(ls, d) BY <1>2
<1>6. Middle(ls, d2) = Middle(ls, d) BY <1>3 DEF Middle
<1>7. Top(ls, d2) = Top(ls, d)
  <2>1. Top(ls, d2) = Middle(ls, d2) BY <1>3, <1>4 DEF Top, Behind
  <2> QED BY <1>5, <1>6, <2>1
<1>8. Story(hist, ls, d2)
  <2>1. Ascending(<<>>) /\ Chained(Middle(ls, d2), <<>>) BY DEF Ascending, Chained
  <2> QED BY <1>1, <1>3, <1>4, <2>1 DEF Story
<1>9. d.snap.body \subseteq Kept(ls, d2) /\ d.snap.body \subseteq Held(ls, d2) BY <1>3 DEF Kept, Held
<1> QED BY <1>3, <1>7, <1>8, <1>9 DEF Emptied

RolledAside(d) == [d EXCEPT !.rot = d.wal, !.wal = 0]

\* The live log is rolled aside.
LEMMA Rolled ==
  ASSUME NEW hist \in SUBSET Record, NEW ls, NEW mb, NEW d, DiskType(ls, mb, d), Stories(hist, ls, mb, d),
         d.rot = 0, LogOf(ls, d.wal).damage \in CleanEnds, NEW d2, d2 = RolledAside(d)
  PROVE  /\ d2 \in Directories /\ d2.wal = 0 /\ d2.rot = d.wal /\ d2.snap = d.snap
         /\ Story(hist, ls, d2) /\ Top(ls, d2) = Top(ls, d)
         /\ Kept(ls, d2) = Kept(ls, d)
         /\ Synced(ls, d.wal) => Held(ls, d2) = Held(ls, d)
<1>0. d2 = [d EXCEPT !.rot = d.wal, !.wal = 0] BY DEF RolledAside
<1>1. d \in mb /\ Story(hist, ls, d) BY DEF Stories
<1>2. d \in Directories BY <1>1, TopDoes
<1>3. d2 \in Directories /\ d2.wal = 0 /\ d2.rot = d.wal /\ d2.snap = d.snap BY <1>0, <1>2 DEF Directories
<1>4. RecsOf(ls, 0) = <<>> /\ LogOf(ls, 0).damage \in LiveEnds /\ LogOf(ls, 0).synced = 0
  BY EmptyLogType, EndsAre DEF RecsOf, LogOf
<1>end. LogOf(ls, d.wal).damage \in AsideEnds BY EndsAre
<1>5. Middle(ls, d) = d.snap.walSeq BY <1>4 DEF Middle, Behind
<1>6. Middle(ls, d2) = Top(ls, d) BY <1>3, <1>5 DEF Middle, Top
<1>7. Top(ls, d2) = Top(ls, d) BY <1>3, <1>4, <1>6 DEF Top, Behind
<1>8. Story(hist, ls, d2)
  <2>1. Ascending(<<>>) /\ Chained(Middle(ls, d2), <<>>) BY DEF Ascending, Chained
  <2> QED BY <1>1, <1>3, <1>4, <1>5, <1>end, <2>1 DEF Story
<1>9. OpsOf(RecsOf(ls, 0), 0) = {} BY DEF OpsOf
<1>10. Kept(ls, d2) = Kept(ls, d) BY <1>3, <1>4, <1>9 DEF Kept
<1>11. Synced(ls, d.wal) => Held(ls, d2) = Held(ls, d) BY <1>3, <1>4, <1>9 DEF Held, Synced
<1> QED BY <1>3, <1>7, <1>8, <1>10, <1>11

-----------------------------------------------------------------------------
(* The store: what the next start and a power loss make of the disk *)

\* What lies behind the end of the story is history no more.
LEMMA TrimKeeps ==
  ASSUME NEW hist \in SUBSET Record, NEW ls, NEW mb, NEW d, DiskType(ls, mb, d), Stories(hist, ls, mb, d),
         NEW hist2, hist2 = {h \in hist : h.seq <= Top(ls, d)}
  PROVE  Stories(hist2, ls, mb, d)
<1>1. d \in mb /\ \A x \in mb : Story(hist, ls, x) /\ Top(ls, x) <= Top(ls, d) BY DEF Stories
<1>2. \A x \in mb : Story(hist2, ls, x)
  <2> SUFFICES ASSUME NEW x \in mb PROVE Story(hist2, ls, x) OBVIOUS
  <2>1. Story(hist, ls, x) BY <1>1
  <2> DEFINE rot == RecsOf(ls, x.rot)
  <2> DEFINE wal == RecsOf(ls, x.wal)
  <2>2. /\ Middle(ls, x) \in Nat /\ Top(ls, x) \in Nat /\ Middle(ls, x) <= Top(ls, x)
        /\ rot \in Seq(Record) /\ wal \in Seq(Record)
        /\ \A i \in 1..Len(rot) : rot[i].seq <= Middle(ls, x)
        /\ \A i \in 1..Len(wal) : wal[i].seq <= Top(ls, x)
    BY <2>1, TopDoes
  <2>3. Top(ls, d) \in Nat BY <1>1, TopDoes
  <2>4. Top(ls, x) <= Top(ls, d) BY <1>1
  <2>5. \A i \in DOMAIN rot : rot[i] \in hist BY <2>1 DEF Story
  <2>6. \A i \in DOMAIN wal : wal[i] \in hist BY <2>1 DEF Story
  <2> DEFINE m == Middle(ls, x)
  <2> DEFINE to == Top(ls, x)
  <2> DEFINE end == Top(ls, d)
  <2>7. hist2 = {h \in hist : h.seq <= end} OBVIOUS
  <2>8. m \in Nat /\ to \in Nat /\ end \in Nat /\ m <= to /\ to <= end BY <2>2, <2>3, <2>4
  <2>9. (\A i \in 1..Len(rot) : rot[i].seq <= m) /\ (\A i \in 1..Len(wal) : wal[i].seq <= to) BY <2>2
  <2>10. rot \in Seq(Record) /\ wal \in Seq(Record) BY <2>2
  <2> HIDE DEF rot, wal, m, to, end
  <2>11. \A i \in DOMAIN rot : rot[i] \in hist2
    <3> SUFFICES ASSUME NEW i \in DOMAIN rot PROVE rot[i] \in hist2 OBVIOUS
    <3>1. i \in 1..Len(rot) BY <2>10
    <3>2. rot[i] \in hist /\ rot[i].seq \in Nat BY <2>5 DEF Record
    <3>3. rot[i].seq <= end BY <2>8, <2>9, <3>1, <3>2
    <3> QED BY <2>7, <3>2, <3>3
  <2>12. \A i \in DOMAIN wal : wal[i] \in hist2
    <3> SUFFICES ASSUME NEW i \in DOMAIN wal PROVE wal[i] \in hist2 OBVIOUS
    <3>1. i \in 1..Len(wal) BY <2>10
    <3>2. wal[i] \in hist /\ wal[i].seq \in Nat BY <2>6 DEF Record
    <3>3. wal[i].seq <= end BY <2>8, <2>9, <3>1, <3>2
    <3> QED BY <2>7, <3>2, <3>3
  <2>13. hist2 \subseteq hist OBVIOUS
  <2> QED BY <2>1, <2>11, <2>12, <2>13 DEF Story, rot, wal
<1>3. OneEach(hist2) BY DEF Stories, OneEach
<1> QED BY <1>2, <1>3 DEF Stories

\* Of the live log a power loss leaves the synced records, and perhaps more; of
\* the one rolled aside all records.
CutShort(ls, ls2, x) ==
  /\ ls2 \in Seq(Logs) /\ Len(ls2) = Len(ls)
  /\ LogOf(ls2, x.wal).synced \in LogOf(ls, x.wal).synced .. Len(RecsOf(ls, x.wal))
  /\ RecsOf(ls2, x.wal) = SubSeq(RecsOf(ls, x.wal), 1, LogOf(ls2, x.wal).synced)
  /\ LogOf(ls2, x.wal).damage \in LiveEnds
  /\ RecsOf(ls2, x.rot) = RecsOf(ls, x.rot) /\ Synced(ls2, x.rot)
  /\ LogOf(ls2, x.rot).damage \in AsideEnds

LEMMA PowerLeaves ==
  ASSUME NEW hist, NEW ls, NEW mb, NEW d, DiskType(ls, mb, d), Stories(hist, ls, mb, d),
         NEW dur, Safe(dur, ls, mb), NEW left \in mb,
         NEW ls2, CutShort(ls, ls2, left)
  PROVE  /\ DiskType(ls2, {left}, left) /\ Stories(hist, ls2, {left}, left)
         /\ Safe(dur, ls2, {left}) /\ dur \subseteq Kept(ls2, left)
<1> DEFINE kept == LogOf(ls2, left.wal).synced
<1>0. /\ ls2 \in Seq(Logs) /\ Len(ls2) = Len(ls)
      /\ kept \in LogOf(ls, left.wal).synced .. Len(RecsOf(ls, left.wal))
      /\ RecsOf(ls2, left.wal) = SubSeq(RecsOf(ls, left.wal), 1, kept)
      /\ LogOf(ls2, left.wal).synced = kept /\ LogOf(ls2, left.wal).damage \in LiveEnds
      /\ RecsOf(ls2, left.rot) = RecsOf(ls, left.rot) /\ Synced(ls2, left.rot)
      /\ LogOf(ls2, left.rot).damage \in AsideEnds
  BY DEF CutShort
<1> HIDE DEF kept
<1>1. Story(hist, ls, left) /\ OneEach(hist) BY DEF Stories
<1>2. /\ left \in Directories /\ left.wal \in 0..Len(ls) /\ left.rot \in 0..Len(ls)
      /\ RecsOf(ls, left.wal) \in Seq(Record)
      /\ Middle(ls, left) \in Nat
  BY <1>1, TopDoes
<1>3. DiskType(ls2, {left}, left) BY <1>0, <1>2 DEF DiskType
<1> DEFINE recs == RecsOf(ls, left.wal)
<1> DEFINE sy == LogOf(ls, left.wal).synced
<1> DEFINE new == SubSeq(recs, 1, kept)
<1>4. Len(recs) \in Nat /\ DOMAIN recs = 1..Len(recs) /\ \A i \in 1..Len(recs) : recs[i] \in Record BY <1>2
<1>5. Synced(ls, left.rot) /\ dur \subseteq Held(ls, left) /\ sy \in 0..Len(recs) BY DEF Safe
<1>6. kept \in Nat /\ kept <= Len(recs) /\ sy <= kept /\ sy \in Nat BY <1>0, <1>4, <1>5
<1>7. RecsOf(ls2, left.rot) = RecsOf(ls, left.rot) BY <1>0
<1>8. Middle(ls2, left) = Middle(ls, left) BY <1>7 DEF Middle
<1>9. Ascending(recs) /\ Chained(Middle(ls, left), recs) /\ \A i \in DOMAIN recs : recs[i] \in hist BY <1>1 DEF Story
<1>10. RecsOf(ls2, left.wal) = new BY <1>0
<1> HIDE DEF sy, recs
<1>11. /\ Len(new) = kept /\ DOMAIN new = 1..kept
       /\ \A i \in 1..kept : new[i] = recs[i]
  <2>1. \A i \in 1..kept : recs[i] \in Record BY <1>4, <1>6
  <2>2. /\ new \in Seq(Record) /\ Len(new) = (IF 1 <= kept THEN kept - 1 + 1 ELSE 0)
        /\ \A i \in 1..(kept - 1 + 1) : new[i] = recs[1 + i - 1]
    BY <1>6, <2>1, SubSeqProperties
  <2>3. Len(new) = kept BY <1>6, <2>2
  <2>4. \A i \in 1..kept : i \in 1..(kept - 1 + 1) /\ 1 + i - 1 = i BY <1>6
  <2> QED BY <2>2, <2>3, <2>4
<1> HIDE DEF new
<1>12. Ascending(new)
  <2>1. \A i \in 1..kept : i \in DOMAIN recs BY <1>4, <1>6
  <2> QED BY <1>9, <1>11, <2>1 DEF Ascending
<1>13. Chained(Middle(ls, left), new)
  <2> SUFFICES ASSUME NEW i \in 1..kept
               PROVE  new[i].seq <= 1 + (IF i = 1 THEN Middle(ls, left) ELSE Later(Middle(ls, left), new[i - 1].seq))
    BY <1>11 DEF Chained
  <2>1. i \in DOMAIN recs BY <1>4, <1>6
  <2>2. i # 1 => i - 1 \in 1..kept BY <1>6
  <2> QED BY <1>9, <1>11, <2>1, <2>2 DEF Chained
<1>14. \A i \in DOMAIN new : new[i] \in hist
  <2>1. \A i \in 1..kept : i \in DOMAIN recs BY <1>4, <1>6
  <2> QED BY <1>9, <1>11, <2>1
<1>15. Story(hist, ls2, left)
  <2>1. LogOf(ls2, left.rot).damage \in AsideEnds /\ LogOf(ls2, left.wal).damage \in LiveEnds BY <1>0
  <2>2. Ascending(RecsOf(ls2, left.wal)) /\ Chained(Middle(ls2, left), RecsOf(ls2, left.wal))
    BY <1>8, <1>10, <1>12, <1>13
  <2>3. \A i \in DOMAIN RecsOf(ls2, left.wal) : RecsOf(ls2, left.wal)[i] \in hist BY <1>10, <1>14
  <2> QED BY ONLY <1>1, <1>7, <2>1, <2>2, <2>3 DEF Story
<1>16. Stories(hist, ls2, {left}, left)
  <2>1. Top(ls2, left) \in Nat BY <1>3, <1>15, TopDoes
  <2>2. left.wal # 0 => left.rot # left.wal BY <1>1 DEF Story
  <2> QED BY <1>1, <1>15, <2>1, <2>2 DEF Stories
<1>17. dur \subseteq Held(ls2, left) /\ Held(ls2, left) \subseteq Kept(ls2, left)
  <2>1. OpsOf(recs, sy) \subseteq OpsOf(new, kept)
    <3>1. \A i \in 1..sy : i \in 1..kept BY <1>6
    <3> QED BY <1>11, <3>1 DEF OpsOf
  <2> QED BY <1>0, <1>5, <1>7, <1>10, <1>11, <2>1 DEF Held, Kept, sy, recs
<1>18. Safe(dur, ls2, {left})
  <2>1. Synced(ls2, left.rot) BY <1>0
  <2> QED BY <1>0, <1>6, <1>10, <1>11, <1>17, <2>1 DEF Safe
<1> QED BY <1>3, <1>16, <1>17, <1>18

-----------------------------------------------------------------------------
(* The store: the steps *)

LEMMA TypeIs ==
  ASSUME IInv
  PROVE  TypeOK
<1>1. Rets \subseteq Steps BY DEF Rets, Steps
<1>2. call \in [ret : Steps, job : {"rotate", "replace"}, closing : BOOLEAN] BY <1>1 DEF IInv, Types, Calls
<1>3. \A d \in maybe : {d.wal, d.rot} \subseteq 0 .. Len(logs) BY DEF IInv, Disk, DiskType
<1>4. /\ logs \in Seq(Logs) /\ maybe \subseteq Directories /\ dir \in maybe /\ history \subseteq Record
  BY DEF IInv, Disk, DiskType
<1>5. pc \in Steps BY DEF IInv, Types, Steps
<1>6. store \in Stores(Len(logs)) /\ written \in SUBSET Nat /\ durable \in SUBSET Nat /\ nextOp \in Nat /\ used \in Bounds
  BY DEF IInv, Types
<1> QED BY ONLY <1>2, <1>3, <1>4, <1>5, <1>6 DEF Stores, Bounds, Record, TypeOK

\* One log in place of another.
WithLog(ls, w, log) == [ls EXCEPT ![w] = log]

LEMMA OneLog ==
  ASSUME NEW ls \in Seq(Logs), NEW w \in 1..Len(ls), NEW log \in Logs
  PROVE  LET ls2 == WithLog(ls, w, log) IN
         /\ OnlyLog(ls, ls2, w) /\ ls2 \in Seq(Logs) /\ Len(ls2) = Len(ls)
         /\ LogOf(ls2, w) = log /\ RecsOf(ls2, w) = log.recs /\ ls2[w] = log
<1> DEFINE ls2 == WithLog(ls, w, log)
<1>1. ls2 \in Seq(Logs) /\ Len(ls2) = Len(ls) /\ Len(ls) \in Nat BY DEF WithLog
<1>2. ls2[w] = log /\ \A i \in 1..Len(ls) : i # w => ls2[i] = ls[i] BY DEF WithLog
<1> HIDE DEF ls2
<1>3. w # 0 OBVIOUS
<1>4. LogOf(ls2, w) = log BY <1>2, <1>3 DEF LogOf
<1>5. \A i \in (0..Len(ls)) \ {w} : LogOf(ls2, i) = LogOf(ls, i)
  <2> SUFFICES ASSUME NEW i \in 0..Len(ls), i # w PROVE LogOf(ls2, i) = LogOf(ls, i) OBVIOUS
  <2>1. CASE i = 0 BY <2>1 DEF LogOf
  <2>2. CASE i # 0
    <3>1. i \in 1..Len(ls) BY <2>2
    <3> QED BY <1>2, <2>2, <3>1 DEF LogOf
  <2> QED BY <2>1, <2>2
<1>6. Len(ls) <= Len(ls2) BY <1>1
<1>7. OnlyLog(ls, ls2, w) BY ONLY <1>1, <1>5, <1>6 DEF OnlyLog
<1> QED BY <1>1, <1>2, <1>4, <1>7 DEF RecsOf, ls2

LEMMA LogFields ==
  ASSUME NEW ls \in Seq(Logs), NEW w \in 1..Len(ls)
  PROVE  /\ ls[w] \in Logs /\ ls[w].recs \in Seq(Record) /\ ls[w].synced \in Nat
         /\ ls[w].damage \in {"no", "tail", "cut", "middle"}
         /\ LogOf(ls, w) = ls[w] /\ RecsOf(ls, w) = ls[w].recs
<1>1. ls[w] \in Logs OBVIOUS
<1>2. w # 0 OBVIOUS
<1> QED BY <1>1, <1>2 DEF Logs, Record, LogOf, RecsOf

\* A record is written, refused, or taken back.
LEMMA WriteKeeps ==
  ASSUME Disk(history, logs, maybe, dir, written, durable), used \in Bounds, written \in SUBSET Nat,
         NEW st \in Stores(Len(logs)), NEW op \in Nat, NEW kind \in {"write", "openMarker"},
         Holds(st, history, logs, dir, written, durable), op # 0 => op \in st.mem,
         WriteRecord(st, op, kind), dir' = dir, maybe' = maybe, durable' = durable
  PROVE  /\ Disk(history', logs', maybe', dir', written', durable')
         /\ Holds(store', history', logs', dir', written', durable')
         /\ store' \in Stores(Len(logs')) /\ used' \in Bounds /\ written' \in SUBSET Nat
         /\ store'.wal = st.wal /\ store'.fd = st.fd /\ store'.mem = st.mem
         /\ Covered(st, logs, dir) => Covered(store', logs', dir')
         /\ kind \notin Faults /\ st.wal /\ ~st.torn /\ st.fd # 0 => store'.pending
<1>1. /\ st.wal \in BOOLEAN /\ st.mem \in SUBSET Nat /\ st.seq \in Nat /\ st.fd \in 0..Len(logs)
      /\ st.torn \in BOOLEAN /\ st.pending \in BOOLEAN /\ st.dirty \in BOOLEAN
  BY DEF Stores
<1>2. /\ DiskType(logs, maybe, dir) /\ history \in SUBSET Record /\ Stories(history, logs, maybe, dir)
      /\ written \subseteq Kept(logs, dir) /\ (Powerless \/ Safe(durable, logs, maybe))
  BY DEF Disk
<1>3. /\ st.seq = Top(logs, dir) /\ (\A h \in history : h.seq <= st.seq)
      /\ (\A h \in history : h.op # 0 => h.op \in st.mem) /\ written \subseteq st.mem
      /\ (st.fd # 0 => st.fd = dir.wal /\ st.wal) /\ (st.pending => st.fd # 0)
      /\ (~st.torn => LogOf(logs, dir.wal).damage \in CleanEnds) /\ (st.torn /\ CutsLast => Powerless)
      /\ (Powerless \/ durable \subseteq st.mem)
  BY DEF Holds
<1>4. logs \in Seq(Logs) /\ dir.wal \in 0..Len(logs) BY <1>2 DEF DiskType
<1>5. ASSUME NEW k, Fault(k) PROVE used' \in Bounds BY <1>5 DEF Fault, Bounds
<1>6. CASE /\ store' = st /\ UNCHANGED <<logs, history, written, used>>
           /\ ~st.wal \/ st.torn \/ st.fd = 0
  <2>1. used' \in Bounds BY <1>6
  <2>2. ~st.wal \/ st.torn \/ st.fd = 0 BY <1>6
  <2>3. logs' = logs /\ history' = history /\ written' = written /\ store' = st BY <1>6
  <2> QED BY <2>1, <2>2, <2>3
<1>7. CASE /\ st.wal /\ ~st.torn /\ st.fd # 0
           /\ store' = [st EXCEPT !.seq = @ + 1, !.pending = TRUE]
           /\ logs' = [logs EXCEPT ![st.fd].recs = Append(@, [seq |-> st.seq + 1, op |-> op]),
                                   ![st.fd].damage = IF @ \in {"no", "cut"} THEN "no" ELSE "middle"]
           /\ history' = history \cup {[seq |-> st.seq + 1, op |-> op]}
           /\ written' = written \cup ({op} \ {0})
           /\ UNCHANGED used
  <2> DEFINE w == dir.wal
  <2> DEFINE r == [seq |-> st.seq + 1, op |-> op]
  <2>1. st.fd = w /\ w # 0 /\ w \in 1..Len(logs) BY <1>3, <1>4, <1>7
  <2>2. r \in Record /\ r.seq = st.seq + 1 /\ r.op = op BY <1>1 DEF Record
  <2>3. /\ logs[w] \in Logs /\ logs[w].recs \in Seq(Record) /\ logs[w].synced \in Nat
        /\ LogOf(logs, w) = logs[w] /\ RecsOf(logs, w) = logs[w].recs /\ logs[w].damage \in {"no", "cut"}
    <3>1. LogOf(logs, w).damage \in {"no", "cut"} BY <1>3, <1>7 DEF CleanEnds
    <3> QED BY <1>4, <2>1, <3>1, LogFields
  <2> DEFINE new == Append(logs[w].recs, r)
  <2> DEFINE log == [logs[w] EXCEPT !.recs = new, !.damage = "no"]
  <2>4. new \in Seq(Record) BY <2>2, <2>3
  <2>5. logs' = [logs EXCEPT ![w].recs = Append(@, r), ![w].damage = IF @ \in {"no", "cut"} THEN "no" ELSE "middle"]
    BY <1>7, <2>1
  <2> HIDE DEF r
  <2>6. logs' = [logs EXCEPT ![w] = log] BY <2>1, <2>3, <2>5
  <2> HIDE DEF new
  <2>7. log \in Logs /\ log.recs = new /\ log.synced = logs[w].synced /\ log.damage = "no"
    BY <2>3, <2>4 DEF Logs, Record
  <2> HIDE DEF log
  <2>8. /\ OnlyLog(logs, logs', w) /\ Len(logs') = Len(logs) /\ LogOf(logs', w) = log /\ RecsOf(logs', w) = new
    <3>1. logs \in Seq(Logs) /\ log \in Logs BY <1>4, <2>7
    <3>2. logs' = WithLog(logs, w, log) BY <2>6 DEF WithLog
    <3> HIDE DEF w
    <3> QED BY ONLY <2>1, <2>7, <3>1, <3>2, OneLog
  <2>9. r.seq = Top(logs, dir) + 1 /\ \A h \in history : h.seq <= Top(logs, dir) BY <1>3, <2>2
  <2>10. /\ RecsOf(logs', dir.wal) = Append(RecsOf(logs, dir.wal), r)
         /\ LogOf(logs', dir.wal).damage = "no" /\ LogOf(logs', dir.wal).synced = LogOf(logs, dir.wal).synced
    BY <2>3, <2>7, <2>8 DEF new
  <2>11. /\ DiskType(logs', maybe, dir) /\ Stories(history \cup {r}, logs', maybe, dir)
         /\ Top(logs', dir) = r.seq
         /\ Kept(logs, dir) \cup ({r.op} \ {0}) \subseteq Kept(logs', dir)
         /\ \A dur : Safe(dur, logs, maybe) => Safe(dur, logs', maybe)
    <3>1. OnlyLog(logs, logs', dir.wal) /\ dir.wal # 0 BY <2>1, <2>8
    <3> HIDE DEF w
    <3> QED BY ONLY <1>2, <2>2, <2>9, <2>10, <3>1, AppendKeeps
  <2>12. history' = history \cup {r} /\ history' \in SUBSET Record BY <1>2, <1>7, <2>2 DEF r
  <2>13. written' = written \cup ({r.op} \ {0}) BY <1>7, <2>2
  <2>14. Disk(history', logs', maybe', dir', written', durable')
    <3>1. written' \subseteq Kept(logs', dir) BY <1>2, <2>11, <2>13
    <3>2. Powerless \/ Safe(durable, logs', maybe) BY <1>2, <2>11
    <3>3. Stories(history', logs', maybe, dir) BY <2>11, <2>12
    <3> HIDE DEF w
    <3> QED BY <2>11, <2>12, <3>1, <3>2, <3>3 DEF Disk
  <2>15. /\ store' \in Stores(Len(logs')) /\ store'.wal = st.wal /\ store'.fd = st.fd /\ store'.mem = st.mem
         /\ store'.pending = TRUE /\ store'.seq = r.seq /\ store'.torn = st.torn
    <3>1. store' = [st EXCEPT !.seq = @ + 1, !.pending = TRUE] BY <1>7
    <3>2. st \in Stores(Len(logs)) /\ Len(logs') = Len(logs) BY <2>8
    <3>3. st.seq + 1 \in Nat /\ r.seq = st.seq + 1 BY <1>1, <2>2
    <3>4. /\ store' \in Stores(Len(logs)) /\ store'.wal = st.wal /\ store'.fd = st.fd /\ store'.mem = st.mem
          /\ store'.pending = TRUE /\ store'.seq = st.seq + 1 /\ store'.torn = st.torn
      BY ONLY <3>1, <3>2, <3>3 DEF Stores
    <3> QED BY ONLY <3>2, <3>3, <3>4
  <2>16. Holds(store', history', logs', dir', written', durable')
    <3>1. store'.seq = Top(logs', dir) BY <2>11, <2>15
    <3>2. \A h \in history' : h.seq <= store'.seq
      <4> SUFFICES ASSUME NEW h \in history' PROVE h.seq <= r.seq BY <2>15
      <4>1. h \in Record /\ h.seq \in Nat BY <2>12 DEF Record
      <4>2. CASE h \in history BY <1>1, <1>3, <2>2, <4>1, <4>2
      <4>3. CASE h = r BY <4>1, <4>3
      <4> QED BY <2>12, <4>2, <4>3
    <3>3. \A h \in history' : h.op # 0 => h.op \in store'.mem BY <1>3, <2>2, <2>12, <2>15
    <3>4. written' \subseteq store'.mem BY <1>3, <1>7, <2>15
    <3>5. LogOf(logs', dir.wal).damage \in CleanEnds /\ ~store'.torn BY <1>7, <2>10, <2>15, EndsAre
    <3>6. store'.fd # 0 => store'.fd = dir.wal /\ store'.wal BY <1>3, <2>15
    <3>7. store'.pending => store'.fd # 0 BY <1>7, <2>15
    <3>8. Powerless \/ durable \subseteq store'.mem BY <1>3, <2>15
    <3> HIDE DEF w
    <3> QED BY <3>1, <3>2, <3>3, <3>4, <3>5, <3>6, <3>7, <3>8 DEF Holds
  <2> QED BY <1>7, <2>14, <2>15, <2>16 DEF Covered
<1>8. CASE /\ st.wal /\ ~st.torn /\ st.fd # 0 /\ kind \in Faults /\ UNCHANGED <<history, written>>
           /\ \/ /\ Fault(kind) /\ store' = st
                 /\ \E damage \in {logs[st.fd].damage, CutOff} : logs' = [logs EXCEPT ![st.fd].damage = damage]
              \/ /\ Fault("cut") /\ store' = [st EXCEPT !.torn = TRUE]
                 /\ \E damage \in {logs[st.fd].damage, "tail"} : logs' = [logs EXCEPT ![st.fd].damage = damage]
  <2> DEFINE w == dir.wal
  <2>1. st.fd = w /\ w # 0 /\ w \in 1..Len(logs) BY <1>3, <1>4, <1>8
  <2>cut. (CutsLast => Powerless) /\ CutOff \in CleanEnds
    <3>1. CutsLast => Powerless BY <1>8 DEF CutsLast
    <3>2. CutOff \in {"no", "cut"} /\ (Powerless => CutOff = "no") BY DEF CutOff, Powerless
    <3> QED BY <3>1, <3>2, EndsAre
  <2>3. /\ logs[w] \in Logs /\ LogOf(logs, w) = logs[w] /\ RecsOf(logs, w) = logs[w].recs
    BY <1>4, <2>1, LogFields
  <2>clean. logs[w].damage \in CleanEnds BY <1>3, <1>8, <2>3
  <2>2. PICK damage \in LiveEnds : /\ logs' = [logs EXCEPT ![w].damage = damage]
                                   /\ damage \in CleanEnds \/ store'.torn
    <3>1. CASE store' = st /\ \E damage \in {logs[st.fd].damage, CutOff} : logs' = [logs EXCEPT ![st.fd].damage = damage]
      <4>1. PICK damage \in {logs[w].damage, CutOff} : logs' = [logs EXCEPT ![w].damage = damage] BY <2>1, <3>1
      <4>2. damage \in CleanEnds BY <2>cut, <2>clean
      <4> QED BY <4>1, <4>2, EndsAre
    <3>2. CASE /\ store' = [st EXCEPT !.torn = TRUE]
               /\ \E damage \in {logs[st.fd].damage, "tail"} : logs' = [logs EXCEPT ![st.fd].damage = damage]
      <4>1. PICK damage \in {logs[w].damage, "tail"} : logs' = [logs EXCEPT ![w].damage = damage] BY <2>1, <3>2
      <4>2. damage \in LiveEnds BY <2>clean, EndsAre
      <4>3. store'.torn BY <3>2 DEF Stores
      <4> QED BY <4>1, <4>2, <4>3
    <3> QED BY <1>8, <3>1, <3>2
  <2>type. damage \in {"no", "tail", "cut", "middle"} BY EndsAre
  <2> DEFINE log == [logs[w] EXCEPT !.damage = damage]
  <2>4. logs' = [logs EXCEPT ![w] = log] BY <2>1, <2>2
  <2>5. log \in Logs /\ log.recs = logs[w].recs /\ log.synced = logs[w].synced /\ log.damage = damage
    BY <2>3, <2>type DEF Logs
  <2> HIDE DEF log
  <2>6. /\ OnlyLog(logs, logs', w) /\ Len(logs') = Len(logs) /\ LogOf(logs', w) = log /\ RecsOf(logs', w) = RecsOf(logs, w)
    <3>1. logs \in Seq(Logs) /\ log \in Logs BY <1>4, <2>5
    <3>2. logs' = WithLog(logs, w, log) BY <2>4 DEF WithLog
    <3> HIDE DEF w
    <3> QED BY ONLY <2>1, <2>3, <2>5, <3>1, <3>2, OneLog
  <2>7. LogOf(logs', w).damage \in LiveEnds /\ LogOf(logs', w).synced = LogOf(logs, w).synced BY <2>3, <2>5, <2>6
  <2>8. /\ DiskType(logs', maybe, dir) /\ Stories(history, logs', maybe, dir)
        /\ Top(logs', dir) = Top(logs, dir) /\ Kept(logs', dir) = Kept(logs, dir)
    <3>1. w \in 0..Len(logs) /\ (w # 0 => w = dir.wal) /\ (w = 0 => LogOf(logs', w) = LogOf(logs, w)) BY <2>1
    <3> HIDE DEF w
    <3> QED BY ONLY <1>2, <2>6, <2>7, <3>1, RelogKeeps
  <2>9. Powerless \/ Safe(durable, logs', maybe)
    <3>1. w \in 0..Len(logs) BY <2>1
    <3> HIDE DEF w
    <3> QED BY ONLY <1>2, <2>6, <2>7, <3>1, SyncKeeps
  <2>10. Disk(history', logs', maybe', dir', written', durable')
    <3> HIDE DEF w
    <3> QED BY <1>2, <1>8, <2>8, <2>9 DEF Disk
  <2>11. /\ store' \in Stores(Len(logs')) /\ store'.wal = st.wal /\ store'.fd = st.fd /\ store'.mem = st.mem
         /\ store'.pending = st.pending /\ store'.seq = st.seq
    BY <1>1, <1>8, <2>6 DEF Stores
  <2>end. ~store'.torn => LogOf(logs', dir.wal).damage \in CleanEnds BY <2>2, <2>5, <2>6
  <2>12. Holds(store', history', logs', dir', written', durable')
    <3> HIDE DEF w
    <3> QED BY <1>3, <1>8, <2>8, <2>11, <2>cut, <2>end DEF Holds
  <2>13. Synced(logs, dir.wal) => Synced(logs', dir.wal) BY <2>6, <2>7 DEF Synced
  <2>14. used' \in Bounds
    <3>1. Fault(kind) \/ Fault("cut") BY <1>8
    <3> QED BY <1>5, <3>1
  <2> HIDE DEF w
  <2> QED BY <1>8, <2>10, <2>11, <2>12, <2>13, <2>14 DEF Covered
<1>9. \/ /\ store' = st /\ UNCHANGED <<logs, history, written, used>>
         /\ ~st.wal \/ st.torn \/ st.fd = 0
      \/ /\ st.wal /\ ~st.torn /\ st.fd # 0
         /\ store' = [st EXCEPT !.seq = @ + 1, !.pending = TRUE]
         /\ logs' = [logs EXCEPT ![st.fd].recs = Append(@, [seq |-> st.seq + 1, op |-> op]),
                                 ![st.fd].damage = IF @ \in {"no", "cut"} THEN "no" ELSE "middle"]
         /\ history' = history \cup {[seq |-> st.seq + 1, op |-> op]}
         /\ written' = written \cup ({op} \ {0})
         /\ UNCHANGED used
      \/ /\ st.wal /\ ~st.torn /\ st.fd # 0 /\ kind \in Faults /\ UNCHANGED <<history, written>>
         /\ \/ /\ Fault(kind) /\ store' = st
               /\ \E damage \in {logs[st.fd].damage, CutOff} : logs' = [logs EXCEPT ![st.fd].damage = damage]
            \/ /\ Fault("cut") /\ store' = [st EXCEPT !.torn = TRUE]
               /\ \E damage \in {logs[st.fd].damage, "tail"} : logs' = [logs EXCEPT ![st.fd].damage = damage]
  <2>1. Fault(kind) => kind \in Faults BY DEF Fault
  <2> QED BY ONLY <2>1, WriteRecord(st, op, kind), Zenon DEF WriteRecord
<1> QED BY <1>6, <1>7, <1>8, <1>9, Zenon

\* Only the call under way moves on.
LEMMA MovesOn ==
  ASSUME IInv, Up, pc # "boot_marker", UNCHANGED <<store, disk, ghosts>>,
         pc' \in Steps \ {"halted"}, call' \in Calls, nextOp' \in Nat, used' \in Bounds,
         Place(pc', call'.ret, store, dir)
  PROVE  IInv'
<1>1. /\ store' = store /\ dir' = dir /\ maybe' = maybe /\ logs' = logs
      /\ written' = written /\ durable' = durable /\ history' = history
  BY DEF disk, ghosts
<1>2. Types' BY <1>1 DEF IInv, Types
<1>3. Disk(history, logs, maybe, dir, written, durable)' BY <1>1 DEF IInv
<1>4. Holds(store, history, logs, dir, written, durable)' BY <1>1 DEF IInv
<1>5. Covered(store, logs, dir)' BY <1>1 DEF IInv
<1>6. Place(pc, call.ret, store, dir)' BY <1>1
<1> QED BY ONLY <1>2, <1>3, <1>4, <1>5, <1>6 DEF IInv

LEMMA AfterCallPlace ==
  ASSUME NEW ret, NEW st, NEW d
  PROVE  /\ AfterCall \in {"exit", "idle"} /\ AfterCall \in Steps \ {"halted"}
         /\ Place(AfterCall, ret, st, d) /\ Place("idle", ret, st, d)
<1>1. AfterCall \in {"exit", "idle"} BY DEF AfterCall
<1> QED BY <1>1 DEF Steps, Place, Snapping

\* A file operation fails, and the call ends in a catch.
LEMMA FaultKeeps ==
  ASSUME IInv, Up, pc # "boot_marker", NEW kind, Fault(kind), pc' = AfterCall, call' \in Calls,
         UNCHANGED <<store, disk, ghosts, nextOp>>
  PROVE  IInv'
<1>1. used' \in Bounds BY DEF IInv, Types, Bounds, Fault
<1>2. nextOp' \in Nat BY DEF IInv, Types
<1> QED BY <1>1, <1>2, AfterCallPlace, MovesOn

LEMMA CallKeeps ==
  ASSUME IInv, PersistSnapshot \/ StartRotate \/ Close \/ RotFold \/ BootRotate
  PROVE  IInv'
<1>1. /\ call \in Calls /\ store.wal \in BOOLEAN /\ nextOp \in Nat /\ used \in Bounds
  BY DEF IInv, Types, Stores
<1>2. UNCHANGED <<store, disk, ghosts, nextOp>> BY DEF PersistSnapshot, StartRotate, Close, RotFold, BootRotate
<1>3. Up /\ pc # "boot_marker" BY DEF PersistSnapshot, StartRotate, Close, RotFold, BootRotate, Up
<1>4. Place(pc, call.ret, store, dir) BY <1>3 DEF IInv
<1>5. call' \in Calls
  BY <1>1 DEF PersistSnapshot, StartRotate, Close, RotFold, BootRotate, Calls, Rets
<1>6. used' \in Bounds
  BY <1>1 DEF PersistSnapshot, StartRotate, Close, RotFold, BootRotate, Bounds
<1>7. pc' \in Steps \ {"halted"} /\ Place(pc', call'.ret, store, dir)
  <2>1. CASE PersistSnapshot
    <3>1. pc' = "snap_barrier" /\ call'.ret = "idle" BY <1>1, <2>1 DEF PersistSnapshot, Calls
    <3> QED BY <3>1 DEF Steps, Place, Snapping
  <2>2. CASE StartRotate
    <3>1. pc' = "rot_barrier" /\ store.wal BY <2>2 DEF StartRotate
    <3> QED BY <3>1 DEF Steps, Place, Snapping
  <2>3. CASE Close
    <3>1. pc' = (IF store.wal THEN "rot_barrier" ELSE "snap_barrier") /\ call'.ret = "idle"
      BY <1>1, <2>3 DEF Close, Calls
    <3> QED BY <3>1 DEF Steps, Place, Snapping
  <2>4. CASE BootRotate
    <3>1. pc' = (IF store.wal THEN "rot_barrier" ELSE "snap_barrier") /\ call'.ret = "idle"
      BY <1>1, <2>4 DEF BootRotate, Calls
    <3> QED BY <3>1 DEF Steps, Place, Snapping
  <2>5. CASE RotFold
    <3>1. pc = "rot_fold" BY <2>5 DEF RotFold
    <3>2. store.wal /\ ~store.torn /\ ~store.pending BY <1>4, <3>1 DEF Place
    <3>3. CASE dir.rot # 0
      <4>1. pc' = "snap_barrier" /\ call'.ret = "fold_remove" BY <1>1, <2>5, <3>3 DEF RotFold, Calls
      <4> QED BY <3>2, <4>1 DEF Steps, Place, Snapping
    <3>4. CASE dir.rot = 0
      <4>1. pc' = "rot_rename" BY <2>5, <3>4 DEF RotFold
      <4> QED BY <3>2, <3>4, <4>1 DEF Steps, Place, Snapping
    <3> QED BY <3>3, <3>4
  <2> QED BY <2>1, <2>2, <2>3, <2>4, <2>5
<1> QED BY <1>1, <1>2, <1>3, <1>5, <1>6, <1>7, MovesOn

LEMMA ExitKeeps ==
  ASSUME IInv, Exit
  PROVE  IInv'
<1>1. ~Up' /\ pc' \in Steps \ {"halted"} BY DEF Exit, Up, Steps
<1>2. UNCHANGED <<call, store, dir, maybe, logs, written, durable, history, nextOp, used>>
  BY DEF Exit, disk, ghosts
<1>3. Types' BY <1>1, <1>2 DEF IInv, Types
<1>4. Disk(history, logs, maybe, dir, written, durable)' BY <1>2 DEF IInv
<1> QED BY ONLY <1>1, <1>3, <1>4 DEF IInv

-----------------------------------------------------------------------------
(* The store: append() *)

LEMMA AppendRecordKeeps ==
  ASSUME IInv, AppendRecord
  PROVE  IInv'
<1> DEFINE st == [store EXCEPT !.mem = @ \cup {nextOp}, !.dirty = TRUE]
<1>1. pc = "idle" /\ Up /\ nextOp \in Nat /\ call \in Calls /\ store \in Stores(Len(logs)) /\ used \in Bounds
  BY DEF IInv, Types, AppendRecord, Up
<1>2. /\ Disk(history, logs, maybe, dir, written, durable)
      /\ Holds(store, history, logs, dir, written, durable) /\ Covered(store, logs, dir)
  BY <1>1 DEF IInv
<1>3. /\ st \in Stores(Len(logs)) /\ st.wal = store.wal /\ st.mem = store.mem \cup {nextOp} /\ st.seq = store.seq
      /\ st.fd = store.fd /\ st.torn = store.torn /\ st.pending = store.pending
  BY ONLY <1>1 DEF Stores
<1>4. /\ WriteRecord(st, nextOp, "write") /\ nextOp' = nextOp + 1
      /\ pc' = pc /\ call' = call /\ dir' = dir /\ maybe' = maybe /\ durable' = durable
  BY DEF AppendRecord
<1>5. written \in SUBSET Nat /\ durable \in SUBSET Nat BY DEF IInv, Types
<1> HIDE DEF st
<1>6. Holds(st, history, logs, dir, written, durable) /\ nextOp \in st.mem BY <1>2, <1>3 DEF Holds
<1>7. Covered(st, logs, dir) BY <1>2, <1>3 DEF Covered
<1>8. /\ Disk(history', logs', maybe', dir', written', durable')
      /\ Holds(store', history', logs', dir', written', durable')
      /\ store' \in Stores(Len(logs')) /\ used' \in Bounds /\ written' \in SUBSET Nat
      /\ Covered(store', logs', dir')
  BY ONLY <1>1, <1>2, <1>3, <1>4, <1>5, <1>6, <1>7, WriteKeeps
<1>9. Types' BY <1>1, <1>4, <1>5, <1>8 DEF Types, Steps
<1>10. Place(pc', call'.ret, store', dir') BY <1>1, <1>4 DEF Place, Snapping
<1> QED BY ONLY <1>8, <1>9, <1>10 DEF IInv

\* The marker of a log just opened, by open() or by a rotation.
LEMMA MarkerKeeps ==
  ASSUME IInv, Powerless \/ "openMarker" \notin Faults, Marker \/ BootMarker
  PROVE  IInv'
<1> DEFINE st == [store EXCEPT !.dirty = TRUE]
<1>1. /\ pc \in {"marker", "boot_marker"} /\ Up /\ call \in Calls /\ store \in Stores(Len(logs)) /\ used \in Bounds
      /\ nextOp \in Nat
  BY DEF IInv, Types, Marker, BootMarker, Up
<1>2. /\ Disk(history, logs, maybe, dir, written, durable)
      /\ Holds(store, history, logs, dir, written, durable)
      /\ pc = "boot_marker" \/ Covered(store, logs, dir)
      /\ Place(pc, call.ret, store, dir)
  BY <1>1 DEF IInv
<1>3. /\ st \in Stores(Len(logs)) /\ st.wal = store.wal /\ st.mem = store.mem /\ st.seq = store.seq
      /\ st.fd = store.fd /\ st.torn = store.torn /\ st.pending = store.pending
  BY ONLY <1>1 DEF Stores
<1> DEFINE kind == IF pc = "marker" THEN "write" ELSE "openMarker"
<1>4. /\ WriteRecord(st, 0, kind) /\ nextOp' = nextOp
      /\ pc' = (IF pc = "marker" THEN "sync_names" ELSE "boot_rotate")
      /\ call' = call /\ dir' = dir /\ maybe' = maybe /\ durable' = durable
  BY DEF Marker, BootMarker
<1>5. written \in SUBSET Nat /\ durable \in SUBSET Nat /\ 0 \in Nat BY DEF IInv, Types
<1> HIDE DEF st
<1>6. Holds(st, history, logs, dir, written, durable) BY <1>2, <1>3 DEF Holds
<1>7. Covered(st, logs, dir) \/ pc = "boot_marker" BY <1>2, <1>3 DEF Covered
<1>kind. kind = (IF pc = "marker" THEN "write" ELSE "openMarker") /\ kind \in {"write", "openMarker"} OBVIOUS
<1> HIDE DEF kind
<1>8. /\ Disk(history', logs', maybe', dir', written', durable')
      /\ Holds(store', history', logs', dir', written', durable')
      /\ store' \in Stores(Len(logs')) /\ used' \in Bounds /\ written' \in SUBSET Nat
      /\ store'.wal = st.wal
      /\ Covered(st, logs, dir) => Covered(store', logs', dir')
      /\ kind \notin Faults /\ st.wal /\ ~st.torn /\ st.fd # 0 => store'.pending
  <2>1. 0 # 0 => 0 \in st.mem OBVIOUS
  <2> QED BY ONLY <1>1, <1>2, <1>3, <1>4, <1>5, <1>6, <1>kind, <2>1, WriteKeeps
<1>9. Covered(store', logs', dir')
  <2>1. CASE pc = "marker" BY <1>7, <1>8, <2>1
  <2>2. CASE pc = "boot_marker"
    <3>1. store.wal => store.fd # 0 /\ ~store.torn BY <1>2, <2>2 DEF Place
    <3>2. Powerless \/ kind \notin Faults BY <1>kind, <2>2
    <3> QED BY <1>3, <1>8, <3>1, <3>2 DEF Covered
  <2> QED BY <1>1, <2>1, <2>2
<1>10. Types' BY <1>1, <1>4, <1>5, <1>8 DEF Types, Steps
<1>11. Place(pc', call'.ret, store', dir')
  <2>1. pc = "marker" => store.wal BY <1>2 DEF Place
  <2> QED BY <1>1, <1>3, <1>4, <1>8, <2>1 DEF Place, Snapping
<1> QED BY ONLY <1>8, <1>9, <1>10, <1>11 DEF IInv

-----------------------------------------------------------------------------
(* The store: barrier() *)

\* The fsync covers the whole log, and is answered for where the log's name is synced.
LEMMA FsyncKeeps ==
  ASSUME IInv, Up, store.wal, store.pending,
         SyncLog(store.fd), Promise(OpsIn(store.fd), LogNamed(store.fd)),
         UNCHANGED <<dir, maybe, written, history>>
  PROVE  /\ Disk(history', logs', maybe', dir', written', durable') /\ Len(logs') = Len(logs)
         /\ durable' \in SUBSET Nat /\ Top(logs', dir) = Top(logs, dir)
         /\ (Powerless \/ durable' \subseteq store.mem)
         /\ LogOf(logs, dir.wal).damage \in CleanEnds => LogOf(logs', dir.wal).damage \in CleanEnds
         /\ Synced(logs', dir.wal)
<1> DEFINE w == dir.wal
<1>1. /\ DiskType(logs, maybe, dir) /\ history \in SUBSET Record /\ Stories(history, logs, maybe, dir)
      /\ written \subseteq Kept(logs, dir) /\ (Powerless \/ Safe(durable, logs, maybe))
  BY DEF IInv, Disk
<1>2. /\ store.fd = w /\ w # 0 /\ (\A h \in history : h.op # 0 => h.op \in store.mem)
      /\ (Powerless \/ durable \subseteq store.mem)
  BY DEF IInv, Holds
<1>3. w \in 1..Len(logs) /\ w \in 0..Len(logs) /\ logs \in Seq(Logs) /\ dir \in maybe BY <1>1, <1>2 DEF DiskType
<1>4. durable \in SUBSET Nat BY DEF IInv, Types
<1>5. /\ logs[w] \in Logs /\ logs[w].recs \in Seq(Record) /\ LogOf(logs, w) = logs[w] /\ RecsOf(logs, w) = logs[w].recs
  BY <1>3, LogFields
<1> DEFINE recs == logs[w].recs
<1> DEFINE n == Len(recs)
<1>6. n \in Nat BY <1>5
<1> DEFINE end == IF logs[w].damage = "cut" THEN "no" ELSE logs[w].damage
<1> DEFINE log == [logs[w] EXCEPT !.synced = n, !.damage = end]
<1>7. logs' = WithLog(logs, w, log) BY <1>2, <1>3 DEF SyncLog, WithLog
<1>end. end \in {"no", "tail", "middle"} BY <1>5 DEF Logs
<1>ends. /\ logs[w].damage \in LiveEnds => end \in LiveEnds
         /\ logs[w].damage \in CleanEnds => end \in CleanEnds
  BY EndsAre
<1> HIDE DEF n, end
<1>8. log \in Logs /\ log.recs = recs /\ log.synced = n /\ log.damage = end BY <1>5, <1>6, <1>end DEF Logs
<1> HIDE DEF log, w
<1>9. /\ OnlyLog(logs, logs', w) /\ Len(logs') = Len(logs) /\ LogOf(logs', w) = log /\ RecsOf(logs', w) = log.recs
  BY ONLY <1>3, <1>7, <1>8, OneLog
<1> DEFINE ops == OpsOf(RecsOf(logs, w), Len(RecsOf(logs, w)))
<1>10. /\ RecsOf(logs', w) = RecsOf(logs, w) /\ LogOf(logs', w).damage = end /\ Synced(logs', w)
  BY <1>5, <1>8, <1>9 DEF Synced, n
<1>11. Story(history, logs, dir) BY <1>1, <1>3 DEF Stories
<1>12. /\ LogOf(logs', w).damage \in LiveEnds
       /\ LogOf(logs, w).damage \in CleanEnds => LogOf(logs', w).damage \in CleanEnds
  <2>1. LogOf(logs, w).damage \in LiveEnds BY <1>11 DEF Story, w
  <2> QED BY <1>5, <1>10, <1>ends, <2>1
<1>13. /\ DiskType(logs', maybe, dir) /\ Stories(history, logs', maybe, dir)
       /\ Top(logs', dir) = Top(logs, dir) /\ Kept(logs', dir) = Kept(logs, dir)
  <2>1. w # 0 => w = dir.wal BY DEF w
  <2>2. w = 0 => LogOf(logs', w) = LogOf(logs, w) BY <1>2
  <2> QED BY ONLY <1>1, <1>3, <1>9, <1>10, <1>12, <2>1, <2>2, RelogKeeps
<1>14. OpsIn(store.fd) = ops
  <2>1. DOMAIN recs = 1..Len(recs) BY <1>5
  <2> QED BY <1>2, <1>5, <2>1 DEF OpsIn, OpsOf
<1>15. ops \subseteq store.mem /\ ops \subseteq Nat
  <2> SUFFICES ASSUME NEW op \in ops PROVE op \in store.mem /\ op \in Nat OBVIOUS
  <2>1. PICK i \in 1..Len(recs) : op = recs[i].op /\ op # 0 BY <1>5 DEF OpsOf
  <2>2. i \in DOMAIN RecsOf(logs, dir.wal) /\ RecsOf(logs, dir.wal)[i] = recs[i] BY <1>5 DEF w
  <2>3. recs[i] \in history BY <1>11, <2>2 DEF Story
  <2>4. recs[i] \in Record BY <1>1, <2>3
  <2>5. recs[i].op \in Nat BY <2>4 DEF Record
  <2> QED BY <1>2, <2>1, <2>3, <2>5
<1> DEFINE named == LogNamed(store.fd)
<1>16. durable' = IF named THEN durable \cup ops ELSE durable BY <1>14 DEF Promise
<1>17. named => \A x \in maybe : w \in {x.wal, x.rot} BY <1>2 DEF LogNamed
<1> HIDE DEF named, ops
<1>18. Powerless \/ Safe(durable', logs', maybe)
  <2> SUFFICES ASSUME Safe(durable, logs, maybe) PROVE Safe(durable', logs', maybe) BY <1>1
  <2>1. /\ Safe(durable, logs', maybe)
        /\ Synced(logs', w) /\ (\A x \in maybe : w \in {x.wal, x.rot}) => Safe(durable \cup ops, logs', maybe)
    BY <1>1, <1>3, <1>9, <1>10, SyncKeeps DEF ops
  <2> QED BY <1>10, <1>16, <1>17, <2>1
<1>19. Disk(history', logs', maybe', dir', written', durable') BY <1>1, <1>13, <1>18 DEF Disk
<1>20. durable' \in SUBSET Nat /\ (Powerless \/ durable' \subseteq store.mem) BY <1>2, <1>4, <1>15, <1>16
<1> QED BY <1>9, <1>10, <1>12, <1>13, <1>19, <1>20 DEF w

LEMMA LogBarrierKeeps ==
  ASSUME IInv, Up, pc # "boot_marker", NEW next \in Steps \ {"halted"}, LogBarrier(next),
         call' = call, UNCHANGED <<dir, maybe, written, history, nextOp>>,
         \A st : /\ ~st.pending /\ st.wal = store.wal /\ st.torn = store.torn /\ st.fd = store.fd
                 => Place(next, call.ret, st, dir)
  PROVE  IInv'
<1>1. /\ call \in Calls /\ store \in Stores(Len(logs)) /\ nextOp \in Nat /\ used \in Bounds
      /\ written \in SUBSET Nat /\ durable \in SUBSET Nat
  BY DEF IInv, Types
<1>2. /\ Holds(store, history, logs, dir, written, durable) /\ Covered(store, logs, dir)
  BY DEF IInv
<1>3. CASE ~(store.wal /\ store.pending) /\ pc' = next /\ UNCHANGED <<store, logs, durable, used>>
  <2>1. ~store.pending
    <3>1. store.pending => store.wal BY <1>2 DEF Holds
    <3> QED BY <1>3, <3>1
  <2>2. UNCHANGED <<store, disk, ghosts>> BY <1>3 DEF disk, ghosts
  <2>3. Place(next, call.ret, store, dir) BY <2>1
  <2> QED BY <1>1, <1>3, <2>2, <2>3, MovesOn
<1>4. CASE Fault("fsync") /\ pc' = AfterCall /\ UNCHANGED <<store, logs, durable>>
  <2>1. UNCHANGED <<store, disk, ghosts, nextOp>> BY <1>4 DEF disk, ghosts
  <2> QED BY <1>1, <1>4, <2>1, FaultKeeps
<1>5. CASE /\ store.wal /\ store.pending /\ SyncLog(store.fd)
           /\ store' = [store EXCEPT !.pending = FALSE]
           /\ Promise(OpsIn(store.fd), LogNamed(store.fd))
           /\ pc' = next /\ UNCHANGED used
  <2>1. /\ Disk(history', logs', maybe', dir', written', durable') /\ Len(logs') = Len(logs)
        /\ durable' \in SUBSET Nat /\ Top(logs', dir) = Top(logs, dir)
        /\ (Powerless \/ durable' \subseteq store.mem)
        /\ LogOf(logs, dir.wal).damage \in CleanEnds => LogOf(logs', dir.wal).damage \in CleanEnds
        /\ Synced(logs', dir.wal)
    BY <1>5, FsyncKeeps
  <2>2. /\ store' \in Stores(Len(logs)) /\ store'.wal = store.wal /\ store'.mem = store.mem /\ store'.seq = store.seq
        /\ store'.fd = store.fd /\ store'.torn = store.torn /\ store'.pending = FALSE
    BY <1>1, <1>5 DEF Stores
  <2>3. Holds(store', history', logs', dir', written', durable') BY <1>2, <2>1, <2>2 DEF Holds
  <2>4. Covered(store', logs', dir') BY <2>1 DEF Covered
  <2>5. Place(pc', call'.ret, store', dir') BY <1>5, <2>2
  <2>6. Types' BY <1>1, <1>5, <2>1, <2>2 DEF Types
  <2> QED BY ONLY <2>1, <2>3, <2>4, <2>5, <2>6 DEF IInv
<1> QED BY <1>3, <1>4, <1>5 DEF LogBarrier

LEMMA BarrierKeeps ==
  ASSUME IInv, Barrier \/ SnapBarrier \/ RotBarrier
  PROVE  IInv'
<1>1. Up /\ pc # "boot_marker" BY DEF Barrier, SnapBarrier, RotBarrier, Up
<1>2. Place(pc, call.ret, store, dir) BY <1>1 DEF IInv
<1>3. CASE SnapBarrier
  <2>1. pc = "snap_barrier" /\ LogBarrier("snap_rename") /\ call' = call
        /\ UNCHANGED <<dir, maybe, written, history, nextOp>>
    BY <1>3 DEF SnapBarrier
  <2>2. (call.ret # "idle" => store.wal) /\ (call.ret = "fold_remove" => ~store.torn)
    BY <1>2, <2>1 DEF Place, Snapping
  <2>3. \A st : /\ ~st.pending /\ st.wal = store.wal /\ st.torn = store.torn /\ st.fd = store.fd
                => Place("snap_rename", call.ret, st, dir)
    BY <2>2 DEF Place, Snapping
  <2>4. "snap_rename" \in Steps \ {"halted"} BY DEF Steps
  <2> QED BY <1>1, <2>1, <2>3, <2>4, LogBarrierKeeps
<1>4. CASE RotBarrier
  <2>1. pc = "rot_barrier" /\ LogBarrier("rot_cut") /\ call' = call
        /\ UNCHANGED <<dir, maybe, written, history, nextOp>>
    BY <1>4 DEF RotBarrier
  <2>2. store.wal BY <1>2, <2>1 DEF Place
  <2>3. \A st : /\ ~st.pending /\ st.wal = store.wal /\ st.torn = store.torn /\ st.fd = store.fd
                => Place("rot_cut", call.ret, st, dir)
    BY <2>2 DEF Place, Snapping
  <2>4. "rot_cut" \in Steps \ {"halted"} BY DEF Steps
  <2> QED BY <1>1, <2>1, <2>3, <2>4, LogBarrierKeeps
<1>5. CASE Barrier
  <2>1. pc = "idle" /\ UNCHANGED <<dir, maybe, written, history, nextOp>> BY <1>5 DEF Barrier
  <2>2. CASE store.wal
    <3>1. LogBarrier("idle") /\ call' = call BY <1>5, <2>2 DEF Barrier
    <3>2. \A st : Place("idle", call.ret, st, dir) BY AfterCallPlace
    <3>3. "idle" \in Steps \ {"halted"} BY DEF Steps
    <3> QED BY <1>1, <2>1, <3>1, <3>2, <3>3, LogBarrierKeeps
  <2>3. CASE ~store.wal
    <3>1. /\ pc' = "snap_barrier" /\ call' = [call EXCEPT !.ret = "idle"]
          /\ UNCHANGED <<store, logs, durable, used>>
      BY <1>5, <2>3 DEF Barrier
    <3>2. UNCHANGED <<store, disk, ghosts>> BY <2>1, <3>1 DEF disk, ghosts
    <3>3. call \in Calls /\ nextOp \in Nat /\ used \in Bounds BY DEF IInv, Types
    <3>4. call' \in Calls /\ call'.ret = "idle" BY <3>1, <3>3 DEF Calls, Rets
    <3>5. Place(pc', call'.ret, store, dir) /\ pc' \in Steps \ {"halted"}
      BY <3>1, <3>4 DEF Place, Snapping, Steps
    <3> QED BY <1>1, <2>1, <3>1, <3>2, <3>3, <3>4, <3>5, MovesOn
  <2> QED BY <2>2, <2>3
<1> QED BY <1>3, <1>4, <1>5

-----------------------------------------------------------------------------
(* The store: writeSnapshot() and the names of the logs *)

LEMMA SetDirDoes ==
  ASSUME NEW d, SetDir(d)
  PROVE  dir' = d /\ d \in maybe' /\ maybe' \subseteq maybe \cup {d}
BY DEF SetDir

\* What every step of a call that is up may use.
LEMMA UpHolds ==
  ASSUME IInv, Up, pc # "boot_marker"
  PROVE  /\ call \in Calls /\ store \in Stores(Len(logs)) /\ nextOp \in Nat /\ used \in Bounds
         /\ written \in SUBSET Nat /\ durable \in SUBSET Nat
         /\ DiskType(logs, maybe, dir) /\ history \in SUBSET Record /\ Stories(history, logs, maybe, dir)
         /\ written \subseteq Kept(logs, dir) /\ (Powerless \/ Safe(durable, logs, maybe))
         /\ Disk(history, logs, maybe, dir, written, durable)
         /\ Holds(store, history, logs, dir, written, durable) /\ Covered(store, logs, dir)
         /\ Place(pc, call.ret, store, dir)
         /\ dir \in maybe /\ dir \in Directories /\ Story(history, logs, dir)
BY DEF IInv, Types, Disk, DiskType, Stories

\* The directory changes under a store that is up, to one that tells as much.
LEMMA DirMoves ==
  ASSUME IInv, Up, pc # "boot_marker", NEW d2 \in Directories, SetDir(d2),
         d2.wal = dir.wal \/ d2.wal = 0, d2.rot \in {0, dir.rot, dir.wal}, d2.wal # 0 => d2.rot # d2.wal,
         Story(history, logs, d2), Top(logs, d2) = Top(logs, dir),
         written' \subseteq Kept(logs, d2),
         Powerless \/ (Synced(logs, d2.rot) /\ durable \subseteq Held(logs, d2)),
         UNCHANGED <<logs, history, durable>>
  PROVE  Disk(history', logs', maybe', dir', written', durable')
<1>1. /\ DiskType(logs, maybe, dir) /\ history \in SUBSET Record /\ Stories(history, logs, maybe, dir)
      /\ (Powerless \/ Safe(durable, logs, maybe)) /\ dir \in maybe
  BY UpHolds
<1>2. dir' = d2 /\ d2 \in maybe' /\ maybe' \subseteq maybe \cup {d2} BY SetDirDoes
<1>3. dir.wal \in 0..Len(logs) /\ dir.rot \in 0..Len(logs) /\ Len(logs) \in Nat BY <1>1 DEF DiskType
<1>4. d2.wal \in 0..Len(logs) /\ d2.rot \in 0..Len(logs) BY <1>3
<1>5. d2.wal # 0 => d2.wal = dir.wal /\ d2.rot # d2.wal OBVIOUS
<1>6. /\ DiskType(logs, maybe', d2) /\ Stories(history, logs, maybe', d2)
      /\ \A dur : /\ Safe(dur, logs, maybe) /\ Synced(logs, d2.rot) /\ dur \subseteq Held(logs, d2)
                  /\ LogOf(logs, d2.wal).synced \in 0..Len(RecsOf(logs, d2.wal))
                  => Safe(dur, logs, maybe')
  BY <1>1, <1>2, <1>4, <1>5, DirKeeps
<1>7. Powerless \/ Safe(durable, logs, maybe')
  <2> SUFFICES ASSUME ~Powerless PROVE Safe(durable, logs, maybe') OBVIOUS
  <2>1. Safe(durable, logs, maybe) BY <1>1
  <2>2. LogOf(logs, d2.wal).synced \in 0..Len(RecsOf(logs, d2.wal))
    <3>1. CASE d2.wal = dir.wal BY <1>1, <2>1, <3>1 DEF Safe
    <3>2. CASE d2.wal = 0
      <4>1. LogOf(logs, 0).synced = 0 /\ RecsOf(logs, 0) = <<>> BY EmptyLogType DEF LogOf, RecsOf
      <4> QED BY <3>2, <4>1
    <3> QED BY <3>1, <3>2
  <2> QED BY <1>6, <2>1, <2>2
<1> QED BY <1>1, <1>2, <1>6, <1>7 DEF Disk

LEMMA NoLog == Synced(logs, 0) /\ LogOf(logs, 0).damage \in CleanEnds
BY EmptyLogType, EndsAre DEF Synced, LogOf, RecsOf

LEMMA SnapRenameKeeps ==
  ASSUME IInv, SnapRename
  PROVE  IInv'
<1>1. pc = "snap_rename" /\ Up /\ pc # "boot_marker" BY DEF SnapRename, Up
<1>2. /\ call \in Calls /\ store \in Stores(Len(logs)) /\ nextOp \in Nat /\ used \in Bounds
      /\ written \in SUBSET Nat /\ durable \in SUBSET Nat
      /\ DiskType(logs, maybe, dir) /\ history \in SUBSET Record /\ Stories(history, logs, maybe, dir)
      /\ written \subseteq Kept(logs, dir) /\ (Powerless \/ Safe(durable, logs, maybe))
      /\ Holds(store, history, logs, dir, written, durable) /\ Covered(store, logs, dir)
      /\ Place(pc, call.ret, store, dir)
      /\ dir \in maybe /\ dir \in Directories /\ Story(history, logs, dir)
  BY <1>1, UpHolds
<1>3. UNCHANGED <<call, store, logs, durable, history, nextOp>> BY DEF SnapRename
<1>4. CASE Fault("snapshot") /\ pc' = AfterCall /\ UNCHANGED <<dir, maybe, written>>
  <2>1. UNCHANGED <<store, disk, ghosts, nextOp>> BY <1>3, <1>4 DEF disk, ghosts
  <2> QED BY <1>1, <1>2, <1>3, <1>4, <2>1, FaultKeeps
<1>5. CASE /\ SetDir([dir EXCEPT !.snap = SnapshotOf(store)])
           /\ written' = written \cup store.mem /\ pc' = "snap_sync" /\ UNCHANGED used
  <2> DEFINE d2 == [dir EXCEPT !.snap = SnapshotOf(store)]
  <2>1. store.seq = Top(logs, dir) /\ store.mem \in SUBSET Nat BY <1>2 DEF Holds, Stores
  <2>2. d2 = Snapped(logs, dir, store.mem) BY <2>1 DEF SnapshotOf, Snapped
  <2>3. d2.snap = SnapshotOf(store) BY <1>2 DEF Directories
  <2> HIDE DEF d2
  <2>4. TellsAll(history, logs, dir, store.mem) BY <1>2 DEF Holds, TellsAll
  <2>5. /\ d2 \in Directories /\ d2.wal = dir.wal /\ d2.rot = dir.rot
        /\ Story(history, logs, d2) /\ Top(logs, d2) = Top(logs, dir)
        /\ store.mem \subseteq Kept(logs, d2) /\ store.mem \subseteq Held(logs, d2)
    <3> DEFINE mem == store.mem
    <3> DEFINE d3 == Snapped(logs, dir, mem)
    <3>1. mem \in SUBSET Nat /\ TellsAll(history, logs, dir, mem) BY <2>1, <2>4
    <3>2. DiskType(logs, maybe, dir) /\ history \in SUBSET Record /\ Stories(history, logs, maybe, dir) BY <1>2
    <3> HIDE DEF mem
    <3>3. Top(logs, d3) = Top(logs, dir) /\ Story(history, logs, d3) BY ONLY <3>1, <3>2, SnapshotTells
    <3>4. d3 \in Directories BY ONLY <3>1, <3>2, SnapshotTells
    <3>8. d3.wal = dir.wal /\ d3.rot = dir.rot
      <4>1. dir \in Directories BY <1>2
      <4> QED BY ONLY <4>1 DEF Snapped, Directories
    <3>5. mem \subseteq Kept(logs, d3) BY ONLY <3>1, <3>2, SnapshotTells
    <3>6. mem \subseteq Held(logs, d3) BY ONLY <3>1, <3>2, SnapshotTells
    <3>7. d2 = d3 BY <2>2 DEF mem
    <3> HIDE DEF d3
    <3> QED BY <3>3, <3>4, <3>5, <3>6, <3>7, <3>8 DEF mem
  <2>6. SetDir(d2) BY <1>5 DEF d2
  <2>7. written \subseteq store.mem /\ (Powerless \/ durable \subseteq store.mem) BY <1>2 DEF Holds
  <2>8. Powerless \/ (Synced(logs, d2.rot) /\ durable \subseteq Held(logs, d2)) BY <1>2, <2>5, <2>7 DEF Safe
  <2>9. d2.wal # 0 => d2.rot # d2.wal BY <1>2, <2>5 DEF Story
  <2>10. written' \subseteq Kept(logs, d2) BY <1>5, <2>5, <2>7
  <2>11. Disk(history', logs', maybe', dir', written', durable')
    BY <1>1, <1>3, <2>5, <2>6, <2>8, <2>9, <2>10, DirMoves
  <2>12. dir' = d2 BY <2>6, SetDirDoes
  <2>13. written' \subseteq store.mem BY <1>5, <2>7
  <2>14. Holds(store', history', logs', dir', written', durable')
    BY <1>2, <1>3, <2>5, <2>12, <2>13 DEF Holds
  <2>15. Covered(store', logs', dir') BY <1>2, <1>3, <2>5, <2>12 DEF Covered
  <2>16. Place(pc', call'.ret, store', dir') BY <1>1, <1>2, <1>3, <1>5, <2>3, <2>12 DEF Place, Snapping
  <2>17. Types' BY <1>2, <1>3, <1>5, <2>1 DEF Types, Steps
  <2> QED BY ONLY <2>11, <2>14, <2>15, <2>16, <2>17 DEF IInv
<1> QED BY <1>4, <1>5 DEF SnapRename

\* The directory is synced: what was answered for is where no power loss reaches it.
LEMMA DirSynced ==
  ASSUME IInv, Up, pc # "boot_marker", SyncDir, UNCHANGED <<dir, logs, history, written>>,
         durable' = durable \/ (durable' = durable \cup dir.snap.body)
  PROVE  Disk(history', logs', maybe', dir', written', durable')
<1>1. /\ DiskType(logs, maybe, dir) /\ history \in SUBSET Record /\ Stories(history, logs, maybe, dir)
      /\ written \subseteq Kept(logs, dir) /\ (Powerless \/ Safe(durable, logs, maybe))
  BY UpHolds
<1>2. maybe' = {dir} BY DEF SyncDir
<1>3. /\ DiskType(logs, {dir}, dir) /\ Stories(history, logs, {dir}, dir)
      /\ \A dur : Safe(dur, logs, maybe) => Safe(dur, logs, {dir})
  BY <1>1, SyncDirKeeps
<1>4. Safe(durable, logs, {dir}) => Safe(durable \cup dir.snap.body, logs, {dir})
  BY DEF Safe, Held
<1> QED BY <1>1, <1>2, <1>3, <1>4 DEF Disk

LEMMA SnapSyncKeeps ==
  ASSUME IInv, SnapSync
  PROVE  IInv'
<1>1. pc = "snap_sync" /\ Up /\ pc # "boot_marker" BY DEF SnapSync, Up
<1>2. /\ call \in Calls /\ store \in Stores(Len(logs)) /\ nextOp \in Nat /\ used \in Bounds
      /\ written \in SUBSET Nat /\ durable \in SUBSET Nat
      /\ Holds(store, history, logs, dir, written, durable) /\ Covered(store, logs, dir)
      /\ Place(pc, call.ret, store, dir)
  BY <1>1, UpHolds
<1>3. UNCHANGED <<call, dir, logs, written, history, nextOp>> BY DEF SnapSync
<1>4. CASE Fault("dirsync") /\ pc' = AfterCall /\ UNCHANGED <<maybe, durable, store>>
  <2>1. UNCHANGED <<store, disk, ghosts, nextOp>> BY <1>3, <1>4 DEF disk, ghosts
  <2> QED BY <1>1, <1>2, <1>3, <1>4, <2>1, FaultKeeps
<1>5. CASE /\ SyncDir /\ Promise(store.mem, TRUE) /\ store' = [store EXCEPT !.dirty = FALSE]
           /\ pc' = (IF call.ret = "idle" THEN AfterCall ELSE call.ret) /\ UNCHANGED used
  <2>1. dir.snap = SnapshotOf(store) /\ ~store.pending /\ (call.ret # "idle" => store.wal)
        /\ (call.ret = "fold_remove" => ~store.torn)
    BY <1>1, <1>2 DEF Place, Snapping
  <2>2. dir.snap.body = store.mem BY <2>1 DEF SnapshotOf
  <2>3. durable' = durable \cup store.mem BY <1>5 DEF Promise
  <2>4. Disk(history', logs', maybe', dir', written', durable')
    BY <1>1, <1>3, <1>5, <2>2, <2>3, DirSynced
  <2>5. /\ store' \in Stores(Len(logs)) /\ store'.wal = store.wal /\ store'.mem = store.mem /\ store'.seq = store.seq
        /\ store'.fd = store.fd /\ store'.torn = store.torn /\ store'.pending = store.pending
    BY <1>2, <1>5 DEF Stores
  <2>6. store.mem \in SUBSET Nat BY <1>2 DEF Stores
  <2>7. durable' \in SUBSET Nat /\ (Powerless \/ durable' \subseteq store.mem) BY <1>2, <2>3, <2>6 DEF Holds
  <2>8. Holds(store', history', logs', dir', written', durable') BY <1>2, <1>3, <2>5, <2>7 DEF Holds
  <2>9. Covered(store', logs', dir') BY <1>2, <1>3, <2>5 DEF Covered
  <2>10. SnapshotOf(store') = dir.snap BY <2>1, <2>5 DEF SnapshotOf
  <2>11. pc' \in Steps \ {"halted"} /\ Place(pc', call'.ret, store', dir')
    <3>1. CASE call.ret = "idle" BY <1>5, <3>1, AfterCallPlace
    <3>2. CASE call.ret # "idle"
      <4>1. pc' = call.ret /\ call.ret \in Rets BY <1>2, <1>5, <3>2 DEF Calls
      <4>2. pc' \in {"fold_remove", "retire", "torn_remove_rot"} BY <3>2, <4>1 DEF Rets
      <4> QED BY <1>3, <2>1, <2>5, <2>10, <3>2, <4>1, <4>2 DEF Steps, Place, Snapping
    <3> QED BY <3>1, <3>2
  <2>12. Types' BY <1>2, <1>3, <1>5, <2>5, <2>7, <2>11 DEF Types
  <2> QED BY ONLY <2>4, <2>8, <2>9, <2>11, <2>12 DEF IInv
<1> QED BY <1>4, <1>5 DEF SnapSync

\* The segment is removed: the snapshot covers it.
LEMMA RemoveRotKeeps ==
  ASSUME IInv, FoldRemove \/ Retire \/ TornRemoveRot
  PROVE  IInv'
<1> DEFINE next == IF pc = "fold_remove" THEN "rot_rename" ELSE IF pc = "retire" THEN AfterCall ELSE "torn_remove_wal"
<1>1. /\ pc \in {"fold_remove", "retire", "torn_remove_rot"} /\ Up /\ pc # "boot_marker"
      /\ RemoveName("rot", next)
      /\ store' = (IF pc = "torn_remove_rot" THEN [store EXCEPT !.fd = 0] ELSE store)
  BY DEF FoldRemove, Retire, TornRemoveRot, Up
<1>2. /\ call \in Calls /\ store \in Stores(Len(logs)) /\ nextOp \in Nat /\ used \in Bounds
      /\ written \in SUBSET Nat /\ durable \in SUBSET Nat
      /\ DiskType(logs, maybe, dir) /\ history \in SUBSET Record /\ Stories(history, logs, maybe, dir)
      /\ written \subseteq Kept(logs, dir) /\ (Powerless \/ Safe(durable, logs, maybe))
      /\ Disk(history, logs, maybe, dir, written, durable)
      /\ Holds(store, history, logs, dir, written, durable) /\ Covered(store, logs, dir)
      /\ Place(pc, call.ret, store, dir)
      /\ dir \in maybe /\ dir \in Directories /\ Story(history, logs, dir)
  BY <1>1, UpHolds
<1>3. UNCHANGED <<call, logs, written, durable, history, nextOp>> BY <1>1 DEF RemoveName, ghosts
<1>4. dir.snap = SnapshotOf(store) /\ store.wal BY <1>1, <1>2 DEF Place
<1>5. pc # "retire" => ~store.pending BY <1>1, <1>2 DEF Place
<1>6. pc = "fold_remove" => ~store.torn BY <1>2 DEF Place
<1>7. /\ store' \in Stores(Len(logs)) /\ store'.wal = store.wal /\ store'.mem = store.mem /\ store'.seq = store.seq
      /\ store'.fd \in {0, store.fd} /\ store'.torn = store.torn /\ store'.pending = store.pending
      /\ (pc = "torn_remove_rot" => store'.fd = 0) /\ (pc # "torn_remove_rot" => store'.fd = store.fd)
  <2>1. Len(logs) \in Nat BY <1>2 DEF DiskType
  <2>2. CASE pc = "torn_remove_rot"
    <3>1. store' = [store EXCEPT !.fd = 0] BY <1>1, <2>2
    <3> QED BY ONLY <1>2, <2>1, <2>2, <3>1 DEF Stores
  <2>3. CASE pc # "torn_remove_rot"
    <3>1. store' = store BY <1>1, <2>3
    <3> QED BY <1>2, <2>3, <3>1
  <2> QED BY <2>2, <2>3
<1>8. \A d : Covered(store, logs, d) => Covered(store', logs, d) BY <1>7 DEF Covered
<1>9. ASSUME NEW d, Holds(store, history, logs, d, written, durable)
      PROVE  Holds(store', history, logs, d, written, durable)
  <2>1. store'.pending => store'.fd # 0
    <3>1. CASE pc = "torn_remove_rot" BY <1>5, <1>7, <3>1
    <3>2. CASE pc # "torn_remove_rot" BY <1>7, <1>9, <3>2 DEF Holds
    <3> QED BY <3>1, <3>2
  <2>2. store'.fd # 0 => store'.fd = d.wal /\ store'.wal BY <1>7, <1>9 DEF Holds
  <2> QED BY <1>7, <1>9, <2>1, <2>2 DEF Holds
<1>10. SnapshotOf(store') = SnapshotOf(store) BY <1>7 DEF SnapshotOf
<1>11. CASE dir.rot # 0 /\ Fault("remove") /\ pc' = AfterCall /\ UNCHANGED <<dir, maybe>>
  <2>1. Disk(history', logs', maybe', dir', written', durable') BY <1>2, <1>3, <1>11
  <2>2. Holds(store', history', logs', dir', written', durable') BY <1>2, <1>3, <1>9, <1>11
  <2>3. Covered(store', logs', dir') BY <1>2, <1>3, <1>8, <1>11
  <2>4. Place(pc', call'.ret, store', dir') /\ pc' \in Steps \ {"halted"} BY <1>11, AfterCallPlace
  <2>5. used' \in Bounds BY <1>2, <1>11 DEF Bounds, Fault
  <2>6. Types' BY <1>2, <1>3, <1>7, <2>4, <2>5 DEF Types
  <2> QED BY ONLY <2>1, <2>2, <2>3, <2>4, <2>6 DEF IInv
<1>12. CASE SetDir([dir EXCEPT !["rot"] = 0]) /\ pc' = next /\ UNCHANGED used
  <2> DEFINE d2 == [dir EXCEPT !.rot = 0]
  <2>1. SetDir(d2) BY <1>12
  <2>2. d2 = NoRot(dir) BY DEF NoRot
  <2> HIDE DEF d2
  <2>3. dir.snap.walSeq = Top(logs, dir) /\ dir.snap.body = store.mem BY <1>2, <1>4 DEF Holds, SnapshotOf
  <2>4. /\ d2 \in Directories /\ d2.wal = dir.wal /\ d2.rot = 0 /\ d2.snap = dir.snap
        /\ Story(history, logs, d2) /\ Top(logs, d2) = Top(logs, dir)
        /\ dir.snap.body \subseteq Kept(logs, d2) /\ dir.snap.body \subseteq Held(logs, d2)
    <3>1. history \in SUBSET Record /\ DiskType(logs, maybe, dir) /\ Stories(history, logs, maybe, dir) BY <1>2
    <3>2. dir.snap.walSeq = Top(logs, dir) BY <2>3
    <3>3. Emptied(history, logs, dir, d2) /\ d2.wal = dir.wal /\ d2.rot = 0 BY ONLY <2>2, <3>1, <3>2, WithoutRot
    <3> QED BY ONLY <3>3 DEF Emptied
  <2>5. written \subseteq store.mem /\ (Powerless \/ durable \subseteq store.mem) BY <1>2 DEF Holds
  <2>6. Powerless \/ (Synced(logs, d2.rot) /\ durable \subseteq Held(logs, d2)) BY <2>3, <2>4, <2>5, NoLog
  <2>7. written' \subseteq Kept(logs, d2) BY <1>3, <2>3, <2>4, <2>5
  <2>8. d2.wal # 0 => d2.rot # d2.wal BY <2>4
  <2>9. Disk(history', logs', maybe', dir', written', durable')
    BY <1>1, <1>3, <2>1, <2>4, <2>6, <2>7, <2>8, DirMoves
  <2>10. dir' = d2 BY <2>1, SetDirDoes
  <2>11. Holds(store, history, logs, d2, written, durable) /\ Covered(store, logs, d2)
    BY <1>2, <2>4 DEF Holds, Covered
  <2>12. Holds(store', history', logs', dir', written', durable') BY <1>3, <1>9, <2>10, <2>11
  <2>13. Covered(store', logs', dir') BY <1>3, <1>8, <2>10, <2>11
  <2>14. pc' \in Steps \ {"halted"} /\ Place(pc', call'.ret, store', dir')
    <3>1. CASE pc = "fold_remove"
      <4>1. pc' = "rot_rename" BY <1>12, <3>1
      <4> QED BY <1>4, <1>5, <1>6, <1>7, <2>4, <2>10, <3>1, <4>1 DEF Place, Snapping, Steps
    <3>2. CASE pc = "retire" BY <1>12, <3>2, AfterCallPlace
    <3>3. CASE pc = "torn_remove_rot"
      <4>1. pc' = "torn_remove_wal" BY <1>12, <3>3
      <4>2. dir'.snap = SnapshotOf(store') BY <1>4, <1>10, <2>4, <2>10
      <4> QED BY <1>4, <1>7, <3>3, <4>1, <4>2 DEF Place, Snapping, Steps
    <3> QED BY <1>1, <3>1, <3>2, <3>3
  <2>15. Types' BY <1>2, <1>3, <1>7, <1>12, <2>14 DEF Types
  <2> QED BY ONLY <2>9, <2>12, <2>13, <2>14, <2>15 DEF IInv
<1> HIDE DEF next
<1> QED BY <1>1, <1>11, <1>12 DEF RemoveName

\* #replaceTornWal(): so is the log.
LEMMA TornRemoveWalKeeps ==
  ASSUME IInv, TornRemoveWal
  PROVE  IInv'
<1>1. pc = "torn_remove_wal" /\ Up /\ pc # "boot_marker" /\ RemoveName("wal", "torn_sync") /\ store' = store
  BY DEF TornRemoveWal, Up
<1>2. /\ call \in Calls /\ store \in Stores(Len(logs)) /\ nextOp \in Nat /\ used \in Bounds
      /\ written \in SUBSET Nat /\ durable \in SUBSET Nat
      /\ DiskType(logs, maybe, dir) /\ history \in SUBSET Record /\ Stories(history, logs, maybe, dir)
      /\ written \subseteq Kept(logs, dir) /\ (Powerless \/ Safe(durable, logs, maybe))
      /\ Holds(store, history, logs, dir, written, durable) /\ Covered(store, logs, dir)
      /\ Place(pc, call.ret, store, dir)
      /\ dir \in maybe /\ dir \in Directories /\ Story(history, logs, dir)
  BY <1>1, UpHolds
<1>3. UNCHANGED <<call, logs, written, durable, history, nextOp>> BY <1>1 DEF RemoveName, ghosts
<1>4. dir.snap = SnapshotOf(store) /\ store.wal /\ store.fd = 0 BY <1>1, <1>2 DEF Place
<1>5. CASE dir.wal # 0 /\ Fault("remove") /\ pc' = AfterCall /\ UNCHANGED <<dir, maybe>>
  <2>1. UNCHANGED <<store, disk, ghosts, nextOp>> BY <1>1, <1>3, <1>5 DEF disk, ghosts
  <2> QED BY <1>1, <1>2, <1>3, <1>5, <2>1, FaultKeeps
<1>6. CASE SetDir([dir EXCEPT !["wal"] = 0]) /\ pc' = "torn_sync" /\ UNCHANGED used
  <2> DEFINE d2 == [dir EXCEPT !.wal = 0]
  <2>1. SetDir(d2) BY <1>6
  <2>2. d2 = NoWal(dir) BY DEF NoWal
  <2> HIDE DEF d2
  <2>3. dir.snap.walSeq = Top(logs, dir) /\ dir.snap.body = store.mem BY <1>2, <1>4 DEF Holds, SnapshotOf
  <2>4. /\ d2 \in Directories /\ d2.wal = 0 /\ d2.rot = dir.rot /\ d2.snap = dir.snap
        /\ Story(history, logs, d2) /\ Top(logs, d2) = Top(logs, dir)
        /\ dir.snap.body \subseteq Kept(logs, d2) /\ dir.snap.body \subseteq Held(logs, d2)
    <3>1. history \in SUBSET Record /\ DiskType(logs, maybe, dir) /\ Stories(history, logs, maybe, dir) BY <1>2
    <3>2. dir.snap.walSeq = Top(logs, dir) BY <2>3
    <3>3. Emptied(history, logs, dir, d2) /\ d2.wal = 0 /\ d2.rot = dir.rot BY ONLY <2>2, <3>1, <3>2, WithoutWal
    <3> QED BY ONLY <3>3 DEF Emptied
  <2>5. written \subseteq store.mem /\ (Powerless \/ durable \subseteq store.mem) BY <1>2 DEF Holds
  <2>6. Powerless \/ (Synced(logs, d2.rot) /\ durable \subseteq Held(logs, d2)) BY <1>2, <2>3, <2>4, <2>5 DEF Safe
  <2>7. written' \subseteq Kept(logs, d2) BY <1>3, <2>3, <2>4, <2>5
  <2>8. Disk(history', logs', maybe', dir', written', durable')
    BY <1>1, <1>3, <2>1, <2>4, <2>6, <2>7, DirMoves
  <2>9. dir' = d2 BY <2>1, SetDirDoes
  <2>10. Holds(store', history', logs', dir', written', durable')
    BY <1>1, <1>2, <1>3, <1>4, <2>4, <2>9, NoLog DEF Holds
  <2>11. Covered(store', logs', dir') BY <1>3, <2>4, <2>9, NoLog DEF Covered
  <2>12. pc' \in Steps \ {"halted"} /\ Place(pc', call'.ret, store', dir')
    BY <1>1, <1>4, <1>6, <2>4, <2>9 DEF Place, Snapping, Steps
  <2>13. Types' BY <1>1, <1>2, <1>3, <1>6, <2>12 DEF Types
  <2> QED BY ONLY <2>8, <2>10, <2>11, <2>12, <2>13 DEF IInv
<1> QED BY <1>1, <1>5, <1>6 DEF RemoveName

\* rotate(): a torn log is cut back to its whole records, or replaced.
LEMMA RotCutKeeps ==
  ASSUME IInv, RotCut
  PROVE  IInv'
<1>1. pc = "rot_cut" /\ Up /\ pc # "boot_marker" BY DEF RotCut, Up
<1>2. /\ call \in Calls /\ store \in Stores(Len(logs)) /\ nextOp \in Nat /\ used \in Bounds
      /\ written \in SUBSET Nat /\ durable \in SUBSET Nat
      /\ DiskType(logs, maybe, dir) /\ history \in SUBSET Record /\ Stories(history, logs, maybe, dir)
      /\ written \subseteq Kept(logs, dir) /\ (Powerless \/ Safe(durable, logs, maybe))
      /\ Holds(store, history, logs, dir, written, durable) /\ Covered(store, logs, dir)
      /\ Place(pc, call.ret, store, dir)
      /\ dir \in maybe /\ Story(history, logs, dir)
  BY <1>1, UpHolds
<1>3. UNCHANGED <<dir, maybe, written, durable, history, nextOp>> BY DEF RotCut, ghosts
<1>4. store.wal /\ ~store.pending BY <1>1, <1>2 DEF Place
<1>5. CASE ~store.torn /\ pc' = "rot_fold" /\ UNCHANGED <<call, store, logs, used>>
  <2>1. UNCHANGED <<store, disk, ghosts>> BY <1>3, <1>5 DEF disk, ghosts
  <2>2. Place("rot_fold", call.ret, store, dir) /\ "rot_fold" \in Steps \ {"halted"}
    BY <1>4, <1>5 DEF Place, Snapping, Steps
  <2> QED BY <1>1, <1>2, <1>3, <1>5, <2>1, <2>2, MovesOn
<1>6. CASE /\ store.torn /\ ((store.fd = 0 /\ UNCHANGED used) \/ (store.fd # 0 /\ Fault("cut")))
           /\ pc' = "snap_barrier" /\ call' = [call EXCEPT !.ret = "torn_remove_rot"]
           /\ UNCHANGED <<store, logs>>
  <2>1. UNCHANGED <<store, disk, ghosts>> BY <1>3, <1>6 DEF disk, ghosts
  <2>2. call' \in Calls /\ call'.ret = "torn_remove_rot" BY <1>2, <1>6 DEF Calls, Rets
  <2>3. used' \in Bounds BY <1>2, <1>6 DEF Bounds, Fault
  <2>4. Place(pc', call'.ret, store, dir) /\ pc' \in Steps \ {"halted"}
    BY <1>4, <1>6, <2>2 DEF Place, Snapping, Steps
  <2> QED BY <1>1, <1>2, <1>3, <2>1, <2>2, <2>3, <2>4, MovesOn
<1>7. CASE /\ store.torn /\ store.fd # 0 /\ logs' = [logs EXCEPT ![store.fd].damage = IF @ = "tail" THEN CutOff ELSE @]
           /\ store' = [store EXCEPT !.torn = FALSE] /\ pc' = "rot_fold" /\ UNCHANGED <<call, used>>
  <2> DEFINE w == dir.wal
  <2>1. store.fd = w /\ w # 0 BY <1>2, <1>7 DEF Holds
  <2>2. w \in 1..Len(logs) /\ w \in 0..Len(logs) /\ logs \in Seq(Logs) BY <1>2, <2>1 DEF DiskType
  <2>3. logs[w] \in Logs /\ LogOf(logs, w) = logs[w] /\ RecsOf(logs, w) = logs[w].recs BY <2>2, LogFields
  <2> DEFINE end == IF logs[w].damage = "tail" THEN CutOff ELSE logs[w].damage
  <2> DEFINE log == [logs[w] EXCEPT !.damage = end]
  <2>4. logs' = WithLog(logs, w, log) BY <1>7, <2>1 DEF WithLog
  <2>end. end \in CleanEnds
    <3>1. CutsLast => Powerless BY <1>2, <1>7 DEF Holds
    <3>2. CutOff \in {"no", "cut"} /\ (Powerless => CutOff = "no") BY DEF CutOff, Powerless
    <3>3. CutOff \in CleanEnds BY <3>1, <3>2, EndsAre
    <3>4. logs[w].damage \in LiveEnds BY <1>2, <2>3 DEF Story
    <3> QED BY <3>3, <3>4, EndsAre
  <2>type. end \in {"no", "tail", "cut", "middle"} BY <2>end, EndsAre
  <2> HIDE DEF end
  <2>5. log \in Logs /\ log.recs = logs[w].recs /\ log.synced = logs[w].synced /\ log.damage = end
    BY <2>3, <2>type DEF Logs
  <2> HIDE DEF log, w
  <2>6. /\ OnlyLog(logs, logs', w) /\ Len(logs') = Len(logs) /\ LogOf(logs', w) = log /\ RecsOf(logs', w) = log.recs
    BY ONLY <2>2, <2>4, <2>5, OneLog
  <2>7. /\ RecsOf(logs', w) = RecsOf(logs, w) /\ LogOf(logs', w).damage \in CleanEnds /\ LogOf(logs', w).damage \in LiveEnds
        /\ LogOf(logs', w).synced = LogOf(logs, w).synced
    BY <2>3, <2>5, <2>6, <2>end, EndsAre
  <2>8. /\ DiskType(logs', maybe, dir) /\ Stories(history, logs', maybe, dir)
        /\ Top(logs', dir) = Top(logs, dir) /\ Kept(logs', dir) = Kept(logs, dir)
    <3>1. (w # 0 => w = dir.wal) /\ (w = 0 => LogOf(logs', w) = LogOf(logs, w)) BY <2>1 DEF w
    <3> QED BY ONLY <1>2, <2>2, <2>6, <2>7, <3>1, RelogKeeps
  <2>9. Powerless \/ Safe(durable, logs', maybe)
    BY ONLY <1>2, <2>2, <2>6, <2>7, SyncKeeps
  <2>10. Disk(history', logs', maybe', dir', written', durable') BY <1>2, <1>3, <2>8, <2>9 DEF Disk
  <2>11. /\ store' \in Stores(Len(logs)) /\ store'.wal = store.wal /\ store'.mem = store.mem /\ store'.seq = store.seq
         /\ store'.fd = store.fd /\ store'.torn = FALSE /\ store'.pending = store.pending
    BY <1>2, <1>7 DEF Stores
  <2>12. Holds(store', history', logs', dir', written', durable')
    BY <1>2, <1>3, <2>7, <2>8, <2>11 DEF Holds, w
  <2>13. Covered(store', logs', dir') BY <1>2, <1>3, <2>7, <2>11 DEF Covered, Synced, w
  <2>14. pc' \in Steps \ {"halted"} /\ Place(pc', call'.ret, store', dir')
    BY <1>4, <1>7, <2>11 DEF Place, Snapping, Steps
  <2>15. Types' BY <1>2, <1>3, <1>7, <2>6, <2>11, <2>14 DEF Types
  <2> QED BY ONLY <2>10, <2>12, <2>13, <2>14, <2>15 DEF IInv
<1>8. \/ ~store.torn /\ pc' = "rot_fold" /\ UNCHANGED <<call, store, logs, used>>
      \/ /\ store.torn /\ ((store.fd = 0 /\ UNCHANGED used) \/ (store.fd # 0 /\ Fault("cut")))
         /\ pc' = "snap_barrier" /\ call' = [call EXCEPT !.ret = "torn_remove_rot"]
         /\ UNCHANGED <<store, logs>>
      \/ /\ store.torn /\ store.fd # 0 /\ logs' = [logs EXCEPT ![store.fd].damage = IF @ = "tail" THEN CutOff ELSE @]
         /\ store' = [store EXCEPT !.torn = FALSE] /\ pc' = "rot_fold" /\ UNCHANGED <<call, used>>
  BY Zenon DEF RotCut
<1> QED BY ONLY <1>5, <1>6, <1>7, <1>8, Zenon

\* The log is rolled aside: it is synced, and nothing is aside yet.
LEMMA RotRenameKeeps ==
  ASSUME IInv, RotRename
  PROVE  IInv'
<1>1. pc = "rot_rename" /\ Up /\ pc # "boot_marker" BY DEF RotRename, Up
<1>2. /\ call \in Calls /\ store \in Stores(Len(logs)) /\ nextOp \in Nat /\ used \in Bounds
      /\ written \in SUBSET Nat /\ durable \in SUBSET Nat
      /\ DiskType(logs, maybe, dir) /\ history \in SUBSET Record /\ Stories(history, logs, maybe, dir)
      /\ written \subseteq Kept(logs, dir) /\ (Powerless \/ Safe(durable, logs, maybe))
      /\ Disk(history, logs, maybe, dir, written, durable)
      /\ Holds(store, history, logs, dir, written, durable) /\ Covered(store, logs, dir)
      /\ Place(pc, call.ret, store, dir)
      /\ dir \in maybe /\ dir \in Directories /\ Story(history, logs, dir)
  BY <1>1, UpHolds
<1>3. UNCHANGED <<logs, written, durable, history, nextOp>> /\ call' = [call EXCEPT !.job = "rotate"]
  BY DEF RotRename, ghosts
<1>4. store.wal /\ ~store.pending /\ ~store.torn /\ dir.rot = 0 BY <1>1, <1>2 DEF Place
<1>5. call' \in Calls BY <1>2, <1>3 DEF Calls
<1>6. dir.wal \in 0..Len(logs) /\ 0 \in 0..Len(logs) BY <1>2 DEF DiskType
<1>7. ASSUME NEW fd \in {0, dir.wal}, store' = [store EXCEPT !.fd = fd]
      PROVE  /\ store' \in Stores(Len(logs)) /\ store'.wal = store.wal /\ store'.mem = store.mem /\ store'.seq = store.seq
             /\ store'.fd = fd /\ store'.torn = store.torn /\ store'.pending = store.pending
  <2>1. fd \in 0..Len(logs) BY <1>6
  <2> QED BY ONLY <1>2, <1>7, <2>1 DEF Stores
<1>8. CASE /\ dir.wal # 0 /\ Fault("rename") /\ pc' = AfterCall /\ UNCHANGED <<dir, maybe>>
           /\ \E fd \in {dir.wal} \cup (IF "open" \in Faults THEN {0} ELSE {}) : store' = [store EXCEPT !.fd = fd]
  <2>1. PICK fd \in {0, dir.wal} : store' = [store EXCEPT !.fd = fd] BY <1>8
  <2>2. /\ store' \in Stores(Len(logs)) /\ store'.wal = store.wal /\ store'.mem = store.mem /\ store'.seq = store.seq
        /\ store'.fd \in {0, dir.wal} /\ store'.torn = store.torn /\ store'.pending = store.pending
    BY <1>7, <2>1
  <2>3. Disk(history', logs', maybe', dir', written', durable') BY <1>2, <1>3, <1>8
  <2>4. Holds(store', history', logs', dir', written', durable')
    BY <1>2, <1>3, <1>4, <1>8, <2>2 DEF Holds
  <2>5. Covered(store', logs', dir') BY <1>2, <1>3, <1>8, <2>2 DEF Covered
  <2>6. pc' \in Steps \ {"halted"} /\ Place(pc', call'.ret, store', dir') BY <1>8, AfterCallPlace
  <2>7. used' \in Bounds BY <1>2, <1>8 DEF Bounds, Fault
  <2>8. Types' BY <1>2, <1>3, <1>5, <2>2, <2>6, <2>7 DEF Types
  <2> QED BY ONLY <2>3, <2>4, <2>5, <2>6, <2>8 DEF IInv
<1>9. CASE /\ SetDir(IF dir.wal = 0 THEN dir ELSE [dir EXCEPT !.rot = dir.wal, !.wal = 0])
           /\ store' = [store EXCEPT !.fd = 0] /\ pc' = "open_wal" /\ UNCHANGED used
  <2> DEFINE d2 == RolledAside(dir)
  <2>1. SetDir(d2)
    <3>1. CASE dir.wal # 0 BY <1>9, <3>1 DEF RolledAside
    <3>2. CASE dir.wal = 0
      <4>1. dir = d2 BY ONLY <1>2, <1>4, <3>2 DEF Directories, RolledAside
      <4> QED BY <1>9, <3>2, <4>1
    <3> QED BY <3>1, <3>2
  <2>2. LogOf(logs, dir.wal).damage \in CleanEnds BY <1>2, <1>4 DEF Holds
  <2>3. /\ d2 \in Directories /\ d2.wal = 0 /\ d2.rot = dir.wal /\ d2.snap = dir.snap
        /\ Story(history, logs, d2) /\ Top(logs, d2) = Top(logs, dir)
        /\ Kept(logs, d2) = Kept(logs, dir)
        /\ Synced(logs, dir.wal) => Held(logs, d2) = Held(logs, dir)
    <3>1. history \in SUBSET Record /\ DiskType(logs, maybe, dir) /\ Stories(history, logs, maybe, dir) BY <1>2
    <3>2. dir.rot = 0 BY <1>4
    <3>3. d2 = RolledAside(dir) OBVIOUS
    <3> HIDE DEF d2
    <3> QED BY ONLY <2>2, <3>1, <3>2, <3>3, Rolled
  <2> HIDE DEF d2
  <2>4. Powerless \/ (Synced(logs, d2.rot) /\ durable \subseteq Held(logs, d2))
    BY <1>2, <1>4, <2>3 DEF Covered, Safe
  <2>5. written' \subseteq Kept(logs, d2) BY <1>2, <1>3, <2>3
  <2>6. Disk(history', logs', maybe', dir', written', durable')
    BY <1>1, <1>3, <2>1, <2>3, <2>4, <2>5, DirMoves
  <2>7. dir' = d2 BY <2>1, SetDirDoes
  <2>8. /\ store' \in Stores(Len(logs)) /\ store'.wal = store.wal /\ store'.mem = store.mem /\ store'.seq = store.seq
        /\ store'.fd = 0 /\ store'.torn = store.torn /\ store'.pending = store.pending
    BY <1>7, <1>9
  <2>9. Holds(store', history', logs', dir', written', durable')
    BY <1>2, <1>3, <1>4, <2>3, <2>7, <2>8, NoLog DEF Holds
  <2>10. Covered(store', logs', dir') BY <1>3, <2>3, <2>7, NoLog DEF Covered
  <2>11. pc' \in Steps \ {"halted"} /\ Place(pc', call'.ret, store', dir')
    BY <1>4, <1>9, <2>3, <2>7, <2>8 DEF Place, Snapping, Steps
  <2>12. Types' BY <1>2, <1>3, <1>5, <1>9, <2>8, <2>11 DEF Types
  <2> QED BY ONLY <2>6, <2>9, <2>10, <2>11, <2>12 DEF IInv
<1> QED BY <1>8, <1>9 DEF RotRename

\* The directory sync behind the names, and behind the removals.
LEMMA SyncNamesKeeps ==
  ASSUME IInv, SyncNames \/ TornSync
  PROVE  IInv'
<1>1. pc \in {"sync_names", "torn_sync"} /\ Up /\ pc # "boot_marker" BY DEF SyncNames, TornSync, Up
<1>2. /\ call \in Calls /\ store \in Stores(Len(logs)) /\ nextOp \in Nat /\ used \in Bounds
      /\ written \in SUBSET Nat /\ durable \in SUBSET Nat
      /\ Holds(store, history, logs, dir, written, durable) /\ Covered(store, logs, dir)
      /\ Place(pc, call.ret, store, dir)
  BY <1>1, UpHolds
<1>3. UNCHANGED <<dir, logs, written, durable, history, nextOp>> BY DEF SyncNames, TornSync, ghosts
<1>4. store.wal BY <1>1, <1>2 DEF Place
<1>5. CASE Fault("dirsync") /\ pc' = AfterCall /\ UNCHANGED <<call, store, maybe>>
  <2>1. UNCHANGED <<store, disk, ghosts, nextOp>> BY <1>3, <1>5 DEF disk, ghosts
  <2> QED BY <1>1, <1>2, <1>5, <2>1, FaultKeeps
<1>6. CASE /\ pc = "sync_names" /\ SyncDir /\ UNCHANGED <<used, store>>
           /\ IF call.job = "rotate"
                THEN pc' = "snap_barrier" /\ call' = [call EXCEPT !.ret = "retire"]
                ELSE pc' = AfterCall /\ UNCHANGED call
  <2>1. Disk(history', logs', maybe', dir', written', durable') BY <1>1, <1>3, <1>6, DirSynced
  <2>2. Holds(store', history', logs', dir', written', durable') BY <1>2, <1>3, <1>6
  <2>3. Covered(store', logs', dir') BY <1>2, <1>3, <1>6
  <2>4. call' \in Calls /\ pc' \in Steps \ {"halted"} /\ Place(pc', call'.ret, store', dir')
    <3>1. CASE call.job = "rotate"
      <4>1. pc' = "snap_barrier" /\ call' \in Calls /\ call'.ret = "retire" BY <1>2, <1>6, <3>1 DEF Calls, Rets
      <4> QED BY <1>4, <1>6, <4>1 DEF Place, Snapping, Steps
    <3>2. CASE call.job # "rotate" BY <1>2, <1>6, <3>2, AfterCallPlace
    <3> QED BY <3>1, <3>2
  <2>5. Types' BY <1>2, <1>3, <1>6, <2>4 DEF Types
  <2> QED BY ONLY <2>1, <2>2, <2>3, <2>4, <2>5 DEF IInv
<1>7. CASE /\ pc = "torn_sync" /\ SyncDir /\ store' = [store EXCEPT !.torn = FALSE]
           /\ call' = [call EXCEPT !.job = "replace"] /\ pc' = "open_wal" /\ UNCHANGED used
  <2>1. Disk(history', logs', maybe', dir', written', durable') BY <1>1, <1>3, <1>7, DirSynced
  <2>2. store.fd = 0 /\ dir.wal = 0 BY <1>2, <1>7 DEF Place
  <2>3. /\ store' \in Stores(Len(logs)) /\ store'.wal = store.wal /\ store'.mem = store.mem /\ store'.seq = store.seq
        /\ store'.fd = store.fd /\ store'.torn = FALSE /\ store'.pending = store.pending
    BY <1>2, <1>7 DEF Stores
  <2>4. Holds(store', history', logs', dir', written', durable') BY <1>2, <1>3, <2>2, <2>3, NoLog DEF Holds
  <2>5. Covered(store', logs', dir') BY <1>3, <2>2, NoLog DEF Covered
  <2>6. pc' \in Steps \ {"halted"} /\ Place(pc', call'.ret, store', dir')
    BY <1>3, <1>4, <1>7, <2>2, <2>3 DEF Place, Snapping, Steps
  <2>7. Types' BY <1>2, <1>3, <1>7, <2>3, <2>6 DEF Types, Calls
  <2> QED BY ONLY <2>1, <2>4, <2>5, <2>6, <2>7 DEF IInv
<1> QED BY <1>5, <1>6, <1>7 DEF SyncNames, TornSync

\* A new log is a file that no directory names, and it is empty.
LEMMA NewLogIs ==
  ASSUME DiskType(logs, maybe, dir), NEW ls \in Seq(Logs), Len(ls) = Len(logs)
  PROVE  /\ WithNewLog(ls) \in Seq(Logs) /\ NewLog \in 1..Len(WithNewLog(ls))
         /\ \A x \in maybe : NewLog \notin {x.wal, x.rot}
         /\ OnlyLog(ls, WithNewLog(ls), NewLog) /\ LogOf(WithNewLog(ls), NewLog) = EmptyLog
<1> DEFINE named == UNION {{d.wal, d.rot} : d \in maybe}
<1> DEFINE n == Len(logs)
<1> DEFINE S == (1 .. n + 1) \ named
<1> DEFINE w == NewLog
<1>1. n \in Nat /\ Len(ls) = n BY DEF DiskType
<1>2. \A x \in maybe : x.wal \in 0..n /\ x.rot \in 0..n BY DEF DiskType
<1>3. named \subseteq 0..n BY <1>2
<1>4. w = Min(S) BY DEF NewLog
<1> HIDE DEF n, w
<1>5. n + 1 \in 1..(n + 1) /\ n + 1 \notin 0..n /\ n + 1 \in Nat BY <1>1
<1>6. S \in SUBSET (1..(n + 1)) /\ S # {} BY <1>3, <1>5
<1>7. w \in S
  <2> HIDE DEF S
  <2> QED BY <1>4, <1>5, <1>6, MinIsLeast
<1>8. w \in 1..(n + 1) /\ w # 0 BY <1>1, <1>7
<1>9. \A x \in maybe : w \notin {x.wal, x.rot} BY <1>7
<1> HIDE DEF S, named
<1> DEFINE m == IF w > n THEN w ELSE n
<1> DEFINE ls2 == [id \in 1..m |-> IF id = w THEN EmptyLog ELSE ls[id]]
<1>10. m \in Nat /\ n <= m /\ w \in 1..m BY <1>1, <1>8
<1>11. \A id \in 1..m : id # w => id \in 1..n BY <1>1, <1>8
<1>12. \A id \in 1..n : ls[id] \in Logs BY <1>1
<1>13. WithNewLog(ls) = ls2 BY <1>1 DEF WithNewLog, w
<1> HIDE DEF m
<1>14. \A id \in 1..m : (IF id = w THEN EmptyLog ELSE ls[id]) \in Logs BY <1>11, <1>12, EmptyLogType
<1>15. ls2 \in [1..m -> Logs] BY <1>14
<1>16. ls2 \in Seq(Logs) /\ Len(ls2) = m BY <1>10, <1>15
<1>17. ls2[w] = EmptyLog /\ \A id \in 1..n : id # w => ls2[id] = ls[id]
  <2>1. \A id \in 1..n : id \in 1..m BY <1>1, <1>10
  <2> QED BY <1>10, <2>1
<1> HIDE DEF ls2
<1>18. LogOf(ls2, w) = EmptyLog BY <1>8, <1>17 DEF LogOf
<1>19. \A i \in (0..n) \ {w} : LogOf(ls2, i) = LogOf(ls, i)
  <2> SUFFICES ASSUME NEW i \in 0..n, i # w PROVE LogOf(ls2, i) = LogOf(ls, i) OBVIOUS
  <2>1. CASE i = 0 BY <2>1 DEF LogOf
  <2>2. CASE i # 0
    <3>1. i \in 1..n BY <1>1, <2>2
    <3> QED BY <1>17, <2>2, <3>1 DEF LogOf
  <2> QED BY <2>1, <2>2
<1>20. OnlyLog(ls, ls2, w) BY <1>1, <1>10, <1>16, <1>19 DEF OnlyLog
<1> QED BY <1>9, <1>10, <1>13, <1>16, <1>18, <1>20 DEF w

\* #openWal() makes the log.
LEMMA OpenWalKeeps ==
  ASSUME IInv, OpenWal
  PROVE  IInv'
<1>1. pc = "open_wal" /\ Up /\ pc # "boot_marker" BY DEF OpenWal, Up
<1>2. /\ call \in Calls /\ store \in Stores(Len(logs)) /\ nextOp \in Nat /\ used \in Bounds
      /\ written \in SUBSET Nat /\ durable \in SUBSET Nat
      /\ DiskType(logs, maybe, dir) /\ history \in SUBSET Record /\ Stories(history, logs, maybe, dir)
      /\ written \subseteq Kept(logs, dir) /\ (Powerless \/ Safe(durable, logs, maybe))
      /\ Holds(store, history, logs, dir, written, durable)
      /\ Place(pc, call.ret, store, dir) /\ dir \in Directories
  BY <1>1, UpHolds
<1>3. UNCHANGED <<call, written, durable, history, nextOp>> BY DEF OpenWal, ghosts
<1>4. store.wal /\ store.fd = 0 /\ dir.wal = 0 BY <1>1, <1>2 DEF Place
<1>5. CASE Fault("open") /\ pc' = AfterCall /\ UNCHANGED <<store, disk>>
  <2>1. UNCHANGED <<store, disk, ghosts, nextOp>> BY <1>3, <1>5 DEF ghosts
  <2> QED BY <1>1, <1>2, <1>3, <1>5, <2>1, FaultKeeps
<1>6. CASE /\ logs' = WithNewLog(logs) /\ SetDir([dir EXCEPT !.wal = NewLog])
           /\ store' = [store EXCEPT !.fd = dir'.wal] /\ pc' = "marker" /\ UNCHANGED used
  <2> DEFINE w == NewLog
  <2> DEFINE d2 == NamedLog(dir, w)
  <2>1. SetDir(d2) BY <1>6 DEF NamedLog
  <2>2. dir' = d2 /\ d2 \in maybe' /\ maybe' \subseteq maybe \cup {d2} BY <2>1, SetDirDoes
  <2>3. d2.wal = w BY <1>2 DEF NamedLog, Directories
  <2>4. /\ logs' \in Seq(Logs) /\ w \in 1..Len(logs') /\ (\A x \in maybe : w \notin {x.wal, x.rot})
        /\ OnlyLog(logs, logs', w) /\ LogOf(logs', w) = EmptyLog
    <3>1. logs \in Seq(Logs) BY <1>2 DEF DiskType
    <3> QED BY <1>2, <1>6, <3>1, NewLogIs
  <2> HIDE DEF w
  <2>5. /\ DiskType(logs', maybe', d2) /\ Stories(history, logs', maybe', d2)
        /\ Top(logs', d2) = Top(logs, dir) /\ Kept(logs', d2) = Kept(logs, dir)
        /\ \A dur : Safe(dur, logs, maybe) => Safe(dur, logs', maybe')
    BY <1>2, <1>4, <2>2, <2>4, NewLogKeeps
  <2> HIDE DEF d2
  <2>6. Disk(history', logs', maybe', dir', written', durable') BY <1>2, <1>3, <2>2, <2>5 DEF Disk
  <2>7. w \in 0..Len(logs') /\ w # 0 BY <2>4
  <2>8. /\ store' \in Stores(Len(logs')) /\ store'.wal = store.wal /\ store'.mem = store.mem /\ store'.seq = store.seq
        /\ store'.fd = w /\ store'.torn = store.torn /\ store'.pending = store.pending
    <3>1. store' = [store EXCEPT !.fd = w] BY <1>6, <2>2, <2>3
    <3> DEFINE k == Len(logs')
    <3>2. w \in 0..k BY <2>7
    <3> HIDE DEF k
    <3>3. /\ store' \in Stores(k) /\ store'.wal = store.wal /\ store'.mem = store.mem /\ store'.seq = store.seq
          /\ store'.fd = w /\ store'.torn = store.torn /\ store'.pending = store.pending
      BY ONLY <1>2, <3>1, <3>2 DEF Stores
    <3> QED BY <3>3 DEF k
  <2>9. LogOf(logs', w).damage \in CleanEnds /\ Synced(logs', w) BY <2>4, EmptyLogType, EndsAre DEF Synced, RecsOf
  <2>10. Holds(store', history', logs', dir', written', durable')
    BY <1>2, <1>3, <1>4, <2>2, <2>3, <2>5, <2>7, <2>8, <2>9 DEF Holds
  <2>11. Covered(store', logs', dir') BY <2>2, <2>3, <2>9 DEF Covered
  <2>12. pc' \in Steps \ {"halted"} /\ Place(pc', call'.ret, store', dir')
    BY <1>4, <1>6, <2>8 DEF Place, Snapping, Steps
  <2>13. Types' BY <1>2, <1>3, <1>6, <2>8, <2>12 DEF Types
  <2> QED BY ONLY <2>6, <2>10, <2>11, <2>12, <2>13 DEF IInv
<1> QED BY <1>4, <1>5, <1>6 DEF OpenWal

-----------------------------------------------------------------------------
(* The store: deaths and open() *)

\* A kill leaves the disk as it is, or the live log with a torn tail.
LEMMA KillKeeps ==
  ASSUME IInv, Kill
  PROVE  IInv'
<1>1. Up /\ pc' = "down" /\ UNCHANGED <<call, store, dir, maybe, written, durable, history, nextOp>>
  BY DEF Kill, ghosts
<1>2. /\ call \in Calls /\ store \in Stores(Len(logs)) /\ nextOp \in Nat /\ used \in Bounds
      /\ written \in SUBSET Nat /\ durable \in SUBSET Nat
      /\ DiskType(logs, maybe, dir) /\ history \in SUBSET Record /\ Stories(history, logs, maybe, dir)
      /\ written \subseteq Kept(logs, dir) /\ (Powerless \/ Safe(durable, logs, maybe))
      /\ Disk(history, logs, maybe, dir, written, durable)
      /\ Holds(store, history, logs, dir, written, durable)
  BY <1>1 DEF IInv, Types, Disk
<1>3. used' \in Bounds BY <1>2 DEF Kill, Bounds
<1>4. ~Up' /\ pc' \in Steps \ {"halted"} BY <1>1 DEF Up, Steps
<1>5. Disk(history', logs', maybe', dir', written', durable') /\ Len(logs') = Len(logs)
  <2>1. CASE UNCHANGED logs BY <1>1, <1>2, <2>1
  <2>2. CASE store.fd # 0 /\ logs' = [logs EXCEPT ![store.fd].damage = "tail"]
    <3> DEFINE w == dir.wal
    <3>1. store.fd = w /\ w # 0 BY <1>2, <2>2 DEF Holds
    <3>2. w \in 1..Len(logs) /\ w \in 0..Len(logs) /\ logs \in Seq(Logs) BY <1>2, <3>1 DEF DiskType
    <3>3. logs[w] \in Logs /\ LogOf(logs, w) = logs[w] /\ RecsOf(logs, w) = logs[w].recs BY <3>2, LogFields
    <3> DEFINE log == [logs[w] EXCEPT !.damage = "tail"]
    <3>4. logs' = WithLog(logs, w, log) BY <2>2, <3>1 DEF WithLog
    <3>5. log \in Logs /\ log.recs = logs[w].recs /\ log.synced = logs[w].synced /\ log.damage = "tail"
      BY <3>3 DEF Logs
    <3> HIDE DEF log, w
    <3>6. /\ OnlyLog(logs, logs', w) /\ Len(logs') = Len(logs) /\ LogOf(logs', w) = log /\ RecsOf(logs', w) = log.recs
      BY ONLY <3>2, <3>4, <3>5, OneLog
    <3>7. /\ RecsOf(logs', w) = RecsOf(logs, w) /\ LogOf(logs', w).damage \in LiveEnds
          /\ LogOf(logs', w).synced = LogOf(logs, w).synced
      BY <3>3, <3>5, <3>6, EndsAre
    <3>8. /\ DiskType(logs', maybe, dir) /\ Stories(history, logs', maybe, dir)
          /\ Top(logs', dir) = Top(logs, dir) /\ Kept(logs', dir) = Kept(logs, dir)
      <4>1. (w # 0 => w = dir.wal) /\ (w = 0 => LogOf(logs', w) = LogOf(logs, w)) BY <3>1 DEF w
      <4> QED BY ONLY <1>2, <3>2, <3>6, <3>7, <4>1, RelogKeeps
    <3>9. Powerless \/ Safe(durable, logs', maybe) BY ONLY <1>2, <3>2, <3>6, <3>7, SyncKeeps
    <3> QED BY <1>1, <1>2, <3>6, <3>8, <3>9 DEF Disk
  <2> QED BY <2>1, <2>2 DEF Kill
<1>6. Types' BY <1>1, <1>2, <1>3, <1>4, <1>5 DEF Types
<1> QED BY ONLY <1>4, <1>5, <1>6 DEF IInv

\* What a power loss leaves of a log: its synced records, and perhaps more; all
\* records of one that is synced, and all of one that is whole besides.
LEMMA LeftIs ==
  ASSUME logs \in Seq(Logs), NEW id \in 0..Len(logs), NEW left \in LeftOf(id),
         LogOf(logs, id).synced \in 0..Len(RecsOf(logs, id))
  PROVE  /\ left \in Logs /\ left.damage \in {"no", "tail"}
         /\ left.synced \in LogOf(logs, id).synced .. Len(RecsOf(logs, id))
         /\ left.recs = SubSeq(RecsOf(logs, id), 1, left.synced)
         /\ Synced(logs, id) => left.recs = RecsOf(logs, id) /\ left.synced = Len(RecsOf(logs, id))
         /\ Synced(logs, id) /\ LogOf(logs, id).damage = "no" => left = LogOf(logs, id)
<1>1. CASE id = 0
  <2>1. left = EmptyLog BY <1>1 DEF LeftOf
  <2>2. LogOf(logs, id) = EmptyLog /\ RecsOf(logs, id) = <<>> BY <1>1, EmptyLogType DEF LogOf, RecsOf
  <2>3. SubSeq(<<>>, 1, 0) = <<>> OBVIOUS
  <2>4. 0 \in 0..0 /\ Len(<<>>) = 0 OBVIOUS
  <2> QED BY ONLY <2>1, <2>2, <2>3, <2>4, EmptyLogType
<1>2. CASE id # 0
  <2> DEFINE log == logs[id]
  <2> DEFINE recs == log.recs
  <2> DEFINE n == Len(recs)
  <2>1. id \in 1..Len(logs) BY <1>2
  <2>2. /\ log \in Logs /\ recs \in Seq(Record) /\ log.synced \in Nat /\ LogOf(logs, id) = log /\ RecsOf(logs, id) = recs
    BY <2>1, LogFields
  <2>3. PICK kept \in log.synced .. n, damage \in {"no", "tail"} :
          left = [recs |-> SubSeq(recs, 1, kept), synced |-> kept, damage |-> damage]
    BY <1>2 DEF LeftOf
  <2>4. log.damage = "no" => left # [log EXCEPT !.synced = n, !.damage = "tail"] BY <1>2 DEF LeftOf
  <2>5. n \in Nat /\ log.synced \in 0..n /\ \A i \in 1..n : recs[i] \in Record BY <2>2
  <2>6. kept \in Nat /\ kept <= n BY <2>5
  <2> DEFINE new == SubSeq(recs, 1, kept)
  <2>7. new \in Seq(Record)
    <3>1. \A i \in 1..kept : recs[i] \in Record BY <2>5, <2>6
    <3> HIDE DEF recs, n
    <3> QED BY <2>2, <2>6, <3>1, SubSeqProperties
  <2>8. kept = n => new = recs
    <3> HIDE DEF log
    <3> QED BY <2>2
  <2> HIDE DEF new, n
  <2>9. left \in Logs /\ left.recs = new /\ left.synced = kept /\ left.damage = damage
    <3>1. left = [recs |-> new, synced |-> kept, damage |-> damage] BY <2>3 DEF new
    <3> QED BY ONLY <2>6, <2>7, <3>1 DEF Logs, Record
  <2>10. ASSUME log.synced = n, log.damage = "no" PROVE left = log
    <3>1. kept = n BY <2>3, <2>5, <2>10
    <3>2. left = [recs |-> recs, synced |-> n, damage |-> damage] BY <2>3, <2>8, <3>1 DEF new
    <3> DEFINE cut == [log EXCEPT !.synced = n, !.damage = "tail"]
    <3>4. cut \in Logs /\ cut.recs = recs /\ cut.synced = n /\ cut.damage = "tail"
      <4>1. n \in Nat BY <2>5
      <4> QED BY <2>2, <4>1 DEF Logs
    <3>5. left # cut BY <2>4, <2>10
    <3> HIDE DEF recs, log, cut
    <3>6. cut = [recs |-> recs, synced |-> n, damage |-> "tail"] BY ONLY <3>4 DEF Logs
    <3>3. log = [recs |-> recs, synced |-> n, damage |-> "no"] BY ONLY <2>2, <2>10 DEF Logs, recs
    <3> QED BY <3>2, <3>3, <3>5, <3>6
  <2>11. ASSUME log.synced = n PROVE left.recs = recs /\ left.synced = n
    <3>1. kept = n BY <2>3, <2>5, <2>11
    <3> QED BY <2>8, <2>9, <3>1
  <2> QED BY <2>2, <2>3, <2>9, <2>10, <2>11 DEF Synced, n, new
<1> QED BY <1>1, <1>2

LEMMA PowerLossKeeps ==
  ASSUME IInv, PowerLoss
  PROVE  IInv'
<1>1. /\ ~Powerless /\ pc' = "down" /\ UNCHANGED <<call, store, durable, history, nextOp>> /\ written' = durable
  BY DEF PowerLoss, Powerless
<1>2. /\ call \in Calls /\ store \in Stores(Len(logs)) /\ nextOp \in Nat /\ used \in Bounds /\ durable \in SUBSET Nat
      /\ DiskType(logs, maybe, dir) /\ history \in SUBSET Record /\ Stories(history, logs, maybe, dir)
      /\ Safe(durable, logs, maybe)
  BY <1>1 DEF IInv, Types, Disk
<1>3. used' \in Bounds BY <1>2 DEF PowerLoss, Bounds
<1>4. ~Up' /\ pc' \in Steps \ {"halted"} BY <1>1 DEF Up, Steps
<1>5. PICK left \in maybe : \E live \in LeftOf(left.wal), rolled \in LeftOf(left.rot) :
         /\ dir' = left /\ maybe' = {left}
         /\ logs' = [id \in DOMAIN logs |-> CASE id = left.wal -> live
                                              [] id = left.rot -> rolled
                                              [] OTHER -> EmptyLog]
  BY DEF PowerLoss
<1>6. PICK live \in LeftOf(left.wal), rolled \in LeftOf(left.rot) :
         logs' = [id \in DOMAIN logs |-> CASE id = left.wal -> live
                                           [] id = left.rot -> rolled
                                           [] OTHER -> EmptyLog]
  BY <1>5
<1>7. dir' = left /\ maybe' = {left} BY <1>5
<1>8. /\ logs \in Seq(Logs) /\ left.wal \in 0..Len(logs) /\ left.rot \in 0..Len(logs) /\ Len(logs) \in Nat
      /\ Story(history, logs, left)
  BY <1>2 DEF DiskType, Stories
<1>9. /\ LogOf(logs, left.wal).synced \in 0..Len(RecsOf(logs, left.wal)) /\ Synced(logs, left.rot)
      /\ LogOf(logs, left.rot).damage \in AsideEnds /\ (left.wal # 0 => left.rot # left.wal)
  BY <1>2, <1>8 DEF Safe, Story
<1>10. LogOf(logs, left.rot).synced \in 0..Len(RecsOf(logs, left.rot))
  <2>1. Len(RecsOf(logs, left.rot)) \in Nat BY <1>8, LogOfType
  <2> QED BY <1>9, <2>1 DEF Synced
<1>11. /\ live \in Logs /\ live.damage \in LiveEnds
       /\ live.synced \in LogOf(logs, left.wal).synced .. Len(RecsOf(logs, left.wal))
       /\ live.recs = SubSeq(RecsOf(logs, left.wal), 1, live.synced)
  BY <1>8, <1>9, LeftIs, EndsAre
<1>12. /\ rolled \in Logs /\ rolled.recs = RecsOf(logs, left.rot) /\ rolled.synced = Len(rolled.recs)
       /\ rolled.damage \in AsideEnds
  <2>1. /\ rolled \in Logs /\ rolled.recs = RecsOf(logs, left.rot) /\ rolled.synced = Len(rolled.recs)
        /\ rolled.damage \in {"no", "tail"}
        /\ LogOf(logs, left.rot).damage = "no" => rolled = LogOf(logs, left.rot)
    BY <1>8, <1>9, <1>10, LeftIs
  <2>2. CASE CutsLast
    <3>1. LogOf(logs, left.rot).damage = "no" BY <1>9, <2>2, EndsAre
    <3> QED BY <1>9, <2>1, <3>1
  <2>3. CASE ~CutsLast BY <2>1, <2>3, EndsAre
  <2> QED BY <2>1, <2>2, <2>3
<1> DEFINE n == Len(logs)
<1>13. DOMAIN logs = 1..n /\ n \in Nat BY <1>8
<1> HIDE DEF n
<1>14. /\ logs' = [id \in 1..n |-> CASE id = left.wal -> live
                                     [] id = left.rot -> rolled
                                     [] OTHER -> EmptyLog]
  BY <1>6, <1>13
<1>15. \A id \in 1..n : /\ id = left.wal => logs'[id] = live
                        /\ id # left.wal /\ id = left.rot => logs'[id] = rolled
                        /\ id # left.wal /\ id # left.rot => logs'[id] = EmptyLog
  <2> SUFFICES ASSUME NEW id \in 1..n
               PROVE  /\ id = left.wal => logs'[id] = live
                      /\ id # left.wal /\ id = left.rot => logs'[id] = rolled
                      /\ id # left.wal /\ id # left.rot => logs'[id] = EmptyLog
    OBVIOUS
  <2>1. logs'[id] = CASE id = left.wal -> live [] id = left.rot -> rolled [] OTHER -> EmptyLog BY <1>14
  <2>2. id # left.wal /\ id = left.rot => logs'[id] = rolled
    <3> HAVE id # left.wal /\ id = left.rot
    <3> QED BY ONLY <2>1, id # left.wal /\ id = left.rot
  <2>3. id = left.wal => logs'[id] = live
    <3> HAVE id = left.wal
    <3>1. id = left.rot => rolled = live BY <1>9, <1>8
    <3> QED BY <2>1, <3>1
  <2>4. id # left.wal /\ id # left.rot => logs'[id] = EmptyLog BY <2>1
  <2> QED BY <2>2, <2>3, <2>4
<1>16. logs' \in Seq(Logs) /\ Len(logs') = n
  <2> DEFINE e(id) == CASE id = left.wal -> live [] id = left.rot -> rolled [] OTHER -> EmptyLog
  <2>1. \A id \in 1..n : e(id) \in Logs BY <1>11, <1>12, EmptyLogType
  <2>2. logs' = [id \in 1..n |-> e(id)] BY <1>14
  <2> HIDE DEF e
  <2>3. logs' \in [1..n -> Logs] BY <2>1, <2>2
  <2> QED BY <1>13, <2>3
<1>17. LogOf(logs', left.wal) = live /\ RecsOf(logs', left.wal) = live.recs
  <2>1. CASE left.wal = 0
    <3>1. live = EmptyLog BY <2>1 DEF LeftOf
    <3> QED BY <2>1, <3>1 DEF LogOf, RecsOf
  <2>2. CASE left.wal # 0
    <3>1. left.wal \in 1..n BY <1>8, <2>2 DEF n
    <3> QED BY <1>15, <2>2, <3>1 DEF LogOf, RecsOf
  <2> QED BY <2>1, <2>2
<1>18. /\ LogOf(logs', left.rot) = rolled /\ RecsOf(logs', left.rot) = rolled.recs
       /\ Synced(logs', left.rot)
  <2>1. CASE left.rot = 0
    <3>1. rolled = EmptyLog BY <2>1 DEF LeftOf
    <3> QED BY <1>12, <2>1, <3>1 DEF LogOf, RecsOf, Synced
  <2>2. CASE left.rot # 0
    <3>1. left.rot \in 1..n /\ left.rot # left.wal BY <1>8, <1>9, <2>2 DEF n
    <3>2. logs'[left.rot] = rolled BY <1>15, <3>1
    <3> QED BY <1>12, <2>2, <3>2 DEF LogOf, RecsOf, Synced
  <2> QED BY <2>1, <2>2
<1> DEFINE kept == live.synced
<1>19. /\ kept \in LogOf(logs, left.wal).synced .. Len(RecsOf(logs, left.wal))
       /\ RecsOf(logs', left.wal) = SubSeq(RecsOf(logs, left.wal), 1, kept)
       /\ LogOf(logs', left.wal).synced = kept /\ LogOf(logs', left.wal).damage \in LiveEnds
  BY <1>11, <1>17
<1>20. logs' \in Seq(Logs) /\ Len(logs') = Len(logs) BY <1>16 DEF n
<1> HIDE DEF kept
<1>21. /\ DiskType(logs', {left}, left) /\ Stories(history, logs', {left}, left)
       /\ Safe(durable, logs', {left}) /\ durable \subseteq Kept(logs', left)
  <2>1. left \in maybe BY <1>5
  <2>2. CutShort(logs, logs', left) BY <1>12, <1>18, <1>19, <1>20 DEF CutShort
  <2> QED BY ONLY <1>2, <2>1, <2>2, PowerLeaves
<1>22. Disk(history', logs', maybe', dir', written', durable') BY <1>1, <1>2, <1>7, <1>21 DEF Disk
<1>23. Types' BY <1>1, <1>2, <1>3, <1>4, <1>20 DEF Types
<1> QED BY ONLY <1>4, <1>22, <1>23 DEF IInv

\* The next start reads the story to its end, cuts a torn tail off and goes on from there.
LEMMA OpenReads ==
  ASSUME IInv, NEW truncate \in BOOLEAN, OpenWith(truncate), LogOf(logs, dir.rot).damage = "tail" => truncate
  PROVE  IInv'
<1>1. UNCHANGED <<written, durable, nextOp, used>> /\ call' = [call EXCEPT !.closing = FALSE]
  BY DEF OpenWith
<1>2. /\ call \in Calls /\ store \in Stores(Len(logs)) /\ nextOp \in Nat /\ used \in Bounds
      /\ written \in SUBSET Nat /\ durable \in SUBSET Nat
      /\ DiskType(logs, maybe, dir) /\ history \in SUBSET Record /\ Stories(history, logs, maybe, dir)
      /\ written \subseteq Kept(logs, dir) /\ (Powerless \/ Safe(durable, logs, maybe))
  BY DEF IInv, Types, Disk
<1>3. call' \in Calls BY <1>1, <1>2 DEF Calls
<1>4. dir \in Directories /\ dir \in maybe /\ logs \in Seq(Logs) /\ dir.wal \in 0..Len(logs) /\ Story(history, logs, dir)
  BY <1>2 DEF DiskType, Stories
<1> DEFINE got == Recovered(truncate)
<1>5. got \in Accs /\ got.halt = "no" /\ got.seq = Top(logs, dir) /\ Tells(history, got) /\ Kept(logs, dir) \subseteq got.mem
  BY <1>2, RecoveredDoes
<1> DEFINE repaired == IF dir.wal # 0 /\ logs[dir.wal].damage = "tail"
                         THEN [logs EXCEPT ![dir.wal].damage = "no",
                                           ![dir.wal].synced = Len(logs[dir.wal].recs)]
                         ELSE logs
<1>6. PICK wal \in BOOLEAN :
         /\ IF wal /\ dir.wal = 0
              THEN logs' = WithNewLog(repaired) /\ SetDir([dir EXCEPT !.wal = NewLog])
              ELSE logs' = repaired /\ UNCHANGED <<dir, maybe>>
         /\ store' = [wal |-> wal, mem |-> got.mem, seq |-> got.seq,
                      fd |-> IF wal THEN dir'.wal ELSE 0,
                      torn |-> FALSE, pending |-> FALSE, dirty |-> FALSE]
         /\ history' = {record \in history : record.seq <= got.seq}
         /\ pc' = "boot_marker"
  <2>1. PICK wal \in WalModes :
         /\ IF wal /\ dir.wal = 0
              THEN logs' = WithNewLog(repaired) /\ SetDir([dir EXCEPT !.wal = NewLog])
              ELSE logs' = repaired /\ UNCHANGED <<dir, maybe>>
         /\ store' = [wal |-> wal, mem |-> got.mem, seq |-> got.seq,
                      fd |-> IF wal THEN dir'.wal ELSE 0,
                      torn |-> FALSE, pending |-> FALSE, dirty |-> FALSE]
         /\ history' = {record \in history : record.seq <= got.seq}
         /\ pc' = "boot_marker"
    <3> HIDE DEF repaired
    <3> QED BY <1>5 DEF OpenWith, repaired
  <2>2. wal \in BOOLEAN BY StateStoreAssumption
  <2> QED BY <2>1, <2>2
<1> HIDE DEF got
<1>7. /\ DiskType(repaired, maybe, dir) /\ Stories(history, repaired, maybe, dir)
      /\ Top(repaired, dir) = Top(logs, dir) /\ Kept(repaired, dir) = Kept(logs, dir)
      /\ (Powerless \/ Safe(durable, repaired, maybe)) /\ Len(repaired) = Len(logs)
      /\ LogOf(repaired, dir.wal).damage \in CleanEnds
  <2> DEFINE w == dir.wal
  <2>1. CASE dir.wal # 0 /\ logs[dir.wal].damage = "tail"
    <3>1. w \in 1..Len(logs) /\ w \in 0..Len(logs) /\ w # 0 BY <1>4, <2>1
    <3>2. /\ logs[w] \in Logs /\ logs[w].recs \in Seq(Record) /\ LogOf(logs, w) = logs[w] /\ RecsOf(logs, w) = logs[w].recs
      BY <1>4, <3>1, LogFields
    <3> DEFINE n == Len(logs[w].recs)
    <3> DEFINE log == [logs[w] EXCEPT !.damage = "no", !.synced = n]
    <3>3. repaired = WithLog(logs, w, log) BY <2>1, <3>1 DEF WithLog
    <3>4. n \in Nat BY <3>2
    <3> HIDE DEF n
    <3>5. log \in Logs /\ log.recs = logs[w].recs /\ log.synced = n /\ log.damage = "no"
      BY <3>2, <3>4 DEF Logs
    <3> HIDE DEF log, w, repaired
    <3>6. /\ OnlyLog(logs, repaired, w) /\ Len(repaired) = Len(logs) /\ LogOf(repaired, w) = log
          /\ RecsOf(repaired, w) = log.recs
      BY ONLY <1>4, <3>1, <3>3, <3>5, OneLog
    <3>7. /\ RecsOf(repaired, w) = RecsOf(logs, w) /\ LogOf(repaired, w).damage \in CleanEnds
          /\ LogOf(repaired, w).damage \in LiveEnds /\ Synced(repaired, w)
      BY <3>2, <3>5, <3>6, EndsAre DEF Synced, n
    <3>8. /\ DiskType(repaired, maybe, dir) /\ Stories(history, repaired, maybe, dir)
          /\ Top(repaired, dir) = Top(logs, dir) /\ Kept(repaired, dir) = Kept(logs, dir)
      <4>1. (w # 0 => w = dir.wal) /\ (w = 0 => LogOf(repaired, w) = LogOf(logs, w)) BY <3>1 DEF w
      <4> QED BY ONLY <1>2, <3>1, <3>6, <3>7, <4>1, RelogKeeps
    <3>9. Powerless \/ Safe(durable, repaired, maybe) BY ONLY <1>2, <3>1, <3>6, <3>7, SyncKeeps
    <3> QED BY <3>6, <3>7, <3>8, <3>9 DEF w
  <2>2. CASE ~(dir.wal # 0 /\ logs[dir.wal].damage = "tail")
    <3>1. repaired = logs BY <2>2
    <3>2. LogOf(logs, dir.wal).damage \in CleanEnds
      <4>1. CASE dir.wal = 0 BY <4>1, NoLog
      <4>2. CASE dir.wal # 0
        <5>1. dir.wal \in 1..Len(logs) BY <1>4, <4>2
        <5>2. LogOf(logs, dir.wal) = logs[dir.wal] BY <1>4, <5>1, LogFields
        <5>3. LogOf(logs, dir.wal).damage \in LiveEnds BY <1>4 DEF Story
        <5> QED BY <2>2, <4>2, <5>2, <5>3, EndsAre
      <4> QED BY <4>1, <4>2
    <3> QED BY <1>2, <3>1, <3>2
  <2> QED BY <2>1, <2>2
<1> HIDE DEF repaired
<1>8. /\ DiskType(logs', maybe', dir') /\ Stories(history, logs', maybe', dir')
      /\ Top(logs', dir') = Top(logs, dir) /\ Kept(logs', dir') = Kept(logs, dir)
      /\ (Powerless \/ Safe(durable, logs', maybe'))
      /\ LogOf(logs', dir'.wal).damage \in CleanEnds /\ (wal => dir'.wal # 0)
  <2>1. CASE wal /\ dir.wal = 0
    <3> DEFINE w == NewLog
    <3> DEFINE d2 == NamedLog(dir, w)
    <3>1. SetDir(d2) /\ logs' = WithNewLog(repaired) BY <1>6, <2>1 DEF NamedLog
    <3>2. dir' = d2 /\ d2 \in maybe' /\ maybe' \subseteq maybe \cup {d2} BY <3>1, SetDirDoes
    <3>3. d2.wal = w BY <1>4 DEF NamedLog, Directories
    <3>4. /\ logs' \in Seq(Logs) /\ w \in 1..Len(logs') /\ (\A x \in maybe : w \notin {x.wal, x.rot})
          /\ OnlyLog(repaired, logs', w) /\ LogOf(logs', w) = EmptyLog
      <4>1. repaired \in Seq(Logs) BY <1>7 DEF DiskType
      <4> QED BY <1>2, <1>7, <3>1, <4>1, NewLogIs
    <3> HIDE DEF w
    <3>5. /\ DiskType(logs', maybe', d2) /\ Stories(history, logs', maybe', d2)
          /\ Top(logs', d2) = Top(repaired, dir) /\ Kept(logs', d2) = Kept(repaired, dir)
          /\ \A dur : Safe(dur, repaired, maybe) => Safe(dur, logs', maybe')
      BY <1>7, <2>1, <3>2, <3>4, NewLogKeeps
    <3> HIDE DEF d2
    <3>6. LogOf(logs', w).damage \in CleanEnds /\ w # 0 BY <3>4, EmptyLogType, EndsAre
    <3> QED BY <1>7, <3>2, <3>3, <3>5, <3>6
  <2>2. CASE ~(wal /\ dir.wal = 0)
    <3>1. logs' = repaired /\ dir' = dir /\ maybe' = maybe BY <1>6, <2>2
    <3> QED BY <1>7, <2>2, <3>1
  <2> QED BY <2>1, <2>2
<1>9. history' = {h \in history : h.seq <= Top(logs', dir')} BY <1>5, <1>6, <1>8
<1>10. Stories(history', logs', maybe', dir') BY <1>2, <1>8, <1>9, TrimKeeps
<1>11. Disk(history', logs', maybe', dir', written', durable')
  <2>1. history' \in SUBSET Record BY <1>2, <1>9
  <2> QED BY <1>1, <1>2, <1>8, <1>10, <2>1 DEF Disk
<1>12. /\ store'.wal = wal /\ store'.mem = got.mem /\ store'.seq = got.seq
       /\ store'.fd = (IF wal THEN dir'.wal ELSE 0) /\ store'.torn = FALSE /\ store'.pending = FALSE
  BY <1>6
<1>13. store' \in Stores(Len(logs'))
  <2>1. dir'.wal \in 0..Len(logs') /\ 0 \in 0..Len(logs') BY <1>8 DEF DiskType
  <2>2. (IF wal THEN dir'.wal ELSE 0) \in 0..Len(logs') BY <2>1
  <2>3. got.mem \in SUBSET Nat /\ got.seq \in Nat BY <1>5 DEF Accs
  <2> QED BY <1>6, <2>2, <2>3 DEF Stores
<1>14. Powerless \/ durable \subseteq got.mem
  <2> SUFFICES ASSUME Safe(durable, logs, maybe) PROVE durable \subseteq got.mem BY <1>2
  <2>1. durable \subseteq Held(logs, dir) /\ LogOf(logs, dir.wal).synced \in 0..Len(RecsOf(logs, dir.wal))
    BY <1>4 DEF Safe
  <2> DEFINE recs == RecsOf(logs, dir.wal)
  <2> DEFINE sy == LogOf(logs, dir.wal).synced
  <2>2. Len(recs) \in Nat BY <1>4, LogOfType
  <2>3. sy \in 0..Len(recs) BY <2>1
  <2> HIDE DEF recs, sy
  <2>4. \A i \in 1..sy : i \in 1..Len(recs) BY <2>2, <2>3
  <2>5. OpsOf(recs, sy) \subseteq OpsOf(recs, Len(recs)) BY <2>4 DEF OpsOf
  <2>6. Held(logs, dir) \subseteq Kept(logs, dir) BY <2>5 DEF Held, Kept, recs, sy
  <2> QED BY <1>5, <2>1, <2>6
<1>15. Holds(store', history', logs', dir', written', durable')
  <2>1. \A h \in history' : h.seq <= got.seq BY <1>6
  <2>2. \A h \in history' : h.op # 0 => h.op \in got.mem BY <1>5, <1>6 DEF Tells
  <2>3. written \subseteq got.mem BY <1>2, <1>5
  <2> QED BY <1>1, <1>5, <1>8, <1>12, <1>14, <2>1, <2>2, <2>3 DEF Holds
<1>16. Place(pc', call'.ret, store', dir') /\ pc' \in Steps \ {"halted"}
  BY <1>6, <1>8, <1>12 DEF Place, Snapping, Steps
<1>17. Types' BY <1>1, <1>2, <1>3, <1>13, <1>16 DEF Types
<1>18. pc' = "boot_marker" BY <1>6
<1> QED BY ONLY <1>11, <1>15, <1>16, <1>17, <1>18 DEF IInv

\* Or it halts, on the torn tail of a segment alone, unless it is told to truncate.
LEMMA OpenKeeps ==
  ASSUME IInv, Open \/ OpenTruncating
  PROVE  IInv'
<1> DEFINE truncate == pc = "halted"
<1>1. OpenWith(truncate) /\ truncate \in BOOLEAN
  <2>1. CASE Open
    <3>1. truncate = FALSE /\ OpenWith(FALSE) BY <2>1 DEF Open
    <3> QED BY <3>1
  <2>2. CASE OpenTruncating
    <3>1. truncate = TRUE /\ OpenWith(TRUE) BY <2>2 DEF OpenTruncating
    <3> QED BY <3>1
  <2> QED BY <2>1, <2>2
<1> HIDE DEF truncate
<1>2. CASE LogOf(logs, dir.rot).damage = "tail" => truncate BY <1>1, <1>2, OpenReads
<1>3. CASE LogOf(logs, dir.rot).damage = "tail" /\ ~truncate
  <2>1. truncate = FALSE BY <1>1, <1>3
  <2>2. /\ call \in Calls /\ store \in Stores(Len(logs)) /\ nextOp \in Nat /\ used \in Bounds
        /\ written \in SUBSET Nat /\ durable \in SUBSET Nat
        /\ DiskType(logs, maybe, dir) /\ history \in SUBSET Record /\ Stories(history, logs, maybe, dir)
        /\ Disk(history, logs, maybe, dir, written, durable)
    BY DEF IInv, Types, Disk
  <2>3. Recovered(FALSE).halt # "no" BY <1>3, <2>2, TornSegmentHalts
  <2>4. /\ pc' = "halted" /\ call' = [call EXCEPT !.closing = FALSE]
        /\ UNCHANGED <<store, dir, maybe, logs, history, written, durable, nextOp, used>>
    BY <1>1, <2>1, <2>3 DEF OpenWith
  <2>5. ~CutsLast
    <3>1. LogOf(logs, dir.rot).damage \in AsideEnds BY <2>2 DEF Stories, Story
    <3> QED BY <1>3, <3>1, EndsAre
  <2>6. call' \in Calls BY <2>2, <2>4 DEF Calls
  <2>7. Types' BY <1>3, <2>2, <2>4, <2>5, <2>6 DEF Types
  <2>8. ~Up' BY <2>4 DEF Up
  <2>9. Disk(history, logs, maybe, dir, written, durable)' BY <2>2, <2>4
  <2> QED BY ONLY <2>7, <2>8, <2>9 DEF IInv
<1> QED BY <1>2, <1>3

-----------------------------------------------------------------------------
(* The store: the theorems *)

LEMMA IInvInit ==
  ASSUME Init
  PROVE  IInv
<1> DEFINE none == <<>>
<1>1. /\ pc = "down" /\ call = [ret |-> "idle", job |-> "rotate", closing |-> FALSE]
      /\ store = [wal |-> TRUE, mem |-> {}, seq |-> 0, fd |-> 0, torn |-> FALSE, pending |-> FALSE, dirty |-> FALSE]
      /\ dir = [snap |-> NoSnapshot, wal |-> 0, rot |-> 0] /\ maybe = {dir} /\ logs = none
      /\ written = {} /\ durable = {} /\ history = {} /\ nextOp = 1
      /\ used = [faults |-> 0, stops |-> 0, rotations |-> 0]
  BY DEF Init
<1>2. logs \in Seq(Logs) /\ Len(logs) = 0
  <2>1. <<>> \in Seq(Logs) /\ Len(<<>>) = 0 OBVIOUS
  <2> QED BY <1>1, <2>1
<1> HIDE DEF none
<1>3. Types
  <2>1. pc \in Steps \ {"halted"} BY <1>1 DEF Steps
  <2>2. call \in Calls BY <1>1 DEF Calls, Rets
  <2>3. store \in Stores(Len(logs)) BY <1>1, <1>2 DEF Stores
  <2>4. used \in Bounds BY <1>1 DEF Bounds
  <2> QED BY <1>1, <2>1, <2>2, <2>3, <2>4 DEF Types
<1>4. dir \in Directories /\ dir.wal = 0 /\ dir.rot = 0 /\ dir.snap.walSeq = 0 /\ dir.snap.body = {}
  <2>1. NoSnapshot \in Snapshots /\ NoSnapshot.walSeq = 0 /\ NoSnapshot.body = {} BY DEF NoSnapshot, Snapshots
  <2> QED BY <1>1, <2>1 DEF Directories
<1>5. DiskType(logs, maybe, dir) BY <1>1, <1>2, <1>4 DEF DiskType
<1>6. /\ RecsOf(logs, 0) = <<>> /\ LogOf(logs, 0).synced = 0
      /\ LogOf(logs, 0).damage \in LiveEnds /\ LogOf(logs, 0).damage \in AsideEnds
  BY EmptyLogType, EndsAre DEF RecsOf, LogOf
<1>7. \A s : Ascending(<<>>) /\ Chained(s, <<>>) BY DEF Ascending, Chained
<1>8. Story(history, logs, dir)
  <2>1. DOMAIN <<>> = {} OBVIOUS
  <2> QED BY ONLY <1>1, <1>4, <1>6, <1>7, <2>1 DEF Story
<1>9. Stories(history, logs, maybe, dir)
  <2>1. Top(logs, dir) \in Nat BY <1>1, <1>5, <1>8, TopDoes
  <2>2. OneEach(history) BY <1>1 DEF OneEach
  <2> QED BY <1>1, <1>4, <1>8, <2>1, <2>2 DEF Stories
<1>10. Safe(durable, logs, maybe)
  <2>1. Synced(logs, dir.rot) BY <1>4, NoLog
  <2>2. LogOf(logs, dir.wal).synced \in 0..Len(RecsOf(logs, dir.wal)) BY <1>4, <1>6
  <2> QED BY <1>1, <2>1, <2>2 DEF Safe
<1>11. Disk(history, logs, maybe, dir, written, durable) BY <1>1, <1>5, <1>9, <1>10 DEF Disk
<1>12. ~Up BY <1>1 DEF Up
<1> QED BY <1>3, <1>11, <1>12 DEF IInv

LEMMA IInvNext ==
  ASSUME IInv, Powerless \/ "openMarker" \notin Faults, [Next]_vars
  PROVE  IInv'
<1>1. CASE UNCHANGED vars
  <2>1. UNCHANGED <<pc, call, store, dir, maybe, logs, written, durable, history, nextOp, used>> BY <1>1 DEF vars
  <2>2. Types' BY <2>1 DEF IInv, Types
  <2>3. Disk(history, logs, maybe, dir, written, durable)' BY <2>1 DEF IInv
  <2>4. (Up => /\ Holds(store, history, logs, dir, written, durable)
               /\ pc = "boot_marker" \/ Covered(store, logs, dir)
               /\ Place(pc, call.ret, store, dir))'
    BY <2>1 DEF IInv, Up
  <2> QED BY ONLY <2>2, <2>3, <2>4 DEF IInv
<1>2. CASE AppendRecord BY <1>2, AppendRecordKeeps
<1>3. CASE Barrier \/ SnapBarrier \/ RotBarrier BY <1>3, BarrierKeeps
<1>4. CASE PersistSnapshot \/ StartRotate \/ Close \/ RotFold \/ BootRotate BY <1>4, CallKeeps
<1>5. CASE SnapRename BY <1>5, SnapRenameKeeps
<1>6. CASE SnapSync BY <1>6, SnapSyncKeeps
<1>7. CASE RotCut BY <1>7, RotCutKeeps
<1>8. CASE FoldRemove \/ Retire \/ TornRemoveRot BY <1>8, RemoveRotKeeps
<1>9. CASE TornRemoveWal BY <1>9, TornRemoveWalKeeps
<1>10. CASE RotRename BY <1>10, RotRenameKeeps
<1>11. CASE OpenWal BY <1>11, OpenWalKeeps
<1>12. CASE SyncNames \/ TornSync BY <1>12, SyncNamesKeeps
<1>13. CASE Marker \/ BootMarker BY <1>13, MarkerKeeps
<1>14. CASE Exit BY <1>14, ExitKeeps
<1>15. CASE Kill BY <1>15, KillKeeps
<1>16. CASE PowerLoss BY <1>16, PowerLossKeeps
<1>17. CASE Open \/ OpenTruncating BY <1>17, OpenKeeps
<1> QED
  BY <1>1, <1>2, <1>3, <1>4, <1>5, <1>6, <1>7, <1>8, <1>9, <1>10, <1>11, <1>12, <1>13, <1>14, <1>15, <1>16, <1>17
  DEF Next, Step

\* In every reachable state the disk is one story, wherever a death comes: the
\* snapshot, the segment rolled aside and the live log (open(), rotate(),
\* writeSnapshot(), #replaceTornWal()) follow each other without a gap, whichever
\* of its directories a power loss leaves, and what was answered for is in it.
\* Where power is lost, the marker open() appends is taken to succeed: a start
\* whose marker fails goes on with a log it has not synced.
THEOREM OneStoryOnDisk ==
  ASSUME Powerless \/ "openMarker" \notin Faults
  PROVE  Spec => []IInv
<1>1. Init => IInv BY IInvInit
<1>2. IInv /\ [Next]_vars => IInv' BY IInvNext
<1> QED BY <1>1, <1>2, PTL DEF Spec

\* The Gateway that is up holds what had reached the disk, and after a power loss
\* what was answered for, whatever fails in whatever order of the file operations.
\* A start halts only on a torn tail of the segment rolled aside, and told to
\* truncate (ACP_GATEWAY_STATE_RECOVERY) reads all the rest.
THEOREM StartsRecoverWhatWasPromised ==
  ASSUME Powerless \/ "openMarker" \notin Faults
  PROVE  Spec => []RecoversWhatWasPromised
<1>1. IInv => RecoversWhatWasPromised
  <2> SUFFICES ASSUME IInv PROVE RecoversWhatWasPromised OBVIOUS
  <2>1. TypeOK BY TypeIs
  <2>2. ASSUME pc = "halted" PROVE dir.rot # 0 /\ logs[dir.rot].damage = "tail" /\ Recovered(TRUE).halt = "no"
    <3>1. LogOf(logs, dir.rot).damage = "tail" BY <2>2 DEF IInv, Types
    <3>2. dir.rot # 0 BY <3>1, EmptyLogType DEF LogOf
    <3>3. logs[dir.rot].damage = "tail" BY <3>1, <3>2 DEF LogOf
    <3>4. Recovered(TRUE).halt = "no" BY RecoveredDoes DEF IInv, Disk
    <3> QED BY <3>2, <3>3, <3>4
  <2>3. Up => written \subseteq store.mem /\ RecoversAPrefix BY DEF IInv, Holds, RecoversAPrefix
  <2> QED BY <2>1, <2>2, <2>3 DEF RecoversWhatWasPromised
<1> QED BY <1>1, OneStoryOnDisk, PTL

\* "Every crash point in here leaves one complete story on disk" (rotate()): no
\* start halts at all, wherever no power is lost, whatever fails; and where it
\* is, as long as no write fails whose cut (#takeBack, #cutTornTail) it undoes.
THEOREM StartsRecoverWhatWasWritten ==
  ASSUME Powerless \/ {"write", "openMarker"} \cap Faults = {}
  PROVE  Spec => []RecoversWhatWasWritten
<1>1. Powerless \/ "openMarker" \notin Faults OBVIOUS
<1>2. CutsLast BY DEF CutsLast
<1>3. IInv => pc # "halted" BY <1>2 DEF IInv, Types
<1>4. IInv /\ RecoversWhatWasPromised => RecoversWhatWasWritten BY <1>3 DEF RecoversWhatWasWritten
<1>5. Spec => []IInv BY <1>1, OneStoryOnDisk
<1>6. Spec => []RecoversWhatWasPromised BY <1>1, StartsRecoverWhatWasPromised
<1> QED BY <1>4, <1>5, <1>6, PTL
=============================================================================
