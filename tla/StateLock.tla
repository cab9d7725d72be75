------------------------------ MODULE StateLock ------------------------------
(***************************************************************************)
(* The lock of a state directory (src/src/state-store.js: claimStateLock,  *)
(* createLock, restoreLock, #checkLock, #retakeLock, #releaseLock).  Only  *)
(* one Gateway may write a state directory, and Node has no OS lock: the   *)
(* lock is a file naming its holder's pid.  One action is one file         *)
(* operation, so that processes interleave, and die, between any two.      *)
(*                                                                         *)
(* A file is its identity (device, inode and mtime together): a file freed *)
(* by everyone may be handed out again.  A process that starts again has   *)
(* its old pid, which the code must take for a dead one's.  A pid that     *)
(* went to another program only makes a start be refused; it is left out.  *)
(***************************************************************************)
EXTENDS Integers, FiniteSets

CONSTANTS
  Procs,        \* pids of Gateways
  Files,        \* bound: how many lock files can be told apart at once
  Attempts,     \* how often a start tries
  LinkModes,    \* whether the file system has hard links
  MaxStarts, MaxFails,  \* bounds: starts, and deaths or failed writes, in all
  None          \* no file, or no pid in it yet

ASSUME StateLockAssumption ==
  /\ IsFiniteSet(Files) /\ Files # {} /\ Attempts \in Nat \ {0}
  /\ LinkModes \subseteq BOOLEAN /\ MaxStarts \in Nat /\ MaxFails \in Nat
  /\ None \notin Procs /\ None \notin Files

VARIABLES
  hardLinks, \* what linkSync can do here
  path,      \* the file at the lock's path
  text,      \* the pid in each file
  aside,     \* the file at each process's claim name (<lock>.<pid>.tmp)
  proc,      \* each process: the file operation it makes next (at), claimStateLock's attempt, the
             \* lock it judged stale, the file it made and has not named, and the lock it holds (#lock)
  starts, fails,  \* how many there were
  displaced  \* history: since anything runs, a claim took aside a lock it had not judged

lockFiles == <<path, text, aside>>
bounds == <<hardLinks, starts, fails>>
lockVars == <<hardLinks, path, text, aside, proc, starts, fails, displaced>>

LockSteps == {"off", "create", "write", "judge", "claim", "compare", "restore", "drop", "unmake", "unlink",
              "hold", "read", "retake", "rewrite", "reread", "lost", "leave", "remove"}
Off == [at |-> "off", attempt |-> 1, judged |-> None, made |-> None, mine |-> None]

LockTypeOK ==
  /\ hardLinks \in LinkModes
  /\ path \in Files \cup {None}
  /\ text \in [Files -> Procs \cup {None}]
  /\ aside \in [Procs -> Files \cup {None}]
  /\ proc \in [Procs -> [at : LockSteps, attempt : 1..Attempts, judged : Files \cup {None},
                         made : Files \cup {None}, mine : Files \cup {None}]]
  /\ starts \in 0..MaxStarts /\ fails \in 0..MaxFails
  /\ displaced \in BOOLEAN

\* Nothing runs; the directory has no lock, or one a process left that died.
LockInit ==
  /\ hardLinks \in LinkModes
  /\ path \in {None, CHOOSE f \in Files : TRUE}
  /\ text \in [Files -> Procs \cup {None}]
  /\ \A f \in Files : (text[f] = None) <=> (f # path)
  /\ aside = [p \in Procs |-> None]
  /\ proc = [p \in Procs |-> Off]
  /\ starts = 0 /\ fails = 0
  /\ displaced = FALSE

-----------------------------------------------------------------------------
(* Files and pids *)

\* isAlive
Alive(p) == proc[p].at # "off"

\* The files some name, descriptor or judgement still stands for.
InUse == {path} \cup UNION {{aside[p], proc[p].judged, proc[p].made, proc[p].mine} : p \in Procs}

NewFile == CHOOSE f \in Files \ InUse : TRUE

Go(p, next) == proc' = [proc EXCEPT ![p].at = next] /\ UNCHANGED displaced

\* Process p is gone; its claim name keeps what is under it.
Gone(p) ==
  /\ proc' = [proc EXCEPT ![p] = Off]
  /\ displaced' = (displaced /\ \E q \in Procs \ {p} : Alive(q))

\* createLock's open with O_EXCL: a file of its own, or the one that is there.
Make(p, made, there) ==
  \/ /\ path = None
     /\ Files \ InUse # {}
     /\ path' = NewFile
     /\ text' = [f \in Files |-> IF f \in InUse THEN text[f] ELSE None]
     /\ proc' = [proc EXCEPT ![p].at = made, ![p].made = NewFile]
     /\ UNCHANGED <<aside, displaced>>
  \/ /\ path # None
     /\ Go(p, there)
     /\ UNCHANGED lockFiles

\* Its write: the lock names this process, and is the one it holds.
Named(p) ==
  /\ text' = [text EXCEPT ![proc[p].made] = p]
  /\ proc' = [proc EXCEPT ![p] = [Off EXCEPT !.at = "hold", !.mine = proc[p].made]]
  /\ UNCHANGED <<path, displaced>>

\* The next attempt of claimStateLock, or its last error.
Again(p) ==
  IF proc[p].attempt < Attempts
    THEN /\ proc' = [proc EXCEPT ![p] = [Off EXCEPT !.at = "create", !.attempt = proc[p].attempt + 1]]
         /\ UNCHANGED displaced
    ELSE Gone(p)

-----------------------------------------------------------------------------
(* claimStateLock *)

Start(p) ==
  /\ proc[p].at = "off"
  /\ starts < MaxStarts
  /\ starts' = starts + 1
  /\ Go(p, "create")
  /\ UNCHANGED <<lockFiles, hardLinks, fails>>

Create(p) == proc[p].at = "create" /\ Make(p, "write", "judge")

\* The lock is this store's, and what dead processes left under their claim
\* names is swept (#openLocked).
Write(p) ==
  /\ proc[p].at = "write"
  /\ Named(p)
  /\ aside' = [q \in Procs |-> IF Alive(q) THEN aside[q] ELSE None]

\* The pid cannot be written (a full disk).
WriteFails(p) ==
  /\ proc[p].at \in {"write", "rewrite"}
  /\ Go(p, "unmake")
  /\ UNCHANGED lockFiles

\* createLock throws: a start ends; a check of a holder fails, and it holds on.
Unmade(p) ==
  IF proc[p].mine = None
    THEN Gone(p)
    ELSE proc' = [proc EXCEPT ![p].at = "hold", ![p].made = None] /\ UNCHANGED displaced

\* The lock is taken away again, if the path still has it.
UnmakeStat(p) ==
  /\ proc[p].at = "unmake"
  /\ IF path = proc[p].made THEN Go(p, "unlink") ELSE Unmade(p)
  /\ UNCHANGED lockFiles

UnmakeUnlink(p) ==
  /\ proc[p].at = "unlink"
  /\ path' = None
  /\ Unmade(p)
  /\ UNCHANGED <<text, aside>>

\* lockIsStale: it names a process that is gone, or this one.  One that names
\* none yet is being made.
Stale(p, f) == text[f] # None /\ (text[f] = p \/ ~ Alive(text[f]))

Judge(p) ==
  /\ proc[p].at = "judge"
  /\ \/ path = None /\ Again(p)
     \/ path # None /\ ~ Stale(p, path) /\ Gone(p)
     \/ /\ path # None /\ Stale(p, path)
        /\ proc' = [proc EXCEPT ![p].at = "claim", ![p].judged = path]
        /\ UNCHANGED displaced
  /\ UNCHANGED lockFiles

\* The judged lock unlinked by its name, without a claim.
Claim_Unlink(p) ==
  /\ proc[p].at = "claim"
  /\ path' = None
  /\ Again(p)
  /\ UNCHANGED <<text, aside>>

\* The rename to a name of this process's own.
Claim(p) ==
  /\ proc[p].at = "claim"
  /\ \/ /\ path = None
        /\ Again(p)
        /\ UNCHANGED <<path, aside>>
     \/ /\ path # None
        /\ aside' = [aside EXCEPT ![p] = path]
        /\ path' = None
        /\ proc' = [proc EXCEPT ![p].at = "compare"]
        /\ displaced' = (displaced \/ path # proc[p].judged)
  /\ UNCHANGED text

\* sameLock: the file taken is the one judged stale.
Compare(p) ==
  /\ proc[p].at = "compare"
  /\ Go(p, IF aside[p] = proc[p].judged THEN "drop" ELSE "restore")
  /\ UNCHANGED lockFiles

\* restoreLock: by link(2), which never replaces a lock made meanwhile; by a
\* rename, which does, where there are no hard links.
Restore(p) ==
  /\ proc[p].at = "restore"
  /\ path' = IF path = None \/ ~ hardLinks THEN aside[p] ELSE path
  /\ Go(p, "drop")
  /\ UNCHANGED <<text, aside>>

Drop(p) ==
  /\ proc[p].at = "drop"
  /\ aside' = [aside EXCEPT ![p] = None]
  /\ Again(p)
  /\ UNCHANGED <<path, text>>

-----------------------------------------------------------------------------
(* #checkLock, #retakeLock, #releaseLock *)

\* The stat before a batch of writes: all is well while the path still has
\* this store's lock.
CheckStat(p) ==
  /\ proc[p].at = "hold"
  /\ path # proc[p].mine
  /\ Go(p, IF path = None THEN "retake" ELSE "read")
  /\ UNCHANGED lockFiles

\* A check content with any lock at the path.
Settled_Any(p) ==
  /\ IF path # None
       THEN proc' = [proc EXCEPT ![p].at = "hold", ![p].mine = path] /\ UNCHANGED displaced
       ELSE Go(p, "lost")
  /\ UNCHANGED lockFiles

\* Whose lock the path has decides: one that names this process is its own,
\* any other ends its writing for good.
Settled(p) ==
  /\ IF path # None /\ text[path] = p
       THEN proc' = [proc EXCEPT ![p].at = "hold", ![p].mine = path] /\ UNCHANGED displaced
       ELSE Go(p, "lost")
  /\ UNCHANGED lockFiles

CheckRead(p) ==
  /\ proc[p].at = "read"
  /\ \/ path = None /\ Go(p, "retake") /\ UNCHANGED lockFiles
     \/ path # None /\ Settled(p)

Retake(p) == proc[p].at = "retake" /\ Make(p, "rewrite", "reread")

Rewrite(p) == proc[p].at = "rewrite" /\ Named(p) /\ UNCHANGED aside

Reread(p) == proc[p].at = "reread" /\ Settled(p)

\* close: the descriptor first, then the file, if it names this process.
Release(p) ==
  /\ proc[p].at \in {"hold", "lost"}
  /\ proc' = [proc EXCEPT ![p].at = "leave", ![p].mine = None]
  /\ UNCHANGED <<lockFiles, displaced>>

ReleaseRead(p) ==
  /\ proc[p].at = "leave"
  /\ IF path # None /\ text[path] = p THEN Go(p, "remove") ELSE Gone(p)
  /\ UNCHANGED lockFiles

ReleaseUnlink(p) ==
  /\ proc[p].at = "remove"
  /\ path' = None
  /\ Gone(p)
  /\ UNCHANGED <<text, aside>>

Crash(p) == Alive(p) /\ Gone(p) /\ UNCHANGED lockFiles

-----------------------------------------------------------------------------
\* What a process does by itself once it runs: a start goes on, and a holder
\* checks before each batch of writes.
LockStep(p) ==
  /\ \/ Create(p) \/ Write(p) \/ UnmakeStat(p) \/ UnmakeUnlink(p) \/ Judge(p) \/ Claim(p) \/ Compare(p)
     \/ Restore(p) \/ Drop(p) \/ CheckStat(p) \/ CheckRead(p) \/ Retake(p) \/ Rewrite(p) \/ Reread(p)
     \/ ReleaseRead(p) \/ ReleaseUnlink(p)
  /\ UNCHANGED bounds

\* What goes wrong, as often as the bound allows.
Fail(p) ==
  /\ fails < MaxFails
  /\ fails' = fails + 1
  /\ (WriteFails(p) \/ Crash(p))
  /\ UNCHANGED <<hardLinks, starts>>

LockNext == \E p \in Procs : LockStep(p) \/ Start(p) \/ Fail(p) \/ (Release(p) /\ UNCHANGED bounds)

LockSpec == LockInit /\ [][LockNext]_lockVars

\* Code that runs is not suspended for ever.
LockFairSpec == LockSpec /\ \A p \in Procs : WF_lockVars(LockStep(p))

-----------------------------------------------------------------------------
(* Properties *)

\* The Gateways that would write: they have the lock and have not found out
\* that they lost it.
Writers == {p \in Procs : proc[p].mine # None /\ proc[p].at # "lost"}

\* Two Gateways write one directory only after a claim, running beside them,
\* took aside a lock other than the one it had judged stale (the third starter
\* of restoreLock's comment): no judgement, failed start, release, restart or
\* death leads there by itself.  Stated as the abstract lock this implements.
Lock == INSTANCE DirectoryLock WITH writers <- Writers, contested <- displaced
IsADirectoryLock == Lock!Spec

\* Two that write the same directory do not go on for ever: the one whose lock
\* no longer stands finds out at a check of its own.
ConflictIsFound == Cardinality(Writers) > 1 ~> Cardinality(Writers) <= 1
=============================================================================
