--------------------------- MODULE DirectoryLock ---------------------------
(***************************************************************************)
(* What the lock of a state directory promises its Gateways: one of them   *)
(* writes at a time, unless the lock is contested.  Lock files cannot do   *)
(* better without an OS lock (src/src/state-store.js, restoreLock): a claim*)
(* of a stale lock may take a live one aside, and until everyone is gone   *)
(* several may then write.                                                 *)
(***************************************************************************)
CONSTANT Procs

VARIABLES writers,    \* the Gateways that write the directory
          contested   \* a claim took a lock it had not judged stale

vars == <<writers, contested>>

Init == writers = {} /\ contested = FALSE

Enter(p) ==
  /\ writers = {} \/ contested
  /\ writers' = writers \cup {p}
  /\ UNCHANGED contested

\* A Gateway stops, dies, or finds out that it lost the lock; the last one to
\* go ends a contest.
Leave(p) ==
  /\ writers' = writers \ {p}
  /\ contested' \in {contested, contested /\ writers' # {}}

Contend ==
  /\ contested' = TRUE
  /\ UNCHANGED writers

Next == Contend \/ \E p \in Procs : Enter(p) \/ Leave(p)

Spec == Init /\ [][Next]_vars

\* The promise: nobody writes beside another while nothing is contested.
OneWriter == contested \/ \A p, q \in writers : p = q
=============================================================================
