---------------------------- MODULE MCTaskCommit ----------------------------
(* TaskCommit for TLC. *)
EXTENDS TaskCommit
=============================================================================
