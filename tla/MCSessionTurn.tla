---------------------------- MODULE MCSessionTurn ----------------------------
(* SessionTurn on a small instance. *)
EXTENDS SessionTurn

TwoTurns == 1..2
=============================================================================
