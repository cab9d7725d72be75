--------------------------- MODULE MCSessionQueue ---------------------------
(* SessionQueue with enough commands of each side to reach its limits. *)
EXTENDS SessionQueue
=============================================================================
