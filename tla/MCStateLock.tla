---------------------------- MODULE MCStateLock ----------------------------
(* Three Gateways on one state directory: two that judge one stale lock, and *)
(* the third that starts in the moment its path stands empty.                *)
EXTENDS StateLock, TLC

=============================================================================
