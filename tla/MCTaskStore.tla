---------------------------- MODULE MCTaskStore ----------------------------
(* TaskStore with handles and waits enough to reach every budget. *)
EXTENDS TaskStore

\* One TTL below what a handle may get and one above.
AskedTtls == {-1, 2}
=============================================================================
