---------------------------- MODULE MCStateStore ----------------------------
(* StateStore on small instances.  What a run explores (which operations may *)
(* fail, how the Gateway may die, the bounds) is in its configuration.       *)
EXTENDS StateStore
=============================================================================
