--------------------------- MODULE MCProviderPool ---------------------------
(* ProviderPool with two requests: two opens that race each other, or an open *)
(* and a restore of its session.                                              *)
EXTENDS ProviderPool
=============================================================================
