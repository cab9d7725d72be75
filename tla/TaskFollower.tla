---------------------------- MODULE TaskFollower ----------------------------
(***************************************************************************)
(* How a front door follows one task its MCP client created                *)
(* (task-follower.js): a subscription that pushes every status, and reads  *)
(* on a heartbeat for what the push did not deliver.                       *)
(*   sub    "none", "asking", "live", "restoring" after a reconnect, or    *)
(*          "lost": the heartbeat alone goes on                            *)
(*   asked  the requests that are out                                      *)
(*   quiet  those since which nothing was heard (the code compares `heard` *)
(*          with what it was as the request left)                          *)
(*   early  events read before the subscription's reply was                *)
(*   got    replies read, whose await has not gone on yet                  *)
(*   told   what the MCP client was notified of                            *)
(***************************************************************************)
EXTENDS Integers, Sequences

Terminal(status) == status = "completed"

NotFollowing == [on |-> FALSE, status |-> "none", sub |-> "none", asked |-> {}, quiet |-> {},
                 early |-> <<>>, got |-> {}, told |-> <<>>]

\* follow: the client holds the state the task was created in.
Follow(f) == [f EXCEPT !.on = TRUE, !.status = "working", !.sub = "none"]

\* #stop, without the connection, which goes with the last task (#idle)
Stop(f) == [NotFollowing EXCEPT !.status = f.status, !.told = f.told]

\* #observe: only a change is told, and a terminal status ends the following
\* before it is.
Observe(f, status) ==
  IF ~f.on \/ status = f.status THEN f
  ELSE LET g == [f EXCEPT !.status = status, !.told = Append(@, status)]
       IN  IF Terminal(status) THEN Stop(g) ELSE g

\* #onEvent of a task_status
OnEvent(f, status) == Observe([f EXCEPT !.quiet = {}], status)

OnEvents(f, statuses) ==
  LET after[n \in 0..Len(statuses)] == IF n = 0 THEN f ELSE OnEvent(after[n - 1], statuses[n])
  IN  after[Len(statuses)]

\* The end of #subscribe: GatewayRpcClient has given the handler what came before
\* the reply was read; the reply counts unless something was heard meanwhile.
Subscribed(f, status) ==
  LET g == OnEvents([f EXCEPT !.sub = "live", !.early = <<>>], f.early)
  IN  IF "subscribe" \in g.quiet THEN OnEvent(g, status) ELSE g

Asks(f, request) == [f EXCEPT !.asked = @ \cup {request}, !.quiet = @ \cup {request}]

\* What is out is forgotten without a word to those who wait for it.
Disconnected_Unsaid(f) ==
  [f EXCEPT !.early = <<>>, !.sub = CASE @ = "asking" -> "lost" [] @ = "restoring" -> "live" [] OTHER -> @]

\* GatewayRpcClient #disconnect: what is out is rejected, a subscription that was
\* made is kept, to be made again.
Disconnected(f) ==
  [f EXCEPT !.asked = {}, !.quiet = {}, !.early = <<>>,
            !.sub = CASE @ = "asking" -> "lost" [] @ = "restoring" -> "live" [] OTHER -> @]

\* A resubscribe of the connection's own (#restoreSubscriptions): where the task
\* stands now, then what came before the reply was read.
Restored(f, status) == OnEvents(OnEvent([f EXCEPT !.sub = "live", !.early = <<>>], status), f.early)

\* The read counts whatever was heard while it was out.
ReadBack_Always(f, status) == Observe([f EXCEPT !.quiet = @ \ {"task_get"}], status)

\* The end of #check: a push that arrived while the read was out is newer.
ReadBack(f, status) ==
  IF "task_get" \in f.quiet THEN Observe([f EXCEPT !.quiet = @ \ {"task_get"}], status) ELSE f
=============================================================================
