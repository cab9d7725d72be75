---------------------------- MODULE MainRegistry ----------------------------
(***************************************************************************)
(* Where one Main stands, for a management view (main-status.js): the      *)
(* connections that named it, its waits that block, the grace a heartbeat  *)
(* leaves, and what the registry last told of it.  An entry that is not    *)
(* there is one last told "gone", with nothing in it.                      *)
(***************************************************************************)

NoGrace == [on |-> FALSE, tasks |-> {}]

NoMain == [conns |-> {}, waits |-> {}, grace |-> NoGrace, shown |-> [status |-> "gone", tasks |-> {}]]

Listed(m) == m.shown.status # "gone"

\* #settle and publicMain: a grace holds only a Main that is connected, a blocked
\* wait also one whose connection is gone.
Settle(m) ==
  LET grace == IF m.conns = {} THEN NoGrace ELSE m.grace
      status == CASE m.waits # {} \/ grace.on -> "waiting_tasks"
                  [] m.waits = {} /\ ~grace.on /\ m.conns # {} -> "active"
                  [] OTHER -> "gone"
      tasks == IF status = "waiting_tasks" THEN (UNION {w.tasks : w \in m.waits}) \cup grace.tasks ELSE {}
  IN  [m EXCEPT !.grace = grace, !.shown = [status |-> status, tasks |-> tasks]]

Attach(m, connection) == Settle([m EXCEPT !.conns = @ \cup {connection}])

\* The connection's Mains are let go of, but none of what else holds them.
Detach(m, connection) == IF connection \in m.conns THEN Settle([m EXCEPT !.conns = @ \ {connection}]) ELSE m

\* The wait blocks, again perhaps: one sleep goes on, and the grace before it ends.
BlockWait(m, call, ids) ==
  Settle([m EXCEPT !.waits = {w \in @ : w.call # call} \cup {[call |-> call, tasks |-> ids]}, !.grace = NoGrace])

\* closeWait and #startGrace: a heartbeat keeps the Main waiting on what its wait,
\* or the grace before it, was for; any other end is the end of a grace.
CloseWait(m, call, reason) ==
  LET mine == {w \in m.waits : w.call = call}
      kept == IF mine # {} THEN [on |-> TRUE, tasks |-> UNION {w.tasks : w \in mine}] ELSE m.grace
  IN  IF ~Listed(m) THEN m
      ELSE Settle([m EXCEPT !.waits = @ \ mine, !.grace = IF reason = "heartbeat" THEN kept ELSE NoGrace])

\* activity, and the grace's own timer
GraceEnds(m) == IF m.grace.on THEN Settle([m EXCEPT !.grace = NoGrace]) ELSE m
=============================================================================
