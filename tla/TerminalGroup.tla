--------------------------- MODULE TerminalGroup ---------------------------
(***************************************************************************)
(* A terminal's process group and how the Gateway ends it (acp-client.js,  *)
(* watchGroup, endGroup, terminateChild): a record, and what each step     *)
(* makes of it.  WorkerOps keeps one record per terminal it started.       *)
(*                                                                         *)
(*   cmd     the command runs (Node has not reaped it)                     *)
(*   rest    what the command left in its group still runs                 *)
(*   other   the group's id belongs to another group by now: the kernel    *)
(*           gives it out again once the group has no member               *)
(*   closed  exitStatus is set: the output closed, at or after the exit    *)
(*   gone    groupGone: a check found the group empty                      *)
(*   watch   groupWatch is armed                                           *)
(*   ending  endGroup's sequence: "no", "term", "kill" or "done"           *)
(*   listed  the client still has it in terminals                          *)
(*   killed  ghost: a SIGKILL reached the group                            *)
(*   late    ghost: who signalled the id after gone was set                *)
(***************************************************************************)
EXTENDS Integers

Terminals ==
  [cmd : BOOLEAN, rest : BOOLEAN, other : BOOLEAN, closed : BOOLEAN, gone : BOOLEAN, watch : BOOLEAN,
   ending : {"no", "term", "kill", "done"}, listed : BOOLEAN, killed : BOOLEAN, late : SUBSET {"teardown", "kill"}]

Spawned ==
  [cmd |-> TRUE, rest |-> FALSE, other |-> FALSE, closed |-> FALSE, gone |-> FALSE, watch |-> FALSE,
   ending |-> "no", listed |-> TRUE, killed |-> FALSE, late |-> {}]

Members(t) == t.cmd \/ t.rest

\* groupAlive: signal 0 to the id, which another group may answer by now.
GroupAlive(t) == Members(t) \/ t.other

\* killChild: the signal goes to the id, whoever has it.
KillChild(t, signal, by) ==
  [t EXCEPT !.killed = @ \/ (signal = "SIGKILL" /\ Members(t)),
            !.late = IF t.gone THEN @ \cup {by} ELSE @]

FoundGone(t) == [t EXCEPT !.gone = TRUE, !.watch = FALSE, !.ending = IF @ = "no" THEN @ ELSE "done"]

\* watchGroup, on the command's "exit".
WatchGroup(t) ==
  CASE t.ending # "no" \/ t.gone -> t
    [] t.ending = "no" /\ ~t.gone /\ ~GroupAlive(t) -> FoundGone(t)
    [] OTHER -> [t EXCEPT !.watch = TRUE]

\* The command ends, on its own or by a signal, and leaves something behind in
\* its group, or nothing; one SIGKILL ends all of the group.
CommandExits(t, leaves) == WatchGroup([t EXCEPT !.cmd = FALSE, !.rest = leaves])

\* The next check of whoever checks: watchGroup's interval, terminateChild's poll.
Checks(t) == t.watch \/ t.ending \in {"term", "kill"}

EndGroup_Unchecked(t) ==
  IF t.ending # "no" THEN t
  ELSE IF GroupAlive(t) THEN KillChild([t EXCEPT !.watch = FALSE, !.ending = "term"], "SIGTERM", "teardown")
  ELSE [t EXCEPT !.watch = FALSE, !.gone = TRUE, !.ending = "done"]

\* endGroup: one sequence, whoever is first, and none for a group found empty;
\* terminateChild's check and its SIGTERM.
EndGroup(t) ==
  CASE t.ending # "no" -> t
    [] t.ending = "no" /\ (t.gone \/ ~GroupAlive(t)) -> [t EXCEPT !.watch = FALSE, !.gone = TRUE, !.ending = "done"]
    [] OTHER -> KillChild([t EXCEPT !.watch = FALSE, !.ending = "term"], "SIGTERM", "teardown")

\* terminateChild's grace is over.
SigKill(t) ==
  IF ~GroupAlive(t) THEN FoundGone(t) ELSE KillChild([t EXCEPT !.ending = "kill"], "SIGKILL", "teardown")

\* #killTerminal, on the worker's request: by the exit status alone.
KillTerminal(t) == IF t.closed THEN t ELSE KillChild(t, "SIGTERM", "kill")
============================================================================
