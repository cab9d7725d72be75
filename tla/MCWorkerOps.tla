---------------------------- MODULE MCWorkerOps ----------------------------
EXTENDS WorkerOps

\* Three requests show an approval and two writes that may spend it; a terminal's
\* limits and its end take two.
Scenes ==
  {[policy |-> "ask", kinds |-> {"write"}, requests |-> 3],
   [policy |-> "ask", kinds |-> {"read", "terminal"}, requests |-> 2],
   [policy |-> "auto_approve", kinds |-> {"write"}, requests |-> 2],
   [policy |-> "auto_approve", kinds |-> {"terminal"}, requests |-> 1],
   [policy |-> "read_only", kinds |-> {"read", "write"}, requests |-> 2]}
============================================================================
