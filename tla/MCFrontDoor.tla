---------------------------- MODULE MCFrontDoor ----------------------------
EXTENDS FrontDoor

\* Two waits of two tasks that run already, with room for one or for both; a task
\* that is created, followed and taken through four changes; and one that is
\* waited for too.
Scenes ==
  {[waiters |-> n, kinds |-> {"wait", "ack"}, calls |-> 2, changes |-> 2, drops |-> 1, ends |-> 0] : n \in {1, 2}}
    \cup {[waiters |-> 2, kinds |-> {"run"}, calls |-> 1, changes |-> 4, drops |-> 1, ends |-> 1],
          [waiters |-> 2, kinds |-> {"run", "wait"}, calls |-> 2, changes |-> 1, drops |-> 0, ends |-> 1]}
=============================================================================
