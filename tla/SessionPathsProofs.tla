------------------------- MODULE SessionPathsProofs -------------------------
(***************************************************************************)
(* The two paths of a session, proved for every value of the constants.    *)
(*                                                                         *)
(* In: the mailbox (SessionQueue) serves in order, strands nothing and     *)
(* keeps its reserve, for every set of commands, limit and reserve.        *)
(*                                                                         *)
(* Out: the event path (EventStream) loses no event for good in silence    *)
(* and sheds no control event, for every budget of the lanes and the ring, *)
(* any number of events, requests, lost connections and restarts, as long  *)
(* as a restart loses nothing that was published (Lossy = FALSE).          *)
(***************************************************************************)
EXTENDS SessionQueue, EventStream, SequenceTheorems, FiniteSetTheorems, WellFoundedInduction, TLAPS

(***************************************************************************)
(* The mailbox.                                                            *)
(***************************************************************************)

NoRepeats(s) == \A i, j \in DOMAIN s : s[i] = s[j] => i = j

\* A lane's sequence is the order in which its commands were admitted.
LaneInOrder(s) == \A i, j \in DOMAIN s : <<s[i], s[j]>> \in before => i < j

\* What makes the properties inductive: a command waits once, the order of
\* admission is between outstanding commands only and agrees with both lanes,
\* and Main's commands never took more than the limit.
QueueInv ==
  /\ QueueTypeOK
  /\ NothingStranded
  /\ NoRepeats(items) /\ NoRepeats(criticalItems)
  /\ before \subseteq Outstanding \X Outstanding
  /\ LaneInOrder(items) /\ LaneInOrder(criticalItems)
  /\ LanesInOrder
  /\ MainOwed <= Limit

-----------------------------------------------------------------------------
(* Sequences without repeats *)

\* What appending a new element does to a lane.
LEMMA QueueAppends ==
  ASSUME NEW S, NEW s \in Seq(S), NEW x \in S
  PROVE  /\ Append(s, x) \in Seq(S)
         /\ Len(Append(s, x)) = Len(s) + 1
         /\ Append(s, x) # <<>>
         /\ Members(Append(s, x)) = Members(s) \cup {x}
         /\ NoRepeats(s) /\ x \notin Members(s) => NoRepeats(Append(s, x))
         /\ \A i \in DOMAIN Append(s, x) :
              \/ i \in DOMAIN s /\ Append(s, x)[i] = s[i]
              \/ i = Len(s) + 1 /\ Append(s, x)[i] = x
PROOF
  <1>1. /\ Append(s, x) \in Seq(S)
        /\ Len(Append(s, x)) = Len(s) + 1
        /\ Append(s, x) # <<>>
    <2>1. Append(s, x) \in Seq(S)
      OBVIOUS
    <2>2. Len(Append(s, x)) = Len(s) + 1 /\ Len(s) \in Nat
      OBVIOUS
    <2>3. Len(Append(s, x)) # 0
      BY <2>2
    <2> QED BY <2>1, <2>2, <2>3
  <1>2. \A i \in DOMAIN Append(s, x) :
              \/ i \in DOMAIN s /\ Append(s, x)[i] = s[i]
              \/ i = Len(s) + 1 /\ Append(s, x)[i] = x
    OBVIOUS
  <1>3. /\ DOMAIN s \subseteq DOMAIN Append(s, x)
        /\ \A i \in DOMAIN s : Append(s, x)[i] = s[i]
        /\ Len(s) + 1 \in DOMAIN Append(s, x)
        /\ Append(s, x)[Len(s) + 1] = x
    OBVIOUS
  <1>4. Members(Append(s, x)) = Members(s) \cup {x}
    BY <1>2, <1>3, Zenon DEF Members
  <1>5. ASSUME NoRepeats(s), x \notin Members(s) PROVE NoRepeats(Append(s, x))
    BY <1>2, <1>5, Zenon DEF NoRepeats, Members
  <1> QED BY <1>1, <1>2, <1>4, <1>5

\* What taking the first element does to a lane.
LEMMA QueueTails ==
  ASSUME NEW S, NEW s \in Seq(S), s # <<>>
  PROVE  /\ Head(s) \in S /\ Head(s) = s[1] /\ 1 \in DOMAIN s
         /\ Tail(s) \in Seq(S)
         /\ Len(Tail(s)) = Len(s) - 1
         /\ \A i \in DOMAIN Tail(s) : i + 1 \in DOMAIN s /\ i \in Nat /\ Tail(s)[i] = s[i + 1] /\ i + 1 # 1
         /\ \A i \in DOMAIN s : i # 1 => i - 1 \in DOMAIN Tail(s) /\ Tail(s)[i - 1] = s[i]
         /\ NoRepeats(s) => Members(Tail(s)) = Members(s) \ {Head(s)} /\ NoRepeats(Tail(s))
PROOF
  <1>1. /\ Head(s) \in S /\ Head(s) = s[1] /\ 1 \in DOMAIN s
        /\ Tail(s) \in Seq(S)
        /\ Len(Tail(s)) = Len(s) - 1
    OBVIOUS
  <1>2. \A i \in DOMAIN Tail(s) : i + 1 \in DOMAIN s /\ i \in Nat /\ Tail(s)[i] = s[i + 1] /\ i + 1 # 1
    OBVIOUS
  <1>3. \A i \in DOMAIN s : i # 1 => i - 1 \in DOMAIN Tail(s) /\ Tail(s)[i - 1] = s[i]
    OBVIOUS
  <1>4. ASSUME NoRepeats(s) PROVE Members(Tail(s)) = Members(s) \ {Head(s)}
    <2>1. ASSUME NEW c \in Members(Tail(s)) PROVE c \in Members(s) \ {Head(s)}
      <3>1. PICK i \in DOMAIN Tail(s) : c = Tail(s)[i]
        BY <2>1 DEF Members
      <3>2. i + 1 \in DOMAIN s /\ c = s[i + 1] /\ i + 1 # 1
        BY <1>2, <3>1
      <3> QED BY <1>1, <1>4, <3>2, Zenon DEF Members, NoRepeats
    <2>2. ASSUME NEW c \in Members(s) \ {Head(s)} PROVE c \in Members(Tail(s))
      <3>1. PICK i \in DOMAIN s : c = s[i]
        BY <2>2 DEF Members
      <3>2. i # 1
        BY <1>1, <2>2, <3>1
      <3> QED BY <1>3, <3>1, <3>2, Zenon DEF Members
    <2> QED BY <2>1, <2>2
  <1>5. ASSUME NoRepeats(s) PROVE NoRepeats(Tail(s))
    <2> SUFFICES ASSUME NEW i \in DOMAIN Tail(s), NEW j \in DOMAIN Tail(s), Tail(s)[i] = Tail(s)[j]
                 PROVE  i = j
      BY DEF NoRepeats
    <2>1. i + 1 = j + 1
      BY <1>2, <1>5, Zenon DEF NoRepeats
    <2> QED BY <1>2, <2>1
  <1> QED BY <1>1, <1>2, <1>3, <1>4, <1>5

-----------------------------------------------------------------------------
(* The inductive invariant *)

\* A new mailbox satisfies the invariant.
LEMMA QueueInvInit == QueueInit => QueueInv
PROOF
  <1> SUFFICES ASSUME QueueInit PROVE QueueInv
    OBVIOUS
  <1>1. QueueTypeOK
    <2>1. items \in Seq(MainCommands) /\ criticalItems \in Seq(WorkerCommands)
      BY DEF QueueInit
    <2>2. outcome \in [Commands -> Waiting \cup Answered]
      BY DEF QueueInit, Answered
    <2>3. drain \in [Drainers -> {"none", "waiting", "drained", "capped"}]
      BY DEF QueueInit
    <2> QED BY <2>1, <2>2, <2>3, Zenon DEF QueueInit, QueueTypeOK
  <1>2. Members(items) = {} /\ Members(criticalItems) = {}
    BY DEF QueueInit, Members
  <1>3. NothingStranded
    BY <1>2, SessionQueueAssumption DEF QueueInit, NothingStranded, QueueIdle, Commands
  <1>4. MainOwed <= Limit
    BY SessionQueueAssumption DEF QueueInit, MainOwed
  <1>5. before = {} /\ items = <<>> /\ criticalItems = <<>>
    BY DEF QueueInit
  <1> QED
    BY <1>1, <1>3, <1>4, <1>5 DEF QueueInv, NoRepeats, LaneInOrder, LanesInOrder

\* A command admitted by #refusal joins the queue and breaks nothing.
LEMMA SubmitKeepsInv ==
  ASSUME QueueInv,
         NEW c \in Commands, outcome[c] \in Answered,
         NEW critical \in BOOLEAN, critical <=> c \in WorkerCommands,
         ~closed, critical \/ Depth < Limit,
         Submit(c, critical), UNCHANGED <<awaiting, closed, drain>>
  PROVE  QueueInv'
PROOF
  <1> USE DEF Commands
  <1>a. /\ c \notin Outstanding /\ c # running
        /\ c \notin Members(items) /\ c \notin Members(criticalItems)
    BY DEF QueueInv, NothingStranded, Outstanding, Answered, Waiting
  <1>1. CASE running = NoCommand
    <2>1. /\ running' = c /\ items' = items /\ criticalItems' = criticalItems
          /\ outcome' = [outcome EXCEPT ![c] = "running"]
          /\ items = <<>> /\ criticalItems = <<>>
          /\ before' = before \cup (Outstanding \X {c})
      BY <1>1 DEF Submit, QueueInv, NothingStranded
    <2>2. Outstanding = {}
      BY <1>1, <2>1, SessionQueueAssumption DEF QueueInv, NothingStranded, Outstanding, Waiting, Members
    <2>3. before' = {}
      BY <2>1, <2>2 DEF QueueInv
    <2>4. QueueTypeOK'
      BY <2>1, <2>3 DEF QueueInv, QueueTypeOK, Waiting
    <2>5. NothingStranded'
      BY <1>1, <2>1, SessionQueueAssumption DEF QueueInv, NothingStranded, QueueTypeOK, QueueIdle, Members
    <2>6. MainOwed' <= Limit
      BY <2>1, SessionQueueAssumption DEF MainOwed
    <2> QED
      BY <2>1, <2>3, <2>4, <2>5, <2>6 DEF QueueInv, NoRepeats, LaneInOrder, LanesInOrder
  <1>2. CASE running # NoCommand
    <2>1. /\ running' = running
          /\ outcome' = [outcome EXCEPT ![c] = "queued"]
          /\ items' = IF critical THEN items ELSE Append(items, c)
          /\ criticalItems' = IF critical THEN Append(criticalItems, c) ELSE criticalItems
          /\ before' = before \cup (Outstanding \X {c})
      BY <1>2 DEF Submit
    <2>2. items \in Seq(MainCommands) /\ criticalItems \in Seq(WorkerCommands)
      BY DEF QueueInv, QueueTypeOK
    <2>3. /\ items' \in Seq(MainCommands) /\ criticalItems' \in Seq(WorkerCommands)
          /\ NoRepeats(items)' /\ NoRepeats(criticalItems)'
          /\ Members(items)' \cup Members(criticalItems)' = Members(items) \cup Members(criticalItems) \cup {c}
          /\ items' # <<>> \/ criticalItems' # <<>>
      <3>1. CASE critical
        <4>1. items' = items /\ criticalItems' = Append(criticalItems, c) /\ c \in WorkerCommands
          BY <2>1, <3>1
        <4>2. /\ Append(criticalItems, c) \in Seq(WorkerCommands) /\ Append(criticalItems, c) # <<>>
              /\ Members(Append(criticalItems, c)) = Members(criticalItems) \cup {c}
              /\ NoRepeats(criticalItems) /\ c \notin Members(criticalItems) => NoRepeats(Append(criticalItems, c))
          BY <2>2, <4>1, QueueAppends
        <4>3. /\ Members(criticalItems)' = Members(Append(criticalItems, c)) /\ Members(items)' = Members(items)
              /\ NoRepeats(criticalItems)' <=> NoRepeats(Append(criticalItems, c))
              /\ NoRepeats(items)' <=> NoRepeats(items)
          BY <4>1, Zenon DEF Members, NoRepeats
        <4>4. NoRepeats(items) /\ NoRepeats(criticalItems)
          BY DEF QueueInv
        <4> QED BY <1>a, <2>2, <4>1, <4>2, <4>3, <4>4
      <3>2. CASE ~critical
        <4>1. criticalItems' = criticalItems /\ items' = Append(items, c) /\ c \in MainCommands
          BY <2>1, <3>2
        <4>2. /\ Append(items, c) \in Seq(MainCommands) /\ Append(items, c) # <<>>
              /\ Members(Append(items, c)) = Members(items) \cup {c}
              /\ NoRepeats(items) /\ c \notin Members(items) => NoRepeats(Append(items, c))
          BY <2>2, <4>1, QueueAppends
        <4>3. /\ Members(items)' = Members(Append(items, c)) /\ Members(criticalItems)' = Members(criticalItems)
              /\ NoRepeats(items)' <=> NoRepeats(Append(items, c))
              /\ NoRepeats(criticalItems)' <=> NoRepeats(criticalItems)
          BY <4>1, Zenon DEF Members, NoRepeats
        <4>4. NoRepeats(items) /\ NoRepeats(criticalItems)
          BY DEF QueueInv
        <4> QED BY <1>a, <2>2, <4>1, <4>2, <4>3, <4>4
      <3> QED BY <3>1, <3>2
    <2>4. QueueTypeOK'
      BY <2>1, <2>3 DEF QueueInv, QueueTypeOK, Waiting, Outstanding
    <2>5. NothingStranded'
      <3>1. QueueIdle' = FALSE
        BY <1>2, <2>1 DEF QueueIdle
      <3>2. \A d \in Commands : outcome'[d] = "queued" <=> d \in Members(items)' \cup Members(criticalItems)'
        BY <2>1, <2>3 DEF QueueInv, NothingStranded, QueueTypeOK
      <3>3. \A d \in Commands : outcome'[d] = "running" <=> d = running'
        BY <1>a, <2>1 DEF QueueInv, NothingStranded, QueueTypeOK
      <3> QED BY <1>2, <2>1, <3>1, <3>2, <3>3 DEF NothingStranded
    <2>6. before' \subseteq Outstanding' \X Outstanding'
      BY <2>1 DEF QueueInv, QueueTypeOK, Outstanding, Waiting
    <2>7. LanesInOrder'
      BY <1>a, <2>1 DEF QueueInv, LanesInOrder
    <2>8. MainOwed' <= Limit
      <3>1. CASE critical
        BY <2>1, <3>1 DEF QueueInv, MainOwed
      <3>2. CASE ~critical
        <4>1. items' = Append(items, c) /\ c \in MainCommands /\ Depth < Limit
          BY <2>1, <3>2
        <4>2. Len(items') = Len(items) + 1
          BY <2>2, <4>1, QueueAppends
        <4>3. Len(items) \in Nat /\ Len(criticalItems) \in Nat
          BY <2>2
        <4>4. Len(items) + Len(criticalItems) + 1 < Limit
          BY <1>2, <4>1 DEF Depth
        <4>5. MainOwed' <= Len(items) + 2
          BY <4>2, <4>3 DEF MainOwed
        <4>6. MainOwed' \in Nat
          BY <4>2, <4>3 DEF MainOwed
        <4> QED BY <4>3, <4>4, <4>5, <4>6, SessionQueueAssumption
      <3> QED BY <3>1, <3>2
    <2>9. ASSUME NEW S, NEW s \in Seq(S), LaneInOrder(s), c \notin Members(s)
          PROVE  \A i, j \in DOMAIN s : <<s[i], s[j]>> \in before' => i < j
      BY <2>1, <2>9 DEF LaneInOrder, Members
    <2>10. ASSUME NEW S, NEW s \in Seq(S), c \in S, LaneInOrder(s), c \notin Members(s),
                  NEW t, t = Append(s, c)
           PROVE  \A i, j \in DOMAIN t : <<t[i], t[j]>> \in before' => i < j
      <3> SUFFICES ASSUME NEW i \in DOMAIN t, NEW j \in DOMAIN t, <<t[i], t[j]>> \in before'
                   PROVE  i < j
        OBVIOUS
      <3>1. /\ \/ i \in DOMAIN s /\ t[i] = s[i]
               \/ i = Len(s) + 1 /\ t[i] = c
            /\ \/ j \in DOMAIN s /\ t[j] = s[j]
               \/ j = Len(s) + 1 /\ t[j] = c
        BY <2>10, QueueAppends
      <3>2. t[i] # c
        BY <1>a, <2>1 DEF QueueInv
      <3>3. i \in DOMAIN s /\ t[i] = s[i]
        BY <3>1, <3>2
      <3>4. CASE j \in DOMAIN s /\ t[j] = s[j]
        BY <2>9, <2>10, <3>3, <3>4
      <3>5. CASE j = Len(s) + 1
        BY <2>10, <3>3, <3>5
      <3> QED BY <3>1, <3>4, <3>5
    <2>11. LaneInOrder(items)' /\ LaneInOrder(criticalItems)'
      <3>1. LaneInOrder(items) /\ LaneInOrder(criticalItems)
        BY DEF QueueInv
      <3>2. CASE critical
        <4>1. items' = items /\ criticalItems' = Append(criticalItems, c) /\ c \in WorkerCommands
          BY <2>1, <3>2
        <4> QED BY <1>a, <2>2, <2>9, <2>10, <3>1, <4>1 DEF LaneInOrder
      <3>3. CASE ~critical
        <4>1. criticalItems' = criticalItems /\ items' = Append(items, c) /\ c \in MainCommands
          BY <2>1, <3>3
        <4> QED BY <1>a, <2>2, <2>9, <2>10, <3>1, <4>1 DEF LaneInOrder
      <3> QED BY <3>2, <3>3
    <2> QED
      BY <2>3, <2>4, <2>5, <2>6, <2>7, <2>8, <2>11 DEF QueueInv
  <1> QED BY <1>1, <1>2

\* A caller told at once leaves the queue as it was.
LEMMA TellKeepsInv ==
  ASSUME QueueInv,
         NEW c \in Commands, outcome[c] \in Answered, NEW told \in Answered,
         outcome' = [outcome EXCEPT ![c] = told],
         UNCHANGED <<items, criticalItems, running, awaiting, closed, drain, before>>
  PROVE  QueueInv'
PROOF
  <1>1. Outstanding' = Outstanding
    BY DEF QueueInv, QueueTypeOK, Outstanding, Waiting, Answered
  <1>2. QueueTypeOK'
    BY DEF QueueInv, QueueTypeOK
  <1>3. NothingStranded'
    <2>1. /\ outcome[c] # "queued" /\ outcome[c] # "running"
          /\ told # "queued" /\ told # "running"
      BY DEF Answered
    <2>2. /\ \A d \in Commands : outcome'[d] = "queued" <=> outcome[d] = "queued"
          /\ \A d \in Commands : outcome'[d] = "running" <=> outcome[d] = "running"
      BY <2>1 DEF QueueInv, QueueTypeOK
    <2> QED BY <2>2 DEF QueueInv, NothingStranded, QueueIdle, Members
  <1> QED
    BY <1>1, <1>2, <1>3
    DEF QueueInv, NoRepeats, LaneInOrder, LanesInOrder, MainOwed

\* One turn of the pump's loop keeps the invariant: the command it takes is the
\* first of its lane, and no other of that lane was admitted before it.
LEMMA CompleteKeepsInv ==
  ASSUME QueueInv, Complete
  PROVE  QueueInv'
PROOF
  <1> USE DEF Commands
  <1>1. /\ running \in Commands /\ running # NoCommand /\ UNCHANGED closed
        /\ awaiting' = NoCommand
        /\ before' = Still(Outstanding \ {running})
        /\ drain' = [d \in Drainers |-> IF running' = NoCommand /\ drain[d] = "waiting" THEN "drained" ELSE drain[d]]
    BY DEF Complete, QueueInv, QueueTypeOK, SettleDrain
  <1>2. PICK told \in {"resolved", "failed"} :
          outcome' = [c \in Commands |-> CASE c = running -> told
                                           [] c = running' -> "running"
                                           [] OTHER -> outcome[c]]
    BY DEF Complete
  <1>3. items \in Seq(MainCommands) /\ criticalItems \in Seq(WorkerCommands)
    BY DEF QueueInv, QueueTypeOK
  <1>4. running \notin Members(items) /\ running \notin Members(criticalItems)
    BY <1>1 DEF QueueInv, NothingStranded
  <1>5. Members(items) \subseteq MainCommands /\ Members(criticalItems) \subseteq WorkerCommands
    BY <1>3 DEF Members
  \* What the pump takes, and what it leaves.
  <1>6. /\ items' \in Seq(MainCommands) /\ criticalItems' \in Seq(WorkerCommands)
        /\ NoRepeats(items)' /\ NoRepeats(criticalItems)'
        /\ Members(items)' \cup Members(criticalItems)'
             = (Members(items) \cup Members(criticalItems)) \ {running'}
        /\ running' = NoCommand \/ running' \in Members(items) \cup Members(criticalItems)
        /\ running' = NoCommand => items' = <<>> /\ criticalItems' = <<>>
        /\ closed => running' = NoCommand
        /\ MainOwed' <= Limit
        /\ LaneInOrder(items)' /\ LaneInOrder(criticalItems)'
        /\ LanesInOrder'
    <2>a. /\ LaneInOrder(items) /\ LaneInOrder(criticalItems)
          /\ NoRepeats(items) /\ NoRepeats(criticalItems)
          /\ before \subseteq Outstanding \X Outstanding
          /\ before' \subseteq before
          /\ \A pair \in before' : pair[1] # running /\ pair[2] # running
          /\ closed => items = <<>> /\ criticalItems = <<>>
      BY <1>1 DEF QueueInv, NothingStranded, Still
    <2>b. Outstanding = Members(items) \cup Members(criticalItems) \cup {running}
      BY <1>1, <1>5 DEF QueueInv, NothingStranded, Outstanding, Waiting
    <2>c. ASSUME NEW S, NEW s \in Seq(S), s # <<>>, LaneInOrder(s), NEW t, t = Tail(s)
          PROVE  \A i, j \in DOMAIN t : <<t[i], t[j]>> \in before' => i < j
      <3> SUFFICES ASSUME NEW i \in DOMAIN t, NEW j \in DOMAIN t, <<t[i], t[j]>> \in before'
                   PROVE  i < j
        OBVIOUS
      <3>1. /\ i + 1 \in DOMAIN s /\ i \in Nat /\ t[i] = s[i + 1]
            /\ j + 1 \in DOMAIN s /\ j \in Nat /\ t[j] = s[j + 1]
        BY <2>c, QueueTails
      <3>2. i + 1 < j + 1
        BY <2>a, <2>c, <3>1 DEF LaneInOrder
      <3> QED BY <3>1, <3>2
    <2>d. ASSUME NEW S, NEW s \in Seq(S), s # <<>>, LaneInOrder(s), NEW c \in Members(s)
          PROVE  <<c, Head(s)>> \notin before'
      <3>1. PICK i \in DOMAIN s : c = s[i]
        BY <2>d DEF Members
      <3>2. Head(s) = s[1] /\ 1 \in DOMAIN s /\ i \in Nat /\ i >= 1
        BY <2>d, QueueTails
      <3>3. <<s[i], s[1]>> \in before => i < 1
        BY <2>d, <3>2 DEF LaneInOrder
      <3> QED BY <2>a, <3>1, <3>2, <3>3
    <2>1. CASE criticalItems # <<>>
      <3>1. running' = Head(criticalItems) /\ criticalItems' = Tail(criticalItems) /\ items' = items
        BY <2>1 DEF Complete, TakeNext
      <3>2. /\ running' \in WorkerCommands /\ criticalItems' \in Seq(WorkerCommands)
            /\ Members(criticalItems)' = Members(criticalItems) \ {running'}
            /\ NoRepeats(criticalItems)'
            /\ running' \in Members(criticalItems)
        <4>1. /\ Head(criticalItems) \in WorkerCommands /\ Tail(criticalItems) \in Seq(WorkerCommands)
              /\ NoRepeats(criticalItems) =>
                   /\ Members(Tail(criticalItems)) = Members(criticalItems) \ {Head(criticalItems)}
                   /\ NoRepeats(Tail(criticalItems))
              /\ Head(criticalItems) = criticalItems[1] /\ 1 \in DOMAIN criticalItems
          BY <1>3, <2>1, QueueTails
        <4>2. Head(criticalItems) \in Members(criticalItems)
          BY <4>1 DEF Members
        <4>3. /\ Members(criticalItems)' = Members(Tail(criticalItems))
              /\ NoRepeats(criticalItems)' <=> NoRepeats(Tail(criticalItems))
          BY <3>1, Zenon DEF Members, NoRepeats
        <4> QED BY <2>a, <3>1, <4>1, <4>2, <4>3
      <3>3. running' \notin MainCommands /\ running' # NoCommand
        BY <3>2, SessionQueueAssumption
      <3>4. MainOwed' <= Limit
        <4>1. Len(items) \in Nat /\ MainOwed <= Limit
          BY <1>3 DEF QueueInv
        <4>2. MainOwed' = Len(items)
          BY <3>1, <3>3, <4>1 DEF MainOwed
        <4>3. Len(items) <= MainOwed /\ MainOwed \in Nat
          BY <4>1 DEF MainOwed
        <4> QED BY <4>1, <4>2, <4>3, SessionQueueAssumption
      <3>5. LaneInOrder(items)' /\ LaneInOrder(criticalItems)'
        BY <1>3, <2>a, <2>c, <2>1, <3>1 DEF LaneInOrder
      <3>6. LanesInOrder'
        <4> SUFFICES ASSUME NEW c \in Commands, <<c, running'>> \in before', SameLane(c, running')
                     PROVE  FALSE
          BY DEF LanesInOrder, SameLane
        <4>1. c \in WorkerCommands
          BY <3>3 DEF SameLane
        <4>2. c \in Outstanding /\ c # running
          BY <2>a
        <4>3. c \in Members(criticalItems)
          BY <1>5, <2>b, <4>1, <4>2, SessionQueueAssumption
        <4> QED BY <1>3, <2>a, <2>d, <2>1, <3>1, <4>3
      <3>7. Members(items)' = Members(items) /\ running' \notin Members(items)
        BY <1>5, <3>1, <3>3 DEF Members
      <3> QED BY <1>3, <2>a, <2>1, <3>1, <3>2, <3>3, <3>4, <3>5, <3>6, <3>7 DEF NoRepeats
    <2>2. CASE criticalItems = <<>> /\ items # <<>>
      <3>1. running' = Head(items) /\ items' = Tail(items) /\ criticalItems' = criticalItems
        BY <2>2 DEF Complete, TakeNext
      <3>2. /\ running' \in MainCommands /\ items' \in Seq(MainCommands)
            /\ Members(items)' = Members(items) \ {running'}
            /\ NoRepeats(items)'
            /\ running' \in Members(items)
        BY <1>3, <2>a, <2>2, <3>1, QueueTails DEF Members, NoRepeats
      <3>8. Len(items') = Len(items) - 1
        BY <1>3, <2>2, <3>1, QueueTails
      <3>3. running' \notin WorkerCommands /\ running' # NoCommand
        BY <3>2, SessionQueueAssumption
      <3>4. MainOwed' <= Limit
        <4>1. Len(items) \in Nat /\ MainOwed <= Limit
          BY <1>3 DEF QueueInv
        <4>2. MainOwed' = Len(items)
          BY <3>2, <3>8, <4>1 DEF MainOwed
        <4>3. Len(items) <= MainOwed /\ MainOwed \in Nat
          BY <4>1 DEF MainOwed
        <4> QED BY <4>1, <4>2, <4>3, SessionQueueAssumption
      <3>5. LaneInOrder(items)' /\ LaneInOrder(criticalItems)'
        BY <1>3, <2>a, <2>c, <2>2, <3>1 DEF LaneInOrder
      <3>6. LanesInOrder'
        <4> SUFFICES ASSUME NEW c \in Commands, <<c, running'>> \in before', SameLane(c, running')
                     PROVE  FALSE
          BY DEF LanesInOrder, SameLane
        <4>1. c \in MainCommands
          BY <3>3 DEF SameLane
        <4>2. c \in Outstanding /\ c # running
          BY <2>a
        <4>3. c \in Members(items)
          BY <1>5, <2>b, <4>1, <4>2, SessionQueueAssumption
        <4> QED BY <1>3, <2>a, <2>d, <2>2, <3>1, <4>3
      <3>7. Members(criticalItems)' = Members(criticalItems) /\ running' \notin Members(criticalItems)
        BY <1>5, <3>1, <3>3 DEF Members
      <3> QED BY <1>3, <2>a, <2>2, <3>1, <3>2, <3>3, <3>4, <3>5, <3>6, <3>7 DEF NoRepeats
    <2>3. CASE criticalItems = <<>> /\ items = <<>>
      <3>1. running' = NoCommand /\ items' = items /\ criticalItems' = criticalItems
        BY <2>3 DEF Complete, TakeNext
      <3>2. Members(items) = {} /\ Members(criticalItems) = {}
        BY <2>3 DEF Members
      <3>3. MainOwed' <= Limit
        BY <2>3, <3>1, SessionQueueAssumption DEF MainOwed
      <3>4. before' = {}
        BY <2>a, <2>b, <3>2
      <3> QED
        BY <1>3, <2>a, <2>3, <3>1, <3>2, <3>3, <3>4 DEF NoRepeats, LaneInOrder, LanesInOrder, Members
    <2> QED BY <2>1, <2>2, <2>3
  <1>7. running' \in Commands \cup {NoCommand} /\ running' # running
    BY <1>1, <1>4, <1>5, <1>6
  <1>8. QueueTypeOK'
    <2>1. outcome' \in [Commands -> Waiting \cup Answered]
      BY <1>2 DEF QueueInv, QueueTypeOK, Waiting, Answered
    <2>2. drain' \in [Drainers -> {"none", "waiting", "drained", "capped"}]
      BY <1>1 DEF QueueInv, QueueTypeOK
    <2>3. before' \subseteq Commands \X Commands
      BY <1>1 DEF QueueInv, QueueTypeOK, Still
    <2> QED BY <1>1, <1>6, <1>7, <2>1, <2>2, <2>3 DEF QueueInv, QueueTypeOK
  <1>9. NothingStranded'
    <2>1. ASSUME NEW c \in Commands
          PROVE  /\ outcome'[c] = "queued" <=> c \in Members(items)' \cup Members(criticalItems)'
                 /\ outcome'[c] = "running" <=> c = running'
      <3>1. CASE c = running
        <4>1. outcome'[c] = told
          BY <1>2, <1>7, <3>1
        <4>2. told # "queued" /\ told # "running"
          OBVIOUS
        <4> QED BY <1>4, <1>6, <1>7, <3>1, <4>1, <4>2
      <3>2. CASE c = running' /\ c # running
        <4>1. outcome'[c] = "running"
          BY <1>2, <3>2
        <4> QED BY <1>6, <3>2, <4>1
      <3>3. CASE c # running' /\ c # running
        <4>1. outcome'[c] = outcome[c]
          BY <1>2, <3>3
        <4>2. outcome[c] # "running"
          BY <3>3 DEF QueueInv, NothingStranded
        <4>3. outcome[c] = "queued" <=> c \in Members(items) \cup Members(criticalItems)
          BY DEF QueueInv, NothingStranded
        <4> QED BY <1>6, <3>3, <4>1, <4>2, <4>3
      <3> QED BY <3>1, <3>2, <3>3
    <2>2. \A d \in Drainers : drain'[d] = "waiting" => ~QueueIdle'
      BY <1>1 DEF QueueIdle
    <2>3. closed' => items' = <<>> /\ criticalItems' = <<>>
      BY <1>1, <1>6
    <2> QED BY <1>6, <2>1, <2>2, <2>3 DEF NothingStranded
  <1>10. before' \subseteq Outstanding' \X Outstanding'
    <2>1. \A c \in Outstanding \ {running} : c \in Outstanding'
      BY <1>2 DEF Outstanding, Waiting
    <2>2. before' \subseteq (Outstanding \ {running}) \X (Outstanding \ {running})
      BY <1>1 DEF QueueInv, Still
    <2> QED BY <2>1, <2>2
  <1> QED BY <1>6, <1>8, <1>9, <1>10 DEF QueueInv

\* closeWith() leaves no command waiting and no drain() behind.
LEMMA CloseKeepsInv ==
  ASSUME QueueInv, CloseWith
  PROVE  QueueInv'
PROOF
  <1>1. /\ items' = <<>> /\ criticalItems' = <<>> /\ before' = {}
        /\ running' = running /\ awaiting' = awaiting /\ closed' = TRUE
        /\ outcome' = [c \in Commands |-> IF outcome[c] = "queued" THEN "closed" ELSE outcome[c]]
        /\ drain' = [d \in Drainers |-> IF running = NoCommand /\ drain[d] = "waiting" THEN "drained" ELSE drain[d]]
    BY DEF CloseWith, SettleDrain
  <1>2. Members(items)' = {} /\ Members(criticalItems)' = {}
    BY <1>1 DEF Members
  <1>3. QueueTypeOK'
    <2>1. outcome' \in [Commands -> Waiting \cup Answered]
      BY <1>1 DEF QueueInv, QueueTypeOK, Answered
    <2>2. drain' \in [Drainers -> {"none", "waiting", "drained", "capped"}]
      BY <1>1 DEF QueueInv, QueueTypeOK
    <2>3. items' \in Seq(MainCommands) /\ criticalItems' \in Seq(WorkerCommands)
      BY <1>1
    <2> QED BY <1>1, <2>1, <2>2, <2>3 DEF QueueInv, QueueTypeOK
  <1>4. NothingStranded'
    <2>1. \A c \in Commands : outcome'[c] # "queued"
      BY <1>1
    <2>2. \A c \in Commands : outcome'[c] = "running" <=> c = running'
      BY <1>1 DEF QueueInv, NothingStranded
    <2>3. \A d \in Drainers : drain'[d] = "waiting" => ~QueueIdle'
      BY <1>1 DEF QueueIdle
    <2> QED BY <1>1, <1>2, <2>1, <2>2, <2>3 DEF NothingStranded
  <1>5. MainOwed' <= Limit
    BY <1>1, SessionQueueAssumption DEF MainOwed
  <1> QED
    BY <1>1, <1>3, <1>4, <1>5 DEF QueueInv, NoRepeats, LaneInOrder, LanesInOrder

\* A drain() only looks at the queue.
LEMMA DrainKeepsInv ==
  ASSUME QueueInv, NEW d \in Drainers, DrainQueue(d) \/ DrainTimeout(d)
  PROVE  QueueInv'
PROOF
  <1>1. /\ UNCHANGED <<items, criticalItems, running, awaiting, closed, outcome, before>>
        /\ drain' \in [Drainers -> {"none", "waiting", "drained", "capped"}]
        /\ \A e \in Drainers : drain'[e] = "waiting" => ~QueueIdle
    BY DEF DrainQueue, DrainTimeout, QueueInv, QueueTypeOK, NothingStranded
  <1> QED
    BY <1>1
    DEF QueueInv, QueueTypeOK, NothingStranded, NoRepeats, LaneInOrder, LanesInOrder, MainOwed,
        Outstanding, Members, QueueIdle

\* Every call and every turn of the pump keeps the invariant.
LEMMA NextKeepsInv ==
  ASSUME QueueInv, [QueueNext]_queueVars
  PROVE  QueueInv'
PROOF
  <1> USE DEF Commands
  <1>1. ASSUME NEW c \in MainCommands, Run(c) PROVE QueueInv'
    <2>1. outcome[c] \in Answered /\ UNCHANGED <<awaiting, closed, drain>> /\ c \notin WorkerCommands
      BY <1>1, SessionQueueAssumption DEF Run
    <2>2. CASE Refused(Limit)
      <3>1. Refuse(c)
        BY <1>1, <2>2 DEF Run
      <3> QED BY <2>1, <3>1, TellKeepsInv DEF Refuse, Answered
    <2>3. CASE ~Refused(Limit)
      <3>1. Submit(c, FALSE)
        BY <1>1, <2>3 DEF Run
      <3>2. ~closed /\ ~(Depth >= Limit)
        BY <2>3 DEF Refused
      <3>3. Depth < Limit
        <4>1. Depth \in Nat
          BY DEF QueueInv, QueueTypeOK, Depth
        <4> QED BY <3>2, <4>1, SessionQueueAssumption
      <3> QED BY <2>1, <3>1, <3>2, <3>3, SubmitKeepsInv
    <2> QED BY <2>2, <2>3
  <1>2. ASSUME NEW c \in MainCommands, RunInside(c) PROVE QueueInv'
    BY <1>2, TellKeepsInv DEF RunInside, Answered
  <1>3. ASSUME NEW c \in WorkerCommands, Offer(c) PROVE QueueInv'
    <2>1. outcome[c] \in Answered /\ UNCHANGED <<awaiting, closed, drain>>
      BY <1>3 DEF Offer
    <2>2. CASE Refused(Limit + Reserve)
      <3>1. Refuse(c)
        BY <1>3, <2>2 DEF Offer
      <3> QED BY <2>1, <3>1, TellKeepsInv DEF Refuse, Answered
    <2>3. CASE ~Refused(Limit + Reserve)
      BY <1>3, <2>1, <2>3, SubmitKeepsInv DEF Offer, Refused
    <2> QED BY <2>2, <2>3
  <1>4. ASSUME NEW c \in WorkerCommands, Post(c) PROVE QueueInv'
    <2>1. outcome[c] \in Answered /\ UNCHANGED <<awaiting, closed, drain>>
      BY <1>4 DEF Post
    <2>2. CASE closed
      <3>1. Refuse(c)
        BY <1>4, <2>2 DEF Post
      <3> QED BY <2>1, <3>1, TellKeepsInv DEF Refuse, Answered
    <2>3. CASE ~closed
      BY <1>4, <2>1, <2>3, SubmitKeepsInv DEF Post
    <2> QED BY <2>2, <2>3
  <1>5. CASE Complete
    BY <1>5, CompleteKeepsInv
  <1>6. CASE CloseWith
    BY <1>6, CloseKeepsInv
  <1>7. ASSUME NEW d \in Drainers, DrainQueue(d) \/ DrainTimeout(d) PROVE QueueInv'
    BY <1>7, DrainKeepsInv
  <1>8. CASE UNCHANGED queueVars
    BY <1>8
    DEF queueVars, QueueInv, QueueTypeOK, NothingStranded, NoRepeats, LaneInOrder, LanesInOrder, MainOwed,
        Outstanding, Members, QueueIdle
  <1> QED
    BY <1>1, <1>2, <1>3, <1>4, <1>5, <1>6, <1>7, <1>8 DEF QueueNext

\* The inductive invariant holds in every state of the mailbox.
THEOREM QueueInvariant == QueueSpec => []QueueInv
PROOF
  <1>1. QueueInit => QueueInv
    BY QueueInvInit
  <1>2. QueueInv /\ [QueueNext]_queueVars => QueueInv'
    BY NextKeepsInv
  <1> QED BY <1>1, <1>2, PTL DEF QueueSpec

-----------------------------------------------------------------------------
(* The properties *)

\* Every command waits, once, in a queue whose pump is alive, or has been told
\* its outcome; no drain() waits on an idle queue.
THEOREM NothingIsStranded == QueueSpec => [](QueueTypeOK /\ NothingStranded)
PROOF
  <1>1. QueueInv => QueueTypeOK /\ NothingStranded
    BY DEF QueueInv
  <1> QED BY <1>1, QueueInvariant, PTL

\* Each lane is served in the order in which it admitted its commands.
THEOREM LanesServedInOrder == QueueSpec => []LanesInOrder
PROOF
  <1>1. QueueInv => LanesInOrder
    BY DEF QueueInv
  <1> QED BY <1>1, QueueInvariant, PTL

\* No number of Main's commands makes an open queue refuse an offer.
THEOREM ReserveIsKept == QueueSpec => ReserveHolds
PROOF
  <1>1. ASSUME QueueInv, [QueueNext]_queueVars, NEW c \in WorkerCommands,
               outcome[c] # "refused", outcome'[c] = "refused", ~closed
        PROVE  WorkerOwed >= Reserve
    <2>1. c \in Commands /\ c \notin MainCommands
      BY SessionQueueAssumption DEF Commands
    <2>4. Refused(Limit + Reserve)
      <3>1. ASSUME NEW b \in MainCommands, Run(b) \/ RunInside(b) PROVE FALSE
        BY <1>1, <2>1, <3>1 DEF Run, RunInside, Refuse, Submit, QueueInv, QueueTypeOK
      <3>2. ASSUME NEW b \in WorkerCommands, Post(b) PROVE FALSE
        BY <1>1, <2>1, <3>2 DEF Post, Refuse, Submit, QueueInv, QueueTypeOK
      <3>3. ASSUME NEW b \in WorkerCommands, Offer(b) PROVE Refused(Limit + Reserve)
        BY <1>1, <2>1, <3>3 DEF Offer, Submit, QueueInv, QueueTypeOK
      <3>4. CASE Complete
        <4>1. PICK told \in {"resolved", "failed"} :
                outcome' = [d \in Commands |-> CASE d = running -> told
                                                 [] d = running' -> "running"
                                                 [] OTHER -> outcome[d]]
          BY <3>4 DEF Complete
        <4>2. outcome'[c] \in {told, "running", outcome[c]}
          BY <2>1, <4>1
        <4> QED BY <1>1, <4>2
      <3>5. CASE CloseWith
        BY <1>1, <2>1, <3>5 DEF CloseWith
      <3>6. ASSUME NEW d \in Drainers, DrainQueue(d) \/ DrainTimeout(d) PROVE FALSE
        BY <1>1, <3>6 DEF DrainQueue, DrainTimeout
      <3>7. CASE UNCHANGED queueVars
        BY <1>1, <3>7 DEF queueVars
      <3> QED BY <1>1, <3>1, <3>2, <3>3, <3>4, <3>5, <3>6, <3>7 DEF QueueNext
    <2>5. Depth >= Limit + Reserve
      BY <1>1, <2>4 DEF Refused
    <2>6. /\ Len(items) \in Nat /\ Len(criticalItems) \in Nat
          /\ MainOwed <= Limit
          /\ running \in MainCommands \cup WorkerCommands \cup {NoCommand}
      BY <1>1 DEF QueueInv, QueueTypeOK, Commands
    <2>7. CASE running \in MainCommands
      BY <2>5, <2>6, <2>7, SessionQueueAssumption DEF Depth, MainOwed, WorkerOwed
    <2>8. CASE running \in WorkerCommands
      BY <2>5, <2>6, <2>8, SessionQueueAssumption DEF Depth, MainOwed, WorkerOwed
    <2>9. CASE running = NoCommand
      BY <2>5, <2>6, <2>9, SessionQueueAssumption DEF Depth, MainOwed, WorkerOwed
    <2> QED BY <2>6, <2>7, <2>8, <2>9
  <1>2. QueueInv /\ [QueueNext]_queueVars
          => [\A c \in WorkerCommands :
                outcome[c] # "refused" /\ outcome'[c] = "refused" /\ ~closed => WorkerOwed >= Reserve]_queueVars
    BY <1>1
  <1> QED BY <1>2, QueueInvariant, PTL DEF QueueSpec, ReserveHolds

\* Nothing wakes up behind a close.
THEOREM CloseIsFinal == QueueSpec => NothingStartsAfterClose
PROOF
  <1>1. ASSUME QueueInv, [QueueNext]_queueVars, closed PROVE running' \in {running, NoCommand}
    <2>1. items = <<>> /\ criticalItems = <<>>
      BY <1>1 DEF QueueInv, NothingStranded
    <2>2. ASSUME NEW c, Run(c) \/ Offer(c) \/ Post(c) PROVE running' = running
      BY <1>1, <2>2 DEF Run, Offer, Post, Refused, Refuse
    <2>3. CASE Complete
      BY <2>1, <2>3 DEF Complete, TakeNext
    <2> QED
      BY <1>1, <2>2, <2>3 DEF QueueNext, RunInside, CloseWith, DrainQueue, DrainTimeout, queueVars
  <1>2. QueueInv /\ [QueueNext]_queueVars => [closed => running' \in {running, NoCommand}]_queueVars
    BY <1>1
  <1> QED BY <1>2, QueueInvariant, PTL DEF QueueSpec, NothingStartsAfterClose

-----------------------------------------------------------------------------
(***************************************************************************)
(* The event path.  Told is what the client's side knows; a frame is on    *)
(* its way in the client's early frames, the stream or a lane.  IInv says  *)
(* of every connection where its subscribe stands (asked, answered, made), *)
(* and that each event on its way comes behind whatever the client must    *)
(* hear before its cursor may pass it.                                     *)
(***************************************************************************)

Kinds == {"control", "telemetry", "tool", "chunk"}
Entries == [i : Nat, type : Kinds, n : Nat]
Logs == Seq([i : Nat, type : Kinds])

EventFrames == [kind : {"event"}, sub : Nat, n : Nat]
GapFrames == [kind : {"gap"}, sub : Nat, from : Nat, to : Nat]
Tellings == EventFrames \cup GapFrames
Replies == [kind : {"reply"}, id : Nat, ok : BOOLEAN, cursor : Nat, events : Seq(Nat),
            truncated : BOOLEAN, upto : Nat]
AnyFrames == Tellings \cup Replies
Asks == [id : Nat, method : {"subscribe", "unsubscribe"}, cursor : Nat]

-----------------------------------------------------------------------------
(* The ring *)

\* A later state of the tool call of event n is in the log.
Outdated(l, n) == l[n].type = "tool" /\ \E m \in DOMAIN l : m > n /\ l[m].type = "tool"

LogOK(l) == l \in Logs /\ \A n \in DOMAIN l : l[n].i = n - 1

\* What left the ring is below a watermark, or outdated.
RingOK(l, s) ==
  /\ s \in [seq : Nat, ring : Seq(Entries), evicted : Int, lastMessage : Int]
  /\ s.seq = Len(l)
  /\ -1 <= s.evicted /\ s.evicted < s.seq /\ -1 <= s.lastMessage /\ s.lastMessage < s.seq
  /\ \A k \in DOMAIN s.ring : /\ s.ring[k].n \in DOMAIN l
                              /\ s.ring[k].i = s.ring[k].n - 1
                              /\ s.ring[k].type = l[s.ring[k].n].type
  /\ \A j, k \in DOMAIN s.ring : j < k => s.ring[j].i < s.ring[k].i
  /\ \A n \in DOMAIN l : \/ n - 1 <= s.evicted \/ n - 1 <= s.lastMessage
                         \/ Outdated(l, n)
                         \/ \E k \in DOMAIN s.ring : s.ring[k].n = n
  /\ Len(s.ring) <= MaxTelemetry + ControlSlots

-----------------------------------------------------------------------------
(* The channel *)

\* The frames name events of the log.
OfLog(l, s) ==
  \A k \in 1 .. Len(s) : /\ s[k].kind = "event" => s[k].n \in DOMAIN l
                         /\ s[k].kind = "gap" => s[k].from < Len(l)

Channels == [stream : Seq(AnyFrames), high : Seq(Replies), normal : Seq(Tellings),
             low : Seq(EventFrames), blocked : BOOLEAN, failed : BOOLEAN, subs : Seq(Nat)]

ChanType(l, c) ==
  /\ c \in Channels
  /\ OfLog(l, c.stream) /\ OfLog(l, c.normal) /\ OfLog(l, c.low)
  /\ \A k \in 1 .. Len(c.low) : ~Durable(l[c.low[k].n].type)

Budgets(c) ==
  /\ Len(c.low) <= LowBudget /\ Len(c.normal) <= NormalBudget /\ Len(c.high) <= HighBudget
  /\ Len(c.stream) + Queued(c) <= MaxQueue
  /\ ~c.blocked => Queued(c) = 0 /\ Len(c.stream) < HighWater
  /\ Len(c.stream) <= HighWater
  /\ c.failed => c.high = <<>> /\ c.normal = <<>> /\ c.low = <<>> /\ c.subs = <<>>

ChanOK(l, c) == ChanType(l, c) /\ Budgets(c)

\* One subscription speaks on a connection.
ToldOf(id, s) == \A k \in 1 .. Len(s) : s[k].kind # "reply" => s[k].sub = id
OneSub(id, c) ==
  /\ c.subs \in {<<>>, <<id>>}
  /\ ToldOf(id, c.stream) /\ ToldOf(id, c.normal) /\ ToldOf(id, c.low)

-----------------------------------------------------------------------------
(* What is on its way to the client *)

Sent(K, n) == \E f \in K : f.kind = "event" /\ f.n = n
Marked(K, n) == \E f \in K : f.kind = "gap" /\ f.from < n

\* The client knows of event m, or of one that is settled or on its way.
Knows(D, K, m) == m \in D \/ Sent(K, m) \/ Marked(K, m)
Has(C, K, m) == m \in C \/ Sent(K, m)

\* Before event n the client hears, in the frames K, of every event below it
\* that is not settled, and is sent every such control event.
Heard(l, D, C, K, n) ==
  \A m \in 1 .. n - 1 : Knows(D, K, m) /\ (Durable(l[m].type) => Has(C, K, m))

Before(K, s, p) == K \cup {s[q] : q \in 1 .. p - 1}

\* So it is for each event of a sequence that comes behind the frames K.
InOrder(l, D, C, K, s) ==
  \A p \in 1 .. Len(s) : s[p].kind = "event" => Heard(l, D, C, Before(K, s, p), s[p].n)

Ahead(early, c) == Range(early) \cup Range(c.stream)
AheadOfLow(early, c) == Ahead(early, c) \cup Range(c.normal)
OnTheWay(early, c) == AheadOfLow(early, c) \cup Range(c.low)

\* So it is for everything on its way, and for the first N events of the log if
\* the connection is subscribed.
FlowTo(l, N, D, C, early, c) ==
  /\ InOrder(l, D, C, {}, early)
  /\ InOrder(l, D, C, Range(early), c.stream)
  /\ InOrder(l, D, C, Ahead(early, c), c.normal)
  /\ InOrder(l, D, C, AheadOfLow(early, c), c.low)
  /\ c.subs # <<>> => Heard(l, D, C, OnTheWay(early, c), N + 1)

Flow(l, D, C, early, c) == FlowTo(l, Len(l), D, C, early, c)

-----------------------------------------------------------------------------
(* The client *)

\* The events the subscription need not be told of any more.
Settled(l, t) ==
  {n \in DOMAIN l : \/ n \in t.got \cup t.cut \/ Outdated(l, n)
                    \/ t.client.floor # None /\ t.client.floor < n}

\* What a cursor passed is settled.
PassedOK(l, t) ==
  \A n \in DOMAIN l : n <= t.client.cursor =>
    /\ n \in Settled(l, t)
    /\ Durable(l[n].type) => n \in t.got \cup t.cut

ClientType(l, t) ==
  /\ t.client \in [state : {"calling", "live", "ended"}, cursor : Nat, floor : Nat \cup {None},
                   server : Nat \cup {None}, early : Seq(Tellings), pending : Nat \cup {None},
                   reply : Replies \cup {None}, timer : BOOLEAN, requests : Nat]
  /\ t.client.cursor <= Len(l)
  /\ t.client.floor # None => t.client.floor <= Len(l)
  /\ t.client.early = <<>> \/ t.client.server = None
  /\ OfLog(l, t.client.early)
  /\ t.client.server # None => t.client.state = "live"
  /\ t.client.state = "ended" =>
       t.client.pending = None /\ t.client.reply = None /\ t.client.timer = FALSE

\* The answer to a subscribe: what lies between its cursor and its end is in it,
\* outdated, or said to be missing.
ReplyOK(l, r) ==
  /\ r.upto <= Len(l)
  /\ \A k \in DOMAIN r.events : r.events[k] \in 1 .. r.upto
  /\ ~r.truncated =>
       /\ \A j, k \in DOMAIN r.events : j < k => r.events[j] < r.events[k]
       /\ \A n \in 1 .. r.upto : r.cursor < n => n \in Range(r.events) \/ Outdated(l, n)

\* What its events need not be heard of before it is read.
UpTo(l, n) == {m \in DOMAIN l : m <= n \/ Outdated(l, m)}

NoFrame(c) == c.stream = <<>> /\ c.high = <<>> /\ c.normal = <<>> /\ c.low = <<>> /\ c.subs = <<>>

Rests(t) == t.client.floor = None \/ t.client.cursor <= t.client.floor

\* The subscribe is on its way.
Asked(id, t, c, as) ==
  /\ t.client.server = None /\ t.client.reply = None /\ t.client.early = <<>>
  /\ NoFrame(c)
  /\ \E a \in Asks : as = <<a>> /\ a.method = "subscribe" /\ a.id = id /\ a.cursor = t.client.cursor
  /\ Rests(t)

ReplyFits(l, id, t, c, r) ==
  /\ r.id = id /\ r.cursor = t.client.cursor
  /\ r.ok => ReplyOK(l, r) /\ Flow(l, UpTo(l, r.upto), 1 .. r.upto, t.client.early, c)

\* Its answer is, or is lost.
Waits(l, id, t, c, as) ==
  /\ t.client.server = None /\ as = <<>> /\ ToldOf(id, t.client.early)
  /\ \A r \in Range(c.stream) \cup Range(c.high) \cup ({t.client.reply} \ {None}) :
       r \in Replies => ReplyFits(l, id, t, c, r)
  /\ Rests(t)

\* The subscription is made.
Lives(l, id, t, c, as) ==
  /\ t.client.server = id
  /\ \A k \in DOMAIN as : as[k].method = "unsubscribe"
  /\ Flow(l, Settled(l, t), t.got \cup t.cut, <<>>, c)

Connected(l, t, c, as) ==
  \E id \in Nat :
    /\ OneSub(id, c)
    /\ Asked(id, t, c, as) \/ Waits(l, id, t, c, as) \/ Lives(l, id, t, c, as)

Plain(l, s, c, t, as, lk) ==
  /\ LogOK(l) /\ RingOK(l, s) /\ ChanOK(l, c)
  /\ ClientType(l, t) /\ as \in Seq(Asks) /\ lk \in {"down", "up", "closing"}
  /\ lk = "up" => ~c.failed
  /\ lk = "down" => /\ NoFrame(c) /\ as = <<>>
                    /\ t.client.server = None /\ t.client.reply = None /\ t.client.early = <<>>

Linked(l, c, t, as, lk) ==
  t.client.state # "ended" => PassedOK(l, t) /\ (lk # "down" => Connected(l, t, c, as))

IInv ==
  /\ Plain(log, session, chan, Told, asks, link)
  /\ Linked(log, chan, Told, asks, link)

-----------------------------------------------------------------------------
(* Numbers *)

\* A set of numbers has one whose predecessor is not in it, where an argument by
\* the least counterexample goes wrong.
LEMMA LeastOf ==
  ASSUME NEW N \in Nat, NEW B \in SUBSET (0..N), B # {}
  PROVE  \E m \in B : m = 0 \/ m - 1 \notin B
<1> DEFINE S == 0..N
<1> DEFINE Bad == {0..m : m \in B}
<1>1. IsFiniteSet(S) BY FS_Interval
<1>2. Bad \in SUBSET (SUBSET S) /\ Bad # {}
  <2>1. \A m \in B : 0..m \subseteq 0..N OBVIOUS
  <2> QED BY <2>1
<1>3. IsWellFoundedOn(StrictSubsetOrdering(S), SUBSET S)
  BY <1>1, FS_StrictSubsetOrderingWellFounded, FS_FiniteSubsetsOfFinite
<1> HIDE DEF S, Bad
<1>4. PICK T \in Bad : \A U \in Bad : ~(<<U, T>> \in StrictSubsetOrdering(S))
  BY <1>2, <1>3, WFMin
<1>5. PICK m \in B : T = 0..m BY DEF Bad
<1>6. ASSUME m # 0, m - 1 \in B PROVE FALSE
  <2>1. 0..(m - 1) \in Bad BY <1>6 DEF Bad
  <2>2. m \in Nat /\ m \in 0..m /\ m \notin 0..(m - 1) /\ 0..(m - 1) \subseteq 0..m BY <1>6
  <2>3. <<0..(m - 1), T>> \in StrictSubsetOrdering(S)
    BY <1>2, <1>5, <2>1, <2>2 DEF StrictSubsetOrdering
  <2> QED BY <1>4, <2>1, <2>3
<1> QED BY <1>6

\* Min picks from a set of numbers that has a least one.
LEMMA MinIsLeast ==
  ASSUME NEW N \in Nat, NEW S \in SUBSET (1..N), S # {}
  PROVE  Min(S) \in S
<1> DEFINE B == {n \in 0..N : \E x \in S : x <= n}
<1>1. PICK x \in S : TRUE OBVIOUS
<1>2. x \in B OBVIOUS
<1>3. B \in SUBSET (0..N) /\ B # {} BY <1>2
<1>4. PICK m \in B : m = 0 \/ m - 1 \notin B
  <2> HIDE DEF B
  <2> QED BY <1>3, LeastOf
<1>5. PICK y \in S : y <= m OBVIOUS
<1>6. m # 0 /\ m \in 0..N /\ y \in 1..N BY <1>5
<1>7. \A z \in S : y <= z
  <2> SUFFICES ASSUME NEW z \in S, z < y PROVE FALSE BY <1>6
  <2>1. z <= m - 1 /\ m - 1 \in 0..N BY <1>5, <1>6
  <2> QED BY <1>4, <1>6, <2>1
<1> QED BY <1>7 DEF Min

\* Max picks the greatest.
LEMMA MaxIsGreatest ==
  ASSUME NEW N \in Nat, NEW S \in SUBSET ((-1)..N), S # {}
  PROVE  Max(S) \in S /\ \A x \in S : x <= Max(S)
<1> DEFINE B == {n \in 0..(N + 1) : \E x \in S : N - x <= n}
<1>1. PICK x \in S : TRUE OBVIOUS
<1>2. N - x \in 0..(N + 1) OBVIOUS
<1>3. N - x \in B BY <1>2
<1>4. B \in SUBSET (0..(N + 1)) /\ B # {} /\ N + 1 \in Nat BY <1>3
<1>5. PICK m \in B : m = 0 \/ m - 1 \notin B
  <2> HIDE DEF B
  <2> QED BY <1>4, LeastOf
<1>6. PICK y \in S : N - y <= m OBVIOUS
<1>7. m \in 0..(N + 1) /\ y \in (-1)..N OBVIOUS
<1>8. \A z \in S : z <= y
  <2> SUFFICES ASSUME NEW z \in S, z > y PROVE FALSE BY <1>7
  <2>1. z \in (-1)..N OBVIOUS
  <2>2. m # 0 /\ m - 1 \in 0..(N + 1) /\ N - z <= m - 1 BY <1>6, <1>7, <2>1
  <2>3. m - 1 \in B BY <2>2
  <2> QED BY <1>5, <2>2, <2>3
<1>9. \E a \in S : \A b \in S : a >= b
  <2>1. \A b \in S : y >= b BY <1>7, <1>8
  <2> QED BY <2>1
<1>10. Max(S) \in S /\ \A b \in S : Max(S) >= b
  <2> HIDE DEF B
  <2> QED BY ONLY <1>9 DEF Max
<1>11. \A b \in S : b \in (-1)..N OBVIOUS
<1> QED BY ONLY <1>10, <1>11

-----------------------------------------------------------------------------
(* Sequences *)

LEMMA SeqFacts ==
  ASSUME NEW S, NEW s \in Seq(S)
  PROVE  /\ Len(s) \in Nat /\ DOMAIN s = 1..Len(s) /\ \A k \in 1..Len(s) : s[k] \in S
         /\ Range(s) = {s[k] : k \in 1..Len(s)} /\ Range(s) \subseteq S
BY DEF Range

LEMMA AppendFacts ==
  ASSUME NEW S, NEW s \in Seq(S), NEW x \in S
  PROVE  /\ Append(s, x) \in Seq(S) /\ Len(Append(s, x)) = Len(s) + 1
         /\ \A k \in 1..Len(s) : Append(s, x)[k] = s[k]
         /\ Append(s, x)[Len(s) + 1] = x
         /\ Range(Append(s, x)) = Range(s) \cup {x}
<1>1. Len(s) \in Nat OBVIOUS
<1>2. Append(s, x) \in Seq(S) /\ Len(Append(s, x)) = Len(s) + 1
      /\ (\A k \in 1..Len(s) : Append(s, x)[k] = s[k]) /\ Append(s, x)[Len(s) + 1] = x OBVIOUS
<1>3. Range(Append(s, x)) = Range(s) \cup {x}
  <2>1. 1..(Len(s) + 1) = 1..Len(s) \cup {Len(s) + 1} BY <1>1
  <2> DEFINE t == Append(s, x)
  <2>2. Range(s) = {s[k] : k \in 1..Len(s)} /\ Range(t) = {t[k] : k \in 1..(Len(s) + 1)} BY <1>2, SeqFacts
  <2>3. \A k \in 1..Len(s) : t[k] = s[k] BY <1>2
  <2>4. t[Len(s) + 1] = x BY <1>2
  <2> HIDE DEF t
  <2> QED BY <2>1, <2>2, <2>3, <2>4 DEF t
<1> QED BY <1>2, <1>3

\* g says what is kept of each prefix.
KeptBy(g, seq, set) ==
  /\ g[0] = <<>>
  /\ \A n \in 1..Len(seq) : g[n] = IF seq[n] \in set THEN Append(g[n - 1], seq[n]) ELSE g[n - 1]
  /\ Only(seq, set) = g[Len(seq)]

LEMMA OnlyUnfolds ==
  ASSUME NEW seq, NEW set, Len(seq) \in Nat
  PROVE  \E g : KeptBy(g, seq, set)
<1> DEFINE UpTo_(g, n) == g = [k \in 0..n |-> IF k = 0 THEN <<>> ELSE IF seq[k] \in set THEN Append(g[k - 1], seq[k]) ELSE g[k - 1]]
<1> DEFINE B == {n \in 0..Len(seq) : ~\E g : UpTo_(g, n)}
<1>1. B = {}
  <2> SUFFICES ASSUME B # {} PROVE FALSE OBVIOUS
  <2>1. B \in SUBSET (0..Len(seq)) OBVIOUS
  <2>2. PICK m \in B : m = 0 \/ m - 1 \notin B
    <3> HIDE DEF B
    <3> QED BY <2>1, LeastOf
  <2>3. m \in 0..Len(seq) /\ ~\E g : UpTo_(g, m) OBVIOUS
  <2>4. CASE m = 0
    <3> DEFINE g == [k \in 0..0 |-> <<>>]
    <3>1. \A k \in 0..0 : k = 0 OBVIOUS
    <3>2. UpTo_(g, 0) BY <3>1
    <3> QED BY <2>3, <2>4, <3>2
  <2>5. CASE m # 0
    <3>1. m - 1 \in 0..Len(seq) /\ m \in Nat BY <2>3, <2>5
    <3>2. PICK g : UpTo_(g, m - 1) BY <2>2, <2>5, <3>1
    <3> DEFINE h == [k \in 0..m |-> IF k = m THEN (IF seq[m] \in set THEN Append(g[m - 1], seq[m]) ELSE g[m - 1]) ELSE g[k]]
    <3>3. \A k \in 0..m : h[k] = IF k = m THEN (IF seq[m] \in set THEN Append(g[m - 1], seq[m]) ELSE g[m - 1]) ELSE g[k] OBVIOUS
    <3>4. \A k \in 0..(m - 1) : g[k] = IF k = 0 THEN <<>> ELSE IF seq[k] \in set THEN Append(g[k - 1], seq[k]) ELSE g[k - 1] BY <3>2
    <3>5. DOMAIN h = 0..m /\ h = [k \in 0..m |-> h[k]] OBVIOUS
    <3> HIDE DEF h, UpTo_
    <3>6. \A k \in 0..m : h[k] = IF k = 0 THEN <<>> ELSE IF seq[k] \in set THEN Append(h[k - 1], seq[k]) ELSE h[k - 1]
      <4> SUFFICES ASSUME NEW k \in 0..m
                   PROVE  h[k] = IF k = 0 THEN <<>> ELSE IF seq[k] \in set THEN Append(h[k - 1], seq[k]) ELSE h[k - 1]
        OBVIOUS
      <4>1. k # 0 => k - 1 \in 0..m /\ k - 1 # m BY <3>1
      <4>2. k # m => k \in 0..(m - 1) BY <3>1
      <4> QED BY <2>5, <3>3, <3>4, <4>1, <4>2
    <3>7. h = [k \in 0..m |-> IF k = 0 THEN <<>> ELSE IF seq[k] \in set THEN Append(h[k - 1], seq[k]) ELSE h[k - 1]] BY <3>5, <3>6
    <3> QED BY <2>3, <3>7 DEF UpTo_
  <2> QED BY <2>4, <2>5
<1>2. \E g : UpTo_(g, Len(seq)) BY <1>1
<1> DEFINE kept == CHOOSE g : UpTo_(g, Len(seq))
<1>3. UpTo_(kept, Len(seq)) BY <1>2
<1>4. Only(seq, set) = kept[Len(seq)] BY DEF Only
<1>5. \A k \in 0..Len(seq) : kept[k] = IF k = 0 THEN <<>> ELSE IF seq[k] \in set THEN Append(kept[k - 1], seq[k]) ELSE kept[k - 1] BY <1>3
<1> HIDE DEF kept
<1>6. kept[0] = <<>> /\ \A n \in 1..Len(seq) : kept[n] = IF seq[n] \in set THEN Append(kept[n - 1], seq[n]) ELSE kept[n - 1] BY <1>5
<1>7. KeptBy(kept, seq, set) BY <1>4, <1>6 DEF KeptBy
<1> QED BY <1>7

\* h says where the elements of r, kept of the first n, were.
Picks(h, r, seq, set, n) ==
  /\ \A k \in 1..Len(r) : h[k] \in 1..n /\ r[k] = seq[h[k]] /\ r[k] \in set
  /\ \A j, k \in 1..Len(r) : j < k => h[j] < h[k]
  /\ \A i \in 1..n : seq[i] \in set => \E k \in 1..Len(r) : h[k] = i

LEMMA OnlyDoes ==
  ASSUME NEW S, NEW seq \in Seq(S), NEW set
  PROVE  /\ Only(seq, set) \in Seq(S) /\ Len(Only(seq, set)) <= Len(seq)
         /\ \E h : Picks(h, Only(seq, set), seq, set, Len(seq))
<1>1. Len(seq) \in Nat /\ \A k \in 1..Len(seq) : seq[k] \in S OBVIOUS
<1>2. PICK g : KeptBy(g, seq, set) BY <1>1, OnlyUnfolds
<1> DEFINE Good(n) == g[n] \in Seq(S) /\ Len(g[n]) <= n /\ \E h : Picks(h, g[n], seq, set, n)
<1> DEFINE B == {n \in 0..Len(seq) : ~Good(n)}
<1>3. B = {}
  <2> SUFFICES ASSUME B # {} PROVE FALSE OBVIOUS
  <2>1. B \in SUBSET (0..Len(seq)) OBVIOUS
  <2>2. PICK m \in B : m = 0 \/ m - 1 \notin B
    <3> HIDE DEF B
    <3> QED BY <1>1, <2>1, LeastOf
  <2>3. m \in 0..Len(seq) /\ ~Good(m) OBVIOUS
  <2>4. CASE m = 0
    <3>1. g[0] = <<>> BY <1>2 DEF KeptBy
    <3> DEFINE h == <<>>
    <3>2. Len(g[0]) = 0 /\ g[0] \in Seq(S) BY <3>1
    <3>3. Picks(h, g[0], seq, set, 0) BY <3>2 DEF Picks
    <3> QED BY <2>3, <2>4, <3>2, <3>3
  <2>5. CASE m # 0
    <3>1. m - 1 \in 0..Len(seq) /\ m \in 1..Len(seq) BY <1>1, <2>3, <2>5
    <3>2. Good(m - 1) BY <2>2, <2>5, <3>1
    <3> DEFINE r == g[m - 1]
    <3>3. r \in Seq(S) /\ Len(r) \in Nat /\ Len(r) <= m - 1 BY <3>2
    <3>4. PICK h : Picks(h, r, seq, set, m - 1) BY <3>2
    <3>5. g[m] = IF seq[m] \in set THEN Append(r, seq[m]) ELSE r BY <1>2, <3>1 DEF KeptBy
    <3> HIDE DEF r, Good
    <3>6. CASE seq[m] \notin set
      <4>1. g[m] = r BY <3>5, <3>6
      <4>2. Picks(h, r, seq, set, m) BY <3>1, <3>4, <3>6 DEF Picks
      <4>3. Len(r) <= m BY <3>1, <3>3
      <4> QED BY <2>3, <3>3, <4>1, <4>2, <4>3 DEF Good
    <3>7. CASE seq[m] \in set
      <4> DEFINE t == Append(r, seq[m])
      <4>1. seq[m] \in S BY <1>1, <3>1
      <4>2. t \in Seq(S) /\ Len(t) = Len(r) + 1 /\ (\A k \in 1..Len(r) : t[k] = r[k]) /\ t[Len(r) + 1] = seq[m]
        BY <3>3, <4>1, AppendFacts
      <4> DEFINE f == [k \in 1..(Len(r) + 1) |-> IF k = Len(r) + 1 THEN m ELSE h[k]]
      <4>3. f[Len(r) + 1] = m /\ \A k \in 1..Len(r) : f[k] = h[k] BY <3>3
      <4>4. g[m] = t BY <3>5, <3>7
      <4> HIDE DEF t, f
      <4>5. \A k \in 1..Len(r) : h[k] \in 1..(m - 1) /\ r[k] = seq[h[k]] /\ r[k] \in set BY <3>4 DEF Picks
      <4>6. \A k \in 1..Len(t) : f[k] \in 1..m /\ t[k] = seq[f[k]] /\ t[k] \in set
        <5> SUFFICES ASSUME NEW k \in 1..Len(t) PROVE f[k] \in 1..m /\ t[k] = seq[f[k]] /\ t[k] \in set OBVIOUS
        <5>1. k = Len(r) + 1 \/ k \in 1..Len(r) BY <3>3, <4>2
        <5> QED BY <3>1, <3>7, <4>2, <4>3, <4>5, <5>1
      <4>7. \A j, k \in 1..Len(t) : j < k => f[j] < f[k]
        <5> SUFFICES ASSUME NEW j \in 1..Len(t), NEW k \in 1..Len(t), j < k PROVE f[j] < f[k] OBVIOUS
        <5>1. j \in 1..Len(r) /\ (k = Len(r) + 1 \/ k \in 1..Len(r)) BY <3>3, <4>2
        <5>2. \A a, b \in 1..Len(r) : a < b => h[a] < h[b] BY <3>4 DEF Picks
        <5>3. CASE k = Len(r) + 1
          <6>1. f[k] = m /\ f[j] = h[j] /\ h[j] \in 1..(m - 1) BY <4>3, <4>5, <5>1, <5>3
          <6> QED BY <3>1, <6>1
        <5>4. CASE k \in 1..Len(r)
          <6>1. f[k] = h[k] /\ f[j] = h[j] BY <4>3, <5>1, <5>4
          <6>2. h[j] < h[k] BY <5>1, <5>2, <5>4
          <6> QED BY <6>1, <6>2
        <5> QED BY <5>1, <5>3, <5>4
      <4>8. \A i \in 1..m : seq[i] \in set => \E k \in 1..Len(t) : f[k] = i
        <5> SUFFICES ASSUME NEW i \in 1..m, seq[i] \in set PROVE \E k \in 1..Len(t) : f[k] = i OBVIOUS
        <5>1. CASE i = m BY <3>3, <4>2, <4>3, <5>1
        <5>2. CASE i # m
          <6>1. i \in 1..(m - 1) BY <3>1, <5>2
          <6>2. PICK k \in 1..Len(r) : h[k] = i BY <3>4, <6>1 DEF Picks
          <6>3. k \in 1..Len(t) BY <3>3, <4>2
          <6> QED BY <4>3, <6>2, <6>3
        <5> QED BY <5>1, <5>2
      <4>9. Picks(f, t, seq, set, m) BY <4>6, <4>7, <4>8 DEF Picks
      <4>10. Len(t) <= m BY <3>1, <3>3, <4>2
      <4> QED BY <2>3, <4>2, <4>4, <4>9, <4>10 DEF Good
    <3> QED BY <3>6, <3>7
  <2> QED BY <2>4, <2>5
<1>4. Good(Len(seq)) BY <1>1, <1>3
<1>5. Only(seq, set) = g[Len(seq)] BY <1>2 DEF KeptBy
<1> QED BY <1>4, <1>5

\* What is kept, as a set, and of all or none.
LEMMA OnlyRange ==
  ASSUME NEW S, NEW seq \in Seq(S), NEW set
  PROVE  /\ Only(seq, set) \in Seq(S) /\ Len(Only(seq, set)) <= Len(seq)
         /\ Range(Only(seq, set)) = Range(seq) \cap set
         /\ Range(seq) \cap set = {} => Only(seq, set) = <<>>
<1> DEFINE r == Only(seq, set)
<1>1. r \in Seq(S) /\ Len(r) <= Len(seq) BY OnlyDoes
<1>2. PICK h : Picks(h, r, seq, set, Len(seq)) BY OnlyDoes
<1> HIDE DEF r
<1>3. Range(r) = {r[k] : k \in 1..Len(r)} /\ Range(seq) = {seq[k] : k \in 1..Len(seq)} BY <1>1, SeqFacts
<1>4. Range(r) \subseteq Range(seq) \cap set BY <1>2, <1>3 DEF Picks
<1>5. Range(seq) \cap set \subseteq Range(r)
  <2> SUFFICES ASSUME NEW i \in 1..Len(seq), seq[i] \in set PROVE seq[i] \in Range(r) BY <1>3
  <2>1. PICK k \in 1..Len(r) : h[k] = i BY <1>2 DEF Picks
  <2>2. r[k] = seq[h[k]] BY <1>2 DEF Picks
  <2> QED BY <1>3, <2>1, <2>2
<1>6. ASSUME Range(seq) \cap set = {} PROVE r = <<>>
  <2>1. Range(r) = {} BY <1>4, <1>6
  <2>2. Len(r) \in Nat BY <1>1
  <2>3. Len(r) = 0
    <3> SUFFICES ASSUME Len(r) # 0 PROVE FALSE OBVIOUS
    <3>1. 1 \in 1..Len(r) BY <2>2
    <3> QED BY <1>3, <2>1, <3>1, ZenonT(30)
  <2> QED BY <1>1, <2>3
<1> QED BY <1>1, <1>4, <1>5, <1>6 DEF r

LEMMA OnlyAll ==
  ASSUME NEW S, NEW seq \in Seq(S), NEW set, \A k \in 1..Len(seq) : seq[k] \in set
  PROVE  Only(seq, set) = seq
<1>1. Len(seq) \in Nat /\ \A k \in 1..Len(seq) : seq[k] \in S OBVIOUS
<1>2. PICK g : KeptBy(g, seq, set) BY <1>1, OnlyUnfolds
<1> DEFINE Good(n) == g[n] \in Seq(S) /\ Len(g[n]) = n /\ \A k \in 1..n : g[n][k] = seq[k]
<1> DEFINE B == {n \in 0..Len(seq) : ~Good(n)}
<1>3. B = {}
  <2> SUFFICES ASSUME B # {} PROVE FALSE OBVIOUS
  <2>1. B \in SUBSET (0..Len(seq)) OBVIOUS
  <2>2. PICK m \in B : m = 0 \/ m - 1 \notin B
    <3> HIDE DEF B
    <3> QED BY <1>1, <2>1, LeastOf
  <2>3. m \in 0..Len(seq) /\ ~Good(m) OBVIOUS
  <2>4. CASE m = 0
    <3>1. g[0] = <<>> BY <1>2 DEF KeptBy
    <3>2. Len(g[0]) = 0 /\ g[0] \in Seq(S) BY <3>1
    <3> QED BY <2>3, <2>4, <3>2
  <2>5. CASE m # 0
    <3>1. m - 1 \in 0..Len(seq) /\ m \in 1..Len(seq) BY <1>1, <2>3, <2>5
    <3>2. Good(m - 1) BY <2>2, <2>5, <3>1
    <3> DEFINE r == g[m - 1]
    <3>3. r \in Seq(S) /\ Len(r) = m - 1 /\ \A k \in 1..(m - 1) : r[k] = seq[k] BY <3>2
    <3>4. g[m] = Append(r, seq[m]) BY <1>2, <3>1 DEF KeptBy
    <3>5. seq[m] \in S BY <1>1, <3>1
    <3> HIDE DEF r, Good
    <3>6. g[m] \in Seq(S) /\ Len(g[m]) = m - 1 + 1 /\ (\A k \in 1..(m - 1) : g[m][k] = r[k]) /\ g[m][m - 1 + 1] = seq[m]
      BY <3>3, <3>4, <3>5, AppendFacts
    <3>7. m - 1 + 1 = m /\ \A k \in 1..m : k \in 1..(m - 1) \/ k = m BY <3>1
    <3>8. \A k \in 1..m : g[m][k] = seq[k] BY <3>3, <3>6, <3>7
    <3> QED BY <2>3, <3>6, <3>7, <3>8 DEF Good
  <2> QED BY <2>4, <2>5
<1>4. Good(Len(seq)) BY <1>1, <1>3
<1>5. Only(seq, set) = g[Len(seq)] BY <1>2 DEF KeptBy
<1> HIDE DEF B
<1> DEFINE r == g[Len(seq)]
<1>6. r \in Seq(S) /\ Len(r) = Len(seq) /\ \A k \in 1..Len(seq) : r[k] = seq[k] BY <1>4
<1> HIDE DEF r
<1>7. r = seq BY ONLY <1>1, <1>6, seq \in Seq(S)
<1> QED BY <1>5, <1>7 DEF r

-----------------------------------------------------------------------------
(* What the client hears *)

LEMMA SentUnion ==
  ASSUME NEW K, NEW X, NEW m
  PROVE  /\ Sent(K \cup X, m) <=> Sent(K, m) \/ Sent(X, m)
         /\ Marked(K \cup X, m) <=> Marked(K, m) \/ Marked(X, m)
BY DEF Sent, Marked

\* Whoever heard of an event by way of D, C and K hears of it by way of the
\* others.
Absorbs(l, D, C, K, D2, C2, K2) ==
  \A m \in DOMAIN l : /\ Knows(D, K, m) => Knows(D2, K2, m)
                      /\ Durable(l[m].type) /\ Has(C, K, m) => Has(C2, K2, m)

\* X's frames are all said by Y's.
Wider(X, Y) == \A m \in Nat : (Sent(X, m) => Sent(Y, m)) /\ (Marked(X, m) => Marked(Y, m))

LEMMA SubsetIsWider ==
  ASSUME NEW X, NEW Y, X \subseteq Y
  PROVE  Wider(X, Y)
BY DEF Wider, Sent, Marked

LEMMA WiderUnion ==
  ASSUME NEW X, NEW Y, NEW X2, NEW Y2, Wider(X, Y), Wider(X2, Y2)
  PROVE  Wider(X \cup X2, Y \cup Y2)
BY SentUnion DEF Wider

LEMMA WiderAbsorbs ==
  ASSUME NEW l \in Logs, NEW D, NEW C, NEW K, NEW D2, NEW K2, D \subseteq D2, Wider(K, K2)
  PROVE  Absorbs(l, D, C, K, D2, C, K2)
<1>1. DOMAIN l \subseteq Nat BY DEF Logs
<1> QED BY <1>1 DEF Absorbs, Knows, Has, Wider

LEMMA AbsorbsUnion ==
  ASSUME NEW l \in Logs, NEW D, NEW C, NEW K, NEW D2, NEW C2, NEW K2, NEW X, NEW Y,
         Absorbs(l, D, C, K, D2, C2, K2), Wider(X, Y)
  PROVE  Absorbs(l, D, C, K \cup X, D2, C2, K2 \cup Y)
<1> SUFFICES ASSUME NEW m \in DOMAIN l
             PROVE  /\ Knows(D, K \cup X, m) => Knows(D2, K2 \cup Y, m)
                    /\ Durable(l[m].type) /\ Has(C, K \cup X, m) => Has(C2, K2 \cup Y, m)
  BY DEF Absorbs
<1>1. /\ Sent(K \cup X, m) <=> Sent(K, m) \/ Sent(X, m)
      /\ Marked(K \cup X, m) <=> Marked(K, m) \/ Marked(X, m)
      /\ Sent(K2 \cup Y, m) <=> Sent(K2, m) \/ Sent(Y, m)
      /\ Marked(K2 \cup Y, m) <=> Marked(K2, m) \/ Marked(Y, m) BY SentUnion
<1>0. m \in Nat BY DEF Logs
<1>2. (Sent(X, m) => Sent(Y, m)) /\ (Marked(X, m) => Marked(Y, m)) BY <1>0 DEF Wider
<1>3. (Knows(D, K, m) => Knows(D2, K2, m)) /\ (Durable(l[m].type) /\ Has(C, K, m) => Has(C2, K2, m))
  BY DEF Absorbs
<1> QED BY <1>1, <1>2, <1>3 DEF Knows, Has

LEMMA HeardAbsorbs ==
  ASSUME NEW l, NEW D, NEW C, NEW K, NEW D2, NEW C2, NEW K2, NEW n,
         Absorbs(l, D, C, K, D2, C2, K2), 1..(n - 1) \subseteq DOMAIN l, Heard(l, D, C, K, n)
  PROVE  Heard(l, D2, C2, K2, n)
BY DEF Heard, Absorbs

\* Frames whose events are in the log.
Within(l, s) == \A p \in 1..Len(s) : s[p].kind = "event" => 1..(s[p].n - 1) \subseteq DOMAIN l

LEMMA InOrderAbsorbs ==
  ASSUME NEW l \in Logs, NEW D, NEW C, NEW K, NEW D2, NEW C2, NEW K2, NEW s,
         Absorbs(l, D, C, K, D2, C2, K2), Within(l, s), InOrder(l, D, C, K, s)
  PROVE  InOrder(l, D2, C2, K2, s)
<1> SUFFICES ASSUME NEW p \in 1..Len(s), s[p].kind = "event"
             PROVE  Heard(l, D2, C2, Before(K2, s, p), s[p].n)
  BY DEF InOrder
<1>1. Heard(l, D, C, Before(K, s, p), s[p].n) /\ 1..(s[p].n - 1) \subseteq DOMAIN l BY DEF InOrder, Within
<1>2. Wider({s[q] : q \in 1 .. p - 1}, {s[q] : q \in 1 .. p - 1}) BY SubsetIsWider
<1>3. Absorbs(l, D, C, Before(K, s, p), D2, C2, Before(K2, s, p)) BY <1>2, AbsorbsUnion DEF Before
<1> QED BY <1>1, <1>3, HeardAbsorbs

LEMMA InOrderEmpty ==
  ASSUME NEW l, NEW D, NEW C, NEW K PROVE InOrder(l, D, C, K, <<>>)
BY DEF InOrder

\* Frames that are no events are in any order.
LEMMA InOrderQuiet ==
  ASSUME NEW l, NEW D, NEW C, NEW K, NEW s, \A p \in 1..Len(s) : s[p].kind # "event"
  PROVE  InOrder(l, D, C, K, s)
BY DEF InOrder

LEMMA InOrderAppend ==
  ASSUME NEW l, NEW D, NEW C, NEW K, NEW S, NEW s \in Seq(S), NEW f \in S, InOrder(l, D, C, K, s),
         f.kind = "event" => Heard(l, D, C, K \cup Range(s), f.n)
  PROVE  InOrder(l, D, C, K, Append(s, f))
<1> DEFINE u == Append(s, f)
<1>1. Len(s) \in Nat /\ Len(u) = Len(s) + 1 /\ (\A k \in 1..Len(s) : u[k] = s[k]) /\ u[Len(s) + 1] = f
      /\ Range(s) = {s[k] : k \in 1..Len(s)} BY AppendFacts, SeqFacts
<1> HIDE DEF u
<1> SUFFICES ASSUME NEW p \in 1..Len(u), u[p].kind = "event"
             PROVE  Heard(l, D, C, Before(K, u, p), u[p].n)
  BY DEF InOrder, u
<1>2. 1..(p - 1) \subseteq 1..Len(s) BY <1>1
<1>3. {u[q] : q \in 1 .. p - 1} = {s[q] : q \in 1 .. p - 1} BY <1>1, <1>2
<1>4. Before(K, u, p) = Before(K, s, p) BY <1>3 DEF Before
<1>5. CASE p \in 1..Len(s)
  <2>1. u[p] = s[p] BY <1>1, <1>5
  <2> QED BY <1>4, <1>5, <2>1 DEF InOrder
<1>6. CASE p = Len(s) + 1
  <2>1. u[p] = f BY <1>1, <1>6
  <2>2. 1..(p - 1) = 1..Len(s) BY <1>1, <1>6
  <2>3. Before(K, s, p) = K \cup Range(s) BY <1>1, <2>2 DEF Before
  <2> QED BY <1>4, <2>1, <2>3
<1> QED BY <1>1, <1>5, <1>6

LEMMA TailFacts ==
  ASSUME NEW S, NEW s \in Seq(S), s # <<>>
  PROVE  /\ Tail(s) \in Seq(S) /\ Len(Tail(s)) = Len(s) - 1 /\ Len(s) \in Nat \ {0}
         /\ \A k \in 1..Len(Tail(s)) : Tail(s)[k] = s[k + 1]
         /\ Head(s) = s[1] /\ Head(s) \in S
         /\ Range(s) = {Head(s)} \cup Range(Tail(s))
<1>1. Tail(s) \in Seq(S) /\ Len(Tail(s)) = Len(s) - 1 /\ Len(s) \in Nat \ {0}
      /\ (\A k \in 1..Len(Tail(s)) : Tail(s)[k] = s[k + 1]) /\ Head(s) = s[1] /\ Head(s) \in S OBVIOUS
<1> DEFINE t == Tail(s)
<1>2. Range(s) = {s[k] : k \in 1..Len(s)} /\ Range(t) = {t[k] : k \in 1..Len(t)}
  <2>1. t \in Seq(S) BY <1>1
  <2>2. Range(s) = {s[k] : k \in 1..Len(s)} BY SeqFacts
  <2> HIDE DEF t
  <2>3. Range(t) = {t[k] : k \in 1..Len(t)} BY <2>1, SeqFacts
  <2> QED BY <2>2, <2>3
<1>3. \A k \in 1..Len(s) : k = 1 \/ (k - 1 \in 1..Len(t) /\ t[k - 1] = s[k]) BY <1>1
<1>4. \A k \in 1..Len(t) : k + 1 \in 1..Len(s) /\ t[k] = s[k + 1] BY <1>1
<1>5. 1 \in 1..Len(s) BY <1>1
<1> HIDE DEF t
<1>6. Range(s) \subseteq {s[1]} \cup Range(t) BY <1>2, <1>3
<1>7. {s[1]} \cup Range(t) \subseteq Range(s) BY <1>2, <1>4, <1>5
<1> QED BY <1>1, <1>6, <1>7 DEF t

LEMMA InOrderTail ==
  ASSUME NEW l, NEW D, NEW C, NEW K, NEW S, NEW s \in Seq(S), s # <<>>, InOrder(l, D, C, K, s)
  PROVE  /\ Head(s).kind = "event" => Heard(l, D, C, K, Head(s).n)
         /\ InOrder(l, D, C, K \cup {Head(s)}, Tail(s))
<1> DEFINE t == Tail(s)
<1>1. t \in Seq(S) /\ Len(t) = Len(s) - 1 /\ Len(s) \in Nat \ {0}
      /\ (\A k \in 1..Len(t) : t[k] = s[k + 1]) /\ Head(s) = s[1] BY TailFacts
<1> HIDE DEF t
<1>2. 1 \in 1..Len(s) /\ {s[q] : q \in 1..1 - 1} = {} BY <1>1
<1>3. Before(K, s, 1) = K BY <1>2 DEF Before
<1>4. s[1].kind = "event" => Heard(l, D, C, K, s[1].n) BY <1>2, <1>3 DEF InOrder
<1>5. ASSUME NEW p \in 1..Len(t), t[p].kind = "event"
      PROVE  Heard(l, D, C, Before(K \cup {s[1]}, t, p), t[p].n)
  <2>1. p + 1 \in 1..Len(s) /\ s[p + 1] = t[p] BY <1>1
  <2>2. Heard(l, D, C, Before(K, s, p + 1), t[p].n) BY <1>5, <2>1 DEF InOrder
  <2>3. \A q \in 1..p : q = 1 \/ (q - 1 \in 1 .. p - 1 /\ s[q] = t[q - 1]) BY <1>1
  <2>4. \A q \in 1 .. p - 1 : q + 1 \in 1..p /\ t[q] = s[q + 1] BY <1>1
  <2>5. 1 \in 1..p /\ p + 1 - 1 = p BY <1>1
  <2>6. {s[q] : q \in 1..p} \subseteq {s[1]} \cup {t[q] : q \in 1 .. p - 1}
    <3>1. ASSUME NEW q \in 1..p PROVE s[q] \in {s[1]} \cup {t[r] : r \in 1 .. p - 1}
      <4>1. q = 1 \/ (q - 1 \in 1 .. p - 1 /\ s[q] = t[q - 1]) BY <2>3, <3>1, Zenon
      <4> QED BY <4>1, Zenon
    <3> QED BY <3>1, Zenon
  <2>7. {s[1]} \cup {t[q] : q \in 1 .. p - 1} \subseteq {s[q] : q \in 1..p} BY ONLY <2>4, <2>5
  <2>8. Before(K, s, p + 1) = K \cup {s[q] : q \in 1..p} BY <2>5 DEF Before
  <2>9. Before(K \cup {s[1]}, t, p) = K \cup ({s[1]} \cup {t[q] : q \in 1 .. p - 1}) BY DEF Before
  <2>10. Before(K, s, p + 1) = Before(K \cup {s[1]}, t, p) BY ONLY <2>6, <2>7, <2>8, <2>9
  <2> QED BY <2>2, <2>10
<1> QED BY <1>1, <1>4, <1>5 DEF InOrder, t

\* The log grows.
Extends(l, l2) == DOMAIN l \subseteq DOMAIN l2 /\ \A m \in DOMAIN l : l2[m] = l[m]

LEMMA InOrderGrows ==
  ASSUME NEW l, NEW l2, NEW D, NEW C, NEW K, NEW s, Extends(l, l2), Within(l, s), InOrder(l, D, C, K, s)
  PROVE  InOrder(l2, D, C, K, s) /\ Within(l2, s)
BY DEF InOrder, Heard, Within, Extends

-----------------------------------------------------------------------------
(* How the flow takes a change of the channel *)

LEMMA OfLogWithin ==
  ASSUME NEW l \in Logs, NEW s, OfLog(l, s)
  PROVE  Within(l, s)
<1>1. DOMAIN l = 1..Len(l) /\ Len(l) \in Nat BY DEF Logs
<1> SUFFICES ASSUME NEW p \in 1..Len(s), s[p].kind = "event"
             PROVE  1..(s[p].n - 1) \subseteq DOMAIN l
  BY DEF Within
<1>2. s[p].n \in 1..Len(l) BY <1>1 DEF OfLog
<1> QED BY <1>1, <1>2

Framed(l, c) ==
  /\ c.stream \in Seq(AnyFrames) /\ c.normal \in Seq(Tellings) /\ c.low \in Seq(EventFrames)
  /\ Within(l, c.stream) /\ Within(l, c.normal) /\ Within(l, c.low)
  /\ \A k \in 1 .. Len(c.low) : c.low[k].kind = "event" /\ c.low[k].n \in DOMAIN l /\ ~Durable(l[c.low[k].n].type)

LEMMA ChannelIsFramed ==
  ASSUME NEW l \in Logs, NEW c, ChanType(l, c)
  PROVE  Framed(l, c)
<1>1. Within(l, c.stream) /\ Within(l, c.normal) /\ Within(l, c.low) BY OfLogWithin DEF ChanType
<1>2. c.stream \in Seq(AnyFrames) /\ c.normal \in Seq(Tellings) /\ c.low \in Seq(EventFrames)
  BY DEF ChanType, Channels
<1>3. ASSUME NEW k \in 1 .. Len(c.low) PROVE c.low[k].kind = "event" /\ c.low[k].n \in DOMAIN l /\ ~Durable(l[c.low[k].n].type)
  <2>1. c.low[k] \in EventFrames BY <1>2
  <2>2. c.low[k].kind = "event" BY <2>1 DEF EventFrames
  <2> QED BY <2>2 DEF ChanType, OfLog
<1> QED BY <1>1, <1>2, <1>3 DEF Framed

\* Framed looks at the stream, the normal lane and the low lane only.
LEMMA FramedAs ==
  ASSUME NEW l, NEW c, NEW b, Framed(l, c), b.stream = c.stream, b.low = c.low,
         b.normal \in Seq(Tellings), Within(l, b.normal)
  PROVE  Framed(l, b)
<1>1. b.stream \in Seq(AnyFrames) /\ b.low \in Seq(EventFrames) BY Zenon DEF Framed
<1>2. Within(l, b.stream) /\ Within(l, b.low) BY Zenon DEF Framed
<1>3. \A k \in 1 .. Len(b.low) : b.low[k].kind = "event" /\ b.low[k].n \in DOMAIN l /\ ~Durable(l[b.low[k].n].type)
  BY Zenon DEF Framed
<1> QED BY <1>1, <1>2, <1>3, Zenon DEF Framed

LEMMA HeardNext ==
  ASSUME NEW l, NEW D, NEW C, NEW K, NEW N \in Nat, Heard(l, D, C, K, N + 1),
         Knows(D, K, N + 1), Durable(l[N + 1].type) => Has(C, K, N + 1)
  PROVE  Heard(l, D, C, K, N + 2)
<1>1. \A m \in 1 .. (N + 2) - 1 : m = N + 1 \/ m \in 1 .. (N + 1) - 1 OBVIOUS
<1> QED BY <1>1 DEF Heard

LEMMA HeardWider ==
  ASSUME NEW l, NEW D, NEW C, NEW K, NEW K2, NEW n, Heard(l, D, C, K, n), Wider(K, K2)
  PROVE  Heard(l, D, C, K2, n)
BY DEF Heard, Wider, Knows, Has

LEMMA InOrderWider ==
  ASSUME NEW l, NEW D, NEW C, NEW K, NEW K2, NEW s, InOrder(l, D, C, K, s), Wider(K, K2)
  PROVE  InOrder(l, D, C, K2, s)
<1> SUFFICES ASSUME NEW p \in 1..Len(s), s[p].kind = "event"
             PROVE  Heard(l, D, C, Before(K2, s, p), s[p].n)
  BY DEF InOrder
<1>1. Heard(l, D, C, Before(K, s, p), s[p].n) BY DEF InOrder
<1>2. Wider({s[q] : q \in 1 .. p - 1}, {s[q] : q \in 1 .. p - 1}) BY SubsetIsWider
<1>3. Wider(Before(K, s, p), Before(K2, s, p)) BY <1>2, WiderUnion DEF Before
<1> QED BY <1>1, <1>3, HeardWider

\* The frame that is to say event N + 1, once the frames before it say all below.
LEMMA SaysNext ==
  ASSUME NEW l, NEW D, NEW C, NEW K, NEW N \in Nat, NEW f, Heard(l, D, C, K, N + 1),
         f.kind = "event", f.n = N + 1
  PROVE  Heard(l, D, C, K \cup {f}, N + 2)
<1>1. Wider(K, K \cup {f}) BY SubsetIsWider
<1>2. Heard(l, D, C, K \cup {f}, N + 1) BY <1>1, HeardWider
<1>3. Sent(K \cup {f}, N + 1) BY DEF Sent
<1> QED BY <1>2, <1>3, HeardNext DEF Knows, Has

\* An idle stream takes event N + 1.
LEMMA FlowStreamTakes ==
  ASSUME NEW l, NEW N \in Nat, NEW D, NEW C, NEW early, NEW c, NEW d, NEW f \in EventFrames,
         FlowTo(l, N, D, C, early, c), Framed(l, c),
         c.subs # <<>>, c.normal = <<>>, c.low = <<>>,
         d.stream = Append(c.stream, f), d.normal = <<>>, d.low = <<>>, f.n = N + 1
  PROVE  FlowTo(l, N + 1, D, C, early, d)
<1>1. f \in AnyFrames /\ f.kind = "event" BY DEF AnyFrames, Tellings, EventFrames
<1>2. c.stream \in Seq(AnyFrames) BY DEF Framed
<1>3. Range(d.stream) = Range(c.stream) \cup {f} BY <1>1, <1>2, AppendFacts
<1>4. Range(<<>>) = {} BY DEF Range
<1>5. OnTheWay(early, c) = Range(early) \cup Range(c.stream) BY <1>4 DEF OnTheWay, AheadOfLow, Ahead
<1>6. OnTheWay(early, d) = OnTheWay(early, c) \cup {f} BY <1>3, <1>4 DEF OnTheWay, AheadOfLow, Ahead
<1>7. Heard(l, D, C, OnTheWay(early, c), N + 1) /\ InOrder(l, D, C, {}, early)
      /\ InOrder(l, D, C, Range(early), c.stream) BY DEF FlowTo
<1>8. InOrder(l, D, C, Range(early), d.stream) BY <1>1, <1>2, <1>5, <1>7, InOrderAppend
<1>9. Heard(l, D, C, OnTheWay(early, d), N + 2) BY <1>1, <1>6, <1>7, SaysNext
<1>10. InOrder(l, D, C, Ahead(early, d), d.normal) /\ InOrder(l, D, C, AheadOfLow(early, d), d.low)
  BY InOrderEmpty
<1> QED BY <1>7, <1>8, <1>9, <1>10 DEF FlowTo

\* The normal lane takes event N + 1, nothing being left to overtake.
LEMMA FlowNormalTakes ==
  ASSUME NEW l, NEW N \in Nat, NEW D, NEW C, NEW early, NEW c, NEW d, NEW f \in EventFrames,
         FlowTo(l, N, D, C, early, c), Framed(l, c),
         c.subs # <<>>, c.low = <<>>,
         d.stream = c.stream, d.normal = Append(c.normal, f), d.low = <<>>, f.n = N + 1
  PROVE  FlowTo(l, N + 1, D, C, early, d)
<1>1. f \in Tellings /\ f.kind = "event" BY DEF Tellings, EventFrames
<1>2. c.normal \in Seq(Tellings) BY DEF Framed
<1>3. Range(d.normal) = Range(c.normal) \cup {f} BY <1>1, <1>2, AppendFacts
<1>4. Range(<<>>) = {} BY DEF Range
<1>5. OnTheWay(early, c) = Ahead(early, c) \cup Range(c.normal) BY <1>4 DEF OnTheWay, AheadOfLow
<1>6. OnTheWay(early, d) = OnTheWay(early, c) \cup {f} BY <1>3, <1>4 DEF OnTheWay, AheadOfLow, Ahead
<1>7. Heard(l, D, C, OnTheWay(early, c), N + 1) /\ InOrder(l, D, C, {}, early)
      /\ InOrder(l, D, C, Range(early), c.stream) /\ InOrder(l, D, C, Ahead(early, c), c.normal) BY DEF FlowTo
<1>8. InOrder(l, D, C, Ahead(early, c), d.normal) BY <1>1, <1>2, <1>5, <1>7, InOrderAppend
<1>9. Heard(l, D, C, OnTheWay(early, d), N + 2) BY <1>1, <1>6, <1>7, SaysNext
<1>10. Ahead(early, d) = Ahead(early, c) BY DEF Ahead
<1>11. InOrder(l, D, C, AheadOfLow(early, d), d.low) BY InOrderEmpty
<1> QED BY <1>7, <1>8, <1>9, <1>10, <1>11 DEF FlowTo

\* So does the low lane.
LEMMA FlowLowTakes ==
  ASSUME NEW l, NEW N \in Nat, NEW D, NEW C, NEW early, NEW c, NEW d, NEW f \in EventFrames,
         FlowTo(l, N, D, C, early, c), Framed(l, c), c.subs # <<>>,
         d.stream = c.stream, d.normal = c.normal, d.low = Append(c.low, f), f.n = N + 1
  PROVE  FlowTo(l, N + 1, D, C, early, d)
<1>1. f.kind = "event" BY DEF EventFrames
<1>2. c.low \in Seq(EventFrames) BY DEF Framed
<1>3. Range(d.low) = Range(c.low) \cup {f} BY <1>2, AppendFacts
<1>4. Ahead(early, d) = Ahead(early, c) /\ AheadOfLow(early, d) = AheadOfLow(early, c) BY DEF AheadOfLow, Ahead
<1>5. OnTheWay(early, d) = OnTheWay(early, c) \cup {f} BY <1>3, <1>4 DEF OnTheWay
<1>6. Heard(l, D, C, OnTheWay(early, c), N + 1) /\ InOrder(l, D, C, {}, early)
      /\ InOrder(l, D, C, Range(early), c.stream) /\ InOrder(l, D, C, Ahead(early, c), c.normal)
      /\ InOrder(l, D, C, AheadOfLow(early, c), c.low) BY DEF FlowTo
<1>7. InOrder(l, D, C, AheadOfLow(early, c), d.low) BY <1>1, <1>2, <1>6, InOrderAppend DEF OnTheWay
<1>8. Heard(l, D, C, OnTheWay(early, d), N + 2) BY <1>1, <1>5, <1>6, SaysNext
<1> QED BY <1>4, <1>6, <1>7, <1>8 DEF FlowTo

\* Event N + 1 is dropped and its gap is on its way.
LEMMA FlowMarks ==
  ASSUME NEW l, NEW N \in Nat, NEW D, NEW C, NEW early, NEW c, FlowTo(l, N, D, C, early, c), c.subs # <<>>,
         Marked(Range(c.normal), N + 1), ~Durable(l[N + 1].type)
  PROVE  FlowTo(l, N + 1, D, C, early, c)
<1>1. Marked(OnTheWay(early, c), N + 1) BY DEF Marked, OnTheWay, AheadOfLow
<1>2. Heard(l, D, C, OnTheWay(early, c), N + 2) BY <1>1, HeardNext DEF Knows, FlowTo
<1> QED BY <1>2 DEF FlowTo

LEMMA FlowFails ==
  ASSUME NEW l, NEW N, NEW M, NEW D, NEW C, NEW early, NEW c, NEW d, FlowTo(l, N, D, C, early, c),
         d.stream = c.stream, d.normal = <<>>, d.low = <<>>, d.subs = <<>>
  PROVE  FlowTo(l, M, D, C, early, d)
BY InOrderEmpty DEF FlowTo

\* u is s with its gap markers widened and others behind them.
Widens(s, u) ==
  /\ Len(u) >= Len(s)
  /\ \A k \in 1..Len(u) : \/ k <= Len(s) /\ u[k] = s[k]
                          \/ k <= Len(s) /\ s[k].kind = "gap" /\ u[k].kind = "gap" /\ u[k].from <= s[k].from
                          \/ k > Len(s) /\ u[k].kind = "gap"

LEMMA WidensRange ==
  ASSUME NEW s \in Seq(Tellings), NEW u \in Seq(Tellings), Widens(s, u), NEW p \in 0..Len(s)
  PROVE  Wider({s[q] : q \in 1..p}, {u[q] : q \in 1..p})
<1>0. Len(s) \in Nat /\ Len(u) \in Nat /\ Len(u) >= Len(s) BY DEF Widens
<1> SUFFICES ASSUME NEW m \in Nat
             PROVE  /\ Sent({s[q] : q \in 1..p}, m) => Sent({u[q] : q \in 1..p}, m)
                    /\ Marked({s[q] : q \in 1..p}, m) => Marked({u[q] : q \in 1..p}, m)
  BY DEF Wider
<1>1. ASSUME NEW q \in 1..p
      PROVE q \in 1..Len(s) /\ (u[q] = s[q] \/ (s[q].kind = "gap" /\ u[q].kind = "gap" /\ u[q].from <= s[q].from))
  <2>1. q \in 1..Len(s) /\ q \in 1..Len(u) /\ ~(q > Len(s)) BY <1>0
  <2> QED BY <2>1 DEF Widens
<1>2. ASSUME Sent({s[q] : q \in 1..p}, m) PROVE Sent({u[q] : q \in 1..p}, m)
  <2>1. PICK q \in 1..p : s[q].kind = "event" /\ s[q].n = m BY <1>2 DEF Sent
  <2>2. u[q] = s[q] BY <1>1, <2>1
  <2> QED BY <2>1, <2>2 DEF Sent
<1>3. ASSUME Marked({s[q] : q \in 1..p}, m) PROVE Marked({u[q] : q \in 1..p}, m)
  <2>1. PICK q \in 1..p : s[q].kind = "gap" /\ s[q].from < m BY <1>3 DEF Marked
  <2>2. CASE u[q] = s[q] BY <2>1, <2>2 DEF Marked
  <2>3. CASE s[q].kind = "gap" /\ u[q].kind = "gap" /\ u[q].from <= s[q].from
    <3>1. q \in 1..Len(s) /\ q \in 1..Len(u) BY <1>0, <1>1
    <3>2. s[q] \in Tellings /\ u[q] \in Tellings BY <3>1
    <3>3. s[q].from \in Nat /\ u[q].from \in Nat BY <2>3, <3>2 DEF Tellings, EventFrames, GapFrames
    <3>4. u[q].from < m BY <2>1, <2>3, <3>3
    <3> QED BY <2>3, <3>4 DEF Marked
  <2> QED BY <1>1, <2>2, <2>3
<1> QED BY <1>2, <1>3

LEMMA WidensIsWider ==
  ASSUME NEW s \in Seq(Tellings), NEW u \in Seq(Tellings), Widens(s, u)
  PROVE  Wider(Range(s), Range(u))
<1>0. Len(s) \in Nat /\ Len(u) \in Nat /\ Len(u) >= Len(s) BY DEF Widens
<1>1. Wider({s[q] : q \in 1..Len(s)}, {u[q] : q \in 1..Len(s)})
  <2>1. Len(s) \in 0..Len(s) BY <1>0
  <2> QED BY <2>1, WidensRange
<1>2. Range(s) = {s[q] : q \in 1..Len(s)} BY SeqFacts
<1>3. Range(u) = {u[q] : q \in 1..Len(u)} BY SeqFacts
<1>4. {u[q] : q \in 1..Len(s)} \subseteq Range(u)
  <2>1. 1..Len(s) \subseteq 1..Len(u) BY <1>0
  <2> QED BY <1>3, <2>1
<1>5. Wider({u[q] : q \in 1..Len(s)}, Range(u)) BY <1>4, SubsetIsWider
<1> QED BY <1>1, <1>2, <1>5 DEF Wider

LEMMA InOrderWidens ==
  ASSUME NEW l, NEW D, NEW C, NEW K, NEW s \in Seq(Tellings), NEW u \in Seq(Tellings),
         Widens(s, u), InOrder(l, D, C, K, s)
  PROVE  InOrder(l, D, C, K, u) /\ Wider(Range(s), Range(u))
<1>0. Len(s) \in Nat /\ Len(u) \in Nat /\ Len(u) >= Len(s) BY DEF Widens
<1>1. ASSUME NEW p \in 1..Len(u), u[p].kind = "event"
      PROVE  Heard(l, D, C, Before(K, u, p), u[p].n)
  <2>1. p \in 1..Len(s) /\ u[p] = s[p] BY <1>0, <1>1 DEF Widens
  <2>2. Heard(l, D, C, Before(K, s, p), u[p].n) BY <1>1, <2>1 DEF InOrder
  <2>3. p - 1 \in 0..Len(s) BY <2>1
  <2>4. Wider({s[q] : q \in 1 .. p - 1}, {u[q] : q \in 1 .. p - 1}) BY <2>3, WidensRange
  <2>5. Wider(K, K) BY SubsetIsWider
  <2>6. Wider(Before(K, s, p), Before(K, u, p)) BY <2>4, <2>5, WiderUnion DEF Before
  <2> QED BY <2>2, <2>6, HeardWider
<1> QED BY <1>1, WidensIsWider DEF InOrder

\* The normal lane's markers are widened.
LEMMA FlowWidens ==
  ASSUME NEW l, NEW N, NEW D, NEW C, NEW early, NEW c, NEW d, FlowTo(l, N, D, C, early, c), Framed(l, c),
         d.stream = c.stream, d.low = c.low, d.subs = c.subs, d.normal \in Seq(Tellings),
         Widens(c.normal, d.normal)
  PROVE  FlowTo(l, N, D, C, early, d) /\ Wider(Range(c.normal), Range(d.normal))
<1>1. Ahead(early, d) = Ahead(early, c) BY DEF Ahead
<1>2. InOrder(l, D, C, Ahead(early, d), d.normal) /\ Wider(Range(c.normal), Range(d.normal))
  BY <1>1, InOrderWidens DEF FlowTo, Framed
<1>3. Wider(AheadOfLow(early, c), AheadOfLow(early, d))
  <2>1. Wider(Ahead(early, c), Ahead(early, c)) BY SubsetIsWider
  <2> QED BY <1>1, <1>2, <2>1, WiderUnion DEF AheadOfLow
<1>4. Wider(OnTheWay(early, c), OnTheWay(early, d))
  <2>1. Wider(Range(c.low), Range(c.low)) BY SubsetIsWider
  <2> QED BY <1>3, <2>1, WiderUnion DEF OnTheWay
<1>5. InOrder(l, D, C, AheadOfLow(early, d), d.low) BY <1>3, InOrderWider DEF FlowTo
<1>6. d.subs # <<>> => Heard(l, D, C, OnTheWay(early, d), N + 1) BY <1>4, HeardWider DEF FlowTo
<1> QED BY <1>2, <1>5, <1>6 DEF FlowTo

\* A frame of the low lane gives way to event N + 1, marked.
LEMMA FlowSupersedes ==
  ASSUME NEW l \in Logs, NEW N \in Nat, NEW D, NEW C, NEW early, NEW c, NEW d, NEW f \in EventFrames, NEW at \in 1..Len(c.low),
         FlowTo(l, N, D, C, early, c), Framed(l, c), c.subs # <<>>,
         Marked(Range(c.normal), c.low[at].n), N + 1 \in DOMAIN l,
         d.stream = c.stream, d.normal = c.normal, d.low = [c.low EXCEPT ![at] = f], f.n = N + 1,
         ~Durable(l[f.n].type), \A m \in c.low[at].n .. N : Durable(l[m].type) => Has(C, AheadOfLow(early, c), m)
  PROVE  FlowTo(l, N + 1, D, C, early, d)
<1> DEFINE K == AheadOfLow(early, c)
           s == c.low
           u == d.low
           o == c.low[at].n
<1>1. s \in Seq(EventFrames) /\ Len(s) \in Nat /\ s[at] \in EventFrames /\ o \in DOMAIN l /\ o \in Nat /\ ~Durable(l[o].type)
      /\ s[at].kind = "event" /\ f.kind = "event"
  <2>1. s \in Seq(EventFrames) BY DEF Framed
  <2>2. Len(s) \in Nat /\ s[at] \in EventFrames BY <2>1
  <2>3. s[at].kind = "event" /\ o \in DOMAIN l /\ ~Durable(l[o].type) BY DEF Framed
  <2>4. o \in Nat BY <2>3 DEF Logs
  <2>5. f.kind = "event" BY DEF EventFrames
  <2> QED BY <2>1, <2>2, <2>3, <2>4, <2>5
<1>2. u \in Seq(EventFrames) /\ Len(u) = Len(s) /\ u[at] = f /\ \A k \in 1..Len(s) : k # at => u[k] = s[k] BY <1>1
<1>3. Ahead(early, d) = Ahead(early, c) /\ AheadOfLow(early, d) = K BY DEF Ahead, AheadOfLow
<1>4. Marked(K, o) BY DEF AheadOfLow, Marked
<1>5. \A m \in Nat : m >= o => Marked(K, m)
  <2>1. PICK g \in Range(c.normal) : g.kind = "gap" /\ g.from < o BY DEF Marked
  <2>2. Range(c.normal) \subseteq Tellings BY SeqFacts DEF Framed
  <2>3. g.from \in Nat /\ g \in K BY <2>1, <2>2 DEF Tellings, EventFrames, GapFrames, AheadOfLow
  <2> QED BY <1>1, <2>1, <2>3 DEF Marked
<1> HIDE DEF K
\* Whatever a set of frames, the old one among them, said, the same without the old one says.
<1>6. ASSUME NEW X, NEW Y, X \subseteq Y \cup {s[at]}
      PROVE  Absorbs(l, D, C, K \cup X, D, C, K \cup Y)
  <2> SUFFICES ASSUME NEW m \in DOMAIN l
               PROVE  /\ Knows(D, K \cup X, m) => Knows(D, K \cup Y, m)
                      /\ Durable(l[m].type) /\ Has(C, K \cup X, m) => Has(C, K \cup Y, m)
    BY DEF Absorbs
  <2>0. m \in Nat BY DEF Logs
  <2>1. Sent(K \cup X, m) => Sent(K \cup Y, m) \/ m = o BY <1>6 DEF Sent
  <2>2. Marked(K \cup X, m) => Marked(K \cup Y, m) BY <1>1, <1>6 DEF Marked
  <2>3. Marked(K \cup Y, o) BY <1>4 DEF Marked
  <2> QED BY <1>1, <2>1, <2>2, <2>3 DEF Knows, Has
<1>7. ASSUME NEW p \in 1..Len(u), u[p].kind = "event"
      PROVE  Heard(l, D, C, Before(K, u, p), u[p].n)
  <2>1. p \in 1..Len(s) /\ s[p] \in EventFrames BY <1>1, <1>2
  <2>2. s[p].kind = "event" BY <2>1 DEF EventFrames
  <2>3. Heard(l, D, C, Before(K, s, p), s[p].n) BY <2>1, <2>2 DEF InOrder, FlowTo, K
  <2>4. {s[q] : q \in 1 .. p - 1} \subseteq {u[q] : q \in 1 .. p - 1} \cup {s[at]}
    <3> SUFFICES ASSUME NEW q \in 1 .. p - 1, q # at PROVE s[q] \in {u[r] : r \in 1 .. p - 1} OBVIOUS
    <3>1. q \in 1..Len(s) BY <2>1
    <3>2. s[q] = u[q] BY <1>2, <3>1
    <3> QED BY <3>2
  <2>5. Absorbs(l, D, C, Before(K, s, p), D, C, Before(K, u, p)) BY <1>6, <2>4 DEF Before
  <2>6. s[p].n \in DOMAIN l /\ 1..(s[p].n - 1) \subseteq DOMAIN l BY <2>1, <2>2 DEF Framed, Within
  <2>7. Heard(l, D, C, Before(K, u, p), s[p].n) BY <2>3, <2>5, <2>6, HeardAbsorbs
  <2>8. CASE p # at BY <1>2, <2>1, <2>7, <2>8
  <2>9. CASE p = at
    <3> SUFFICES ASSUME NEW m \in 1 .. N
                 PROVE  /\ Knows(D, Before(K, u, p), m)
                        /\ Durable(l[m].type) => Has(C, Before(K, u, p), m)
      BY <1>2, <2>9 DEF Heard
    <3>1. CASE m < o
      <4>1. m \in 1 .. o - 1 BY <1>1, <3>1
      <4> QED BY <2>7, <2>9, <4>1 DEF Heard
    <3>2. CASE m >= o
      <4>1. Marked(K, m) BY <1>5, <3>2
      <4>2. m \in o .. N BY <1>1, <3>2
      <4> QED BY <4>1, <4>2 DEF Knows, Has, Before, Marked, Sent, K
    <3> QED BY <1>1, <3>1, <3>2
  <2> QED BY <2>8, <2>9
<1>8. Heard(l, D, C, OnTheWay(early, d), N + 2)
  <2>1. Range(s) = {s[q] : q \in 1..Len(s)} BY <1>1, SeqFacts
  <2>2. Range(u) = {u[q] : q \in 1..Len(u)}
    <3>1. u \in Seq(EventFrames) BY <1>2
    <3> HIDE DEF u
    <3> QED BY <3>1, SeqFacts
  <2>3. Range(s) \subseteq Range(u) \cup {s[at]} BY <1>2, <2>1, <2>2
  <2>4. Absorbs(l, D, C, OnTheWay(early, c), D, C, OnTheWay(early, d)) BY <1>3, <1>6, <2>3 DEF OnTheWay, K
  <2>5. 1..(N + 1 - 1) \subseteq DOMAIN l BY DEF Logs
  <2>6. Heard(l, D, C, OnTheWay(early, d), N + 1) BY <2>4, <2>5, HeardAbsorbs DEF FlowTo
  <2>7. f \in OnTheWay(early, d) BY <1>1, <1>2, <2>2 DEF OnTheWay
  <2>8. Sent(OnTheWay(early, d), N + 1) BY <1>1, <2>7 DEF Sent
  <2> QED BY <2>6, <2>8, HeardNext DEF Knows, Has
<1>9. InOrder(l, D, C, AheadOfLow(early, d), d.low) BY <1>3, <1>7 DEF InOrder
<1> QED BY <1>3, <1>8, <1>9 DEF FlowTo, K

\* The low lane is dropped and all of it marked.
LEMMA FlowRetracts ==
  ASSUME NEW l \in Logs, NEW N \in Nat, NEW D, NEW C, NEW early, NEW c, NEW d,
         FlowTo(l, N, D, C, early, c), Framed(l, c), N \in 0..Len(l),
         d.stream = c.stream, d.normal = c.normal, d.low = <<>>, d.subs = c.subs,
         \A k \in 1..Len(c.low) : Marked(Range(c.normal), c.low[k].n)
  PROVE  FlowTo(l, N, D, C, early, d)
<1>1. Ahead(early, d) = Ahead(early, c) /\ AheadOfLow(early, d) = AheadOfLow(early, c) BY DEF Ahead, AheadOfLow
<1>2. Range(<<>>) = {} BY DEF Range
<1>3. OnTheWay(early, d) = AheadOfLow(early, c) BY <1>1, <1>2 DEF OnTheWay
<1>4. Absorbs(l, D, C, OnTheWay(early, c), D, C, AheadOfLow(early, c))
  <2> DEFINE K == AheadOfLow(early, c)
  <2> SUFFICES ASSUME NEW m \in DOMAIN l
               PROVE  /\ Knows(D, OnTheWay(early, c), m) => Knows(D, K, m)
                      /\ Durable(l[m].type) /\ Has(C, OnTheWay(early, c), m) => Has(C, K, m)
    BY DEF Absorbs
  <2>1. Range(c.low) = {c.low[k] : k \in 1..Len(c.low)} BY SeqFacts DEF Framed
  <2>2. \A k \in 1..Len(c.low) : c.low[k].kind = "event" /\ ~Durable(l[c.low[k].n].type) BY DEF Framed
  <2>3. Sent(Range(c.low), m) => Marked(K, m) /\ ~Durable(l[m].type)
    <3> SUFFICES ASSUME NEW k \in 1..Len(c.low), c.low[k].n = m PROVE Marked(K, m) /\ ~Durable(l[m].type)
      BY <2>1 DEF Sent
    <3>1. Marked(Range(c.normal), m) /\ ~Durable(l[m].type) BY <2>2
    <3> QED BY <3>1 DEF Marked, AheadOfLow
  <2>4. ~Marked(Range(c.low), m) BY <2>1, <2>2 DEF Marked
  <2>5. /\ Sent(OnTheWay(early, c), m) <=> Sent(K, m) \/ Sent(Range(c.low), m)
        /\ Marked(OnTheWay(early, c), m) <=> Marked(K, m) \/ Marked(Range(c.low), m) BY SentUnion DEF OnTheWay
  <2> HIDE DEF K
  <2> QED BY <2>3, <2>4, <2>5 DEF Knows, Has
<1>5. 1..(N + 1 - 1) \subseteq DOMAIN l BY DEF Logs
<1>6. d.subs # <<>> => Heard(l, D, C, OnTheWay(early, d), N + 1) BY <1>3, <1>4, <1>5, HeardAbsorbs DEF FlowTo
<1>7. InOrder(l, D, C, AheadOfLow(early, d), d.low) BY InOrderEmpty
<1> QED BY <1>1, <1>6, <1>7 DEF FlowTo

\* The log grows, and what is settled with it.
LEMMA FlowGrows ==
  ASSUME NEW l \in Logs, NEW l2 \in Logs, NEW D, NEW D2, NEW C, NEW early, NEW c, Flow(l, D, C, early, c),
         Framed(l, c), Within(l, early), Extends(l, l2), D \subseteq D2
  PROVE  FlowTo(l2, Len(l), D2, C, early, c)
<1>1. ASSUME NEW K, NEW s, InOrder(l, D, C, K, s), Within(l, s) PROVE InOrder(l2, D2, C, K, s)
  <2>1. Wider(K, K) BY SubsetIsWider
  <2>2. Absorbs(l, D, C, K, D2, C, K) BY <2>1, WiderAbsorbs
  <2>3. InOrder(l, D2, C, K, s) BY <1>1, <2>2, InOrderAbsorbs
  <2> QED BY <1>1, <2>3, InOrderGrows
<1>2. ASSUME NEW K, Heard(l, D, C, K, Len(l) + 1) PROVE Heard(l2, D2, C, K, Len(l) + 1)
  <2>1. \A m \in 1..(Len(l) + 1 - 1) : m \in DOMAIN l BY DEF Logs
  <2> QED BY <1>2, <2>1 DEF Heard, Extends, Knows
<1> QED BY <1>1, <1>2 DEF Flow, FlowTo, Framed

-----------------------------------------------------------------------------
(* The operations of the channel *)

InLog(l, f) == /\ f.kind = "event" => f.n \in DOMAIN l
               /\ f.kind = "gap" => f.from < Len(l)

LEMMA OfLogAppend ==
  ASSUME NEW l, NEW S, NEW s \in Seq(S), NEW f \in S, OfLog(l, s), InLog(l, f)
  PROVE  OfLog(l, Append(s, f))
<1>1. Len(s) \in Nat /\ Len(Append(s, f)) = Len(s) + 1
      /\ (\A k \in 1..Len(s) : Append(s, f)[k] = s[k]) /\ Append(s, f)[Len(s) + 1] = f BY AppendFacts
<1> SUFFICES ASSUME NEW k \in 1..Len(Append(s, f)) PROVE InLog(l, Append(s, f)[k]) BY DEF OfLog, InLog
<1>2. CASE k \in 1..Len(s)
  <2>1. InLog(l, s[k]) BY <1>2 DEF OfLog, InLog
  <2> QED BY <1>1, <1>2, <2>1
<1>3. CASE k = Len(s) + 1 BY <1>1, <1>3
<1> QED BY <1>1, <1>2, <1>3

LEMMA ToldOfAppend ==
  ASSUME NEW id, NEW S, NEW s \in Seq(S), NEW f \in S, ToldOf(id, s), f.kind # "reply" => f.sub = id
  PROVE  ToldOf(id, Append(s, f))
<1>1. Len(s) \in Nat /\ Len(Append(s, f)) = Len(s) + 1
      /\ (\A k \in 1..Len(s) : Append(s, f)[k] = s[k]) /\ Append(s, f)[Len(s) + 1] = f BY AppendFacts
<1> SUFFICES ASSUME NEW k \in 1..Len(Append(s, f)), Append(s, f)[k].kind # "reply"
             PROVE  Append(s, f)[k].sub = id BY DEF ToldOf
<1>2. CASE k \in 1..Len(s) BY <1>1, <1>2 DEF ToldOf
<1>3. CASE k = Len(s) + 1 BY <1>1, <1>3
<1> QED BY <1>1, <1>2, <1>3

LEMMA EmptyFrames ==
  ASSUME NEW l, NEW id
  PROVE  OfLog(l, <<>>) /\ ToldOf(id, <<>>) /\ Range(<<>>) = {}
BY DEF OfLog, ToldOf, Range

\* The budgets, of the lengths of the stream and the lanes.
Weighs(s, h, n, w, blocked) ==
  /\ w <= LowBudget /\ n <= NormalBudget /\ h <= HighBudget
  /\ s + (h + n + w) <= MaxQueue
  /\ ~blocked => h + n + w = 0 /\ s < HighWater
  /\ s <= HighWater

LEMMA WeightsNone ==
  ASSUME NEW s \in Nat, NEW h \in Nat, NEW n \in Nat, NEW w \in Nat, NEW b, Weighs(s, h, n, w, b), h + n + w = 0
  PROVE  h = 0 /\ n = 0 /\ w = 0
BY BudgetsAssumption DEF Weighs

LEMMA WeightsSome ==
  ASSUME NEW s \in Nat, NEW h \in Nat, NEW n \in Nat, NEW w \in Nat, NEW b \in BOOLEAN, Weighs(s, h, n, w, b),
         h + n + w > 0
  PROVE  b = TRUE
BY BudgetsAssumption DEF Weighs

LEMMA WeightsGone ==
  ASSUME NEW s \in Nat, NEW h \in Nat, NEW n \in Nat, NEW w \in Nat, NEW b, Weighs(s, h, n, w, b)
  PROVE  Weighs(s, 0, 0, 0, b)
BY BudgetsAssumption DEF Weighs

LEMMA WeightsStream ==
  ASSUME NEW s \in Nat, NEW h \in Nat, NEW n \in Nat, NEW w \in Nat, NEW b \in BOOLEAN, Weighs(s, h, n, w, b),
         b = FALSE, NEW e \in BOOLEAN, e = (s + 1 >= HighWater)
  PROVE  Weighs(s + 1, 0, 0, 0, e)
<1>1. s < HighWater /\ HighWater \in Nat /\ MaxQueue \in Nat /\ HighWater <= MaxQueue BY BudgetsAssumption DEF Weighs
<1>2. s + 1 <= HighWater /\ s + 1 + (0 + 0 + 0) <= MaxQueue BY <1>1
<1>3. LowBudget \in Nat /\ NormalBudget \in Nat /\ HighBudget \in Nat BY BudgetsAssumption
<1>4. ~e => s + 1 < HighWater
  <2>1. CASE s + 1 >= HighWater BY <2>1, Zenon
  <2>2. CASE ~(s + 1 >= HighWater)
    <3>1. s + 1 < HighWater BY <1>1, <2>2
    <3> QED BY <3>1, Zenon
  <2> QED BY <2>1, <2>2
<1> QED BY <1>2, <1>3, <1>4 DEF Weighs

LEMMA WeightsHigh ==
  ASSUME NEW s \in Nat, NEW h \in Nat, NEW n \in Nat, NEW w \in Nat, NEW b, Weighs(s, h, n, w, b), b, s + (h + n + w) < MaxQueue, h < HighBudget
  PROVE  Weighs(s, h + 1, n, w, b)
BY BudgetsAssumption DEF Weighs

LEMMA WeightsNormal ==
  ASSUME NEW s \in Nat, NEW h \in Nat, NEW n \in Nat, NEW w \in Nat, NEW b, Weighs(s, h, n, w, b), b, s + (h + n + w) < MaxQueue, n < NormalBudget
  PROVE  Weighs(s, h, n + 1, w, b)
BY BudgetsAssumption DEF Weighs

LEMMA WeightsLow ==
  ASSUME NEW s \in Nat, NEW h \in Nat, NEW n \in Nat, NEW w \in Nat, NEW b, Weighs(s, h, n, w, b), b, s + (h + n + w) < MaxQueue, w < LowBudget
  PROVE  Weighs(s, h, n, w + 1, b)
BY BudgetsAssumption DEF Weighs

LEMMA WeightsNoLow ==
  ASSUME NEW s \in Nat, NEW h \in Nat, NEW n \in Nat, NEW w \in Nat, NEW b, Weighs(s, h, n, w, b)
  PROVE  Weighs(s, h, n, 0, b)
BY BudgetsAssumption DEF Weighs

LEMMA BudgetsAre ==
  ASSUME NEW c
  PROVE  Budgets(c) <=> /\ Weighs(Len(c.stream), Len(c.high), Len(c.normal), Len(c.low), c.blocked)
                        /\ c.failed => c.high = <<>> /\ c.normal = <<>> /\ c.low = <<>> /\ c.subs = <<>>
BY Zenon DEF Budgets, Weighs, Queued

LEMMA ChanFacts ==
  ASSUME NEW l, NEW c, ChanOK(l, c)
  PROVE  /\ c \in Channels
         /\ c.stream \in Seq(AnyFrames) /\ c.high \in Seq(Replies) /\ c.normal \in Seq(Tellings)
         /\ c.low \in Seq(EventFrames) /\ c.subs \in Seq(Nat) /\ c.blocked \in BOOLEAN /\ c.failed \in BOOLEAN
         /\ Len(c.stream) \in Nat /\ Len(c.high) \in Nat /\ Len(c.normal) \in Nat /\ Len(c.low) \in Nat
         /\ Weighs(Len(c.stream), Len(c.high), Len(c.normal), Len(c.low), c.blocked)
         /\ Queued(c) = Len(c.high) + Len(c.normal) + Len(c.low)
         /\ Queued(c) = 0 => c.high = <<>> /\ c.normal = <<>> /\ c.low = <<>>
         /\ Queued(c) > 0 => c.blocked
<1>1. /\ c \in Channels
      /\ c.stream \in Seq(AnyFrames) /\ c.high \in Seq(Replies) /\ c.normal \in Seq(Tellings)
      /\ c.low \in Seq(EventFrames) /\ c.subs \in Seq(Nat) /\ c.blocked \in BOOLEAN /\ c.failed \in BOOLEAN
  BY DEF ChanOK, ChanType, Channels
<1>2. Len(c.stream) \in Nat /\ Len(c.high) \in Nat /\ Len(c.normal) \in Nat /\ Len(c.low) \in Nat BY <1>1
<1>3. Queued(c) = Len(c.high) + Len(c.normal) + Len(c.low) BY DEF Queued
<1>4. Weighs(Len(c.stream), Len(c.high), Len(c.normal), Len(c.low), c.blocked) BY BudgetsAre DEF ChanOK
<1>5. /\ Queued(c) = 0 => Len(c.high) = 0 /\ Len(c.normal) = 0 /\ Len(c.low) = 0
      /\ Queued(c) > 0 => c.blocked 
  <2>1. ASSUME Queued(c) = 0 PROVE Len(c.high) = 0 /\ Len(c.normal) = 0 /\ Len(c.low) = 0
    <3>1. Len(c.high) + Len(c.normal) + Len(c.low) = 0 BY <1>3, <2>1, Zenon
    <3> QED BY <1>2, <1>4, <3>1, WeightsNone, Zenon
  <2>2. ASSUME Queued(c) > 0 PROVE c.blocked = TRUE
    <3>1. Len(c.high) + Len(c.normal) + Len(c.low) > 0 BY <1>3, <2>2, Zenon
    <3> QED BY <1>1, <1>2, <1>4, <3>1, WeightsSome, Zenon
  <2> QED BY <2>1, <2>2
<1>6. Queued(c) = 0 => c.high = <<>> /\ c.normal = <<>> /\ c.low = <<>> BY <1>1, <1>5
<1> QED BY <1>1, <1>2, <1>3, <1>4, <1>5, <1>6, Zenon

\* Nothing but what the stream holds is left of it.
Gone(c, d) ==
  /\ d \in Channels /\ d.stream = c.stream /\ d.blocked = c.blocked /\ d.failed = TRUE
  /\ d.high = <<>> /\ d.normal = <<>> /\ d.low = <<>> /\ d.subs = <<>>

LEMMA FailIsGone ==
  ASSUME NEW c \in Channels
  PROVE  Gone(c, Fail(c))
<1> DEFINE d == [c EXCEPT !.failed = TRUE, !.high = <<>>, !.normal = <<>>, !.low = <<>>, !.subs = <<>>]
<1>1. <<>> \in Seq(Replies) /\ <<>> \in Seq(Tellings) /\ <<>> \in Seq(EventFrames) /\ <<>> \in Seq(Nat) OBVIOUS
<1>2. d \in Channels BY <1>1 DEF Channels
<1>3. d.stream = c.stream /\ d.blocked = c.blocked /\ d.failed = TRUE
      /\ d.high = <<>> /\ d.normal = <<>> /\ d.low = <<>> /\ d.subs = <<>> BY DEF Channels
<1>4. Fail(c) = d BY DEF Fail
<1> HIDE DEF d
<1> QED BY <1>2, <1>3, <1>4 DEF Gone

LEMMA GoneOK ==
  ASSUME NEW l, NEW id, NEW c, NEW d, ChanOK(l, c), Gone(c, d)
  PROVE  ChanOK(l, d) /\ (ToldOf(id, c.stream) => OneSub(id, d))
<1>1. Len(<<>>) = 0 OBVIOUS
<1>2. OfLog(l, c.stream) BY DEF ChanOK, ChanType
<1>3. ChanType(l, d) BY <1>1, <1>2, EmptyFrames DEF ChanType, Gone
<1>4. Weighs(Len(c.stream), 0, 0, 0, c.blocked)
  <2>1. Len(c.stream) \in Nat /\ Len(c.high) \in Nat /\ Len(c.normal) \in Nat /\ Len(c.low) \in Nat
        /\ Weighs(Len(c.stream), Len(c.high), Len(c.normal), Len(c.low), c.blocked) BY ChanFacts
  <2> QED BY <2>1, WeightsGone, Zenon
<1>5. Budgets(d) BY <1>1, <1>4, BudgetsAre, Zenon DEF Gone
<1>6. ToldOf(id, c.stream) => OneSub(id, d) BY EmptyFrames DEF OneSub, Gone
<1> QED BY <1>3, <1>5, <1>6 DEF ChanOK

\* The stream takes a frame, the lanes being empty.
Streamed(c, d, f) ==
  /\ c.high = <<>> /\ c.normal = <<>> /\ c.low = <<>>
  /\ d \in Channels /\ d.stream = Append(c.stream, f)
  /\ d.high = <<>> /\ d.normal = <<>> /\ d.low = <<>> /\ d.subs = c.subs /\ d.failed = c.failed

LEMMA ToStreamOK ==
  ASSUME NEW l, NEW id, NEW c, ChanOK(l, c), ~c.failed, Queued(c) = 0, ~c.blocked,
         NEW f \in AnyFrames, InLog(l, f), f.kind # "reply" => f.sub = id
  PROVE  /\ Streamed(c, ToStream(c, f), f) /\ ChanOK(l, ToStream(c, f))
         /\ OneSub(id, c) => OneSub(id, ToStream(c, f))
<1> DEFINE d == ToStream(c, f)
<1>1. c \in Channels /\ c.stream \in Seq(AnyFrames) /\ c.high = <<>> /\ c.normal = <<>> /\ c.low = <<>>
      /\ Len(c.stream) \in Nat BY ChanFacts
<1>2. Append(c.stream, f) \in Seq(AnyFrames) /\ Len(Append(c.stream, f)) = Len(c.stream) + 1 BY <1>1
<1>3. /\ d \in Channels /\ d.stream = Append(c.stream, f)
      /\ d.high = c.high /\ d.normal = c.normal /\ d.low = c.low /\ d.subs = c.subs /\ d.failed = c.failed
      /\ d.blocked = (Len(c.stream) + 1 >= HighWater)
  <2> DEFINE s == Append(c.stream, f)
             b == Len(c.stream) + 1 >= HighWater
             e == [c EXCEPT !.stream = s, !.blocked = b]
  <2>1. s \in Seq(AnyFrames) /\ b \in BOOLEAN BY <1>2
  <2>2. d = e BY DEF ToStream
  <2> HIDE DEF s, b, d
  <2>3. e \in Channels BY <1>1, <2>1 DEF Channels
  <2>4. e.stream = s /\ e.blocked = b /\ e.high = c.high /\ e.normal = c.normal /\ e.low = c.low
        /\ e.subs = c.subs /\ e.failed = c.failed BY <1>1 DEF Channels
  <2> HIDE DEF e
  <2> QED BY <2>2, <2>3, <2>4 DEF s, b
<1> HIDE DEF d
<1>4. Streamed(c, d, f) BY <1>1, <1>3 DEF Streamed
<1>5. OfLog(l, d.stream) /\ (OneSub(id, c) => ToldOf(id, d.stream))
  <2>1. OfLog(l, c.stream) BY DEF ChanOK, ChanType
  <2>2. OfLog(l, Append(c.stream, f)) BY <1>1, <2>1, OfLogAppend
  <2>3. ASSUME OneSub(id, c) PROVE ToldOf(id, Append(c.stream, f))
    <3>1. ToldOf(id, c.stream) BY <2>3 DEF OneSub
    <3> QED BY <1>1, <3>1, ToldOfAppend
  <2> QED BY <1>3, <2>2, <2>3
<1>6. Len(<<>>) = 0 OBVIOUS
<1>7. ChanType(l, d) BY <1>1, <1>3, <1>5, <1>6, EmptyFrames DEF ChanType
<1>8. Weighs(Len(c.stream) + 1, 0, 0, 0, d.blocked)
  <2>1. Len(c.stream) \in Nat /\ Len(c.high) \in Nat /\ Len(c.normal) \in Nat /\ Len(c.low) \in Nat
        /\ Weighs(Len(c.stream), Len(c.high), Len(c.normal), Len(c.low), c.blocked)
        /\ c.blocked \in BOOLEAN /\ d.blocked \in BOOLEAN BY <1>3, ChanFacts DEF Channels
  <2>2. c.blocked = FALSE BY <2>1
  <2> QED BY <1>3, <2>1, <2>2, WeightsStream, Zenon
<1>10. Budgets(d)
  <2>1. Weighs(Len(d.stream), Len(d.high), Len(d.normal), Len(d.low), d.blocked)
    BY <1>1, <1>2, <1>3, <1>6, <1>8, Zenon
  <2> QED BY <1>3, <2>1, BudgetsAre, Zenon
<1>11. OneSub(id, c) => OneSub(id, d) BY <1>1, <1>3, <1>5, EmptyFrames DEF OneSub
<1> QED BY <1>4, <1>7, <1>10, <1>11 DEF ChanOK, d

\* A lane of a blocked stream takes a frame.
Normaled(c, d, f) ==
  /\ d \in Channels /\ d.stream = c.stream /\ d.high = c.high /\ d.normal = Append(c.normal, f) /\ d.low = c.low
  /\ d.blocked = c.blocked /\ d.failed = c.failed /\ d.subs = c.subs
Lowed(c, d, f) ==
  /\ d \in Channels /\ d.stream = c.stream /\ d.high = c.high /\ d.normal = c.normal /\ d.low = Append(c.low, f)
  /\ d.blocked = c.blocked /\ d.failed = c.failed /\ d.subs = c.subs
Highed(c, d, f) ==
  /\ d \in Channels /\ d.stream = c.stream /\ d.high = Append(c.high, f) /\ d.normal = c.normal /\ d.low = c.low
  /\ d.blocked = c.blocked /\ d.failed = c.failed /\ d.subs = c.subs

LEMMA QueueNormalOK ==
  ASSUME NEW l, NEW id, NEW c, ChanOK(l, c), OneSub(id, c), ~c.failed, c.blocked,
         NEW f \in Tellings, InLog(l, f), f.sub = id, Fits(c, "normal")
  PROVE  LET d == Queue(c, "normal", f) IN Normaled(c, d, f) /\ ChanOK(l, d) /\ OneSub(id, d)
<1> DEFINE d == Queue(c, "normal", f)
<1>1. c \in Channels /\ c.normal \in Seq(Tellings) /\ Len(c.stream) \in Nat /\ Len(c.high) \in Nat
      /\ Len(c.normal) \in Nat /\ Len(c.low) \in Nat /\ Queued(c) = Len(c.high) + Len(c.normal) + Len(c.low) BY ChanFacts
<1>2. Append(c.normal, f) \in Seq(Tellings) /\ Len(Append(c.normal, f)) = Len(c.normal) + 1 BY <1>1
<1>3. Normaled(c, d, f) BY <1>1, <1>2 DEF Queue, Normaled, Channels
<1> HIDE DEF d
<1>4. OfLog(l, d.normal) /\ ToldOf(id, d.normal)
  <2>1. OfLog(l, c.normal) /\ ToldOf(id, c.normal) BY DEF ChanOK, ChanType, OneSub
  <2>2. OfLog(l, Append(c.normal, f)) BY <1>1, <2>1, OfLogAppend
  <2>3. ToldOf(id, Append(c.normal, f)) BY <1>1, <2>1, ToldOfAppend
  <2> QED BY <1>3, <2>2, <2>3 DEF Normaled
<1>5. ChanType(l, d) BY <1>3, <1>4 DEF ChanType, ChanOK, Normaled
<1>6. Len(c.normal) < NormalBudget /\ Len(c.stream) + (Len(c.high) + Len(c.normal) + Len(c.low)) < MaxQueue
  BY Zenon DEF Fits, Lane, Budget, Queued
<1>7. Weighs(Len(c.stream), Len(c.high), Len(c.normal) + 1, Len(c.low), c.blocked)
  <2>1. Len(c.stream) \in Nat /\ Len(c.high) \in Nat /\ Len(c.normal) \in Nat /\ Len(c.low) \in Nat
        /\ Weighs(Len(c.stream), Len(c.high), Len(c.normal), Len(c.low), c.blocked) BY ChanFacts
  <2> QED BY <1>6, <2>1, WeightsNormal, Zenon
<1>8. Budgets(d)
  <2>1. Weighs(Len(d.stream), Len(d.high), Len(d.normal), Len(d.low), d.blocked)
    BY <1>2, <1>3, <1>7, Zenon DEF Normaled
  <2> QED BY <1>3, <2>1, BudgetsAre, Zenon DEF Normaled
<1>9. OneSub(id, d) BY <1>3, <1>4 DEF OneSub, Normaled
<1> QED BY <1>3, <1>5, <1>8, <1>9 DEF ChanOK, d

LEMMA QueueLowOK ==
  ASSUME NEW l, NEW id, NEW c, ChanOK(l, c), OneSub(id, c), ~c.failed, c.blocked,
         NEW f \in EventFrames, InLog(l, f), f.sub = id, ~Durable(l[f.n].type), Fits(c, "low")
  PROVE  LET d == Queue(c, "low", f) IN Lowed(c, d, f) /\ ChanOK(l, d) /\ OneSub(id, d)
<1> DEFINE d == Queue(c, "low", f)
<1>1. c \in Channels /\ c.low \in Seq(EventFrames) /\ Len(c.stream) \in Nat /\ Len(c.high) \in Nat
      /\ Len(c.normal) \in Nat /\ Len(c.low) \in Nat /\ Queued(c) = Len(c.high) + Len(c.normal) + Len(c.low) BY ChanFacts
<1>2. Append(c.low, f) \in Seq(EventFrames) /\ Len(Append(c.low, f)) = Len(c.low) + 1 BY <1>1
<1>3. Lowed(c, d, f) BY <1>1, <1>2 DEF Queue, Lowed, Channels
<1> HIDE DEF d
<1>4. OfLog(l, d.low) /\ ToldOf(id, d.low)
  <2>1. OfLog(l, c.low) /\ ToldOf(id, c.low) BY DEF ChanOK, ChanType, OneSub
  <2>2. OfLog(l, Append(c.low, f)) BY <1>1, <2>1, OfLogAppend
  <2>3. ToldOf(id, Append(c.low, f)) BY <1>1, <2>1, ToldOfAppend
  <2> QED BY <1>3, <2>2, <2>3 DEF Lowed
<1>5. \A k \in 1..Len(d.low) : ~Durable(l[d.low[k].n].type)
  <2>1. \A k \in 1..Len(c.low) : Append(c.low, f)[k] = c.low[k] /\ ~Durable(l[c.low[k].n].type)
    BY <1>1, AppendFacts DEF ChanOK, ChanType
  <2>2. Append(c.low, f)[Len(c.low) + 1] = f BY <1>1, AppendFacts
  <2> QED BY <1>1, <1>2, <1>3, <2>1, <2>2 DEF Lowed
<1>6. ChanType(l, d) BY <1>3, <1>4, <1>5 DEF ChanType, ChanOK, Lowed
<1>7. Len(c.low) < LowBudget /\ Len(c.stream) + (Len(c.high) + Len(c.normal) + Len(c.low)) < MaxQueue
  BY Zenon DEF Fits, Lane, Budget, Queued
<1>8. Weighs(Len(c.stream), Len(c.high), Len(c.normal), Len(c.low) + 1, c.blocked)
  <2>1. Len(c.stream) \in Nat /\ Len(c.high) \in Nat /\ Len(c.normal) \in Nat /\ Len(c.low) \in Nat
        /\ Weighs(Len(c.stream), Len(c.high), Len(c.normal), Len(c.low), c.blocked) BY ChanFacts
  <2> QED BY <1>7, <2>1, WeightsLow, Zenon
<1>9. Budgets(d)
  <2>1. Weighs(Len(d.stream), Len(d.high), Len(d.normal), Len(d.low), d.blocked)
    BY <1>2, <1>3, <1>8, Zenon DEF Lowed
  <2> QED BY <1>3, <2>1, BudgetsAre, Zenon DEF Lowed
<1>10. OneSub(id, d) BY <1>3, <1>4 DEF OneSub, Lowed
<1> QED BY <1>3, <1>6, <1>9, <1>10 DEF ChanOK, d

LEMMA QueueHighOK ==
  ASSUME NEW l, NEW id, NEW c, ChanOK(l, c), ~c.failed, c.blocked,
         NEW f \in Replies, Fits(c, "high")
  PROVE  LET d == Queue(c, "high", f) IN Highed(c, d, f) /\ ChanOK(l, d) /\ (OneSub(id, c) => OneSub(id, d))
<1> DEFINE d == Queue(c, "high", f)
<1>1. c \in Channels /\ c.high \in Seq(Replies) /\ Len(c.stream) \in Nat /\ Len(c.high) \in Nat
      /\ Len(c.normal) \in Nat /\ Len(c.low) \in Nat /\ Queued(c) = Len(c.high) + Len(c.normal) + Len(c.low) BY ChanFacts
<1>2. Append(c.high, f) \in Seq(Replies) /\ Len(Append(c.high, f)) = Len(c.high) + 1 BY <1>1
<1>3. Highed(c, d, f) BY <1>1, <1>2 DEF Queue, Highed, Channels
<1> HIDE DEF d
<1>4. ChanType(l, d) BY <1>3 DEF ChanType, ChanOK, Highed
<1>5. Len(c.high) < HighBudget /\ Len(c.stream) + (Len(c.high) + Len(c.normal) + Len(c.low)) < MaxQueue
  BY Zenon DEF Fits, Lane, Budget, Queued
<1>6. Weighs(Len(c.stream), Len(c.high) + 1, Len(c.normal), Len(c.low), c.blocked)
  <2>1. Len(c.stream) \in Nat /\ Len(c.high) \in Nat /\ Len(c.normal) \in Nat /\ Len(c.low) \in Nat
        /\ Weighs(Len(c.stream), Len(c.high), Len(c.normal), Len(c.low), c.blocked) BY ChanFacts
  <2> QED BY <1>5, <2>1, WeightsHigh, Zenon
<1>7. Budgets(d)
  <2>1. Weighs(Len(d.stream), Len(d.high), Len(d.normal), Len(d.low), d.blocked)
    BY <1>2, <1>3, <1>6, Zenon DEF Highed
  <2> QED BY <1>3, <2>1, BudgetsAre, Zenon DEF Highed
<1>8. OneSub(id, c) => OneSub(id, d) BY <1>3 DEF OneSub, Highed
<1> QED BY <1>3, <1>4, <1>7, <1>8 DEF ChanOK, d

LEMMA WidensSelf ==
  ASSUME NEW s \in Seq(Tellings)
  PROVE  Widens(s, s)
<1>1. Len(s) \in Nat OBVIOUS
<1> QED BY <1>1 DEF Widens

LEMMA WidensMore ==
  ASSUME NEW s \in Seq(Tellings), NEW u \in Seq(Tellings), NEW v \in Seq(Tellings), Widens(s, u), Widens(u, v)
  PROVE  Widens(s, v)
<1>1. Len(s) \in Nat /\ Len(u) \in Nat /\ Len(v) \in Nat /\ Len(u) >= Len(s) /\ Len(v) >= Len(u) BY DEF Widens
<1>2. ASSUME NEW k \in 1..Len(v)
      PROVE  \/ k <= Len(s) /\ v[k] = s[k]
             \/ k <= Len(s) /\ s[k].kind = "gap" /\ v[k].kind = "gap" /\ v[k].from <= s[k].from
             \/ k > Len(s) /\ v[k].kind = "gap"
  <2>1. CASE k > Len(u) BY <1>1, <2>1 DEF Widens
  <2>2. CASE k <= Len(u)
    <3>1. k \in 1..Len(u) BY <1>1, <2>2
    <3>2. CASE k > Len(s)
      <4>1. u[k].kind = "gap" BY <1>1, <3>1, <3>2 DEF Widens
      <4> QED BY <1>1, <2>2, <3>2, <4>1 DEF Widens
    <3>3. CASE k <= Len(s)
      <4>1. k \in 1..Len(s) BY <1>1, <3>3
      <4>2. s[k] \in Tellings /\ u[k] \in Tellings /\ v[k] \in Tellings BY <3>1, <4>1
      <4>3. u[k] = s[k] \/ (s[k].kind = "gap" /\ u[k].kind = "gap" /\ u[k].from <= s[k].from)
        BY <1>1, <3>1, <3>3 DEF Widens
      <4>4. v[k] = u[k] \/ (u[k].kind = "gap" /\ v[k].kind = "gap" /\ v[k].from <= u[k].from)
        BY <1>1, <2>2 DEF Widens
      <4>5. \A g \in Tellings : g.kind = "gap" => g.from \in Nat BY DEF Tellings, EventFrames, GapFrames
      <4> QED BY <3>3, <4>2, <4>3, <4>4, <4>5
    <3> QED BY <1>1, <3>2, <3>3
  <2> QED BY <1>1, <2>1, <2>2
<1> QED BY <1>1, <1>2 DEF Widens

\* Only the normal lane's markers changed.
Reported(l, id, c, d) ==
  /\ ChanOK(l, d) /\ OneSub(id, d)
  /\ d.stream = c.stream /\ d.high = c.high /\ d.low = c.low
  /\ d.blocked = c.blocked /\ d.failed = c.failed /\ d.subs = c.subs
  /\ Widens(c.normal, d.normal)

LEMMA WriteBlocked ==
  ASSUME NEW c, NEW lane, NEW f, ~c.failed, c.blocked
  PROVE  Write(c, lane, f) = IF Fits(c, lane) THEN Queue(c, lane, f) ELSE Fail(c)
BY DEF Write

LEMMA WriteFailed ==
  ASSUME NEW c, NEW lane, NEW f, c.failed
  PROVE  Write(c, lane, f) = c
BY DEF Write

LEMMA MinMax ==
  ASSUME NEW a \in Nat, NEW b \in Nat
  PROVE  /\ MinOf(a, b) \in Nat /\ MinOf(a, b) <= a /\ MinOf(a, b) <= b /\ MinOf(a, b) \in {a, b}
         /\ MaxOf(a, b) \in Nat /\ MaxOf(a, b) >= a /\ MaxOf(a, b) >= b /\ MaxOf(a, b) \in {a, b}
BY DEF MinOf, MaxOf

\* Where the subscription's marker is.
Marker(c, id) == {k \in 1..Len(c.normal) : c.normal[k].kind = "gap" /\ c.normal[k].sub = id}
Gap(id, from, to) == [kind |-> "gap", sub |-> id, from |-> from, to |-> to]
Widened(c, at, i) == [c EXCEPT !.normal[at].from = MinOf(@, i), !.normal[at].to = MaxOf(@, i)]
WiderGap(g, i) == [g EXCEPT !.from = MinOf(@, i), !.to = MaxOf(@, i)]

LEMMA ReportGapCases ==
  ASSUME NEW c, NEW id, NEW i
  PROVE  /\ Marker(c, id) = {} => ReportGap(c, id, i) = Write(c, "normal", Gap(id, i, i))
         /\ Marker(c, id) # {} /\ Min(Marker(c, id)) > 0 =>
              ReportGap(c, id, i) = Widened(c, Min(Marker(c, id)), i)
<1> DEFINE Mine(f) == f.kind = "gap" /\ f.sub = id
<1>1. SelectInSeq(c.normal, Mine) = IF Marker(c, id) # {} THEN Min(Marker(c, id)) ELSE 0
  BY DEF SelectInSeq, Marker
<1>2. ReportGap(c, id, i) =
        (IF SelectInSeq(c.normal, Mine) > 0
         THEN [c EXCEPT !.normal[SelectInSeq(c.normal, Mine)].from = MinOf(@, i), !.normal[SelectInSeq(c.normal, Mine)].to = MaxOf(@, i)]
         ELSE Write(c, "normal", [kind |-> "gap", sub |-> id, from |-> i, to |-> i])) BY DEF ReportGap
<1> DEFINE r == SelectInSeq(c.normal, Mine)
<1>3. ReportGap(c, id, i) =
        (IF r > 0
         THEN [c EXCEPT !.normal[r].from = MinOf(@, i), !.normal[r].to = MaxOf(@, i)]
         ELSE Write(c, "normal", [kind |-> "gap", sub |-> id, from |-> i, to |-> i])) BY <1>2
<1>4. r = IF Marker(c, id) # {} THEN Min(Marker(c, id)) ELSE 0 BY <1>1
<1> HIDE DEF Mine, r
<1>5. ASSUME Marker(c, id) = {} PROVE ReportGap(c, id, i) = Write(c, "normal", Gap(id, i, i))
  <2>1. r = 0 BY <1>4, <1>5
  <2>2. ~(r > 0) BY <2>1
  <2> QED BY <1>3, <2>2 DEF Gap
<1>6. ASSUME Marker(c, id) # {}, Min(Marker(c, id)) > 0
      PROVE ReportGap(c, id, i) = Widened(c, Min(Marker(c, id)), i)
  <2>1. r = Min(Marker(c, id)) BY <1>4, <1>6
  <2>2. r > 0 BY <1>6, <2>1, Zenon
  <2>3. ReportGap(c, id, i) = Widened(c, r, i) BY <1>3, <2>2 DEF Widened
  <2> QED BY <2>1, <2>3, Zenon
<1> QED BY <1>5, <1>6, Zenon

IsWidened(c, d, at, g, i) ==
  /\ d \in Channels /\ d.normal = [c.normal EXCEPT ![at] = g]
  /\ d.stream = c.stream /\ d.high = c.high /\ d.low = c.low
  /\ d.blocked = c.blocked /\ d.failed = c.failed /\ d.subs = c.subs
  /\ g \in GapFrames /\ g.sub = c.normal[at].sub
  /\ g.from <= c.normal[at].from /\ g.from <= i

LEMMA GapIsWidened ==
  ASSUME NEW c \in Channels, NEW at \in 1..Len(c.normal), c.normal[at].kind = "gap", NEW i \in Nat
  PROVE  IsWidened(c, Widened(c, at, i), at, WiderGap(c.normal[at], i), i)
<1> DEFINE o == c.normal[at]
           s == c.normal
<1>1. s \in Seq(Tellings) BY DEF Channels
<1>2. o \in GapFrames
  <2>1. o \in Tellings BY <1>1
  <2> QED BY <2>1 DEF Tellings, EventFrames
<1>3. o.from \in Nat /\ o.to \in Nat /\ o.sub \in Nat BY <1>2 DEF GapFrames
<1> DEFINE g == WiderGap(o, i)
<1>4. g \in GapFrames /\ g.sub = o.sub /\ g.from <= o.from /\ g.from <= i
  <2> DEFINE a == MinOf(o.from, i)
             b == MaxOf(o.to, i)
  <2>1. a \in Nat /\ b \in Nat /\ a <= o.from /\ a <= i BY <1>3, MinMax
  <2>2. g = [o EXCEPT !.from = a, !.to = b] BY DEF WiderGap
  <2> HIDE DEF a, b, o, g
  <2> QED BY <1>2, <2>1, <2>2 DEF GapFrames
<1> DEFINE d == Widened(c, at, i)
           e == [c EXCEPT !.normal = [s EXCEPT ![at] = g]]
<1>5. d = e
  <2> QED BY <1>1, <1>2 DEF Channels, GapFrames, Widened, WiderGap
<1>6. [s EXCEPT ![at] = g] \in Seq(Tellings)
  <2>1. g \in Tellings BY <1>4 DEF Tellings
  <2> HIDE DEF g, o
  <2> QED BY <1>1, <2>1
<1>7. e \in Channels /\ e.normal = [s EXCEPT ![at] = g]
      /\ e.stream = c.stream /\ e.high = c.high /\ e.low = c.low
      /\ e.blocked = c.blocked /\ e.failed = c.failed /\ e.subs = c.subs
  <2> DEFINE v == [s EXCEPT ![at] = g]
  <2>1. v \in Seq(Tellings) BY <1>6
  <2> HIDE DEF v
  <2>2. [c EXCEPT !.normal = v] \in Channels BY <2>1 DEF Channels
  <2>3. LET z == [c EXCEPT !.normal = v] IN
          /\ z.normal = v /\ z.stream = c.stream /\ z.high = c.high /\ z.low = c.low
          /\ z.blocked = c.blocked /\ z.failed = c.failed /\ z.subs = c.subs BY DEF Channels
  <2> QED BY <2>2, <2>3 DEF v
<1> HIDE DEF d, e, g
<1> QED BY <1>4, <1>5, <1>7 DEF d, g, IsWidened

LEMMA ReportGapOK ==
  ASSUME NEW l \in Logs, NEW id \in Nat, NEW c, ChanOK(l, c), OneSub(id, c), c.blocked, ~c.failed,
         NEW i \in Nat, i < Len(l)
  PROVE  LET d == ReportGap(c, id, i)
         IN  Gone(c, d) \/ (Reported(l, id, c, d) /\ Marked(Range(d.normal), i + 1))
<1> DEFINE d == ReportGap(c, id, i)
           s == c.normal
<1>1. c \in Channels /\ s \in Seq(Tellings) /\ Len(s) \in Nat BY ChanFacts
<1>2. CASE Marker(c, id) = {}
  <2> DEFINE g == Gap(id, i, i)
  <2>1. g \in Tellings /\ g.kind = "gap" /\ g.sub = id /\ g.from = i BY DEF Gap, Tellings, GapFrames
  <2>2. InLog(l, g) BY <2>1 DEF InLog
  <2>3. d = IF Fits(c, "normal") THEN Queue(c, "normal", g) ELSE Fail(c)
    <3>1. d = Write(c, "normal", g) BY <1>2, ReportGapCases, Zenon
    <3> QED BY <3>1, WriteBlocked, Zenon
  <2> HIDE DEF d, g
  <2>4. CASE ~Fits(c, "normal") BY <1>1, <2>3, <2>4, FailIsGone DEF d
  <2>5. CASE Fits(c, "normal")
    <3>1. Normaled(c, d, g) /\ ChanOK(l, d) /\ OneSub(id, d) BY <2>1, <2>2, <2>3, <2>5, QueueNormalOK
    <3>2. Range(d.normal) = Range(s) \cup {g} BY <1>1, <2>1, <3>1, AppendFacts DEF Normaled
    <3>3. Marked(Range(d.normal), i + 1) BY <2>1, <3>2 DEF Marked
    <3>4. Widens(s, d.normal)
      <4>1. Len(Append(s, g)) = Len(s) + 1 /\ (\A k \in 1..Len(s) : Append(s, g)[k] = s[k]) /\ Append(s, g)[Len(s) + 1] = g
        BY <1>1, <2>1, AppendFacts
      <4>2. Widens(s, Append(s, g)) BY <1>1, <2>1, <4>1 DEF Widens
      <4> QED BY <3>1, <4>2 DEF Normaled
    <3> QED BY <3>1, <3>3, <3>4 DEF Reported, Normaled, d
  <2> QED BY <2>4, <2>5
<1>3. CASE Marker(c, id) # {}
  <2> DEFINE at == Min(Marker(c, id))
  <2>1. Marker(c, id) \in SUBSET (1..Len(s)) BY DEF Marker
  <2>2. at \in Marker(c, id) BY <1>1, <1>3, <2>1, MinIsLeast
  <2> HIDE DEF at
  <2>3. at \in 1..Len(s) /\ s[at].kind = "gap" /\ s[at].sub = id /\ at > 0 BY <2>2 DEF Marker
  <2>4. d = Widened(c, at, i) BY <1>3, <2>3, ReportGapCases, Zenon DEF at
  <2> DEFINE g == WiderGap(c.normal[at], i)
  <2>4a. IsWidened(c, d, at, g, i) BY <1>1, <2>3, <2>4, GapIsWidened, Zenon
  <2> HIDE DEF g, d
  <2>5. /\ d \in Channels /\ d.normal = [c.normal EXCEPT ![at] = g]
        /\ d.stream = c.stream /\ d.high = c.high /\ d.low = c.low
        /\ d.blocked = c.blocked /\ d.failed = c.failed /\ d.subs = c.subs
        /\ g \in GapFrames /\ g.sub = c.normal[at].sub
        /\ g.from <= c.normal[at].from /\ g.from <= i
    BY <2>4a DEF IsWidened
  <2>6. g.kind = "gap" /\ g.from \in Nat /\ g \in Tellings /\ g.sub = id BY <2>3, <2>5 DEF GapFrames, Tellings
  <2>7. d.normal \in Seq(Tellings) /\ Len(d.normal) = Len(s) /\ d.normal[at] = g
        /\ (\A k \in 1..Len(s) : k # at => d.normal[k] = s[k]) BY <1>1, <2>3, <2>5, <2>6
  <2>8. Widens(s, d.normal) BY <1>1, <2>3, <2>5, <2>6, <2>7 DEF Widens
  <2>9. Marked(Range(d.normal), i + 1)
    <3>1. g \in Range(d.normal) BY <2>3, <2>7, SeqFacts
    <3>2. g.from < i + 1 BY <2>5, <2>6
    <3> QED BY <2>6, <3>1, <3>2 DEF Marked
  <2>10. OfLog(l, d.normal) /\ ToldOf(id, d.normal)
    <3>1. OfLog(l, s) /\ ToldOf(id, s) BY DEF ChanOK, ChanType, OneSub
    <3>2. g.from < Len(l) BY <2>5, <2>6 DEF Logs
    <3>3. OfLog(l, d.normal) BY <2>6, <2>7, <3>1, <3>2 DEF OfLog
    <3>4. ToldOf(id, d.normal) BY <2>6, <2>7, <3>1 DEF ToldOf
    <3> QED BY <3>3, <3>4
  <2>11. ChanType(l, d) BY <2>5, <2>10 DEF ChanOK, ChanType
  <2>12. Budgets(d)
    <3>1. Weighs(Len(c.stream), Len(c.high), Len(c.normal), Len(c.low), c.blocked) BY ChanFacts
    <3> QED BY <2>5, <2>7, <3>1, BudgetsAre, Zenon
  <2>13. OneSub(id, d) BY <2>5, <2>10 DEF OneSub
  <2> QED BY <2>5, <2>8, <2>9, <2>11, <2>12, <2>13 DEF Reported, ChanOK, d
<1> QED BY <1>2, <1>3

\* g says what is reported of each prefix.
ReportedBy(g, c, sub, lost) ==
  /\ g[0] = c
  /\ \A n \in 1..Len(lost) : g[n] = ReportGap(g[n - 1], sub, log'[lost[n].n].i)
  /\ ReportGaps(c, sub, lost) = g[Len(lost)]

LEMMA ReportGapsUnfolds ==
  ASSUME NEW c, NEW sub, NEW lost, Len(lost) \in Nat
  PROVE  \E g : ReportedBy(g, c, sub, lost)
<1> DEFINE Rec(g, n) == g = [k \in 0..n |-> IF k = 0 THEN c ELSE ReportGap(g[k - 1], sub, log'[lost[k].n].i)]
<1> DEFINE B == {n \in 0..Len(lost) : ~\E g : Rec(g, n)}
<1>1. B = {}
  <2> SUFFICES ASSUME B # {} PROVE FALSE OBVIOUS
  <2>1. B \in SUBSET (0..Len(lost)) OBVIOUS
  <2>2. PICK m \in B : m = 0 \/ m - 1 \notin B
    <3> HIDE DEF B
    <3> QED BY <2>1, LeastOf
  <2>3. m \in 0..Len(lost) /\ ~\E g : Rec(g, m) OBVIOUS
  <2>4. CASE m = 0
    <3> DEFINE g == [k \in 0..0 |-> c]
    <3>1. \A k \in 0..0 : k = 0 OBVIOUS
    <3>2. Rec(g, 0) BY <3>1
    <3> QED BY <2>3, <2>4, <3>2
  <2>5. CASE m # 0
    <3>1. m - 1 \in 0..Len(lost) /\ m \in Nat BY <2>3, <2>5
    <3>2. PICK g : Rec(g, m - 1) BY <2>2, <2>5, <3>1
    <3> DEFINE last == ReportGap(g[m - 1], sub, log'[lost[m].n].i)
    <3> DEFINE h == [k \in 0..m |-> IF k = m THEN last ELSE g[k]]
    <3>3. \A k \in 0..m : h[k] = IF k = m THEN last ELSE g[k] OBVIOUS
    <3>4. \A k \in 0..(m - 1) : g[k] = IF k = 0 THEN c ELSE ReportGap(g[k - 1], sub, log'[lost[k].n].i) BY <3>2
    <3>5. DOMAIN h = 0..m /\ h = [k \in 0..m |-> h[k]] OBVIOUS
    <3> HIDE DEF h, Rec
    <3>6. \A k \in 0..m : h[k] = IF k = 0 THEN c ELSE ReportGap(h[k - 1], sub, log'[lost[k].n].i)
      <4> SUFFICES ASSUME NEW k \in 0..m PROVE h[k] = IF k = 0 THEN c ELSE ReportGap(h[k - 1], sub, log'[lost[k].n].i)
        OBVIOUS
      <4>1. k # 0 => k - 1 \in 0..m /\ k - 1 # m BY <3>1
      <4>2. k # m => k \in 0..(m - 1) BY <3>1
      <4>3. k # 0 => h[k - 1] = g[k - 1] BY <3>3, <4>1
      <4>4. CASE k = m
        <5>1. h[k] = last BY <3>3, <4>4
        <5> QED BY <2>5, <4>3, <4>4, <5>1
      <4>5. CASE k # m
        <5>1. h[k] = g[k] BY <3>3, <4>5
        <5>2. g[k] = IF k = 0 THEN c ELSE ReportGap(g[k - 1], sub, log'[lost[k].n].i) BY <3>4, <4>2, <4>5
        <5> QED BY <4>3, <5>1, <5>2
      <4> QED BY <4>4, <4>5
    <3>7. h = [k \in 0..m |-> IF k = 0 THEN c ELSE ReportGap(h[k - 1], sub, log'[lost[k].n].i)] BY <3>5, <3>6
    <3> QED BY <2>3, <3>7 DEF Rec
  <2> QED BY <2>4, <2>5
<1>2. \E g : Rec(g, Len(lost))
  <2> HIDE DEF Rec
  <2>1. Len(lost) \in 0..Len(lost) OBVIOUS
  <2>2. Len(lost) \notin B BY <1>1, Zenon
  <2> QED BY <2>1, <2>2
<1> DEFINE after == CHOOSE g : Rec(g, Len(lost))
<1>3. Rec(after, Len(lost)) BY <1>2
<1>4. ReportGaps(c, sub, lost) = after[Len(lost)] BY DEF ReportGaps
<1>5. \A k \in 0..Len(lost) : after[k] = IF k = 0 THEN c ELSE ReportGap(after[k - 1], sub, log'[lost[k].n].i) BY <1>3
<1> HIDE DEF after
<1>6. after[0] = c /\ \A n \in 1..Len(lost) : after[n] = ReportGap(after[n - 1], sub, log'[lost[n].n].i) BY <1>5
<1> QED BY <1>4, <1>6 DEF ReportedBy

\* g says what is delivered of each prefix.
DeliveredBy(g, t, frames) ==
  /\ g[0] = t
  /\ \A n \in 1..Len(frames) : g[n] = Deliver(g[n - 1], frames[n])
  /\ Delivered(t, frames) = g[Len(frames)]

LEMMA DeliveredUnfolds ==
  ASSUME NEW t, NEW frames, Len(frames) \in Nat
  PROVE  \E g : DeliveredBy(g, t, frames)
<1> DEFINE Rec(g, n) == g = [k \in 0..n |-> IF k = 0 THEN t ELSE Deliver(g[k - 1], frames[k])]
<1> DEFINE B == {n \in 0..Len(frames) : ~\E g : Rec(g, n)}
<1>1. B = {}
  <2> SUFFICES ASSUME B # {} PROVE FALSE OBVIOUS
  <2>1. B \in SUBSET (0..Len(frames)) OBVIOUS
  <2>2. PICK m \in B : m = 0 \/ m - 1 \notin B
    <3> HIDE DEF B
    <3> QED BY <2>1, LeastOf
  <2>3. m \in 0..Len(frames) /\ ~\E g : Rec(g, m) OBVIOUS
  <2>4. CASE m = 0
    <3> DEFINE g == [k \in 0..0 |-> t]
    <3>1. \A k \in 0..0 : k = 0 OBVIOUS
    <3>2. Rec(g, 0) BY <3>1
    <3> QED BY <2>3, <2>4, <3>2
  <2>5. CASE m # 0
    <3>1. m - 1 \in 0..Len(frames) /\ m \in Nat BY <2>3, <2>5
    <3>2. PICK g : Rec(g, m - 1) BY <2>2, <2>5, <3>1
    <3> DEFINE last == Deliver(g[m - 1], frames[m])
    <3> DEFINE h == [k \in 0..m |-> IF k = m THEN last ELSE g[k]]
    <3>3. \A k \in 0..m : h[k] = IF k = m THEN last ELSE g[k] OBVIOUS
    <3>4. \A k \in 0..(m - 1) : g[k] = IF k = 0 THEN t ELSE Deliver(g[k - 1], frames[k]) BY <3>2
    <3>5. DOMAIN h = 0..m /\ h = [k \in 0..m |-> h[k]] OBVIOUS
    <3> HIDE DEF h, Rec
    <3>6. \A k \in 0..m : h[k] = IF k = 0 THEN t ELSE Deliver(h[k - 1], frames[k])
      <4> SUFFICES ASSUME NEW k \in 0..m PROVE h[k] = IF k = 0 THEN t ELSE Deliver(h[k - 1], frames[k])
        OBVIOUS
      <4>1. k # 0 => k - 1 \in 0..m /\ k - 1 # m BY <3>1
      <4>2. k # m => k \in 0..(m - 1) BY <3>1
      <4>3. k # 0 => h[k - 1] = g[k - 1] BY <3>3, <4>1
      <4>4. CASE k = m
        <5>1. h[k] = last BY <3>3, <4>4
        <5> QED BY <2>5, <4>3, <4>4, <5>1
      <4>5. CASE k # m
        <5>1. h[k] = g[k] BY <3>3, <4>5
        <5>2. g[k] = IF k = 0 THEN t ELSE Deliver(g[k - 1], frames[k]) BY <3>4, <4>2, <4>5
        <5> QED BY <4>3, <5>1, <5>2
      <4> QED BY <4>4, <4>5
    <3>7. h = [k \in 0..m |-> IF k = 0 THEN t ELSE Deliver(h[k - 1], frames[k])] BY <3>5, <3>6
    <3> QED BY <2>3, <3>7 DEF Rec
  <2> QED BY <2>4, <2>5
<1>2. \E g : Rec(g, Len(frames))
  <2> HIDE DEF Rec
  <2>1. Len(frames) \in 0..Len(frames) OBVIOUS
  <2>2. Len(frames) \notin B BY <1>1, Zenon
  <2> QED BY <2>1, <2>2
<1> DEFINE after == CHOOSE g : Rec(g, Len(frames))
<1>3. Rec(after, Len(frames)) BY <1>2
<1>4. Delivered(t, frames) = after[Len(frames)] BY DEF Delivered
<1>5. \A k \in 0..Len(frames) : after[k] = IF k = 0 THEN t ELSE Deliver(after[k - 1], frames[k]) BY <1>3
<1> HIDE DEF after
<1>6. after[0] = t /\ \A n \in 1..Len(frames) : after[n] = Deliver(after[n - 1], frames[n]) BY <1>5
<1> QED BY <1>4, <1>6 DEF DeliveredBy

\* g says what is sent to each prefix of the subscriptions.
PublishedBy(g, c, n) ==
  /\ g[0] = c
  /\ \A i \in 1..Len(c.subs) : g[i] = SendEvent(g[i - 1], c.subs[i], n)
  /\ Publishes(c, n) = g[Len(c.subs)]

LEMMA PublishesUnfolds ==
  ASSUME NEW c, NEW n, Len(c.subs) \in Nat
  PROVE  \E g : PublishedBy(g, c, n)
<1> DEFINE Rec(g, j) == g = [k \in 0..j |-> IF k = 0 THEN c ELSE SendEvent(g[k - 1], c.subs[k], n)]
<1> DEFINE B == {j \in 0..Len(c.subs) : ~\E g : Rec(g, j)}
<1>1. B = {}
  <2> SUFFICES ASSUME B # {} PROVE FALSE OBVIOUS
  <2>1. B \in SUBSET (0..Len(c.subs)) OBVIOUS
  <2>2. PICK m \in B : m = 0 \/ m - 1 \notin B
    <3> HIDE DEF B
    <3> QED BY <2>1, LeastOf
  <2>3. m \in 0..Len(c.subs) /\ ~\E g : Rec(g, m) OBVIOUS
  <2>4. CASE m = 0
    <3> DEFINE g == [k \in 0..0 |-> c]
    <3>1. \A k \in 0..0 : k = 0 OBVIOUS
    <3>2. Rec(g, 0) BY <3>1
    <3> QED BY <2>3, <2>4, <3>2
  <2>5. CASE m # 0
    <3>1. m - 1 \in 0..Len(c.subs) /\ m \in Nat BY <2>3, <2>5
    <3>2. PICK g : Rec(g, m - 1) BY <2>2, <2>5, <3>1
    <3> DEFINE last == SendEvent(g[m - 1], c.subs[m], n)
    <3> DEFINE h == [k \in 0..m |-> IF k = m THEN last ELSE g[k]]
    <3>3. \A k \in 0..m : h[k] = IF k = m THEN last ELSE g[k] OBVIOUS
    <3>4. \A k \in 0..(m - 1) : g[k] = IF k = 0 THEN c ELSE SendEvent(g[k - 1], c.subs[k], n) BY <3>2
    <3>5. DOMAIN h = 0..m /\ h = [k \in 0..m |-> h[k]] OBVIOUS
    <3> HIDE DEF h, Rec
    <3>6. \A k \in 0..m : h[k] = IF k = 0 THEN c ELSE SendEvent(h[k - 1], c.subs[k], n)
      <4> SUFFICES ASSUME NEW k \in 0..m PROVE h[k] = IF k = 0 THEN c ELSE SendEvent(h[k - 1], c.subs[k], n)
        OBVIOUS
      <4>1. k # 0 => k - 1 \in 0..m /\ k - 1 # m BY <3>1
      <4>2. k # m => k \in 0..(m - 1) BY <3>1
      <4>3. k # 0 => h[k - 1] = g[k - 1] BY <3>3, <4>1
      <4>4. CASE k = m
        <5>1. h[k] = last BY <3>3, <4>4
        <5> QED BY <2>5, <4>3, <4>4, <5>1
      <4>5. CASE k # m
        <5>1. h[k] = g[k] BY <3>3, <4>5
        <5>2. g[k] = IF k = 0 THEN c ELSE SendEvent(g[k - 1], c.subs[k], n) BY <3>4, <4>2, <4>5
        <5> QED BY <4>3, <5>1, <5>2
      <4> QED BY <4>4, <4>5
    <3>7. h = [k \in 0..m |-> IF k = 0 THEN c ELSE SendEvent(h[k - 1], c.subs[k], n)] BY <3>5, <3>6
    <3> QED BY <2>3, <3>7 DEF Rec
  <2> QED BY <2>4, <2>5
<1>2. \E g : Rec(g, Len(c.subs))
  <2> HIDE DEF Rec
  <2>1. Len(c.subs) \in 0..Len(c.subs) OBVIOUS
  <2>2. Len(c.subs) \notin B BY <1>1, Zenon
  <2> QED BY <2>1, <2>2
<1> DEFINE after == CHOOSE g : Rec(g, Len(c.subs))
<1>3. Rec(after, Len(c.subs)) BY <1>2
<1>4. Publishes(c, n) = after[Len(c.subs)] BY DEF Publishes
<1>5. \A k \in 0..Len(c.subs) : after[k] = IF k = 0 THEN c ELSE SendEvent(after[k - 1], c.subs[k], n) BY <1>3
<1> HIDE DEF after
<1>6. after[0] = c /\ \A i \in 1..Len(c.subs) : after[i] = SendEvent(after[i - 1], c.subs[i], n) BY <1>5
<1> QED BY <1>4, <1>6 DEF PublishedBy

LEMMA GoneAgain ==
  ASSUME NEW c, NEW e, NEW id, NEW i, Gone(c, e)
  PROVE  ReportGap(e, id, i) = e
<1>1. Len(e.normal) = 0 /\ e.failed BY DEF Gone
<1>2. Marker(e, id) = {} BY <1>1 DEF Marker
<1>3. ReportGap(e, id, i) = Write(e, "normal", Gap(id, i, i)) BY <1>2, ReportGapCases, Zenon
<1> QED BY <1>1, <1>3, WriteFailed, Zenon

LEMMA ReportGapsOK ==
  ASSUME LogOK(log'), NEW id \in Nat, NEW c, ChanOK(log', c), OneSub(id, c), NEW lost \in Seq(EventFrames),
         lost # <<>> => c.blocked /\ ~c.failed,
         \A k \in 1..Len(lost) : lost[k].n \in DOMAIN log'
  PROVE  LET d == ReportGaps(c, id, lost)
         IN  Gone(c, d) \/ (Reported(log', id, c, d) /\ \A k \in 1..Len(lost) : Marked(Range(d.normal), lost[k].n))
<1>1. Len(lost) \in Nat /\ log' \in Logs BY DEF LogOK
<1>2. PICK g : ReportedBy(g, c, id, lost) BY <1>1, ReportGapsUnfolds
<1> DEFINE Good(n) == Gone(c, g[n]) \/ (Reported(log', id, c, g[n]) /\ \A k \in 1..n : Marked(Range(g[n].normal), lost[k].n))
<1> DEFINE B == {n \in 0..Len(lost) : ~Good(n)}
<1>3. B = {}
  <2> SUFFICES ASSUME B # {} PROVE FALSE OBVIOUS
  <2>1. B \in SUBSET (0..Len(lost)) OBVIOUS
  <2>2. PICK m \in B : m = 0 \/ m - 1 \notin B
    <3> HIDE DEF B
    <3> QED BY <1>1, <2>1, LeastOf
  <2>3. m \in 0..Len(lost) /\ ~Good(m) OBVIOUS
  <2>4. CASE m = 0
    <3>1. g[0] = c BY <1>2 DEF ReportedBy
    <3>2. c.normal \in Seq(Tellings) BY ChanFacts
    <3>3. Reported(log', id, c, c) BY <3>2, WidensSelf DEF Reported
    <3> QED BY <2>3, <2>4, <3>1, <3>3
  <2>5. CASE m # 0
    <3>1. m - 1 \in 0..Len(lost) /\ m \in 1..Len(lost) /\ lost # <<>> BY <1>1, <2>3, <2>5
    <3>2. Good(m - 1) BY <2>2, <2>5, <3>1
    <3> DEFINE e == g[m - 1]
               n == lost[m].n
               i == log'[n].i
    <3>3. g[m] = ReportGap(e, id, i) BY <1>2, <3>1 DEF ReportedBy
    <3>4. n \in DOMAIN log' /\ i = n - 1 /\ i \in Nat /\ i < Len(log') /\ i + 1 = n
      <4>1. n \in DOMAIN log' BY <3>1
      <4>2. i = n - 1 BY <4>1 DEF LogOK
      <4>3. n \in 1..Len(log') /\ Len(log') \in Nat BY <4>1 DEF LogOK, Logs
      <4> QED BY <4>1, <4>2, <4>3
    <3> HIDE DEF n, i
    <3>5. CASE Gone(c, e)
      <4>1. g[m] = e BY <3>3, <3>5, GoneAgain
      <4> QED BY <2>3, <3>5, <4>1
    <3>6. CASE Reported(log', id, c, e) /\ \A k \in 1..(m - 1) : Marked(Range(e.normal), lost[k].n)
      <4> DEFINE d == g[m]
      <4>1. ChanOK(log', e) /\ OneSub(id, e) /\ e.blocked /\ ~e.failed BY <3>1, <3>6 DEF Reported
      <4>2. Gone(e, d) \/ (Reported(log', id, e, d) /\ Marked(Range(d.normal), i + 1))
        BY <1>1, <3>3, <3>4, <4>1, ReportGapOK
      <4> HIDE DEF e, d, Good
      <4>3. CASE Gone(e, d)
        <5>1. Gone(c, d) BY <3>6, <4>3 DEF Gone, Reported
        <5> QED BY <2>3, <5>1 DEF d, Good
      <4>4. CASE Reported(log', id, e, d) /\ Marked(Range(d.normal), i + 1)
        <5>1. c.normal \in Seq(Tellings) /\ e.normal \in Seq(Tellings) /\ d.normal \in Seq(Tellings)
          BY <3>6, <4>4, ChanFacts DEF Reported
        <5>2. Widens(c.normal, d.normal) BY <3>6, <4>4, <5>1, WidensMore DEF Reported
        <5>3. Reported(log', id, c, d) BY <3>6, <4>4, <5>2 DEF Reported
        <5>4. Wider(Range(e.normal), Range(d.normal)) BY <4>4, <5>1, WidensIsWider DEF Reported
        <5>5. \A k \in 1..m : Marked(Range(d.normal), lost[k].n)
          <6> SUFFICES ASSUME NEW k \in 1..m PROVE Marked(Range(d.normal), lost[k].n) OBVIOUS
          <6>1. CASE k = m
            <7>1. lost[k].n = i + 1 BY ONLY <3>4, <6>1 DEF n
            <7> QED BY ONLY <4>4, <7>1
          <6>2. CASE k # m
            <7>1. k \in 1..(m - 1) /\ k \in 1..Len(lost) BY <2>3, <6>2
            <7>2. lost[k].n \in Nat BY <7>1 DEF LogOK, Logs
            <7> QED BY <3>6, <5>4, <7>1, <7>2 DEF Wider
          <6> QED BY <6>1, <6>2
        <5> QED BY <2>3, <5>3, <5>5 DEF d, Good
      <4> QED BY <4>2, <4>3, <4>4
    <3> QED BY <3>2, <3>5, <3>6
  <2> QED BY <2>4, <2>5
<1>4. Good(Len(lost)) BY <1>1, <1>3
<1>5. ReportGaps(c, id, lost) = g[Len(lost)] BY <1>2 DEF ReportedBy
<1> QED BY <1>4, <1>5

\* The lanes and the stream hold no answer they did not hold.
NoAnswers(c, d) ==
  \A r \in Replies : r \in Range(d.stream) \cup Range(d.high) => r \in Range(c.stream) \cup Range(c.high)

Event(id, n) == [kind |-> "event", sub |-> id, n |-> n]

LEMMA EventFacts ==
  ASSUME NEW id \in Nat, NEW n \in Nat
  PROVE  /\ Event(id, n) \in EventFrames /\ Event(id, n) \in Tellings /\ Event(id, n) \in AnyFrames
         /\ Event(id, n).kind = "event" /\ Event(id, n).sub = id /\ Event(id, n).n = n
         /\ Event(id, n) \notin Replies
BY DEF Event, EventFrames, Tellings, AnyFrames, Replies

LEMMA EventIs ==
  ASSUME NEW id \in Nat, NEW n \in Nat, NEW f, f = Event(id, n)
  PROVE  /\ f \in EventFrames /\ f \in Tellings /\ f \in AnyFrames
         /\ f.kind = "event" /\ f.sub = id /\ f.n = n /\ f \notin Replies
BY EventFacts, Zenon

\* What each outcome of an event's sending does.
SentTo(l, id, N, D, C, early, c, d) ==
  ChanOK(l, d) /\ OneSub(id, d) /\ NoAnswers(c, d) /\ FlowTo(l, N, D, C, early, d)

LEMMA OutcomeGone ==
  ASSUME NEW l, NEW id, NEW N, NEW M, NEW D, NEW C, NEW early, NEW c, NEW d, ChanOK(l, c), OneSub(id, c),
         FlowTo(l, N, D, C, early, c), Gone(c, d)
  PROVE  SentTo(l, id, M, D, C, early, c, d)
<1>1. ChanOK(l, d) /\ OneSub(id, d) BY GoneOK DEF OneSub
<1>2. FlowTo(l, M, D, C, early, d) BY FlowFails DEF Gone
<1>3. NoAnswers(c, d) BY EmptyFrames DEF NoAnswers, Gone
<1> QED BY <1>1, <1>2, <1>3 DEF SentTo

LEMMA OutcomeStream ==
  ASSUME NEW l \in Logs, NEW id \in Nat, NEW N \in Nat, NEW D, NEW C, NEW early, NEW c, ChanOK(l, c), OneSub(id, c),
         FlowTo(l, N, D, C, early, c), c.subs # <<>>, ~c.failed, Queued(c) = 0, ~c.blocked,
         N + 1 \in DOMAIN l
  PROVE  SentTo(l, id, N + 1, D, C, early, c, ToStream(c, Event(id, N + 1)))
<1> DEFINE f == Event(id, N + 1)
           d == ToStream(c, f)
<1>1. f \in EventFrames /\ f \in AnyFrames /\ f.kind = "event" /\ f.sub = id /\ f.n = N + 1 /\ f \notin Replies
  <2>1. N + 1 \in Nat OBVIOUS
  <2>2. f = Event(id, N + 1) OBVIOUS
  <2> HIDE DEF f
  <2> QED BY <2>1, <2>2, EventIs
<1>2. InLog(l, f) BY <1>1 DEF InLog
<1> HIDE DEF f
<1>3. Streamed(c, d, f) /\ ChanOK(l, d) /\ OneSub(id, d) BY <1>1, <1>2, ToStreamOK
<1> HIDE DEF d
<1>4. FlowTo(l, N + 1, D, C, early, d)
  <2>1. Framed(l, c) BY ChannelIsFramed DEF ChanOK
  <2> QED BY <1>1, <1>3, <2>1, FlowStreamTakes DEF Streamed
<1>5. NoAnswers(c, d)
  <2>1. c.stream \in Seq(AnyFrames) BY ChanFacts
  <2>2. Range(Append(c.stream, f)) = Range(c.stream) \cup {f} BY <1>1, <2>1, AppendFacts
  <2> QED BY <1>1, <1>3, <2>2, EmptyFrames DEF NoAnswers, Streamed
<1> QED BY <1>3, <1>4, <1>5 DEF SentTo, d, f

\* A marker in the normal lane of a blocked channel, for event N + 1.
LEMMA OutcomeMarked ==
  ASSUME NEW l \in Logs, NEW id \in Nat, NEW N \in Nat, NEW D, NEW C, NEW early, NEW c, NEW d, ChanOK(l, c), OneSub(id, c),
         FlowTo(l, N, D, C, early, c), c.subs # <<>>, c.blocked, ~c.failed,
         N + 1 \in DOMAIN l, ~Durable(l[N + 1].type), d = ReportGap(c, id, N)
  PROVE  SentTo(l, id, N + 1, D, C, early, c, d)
<1>1. N < Len(l) /\ N + 1 \in Nat BY DEF Logs
<1>2. Gone(c, d) \/ (Reported(l, id, c, d) /\ Marked(Range(d.normal), N + 1)) BY <1>1, ReportGapOK
<1>3. CASE Gone(c, d) BY <1>3, OutcomeGone
<1>4. CASE Reported(l, id, c, d) /\ Marked(Range(d.normal), N + 1)
  <2>1. Framed(l, c) BY ChannelIsFramed DEF ChanOK
  <2>2. d.normal \in Seq(Tellings) BY <1>4, ChanFacts DEF Reported
  <2>3. FlowTo(l, N, D, C, early, d) BY <1>4, <2>1, <2>2, FlowWidens DEF Reported
  <2>4. FlowTo(l, N + 1, D, C, early, d) BY <1>4, <2>3, FlowMarks DEF Reported
  <2>5. NoAnswers(c, d) BY <1>4 DEF NoAnswers, Reported
  <2> QED BY <1>4, <2>4, <2>5 DEF SentTo, Reported
<1> QED BY <1>2, <1>3, <1>4

\* Where the queued updates of the same tool call are.
Olds(l, c, f) == {k \in 1..Len(c.low) : l[f.n].type = "tool" /\ c.low[k].sub = f.sub /\ l[c.low[k].n].type = "tool"}
Swapped(c, at, f) == [c EXCEPT !.low[at] = f]

LEMMA WriteLowCases ==
  ASSUME NEW c, NEW f, ~c.failed, (Queued(c) > 0 \/ c.blocked), ~(Queued(c) = 0 /\ ~c.blocked)
  PROVE  /\ Olds(log', c, f) = {} =>
              WriteLow(c, f) = IF Fits(c, "low") THEN Queue(c, "low", f) ELSE ReportGap(c, f.sub, log'[f.n].i)
         /\ Olds(log', c, f) # {} /\ Min(Olds(log', c, f)) > 0 =>
              LET at == Min(Olds(log', c, f)) IN
              WriteLow(c, f) = ReportGap(Swapped(c, at, f), f.sub, log'[c.low[at].n].i)
<1> DEFINE same(g) == log'[f.n].type = "tool" /\ g.sub = f.sub /\ log'[g.n].type = "tool"
<1> DEFINE r == SelectInSeq(c.low, same)
<1>1. r = IF Olds(log', c, f) # {} THEN Min(Olds(log', c, f)) ELSE 0
  BY DEF SelectInSeq, Olds
<1>2. WriteLow(c, f) =
        (CASE c.failed                                 -> c
           [] ~c.failed /\ Queued(c) = 0 /\ ~c.blocked -> ToStream(c, f)
           [] ~c.failed /\ (Queued(c) > 0 \/ c.blocked) /\ r > 0 ->
                ReportGap([c EXCEPT !.low[r] = f], f.sub, log'[c.low[r].n].i)
           [] OTHER -> IF Fits(c, "low") THEN Queue(c, "low", f) ELSE ReportGap(c, f.sub, log'[f.n].i)) BY DEF WriteLow
<1> HIDE DEF same, r
<1>3. ASSUME r > 0 PROVE WriteLow(c, f) = ReportGap(Swapped(c, r, f), f.sub, log'[c.low[r].n].i)
  BY <1>2, <1>3 DEF Swapped
<1>4. ASSUME ~(r > 0)
      PROVE  WriteLow(c, f) = IF Fits(c, "low") THEN Queue(c, "low", f) ELSE ReportGap(c, f.sub, log'[f.n].i)
  BY <1>2, <1>4
<1>5. ASSUME Olds(log', c, f) = {}
      PROVE  WriteLow(c, f) = IF Fits(c, "low") THEN Queue(c, "low", f) ELSE ReportGap(c, f.sub, log'[f.n].i)
  <2>1. r = 0 BY <1>1, <1>5
  <2>2. ~(r > 0) BY <2>1
  <2> QED BY <1>4, <2>2
<1>6. ASSUME Olds(log', c, f) # {}, Min(Olds(log', c, f)) > 0
      PROVE  WriteLow(c, f) = ReportGap(Swapped(c, Min(Olds(log', c, f)), f), f.sub, log'[c.low[Min(Olds(log', c, f))].n].i)
  <2>1. r = Min(Olds(log', c, f)) BY <1>1, <1>6
  <2>2. r > 0 BY <1>6, <2>1, Zenon
  <2>3. WriteLow(c, f) = ReportGap(Swapped(c, r, f), f.sub, log'[c.low[r].n].i) BY <1>3, <2>2
  <2> QED BY <2>1, <2>3, Zenon
<1> QED BY <1>5, <1>6, Zenon

IsSwapped(l, id, c, at, f, d) ==
  /\ ChanOK(l, d) /\ OneSub(id, d) /\ d.low = [c.low EXCEPT ![at] = f]
  /\ d.stream = c.stream /\ d.high = c.high /\ d.normal = c.normal
  /\ d.blocked = c.blocked /\ d.failed = c.failed /\ d.subs = c.subs

LEMMA SwappedOK ==
  ASSUME NEW l \in Logs, NEW id \in Nat, NEW c, ChanOK(l, c), OneSub(id, c), NEW at \in 1..Len(c.low),
         NEW f \in EventFrames, InLog(l, f), f.sub = id, ~Durable(l[f.n].type)
  PROVE  IsSwapped(l, id, c, at, f, Swapped(c, at, f))
<1> DEFINE d == Swapped(c, at, f)
           v == [c.low EXCEPT ![at] = f]
<1>1. c \in Channels /\ c.low \in Seq(EventFrames) /\ Len(c.low) \in Nat BY ChanFacts
<1>2. v \in Seq(EventFrames) /\ Len(v) = Len(c.low) /\ v[at] = f /\ (\A k \in 1..Len(c.low) : k # at => v[k] = c.low[k])
  BY <1>1
<1>3. d = [c EXCEPT !.low = v] BY <1>1 DEF Swapped, Channels
<1> HIDE DEF v, d
<1>4. /\ d \in Channels /\ d.low = v /\ d.stream = c.stream /\ d.high = c.high /\ d.normal = c.normal
      /\ d.blocked = c.blocked /\ d.failed = c.failed /\ d.subs = c.subs
  BY <1>1, <1>2, <1>3 DEF Channels
<1>5. OfLog(l, c.low) /\ ToldOf(id, c.low) BY DEF ChanOK, ChanType, OneSub
<1>6. f.kind = "event" /\ f.n \in DOMAIN l BY DEF EventFrames, InLog
<1>7. OfLog(l, v) BY <1>2, <1>5, <1>6 DEF OfLog
<1>8. ToldOf(id, v) BY <1>2, <1>5 DEF ToldOf
<1>9. \A k \in 1..Len(v) : ~Durable(l[v[k].n].type) BY <1>2 DEF ChanOK, ChanType
<1>10. ChanType(l, d) BY <1>4, <1>7, <1>9 DEF ChanType, ChanOK
<1>11. Budgets(d)
  <2>1. Weighs(Len(c.stream), Len(c.high), Len(c.normal), Len(c.low), c.blocked) BY ChanFacts
  <2>2. Weighs(Len(d.stream), Len(d.high), Len(d.normal), Len(d.low), d.blocked) BY <1>2, <1>4, <2>1, Zenon
  <2>3. c.failed => c.low = <<>> BY DEF ChanOK, Budgets
  <2>4. ~c.failed
    <3>1. Len(<<>>) = 0 OBVIOUS
    <3> QED BY <1>1, <2>3, <3>1
  <2> QED BY <1>4, <2>2, <2>4, BudgetsAre, Zenon
<1>12. OneSub(id, d) BY <1>4, <1>8 DEF OneSub
<1> QED BY <1>4, <1>10, <1>11, <1>12 DEF ChanOK, IsSwapped, v, d

\* Event N + 1 takes the place of an older update, whose gap is reported.
LEMMA OutcomeSuperseded ==
  ASSUME NEW l, LogOK(l), NEW id \in Nat, NEW N \in Nat, NEW D, NEW C, NEW early, NEW c, NEW d, ChanOK(l, c), OneSub(id, c),
         FlowTo(l, N, D, C, early, c), c.subs # <<>>, c.blocked, ~c.failed,
         N + 1 \in DOMAIN l, ~Durable(l[N + 1].type), NEW at \in 1..Len(c.low),
         d = ReportGap(Swapped(c, at, Event(id, N + 1)), id, l[c.low[at].n].i)
  PROVE  SentTo(l, id, N + 1, D, C, early, c, d)
<1> DEFINE f == Event(id, N + 1)
           e == Swapped(c, at, f)
           o == c.low[at].n
           i == l[o].i
<1>1. f \in EventFrames /\ f.kind = "event" /\ f.sub = id /\ f.n = N + 1
  <2>1. N + 1 \in Nat OBVIOUS
  <2>2. f = Event(id, N + 1) OBVIOUS
  <2> HIDE DEF f
  <2> QED BY <2>1, <2>2, EventIs
<1>2. InLog(l, f) BY <1>1 DEF InLog
<1>3. Framed(l, c) /\ l \in Logs BY ChannelIsFramed DEF ChanOK, LogOK
<1>4. o \in DOMAIN l /\ i = o - 1 /\ i \in Nat /\ i < Len(l) /\ i + 1 = o
  <2>1. o \in DOMAIN l BY <1>3 DEF Framed
  <2>2. i = o - 1 BY <2>1 DEF LogOK
  <2>3. o \in 1..Len(l) /\ Len(l) \in Nat BY <2>1, SMTT(20) DEF LogOK, Logs
  <2> HIDE DEF o, i
  <2> QED BY <2>1, <2>2, <2>3
<1> HIDE DEF f, o, i
<1>5. /\ ChanOK(l, e) /\ OneSub(id, e) /\ e.low = [c.low EXCEPT ![at] = f]
      /\ e.stream = c.stream /\ e.high = c.high /\ e.normal = c.normal
      /\ e.blocked = c.blocked /\ e.failed = c.failed /\ e.subs = c.subs
  <2>1. ~Durable(l[f.n].type) BY <1>1
  <2>2. IsSwapped(l, id, c, at, f, e) BY <1>1, <1>2, <1>3, <2>1, SwappedOK, Zenon
  <2> QED BY <2>2 DEF IsSwapped
<1>6. d = ReportGap(e, id, i) BY DEF f, o, i
<1> HIDE DEF e
<1>7. Gone(e, d) \/ (Reported(l, id, e, d) /\ Marked(Range(d.normal), o))
  <2>1. i + 1 = o /\ e.blocked /\ ~e.failed /\ i \in Nat /\ i < Len(l) BY <1>4, <1>5
  <2>2. LET x == ReportGap(e, id, i) IN Gone(e, x) \/ (Reported(l, id, e, x) /\ Marked(Range(x.normal), i + 1))
    BY <1>3, <1>5, <2>1, ReportGapOK, Zenon
  <2> QED BY <1>6, <2>1, <2>2
<1>8. CASE Gone(e, d)
  <2>1. Gone(c, d) BY <1>5, <1>8 DEF Gone
  <2> QED BY <2>1, OutcomeGone
<1>9. CASE Reported(l, id, e, d) /\ Marked(Range(d.normal), o)
  <2> DEFINE b == [stream |-> c.stream, normal |-> d.normal, low |-> c.low, subs |-> c.subs]
  <2>1. d.normal \in Seq(Tellings) /\ OfLog(l, d.normal) /\ d.low = [c.low EXCEPT ![at] = f] /\ d.stream = c.stream
        /\ d.subs = c.subs BY <1>5, <1>9, ChanFacts DEF Reported, ChanOK, ChanType
  <2>2. b.stream = c.stream /\ b.normal = d.normal /\ b.low = c.low /\ b.subs = c.subs OBVIOUS
  <2> HIDE DEF b
  <2>3. FlowTo(l, N, D, C, early, b) BY <1>3, <1>5, <1>9, <2>1, <2>2, FlowWidens DEF Reported
  <2>4. Within(l, d.normal) BY <1>3, <2>1, OfLogWithin
  <2>0. d.normal = b.normal BY <2>2
  <2>5. Framed(l, b) BY <1>3, <2>0, <2>1, <2>2, <2>4, FramedAs, Zenon
  <2>6. ASSUME NEW m \in o .. N, Durable(l[m].type) PROVE Has(C, AheadOfLow(early, b), m)
    <3>1. m \in 1..(N + 1) - 1
      <4>0. \A x \in Nat : x + 1 \in Nat \ {0} OBVIOUS
      <4>1. o \in Nat \ {0} BY <1>4, <4>0, Zenon
      <4> QED BY <4>1
    <3>2. Has(C, OnTheWay(early, b), m) BY <2>2, <2>3, <2>6, <3>1 DEF FlowTo, Heard
    <3>3. ~Sent(Range(b.low), m)
      <4>0. b.low \in Seq(EventFrames) BY <2>5, Zenon DEF Framed
      <4>1. Range(b.low) = {b.low[k] : k \in 1..Len(b.low)} BY <4>0, SeqFacts, Zenon
      <4> QED BY <2>5, <2>6, <4>1 DEF Framed, Sent
    <3>4. Sent(OnTheWay(early, b), m) => Sent(AheadOfLow(early, b), m) BY <3>3, SentUnion DEF OnTheWay
    <3> QED BY <3>2, <3>4 DEF Has
  <2>7. FlowTo(l, N + 1, D, C, early, d)
    <3>1. Marked(Range(b.normal), b.low[at].n) BY <1>9, <2>2 DEF o
    <3>2. \A m \in b.low[at].n .. N : Durable(l[m].type) => Has(C, AheadOfLow(early, b), m) BY <2>2, <2>6 DEF o
    <3>3. d.stream = b.stream /\ d.normal = b.normal /\ d.low = [b.low EXCEPT ![at] = f] /\ at \in 1..Len(b.low)
      BY <2>1, <2>2
    <3>4. ~Durable(l[f.n].type) /\ b.subs # <<>> BY <1>1, <2>2
    <3> QED BY <1>1, <1>3, <2>3, <2>5, <3>1, <3>2, <3>3, <3>4, FlowSupersedes
  <2>8. NoAnswers(c, d) BY <1>5, <1>9 DEF NoAnswers, Reported
  <2> QED BY <1>9, <2>7, <2>8 DEF SentTo, Reported
<1> QED BY <1>7, <1>8, <1>9

LEMMA OutcomeLow ==
  ASSUME NEW l \in Logs, NEW id \in Nat, NEW N \in Nat, NEW D, NEW C, NEW early, NEW c, ChanOK(l, c), OneSub(id, c),
         FlowTo(l, N, D, C, early, c), c.subs # <<>>, ~c.failed, c.blocked, Fits(c, "low"),
         N + 1 \in DOMAIN l, ~Durable(l[N + 1].type)
  PROVE  SentTo(l, id, N + 1, D, C, early, c, Queue(c, "low", Event(id, N + 1)))
<1> DEFINE f == Event(id, N + 1)
           d == Queue(c, "low", f)
<1>1. f \in EventFrames /\ f.kind = "event" /\ f.sub = id /\ f.n = N + 1
  <2>1. N + 1 \in Nat OBVIOUS
  <2>2. f = Event(id, N + 1) OBVIOUS
  <2> HIDE DEF f
  <2> QED BY <2>1, <2>2, EventIs
<1>2. InLog(l, f) BY <1>1 DEF InLog
<1> HIDE DEF f
<1>3. Lowed(c, d, f) /\ ChanOK(l, d) /\ OneSub(id, d) BY <1>1, <1>2, QueueLowOK
<1> HIDE DEF d
<1>4. FlowTo(l, N + 1, D, C, early, d)
  <2>1. Framed(l, c) BY ChannelIsFramed DEF ChanOK
  <2> QED BY <1>1, <1>3, <2>1, FlowLowTakes DEF Lowed
<1>5. NoAnswers(c, d) BY <1>3 DEF NoAnswers, Lowed
<1> QED BY <1>3, <1>4, <1>5 DEF SentTo, d, f

LEMMA Subscribing ==
  ASSUME NEW l, NEW c, ChanOK(l, c), c.subs # <<>>
  PROVE  /\ ~c.failed
         /\ ~(Queued(c) = 0 /\ ~c.blocked) => (Queued(c) > 0 \/ c.blocked) /\ c.blocked
<1>1. ~c.failed BY DEF ChanOK, Budgets
<1>2. ASSUME ~(Queued(c) = 0 /\ ~c.blocked) PROVE c.blocked
  <2>1. CASE c.blocked BY <2>1
  <2>2. CASE ~c.blocked BY <1>2, <2>2 DEF ChanOK, Budgets
  <2> QED BY <2>1, <2>2
<1> QED BY <1>1, <1>2

\* #writeLow on an idle channel: the frame goes straight to the stream.
LEMMA WriteLowIdle ==
  ASSUME NEW c, NEW f, ~c.failed, Queued(c) = 0, ~c.blocked
  PROVE  WriteLow(c, f) = ToStream(c, f)
BY SMTT(20) DEF WriteLow

LEMMA WriteLowOK ==
  ASSUME LogOK(log'), NEW id \in Nat, NEW N \in Nat, NEW D, NEW C, NEW early, NEW c, ChanOK(log', c), OneSub(id, c),
         FlowTo(log', N, D, C, early, c), c.subs # <<>>,
         N + 1 \in DOMAIN log', ~Durable(log'[N + 1].type)
  PROVE  SentTo(log', id, N + 1, D, C, early, c, WriteLow(c, Event(id, N + 1)))
<1> DEFINE f == Event(id, N + 1)
           d == WriteLow(c, f)
<1>1. f.sub = id /\ f.n = N + 1 /\ log' \in Logs
  <2>1. N + 1 \in Nat OBVIOUS
  <2>2. f = Event(id, N + 1) OBVIOUS
  <2>3. log' \in Logs BY DEF LogOK
  <2> HIDE DEF f
  <2> QED BY <2>1, <2>2, <2>3, EventIs
<1>2. ~c.failed BY Subscribing
<1>3. CASE Queued(c) = 0 /\ ~c.blocked
  <2>1. d = ToStream(c, f) BY ONLY <1>2, <1>3, WriteLowIdle
  <2> QED BY <1>1, <1>2, <1>3, <2>1, OutcomeStream
<1>4. CASE ~(Queued(c) = 0 /\ ~c.blocked)
  <2>1. (Queued(c) > 0 \/ c.blocked) /\ c.blocked BY <1>4, Subscribing
  <2>2. c.low \in Seq(EventFrames) /\ Len(c.low) \in Nat BY ChanFacts
  <2>3. CASE Olds(log', c, f) # {}
    <3> DEFINE at == Min(Olds(log', c, f))
    <3>1. Olds(log', c, f) \in SUBSET (1..Len(c.low)) BY DEF Olds
    <3>2. at \in 1..Len(c.low)
      <4> DEFINE S == Olds(log', c, f)
      <4>1. S \in SUBSET (1..Len(c.low)) /\ S # {} BY <2>3, <3>1
      <4> HIDE DEF S
      <4>2. Min(S) \in S BY <2>2, <4>1, MinIsLeast
      <4> QED BY <4>1, <4>2 DEF S
    <3>3. at > 0 BY <3>2
    <3>4. d = ReportGap(Swapped(c, at, f), f.sub, log'[c.low[at].n].i)
      BY <1>2, <1>4, <2>1, <2>3, <3>3, WriteLowCases, Zenon
    <3>5. d = ReportGap(Swapped(c, at, Event(id, N + 1)), id, log'[c.low[at].n].i) BY <1>1, <3>4
    <3> HIDE DEF at, d, f
    <3>6. SentTo(log', id, N + 1, D, C, early, c, d)
      BY <1>2, <2>1, <3>2, <3>5, OutcomeSuperseded
    <3> QED BY <3>6 DEF d, f
  <2>4. CASE Olds(log', c, f) = {}
    <3>1. d = IF Fits(c, "low") THEN Queue(c, "low", f) ELSE ReportGap(c, f.sub, log'[f.n].i)
      BY <1>2, <1>4, <2>1, <2>4, WriteLowCases, Zenon
    <3>2. CASE Fits(c, "low")
      <4>1. d = Queue(c, "low", Event(id, N + 1)) BY <3>1, <3>2
      <4> QED BY <1>1, <1>2, <2>1, <3>2, <4>1, OutcomeLow
    <3>3. CASE ~Fits(c, "low")
      <4>1. log'[N + 1].i = N BY DEF LogOK
      <4>2. d = ReportGap(c, id, N) BY <1>1, <3>1, <3>3, <4>1
      <4> HIDE DEF d, f
      <4>3. SentTo(log', id, N + 1, D, C, early, c, d) BY <1>1, <1>2, <2>1, <4>2, OutcomeMarked
      <4> QED BY <4>3 DEF d, f
    <3> QED BY <3>2, <3>3
  <2> QED BY <2>3, <2>4
<1> QED BY <1>3, <1>4

\* A reserved frame retracts the low lane, all of which it overtakes.
Retracted(l, id, N, D, C, early, c, e) ==
  Gone(c, e) \/ (SentTo(l, id, N, D, C, early, c, e) /\ e.low = <<>> /\ e.subs = c.subs)

LEMMA RetractOK ==
  ASSUME LogOK(log'), NEW id \in Nat, NEW N \in Nat, NEW D, NEW C, NEW early, NEW c, ChanOK(log', c), OneSub(id, c),
         FlowTo(log', N, D, C, early, c), c.subs # <<>>, N + 1 \in DOMAIN log',
         \A k \in 1..Len(c.low) : c.low[k].n <= N
  PROVE  Retracted(log', id, N, D, C, early, c, RetractOvertaken(c, id, log'[N + 1].i))
<1> DEFINE over == {f \in Range(c.low) : f.sub = id /\ log'[f.n].i < log'[N + 1].i}
           r == [c EXCEPT !.low = <<>>]
           s == c.low
           e == RetractOvertaken(c, id, log'[N + 1].i)
<1>1. log' \in Logs /\ log'[N + 1].i = N /\ N \in 0..Len(log') BY DEF LogOK, Logs
<1>2. c \in Channels /\ s \in Seq(EventFrames) /\ Len(s) \in Nat /\ Framed(log', c) /\ ~c.failed
  BY <1>1, ChanFacts, ChannelIsFramed, Subscribing DEF ChanOK
<1>3. Range(s) = {s[k] : k \in 1..Len(s)} BY <1>2, SeqFacts
<1>4. ASSUME NEW k \in 1..Len(s) PROVE s[k] \in over
  <2>1. s[k].kind = "event" /\ s[k].n \in DOMAIN log' BY <1>2 DEF Framed
  <2>2. s[k].sub = id BY <2>1 DEF OneSub, ToldOf
  <2>3. log'[s[k].n].i = s[k].n - 1 BY <2>1 DEF LogOK
  <2>4. s[k].n \in Nat /\ s[k].n <= N BY <1>1, <2>1, SMTT(20) DEF Logs
  <2>5. log'[s[k].n].i < log'[N + 1].i BY <1>1, <2>3, <2>4
  <2>6. s[k] \in Range(s) BY <1>3
  <2> HIDE DEF s
  <2> QED BY <2>2, <2>5, <2>6 DEF s
<1>5. over = Range(s)
  <2> HIDE DEF over
  <2>1. Range(s) \subseteq over BY <1>3, <1>4
  <2>2. over \subseteq Range(s) BY DEF over
  <2> QED BY <2>1, <2>2
<1>6. e = ReportGaps([c EXCEPT !.low = Only(s, Range(s) \ over)], id, Only(s, over)) BY DEF RetractOvertaken
<1> HIDE DEF over
<1>7. Only(s, Range(s) \ over) = <<>>
  <2>1. Range(s) \cap (Range(s) \ over) = {} BY <1>5
  <2> HIDE DEF s
  <2> QED BY <1>2, <2>1, OnlyRange
<1>8. Only(s, over) = s
  <2> HIDE DEF s
  <2> QED BY <1>2, <1>4, OnlyAll
<1>9. e = ReportGaps(r, id, s) BY <1>6, <1>7, <1>8
<1>10. r \in Channels /\ r.low = <<>> /\ r.stream = c.stream /\ r.high = c.high /\ r.normal = c.normal
       /\ r.blocked = c.blocked /\ r.failed = c.failed /\ r.subs = c.subs
  <2>1. <<>> \in Seq(EventFrames) OBVIOUS
  <2> QED BY <1>2, <2>1 DEF Channels
<1> HIDE DEF r
<1>11. ChanOK(log', r) /\ OneSub(id, r)
  <2>1. ChanType(log', r)
    <3>1. Len(<<>>) = 0 OBVIOUS
    <3> QED BY <1>10, <3>1, EmptyFrames DEF ChanType, ChanOK
  <2>2. Budgets(r)
    <3>1. Weighs(Len(c.stream), Len(c.high), Len(c.normal), Len(c.low), c.blocked)
          /\ Len(c.stream) \in Nat /\ Len(c.high) \in Nat /\ Len(c.normal) \in Nat /\ Len(c.low) \in Nat
      BY ChanFacts
    <3>2. Weighs(Len(c.stream), Len(c.high), Len(c.normal), 0, c.blocked) BY <3>1, WeightsNoLow, Zenon
    <3>3. Len(<<>>) = 0 OBVIOUS
    <3> QED BY <1>2, <1>10, <3>2, <3>3, BudgetsAre, Zenon
  <2>3. OneSub(id, r) BY <1>10, EmptyFrames DEF OneSub
  <2> QED BY <2>1, <2>2, <2>3 DEF ChanOK
<1>12. s # <<>> => r.blocked /\ ~r.failed
  <2> SUFFICES ASSUME s # <<>> PROVE c.blocked BY <1>2, <1>10
  <2>1. ~(Queued(c) = 0)
    <3>1. Queued(c) = 0 => c.low = <<>> BY ChanFacts
    <3> QED BY <3>1
  <2> QED BY <2>1, Subscribing
<1>13. Gone(r, e) \/ (Reported(log', id, r, e) /\ \A k \in 1..Len(s) : Marked(Range(e.normal), s[k].n))
  <2>1. \A k \in 1..Len(s) : s[k].n \in DOMAIN log' BY <1>2 DEF Framed
  <2> HIDE DEF e, s
  <2> QED BY <1>2, <1>9, <1>11, <1>12, <2>1, ReportGapsOK
<1> HIDE DEF e
<1>14. CASE Gone(r, e)
  <2>1. Gone(c, e) BY <1>10, <1>14 DEF Gone
  <2> QED BY <2>1 DEF e, Retracted
<1>15. CASE Reported(log', id, r, e) /\ \A k \in 1..Len(s) : Marked(Range(e.normal), s[k].n)
  <2> DEFINE b == [stream |-> c.stream, normal |-> e.normal, low |-> c.low, subs |-> c.subs]
  <2>1. e.normal \in Seq(Tellings) /\ OfLog(log', e.normal) /\ e.low = <<>> /\ e.stream = c.stream /\ e.subs = c.subs
        /\ e.high = c.high
    BY <1>10, <1>15, ChanFacts DEF Reported, ChanOK, ChanType
  <2>2. b.stream = c.stream /\ b.normal = e.normal /\ b.low = c.low /\ b.subs = c.subs OBVIOUS
  <2> HIDE DEF b
  <2>3. FlowTo(log', N, D, C, early, b) BY <1>2, <1>10, <1>15, <2>1, <2>2, FlowWidens DEF Reported
  <2>4. Within(log', e.normal) BY <1>1, <2>1, OfLogWithin
  <2>0. e.normal = b.normal BY <2>2
  <2>5. Framed(log', b) BY <1>2, <2>0, <2>1, <2>2, <2>4, FramedAs, Zenon
  <2>6. FlowTo(log', N, D, C, early, e)
    <3>1. \A k \in 1..Len(b.low) : Marked(Range(b.normal), b.low[k].n) BY <1>15, <2>2
    <3>2. e.stream = b.stream /\ e.normal = b.normal /\ e.subs = b.subs BY <2>1, <2>2
    <3> QED BY <1>1, <2>1, <2>3, <2>5, <3>1, <3>2, FlowRetracts
  <2>7. NoAnswers(c, e) BY <2>1 DEF NoAnswers
  <2>8. SentTo(log', id, N, D, C, early, c, e) BY <1>15, <2>6, <2>7 DEF SentTo, Reported
  <2> QED BY <2>1, <2>8 DEF e, Retracted
<1> QED BY <1>13, <1>14, <1>15

LEMMA NoAnswersTrans ==
  ASSUME NEW c, NEW e, NEW d, NoAnswers(c, e), NoAnswers(e, d)
  PROVE  NoAnswers(c, d)
BY DEF NoAnswers

\* Event N + 1 on the normal lane, the low one being empty.
LEMMA OutcomeNormal ==
  ASSUME NEW l \in Logs, NEW id \in Nat, NEW N \in Nat, NEW D, NEW C, NEW early, NEW c, ChanOK(l, c), OneSub(id, c),
         FlowTo(l, N, D, C, early, c), c.subs # <<>>, ~c.failed, c.blocked, c.low = <<>>, Fits(c, "normal"),
         N + 1 \in DOMAIN l
  PROVE  SentTo(l, id, N + 1, D, C, early, c, Queue(c, "normal", Event(id, N + 1)))
<1> DEFINE f == Event(id, N + 1)
           d == Queue(c, "normal", f)
<1>1. f \in EventFrames /\ f \in Tellings /\ f.kind = "event" /\ f.sub = id /\ f.n = N + 1
  <2>1. N + 1 \in Nat OBVIOUS
  <2>2. f = Event(id, N + 1) OBVIOUS
  <2> HIDE DEF f
  <2> QED BY <2>1, <2>2, EventIs
<1>2. InLog(l, f) BY <1>1 DEF InLog
<1> HIDE DEF f
<1>3. Normaled(c, d, f) /\ ChanOK(l, d) /\ OneSub(id, d) BY <1>1, <1>2, QueueNormalOK
<1> HIDE DEF d
<1>4. FlowTo(l, N + 1, D, C, early, d)
  <2>1. Framed(l, c) BY ChannelIsFramed DEF ChanOK
  <2>2. d.stream = c.stream /\ d.normal = Append(c.normal, f) /\ d.low = <<>> BY <1>3 DEF Normaled
  <2> QED BY <1>1, <2>1, <2>2, FlowNormalTakes
<1>5. NoAnswers(c, d) BY <1>3 DEF NoAnswers, Normaled
<1> QED BY <1>3, <1>4, <1>5 DEF SentTo, d, f

\* A reserved frame is written once the low lane is gone.
LEMMA WriteNormalOK ==
  ASSUME NEW l \in Logs, NEW id \in Nat, NEW N \in Nat, NEW D, NEW C, NEW early, NEW c, ChanOK(l, c), OneSub(id, c),
         FlowTo(l, N, D, C, early, c), c.subs # <<>>, c.low = <<>>, N + 1 \in DOMAIN l
  PROVE  SentTo(l, id, N + 1, D, C, early, c, Write(c, "normal", Event(id, N + 1)))
<1> DEFINE f == Event(id, N + 1)
           d == Write(c, "normal", f)
<1>1. ~c.failed BY Subscribing
<1>2. CASE Queued(c) = 0 /\ ~c.blocked
  <2>1. d = ToStream(c, f) BY <1>1, <1>2 DEF Write
  <2> QED BY <1>1, <1>2, <2>1, OutcomeStream
<1>3. CASE ~(Queued(c) = 0 /\ ~c.blocked)
  <2>1. c.blocked BY <1>3, Subscribing
  <2>2. d = IF Fits(c, "normal") THEN Queue(c, "normal", f) ELSE Fail(c) BY <1>1, <2>1, WriteBlocked
  <2>3. CASE Fits(c, "normal")
    <3>1. SentTo(l, id, N + 1, D, C, early, c, Queue(c, "normal", f)) BY <1>1, <2>1, <2>3, OutcomeNormal
    <3> QED BY <2>2, <2>3, <3>1
  <2>4. CASE ~Fits(c, "normal")
    <3>1. c \in Channels BY ChanFacts
    <3>2. Gone(c, d) BY <2>2, <2>4, <3>1, FailIsGone
    <3> HIDE DEF d
    <3>3. SentTo(l, id, N + 1, D, C, early, c, d) BY <3>2, OutcomeGone
    <3> QED BY <3>3 DEF d
  <2> QED BY <2>3, <2>4
<1> QED BY <1>2, <1>3

LEMMA SendEventOK ==
  ASSUME LogOK(log'), NEW id \in Nat, NEW N \in Nat, NEW D, NEW C, NEW early, NEW c, ChanOK(log', c), OneSub(id, c),
         FlowTo(log', N, D, C, early, c), c.subs # <<>>, N + 1 \in DOMAIN log',
         \A k \in 1..Len(c.low) : c.low[k].n <= N
  PROVE  SentTo(log', id, N + 1, D, C, early, c, SendEvent(c, id, N + 1))
<1> DEFINE d == SendEvent(c, id, N + 1)
           e == RetractOvertaken(c, id, log'[N + 1].i)
<1>1. CASE ~Durable(log'[N + 1].type)
  <2>1. d = WriteLow(c, Event(id, N + 1)) BY <1>1 DEF SendEvent, Event
  <2>2. SentTo(log', id, N + 1, D, C, early, c, WriteLow(c, Event(id, N + 1))) BY <1>1, WriteLowOK
  <2> HIDE DEF d
  <2>3. SentTo(log', id, N + 1, D, C, early, c, d) BY <2>1, <2>2
  <2> QED BY <2>3 DEF d
<1>2. CASE Durable(log'[N + 1].type)
  <2>1. d = Write(e, "normal", Event(id, N + 1)) BY <1>2 DEF SendEvent, Event
  <2>2. Gone(c, e) \/ (SentTo(log', id, N, D, C, early, c, e) /\ e.low = <<>> /\ e.subs = c.subs)
    BY RetractOK DEF Retracted
  <2> HIDE DEF e, d
  <2>3. CASE Gone(c, e)
    <3>1. d = e BY <2>1, <2>3, WriteFailed DEF Gone
    <3>2. SentTo(log', id, N + 1, D, C, early, c, d) BY <2>3, <3>1, OutcomeGone
    <3> QED BY <3>2 DEF d
  <2>4. CASE SentTo(log', id, N, D, C, early, c, e) /\ e.low = <<>> /\ e.subs = c.subs
    <3>1. ChanOK(log', e) /\ OneSub(id, e) /\ NoAnswers(c, e) /\ FlowTo(log', N, D, C, early, e)
      BY <2>4 DEF SentTo
    <3>2. log' \in Logs BY DEF LogOK
    <3>3. SentTo(log', id, N + 1, D, C, early, e, d) BY <2>1, <2>4, <3>1, <3>2, WriteNormalOK
    <3>4. NoAnswers(c, d) BY <3>1, <3>3, NoAnswersTrans DEF SentTo
    <3>5. SentTo(log', id, N + 1, D, C, early, c, d) BY <3>3, <3>4 DEF SentTo
    <3> QED BY <3>5 DEF d
  <2> QED BY <2>2, <2>3, <2>4
<1> QED BY <1>1, <1>2

\* publishEvent, to the one subscription there may be.
LEMMA PublishesOK ==
  ASSUME LogOK(log'), NEW id \in Nat, NEW N \in Nat, NEW D, NEW C, NEW early, NEW c, ChanOK(log', c), OneSub(id, c),
         FlowTo(log', N, D, C, early, c), N + 1 \in DOMAIN log',
         \A k \in 1..Len(c.low) : c.low[k].n <= N
  PROVE  SentTo(log', id, N + 1, D, C, early, c, Publishes(c, N + 1))
<1> DEFINE d == Publishes(c, N + 1)
<1>1. Len(c.subs) \in Nat /\ c.subs \in Seq(Nat)
  <2>1. c.subs \in Seq(Nat) BY ChanFacts
  <2> QED BY <2>1
<1>2. PICK g : PublishedBy(g, c, N + 1) BY <1>1, PublishesUnfolds
<1>3. CASE c.subs = <<>>
  <2>1. Len(c.subs) = 0 BY <1>3
  <2>2. d = c BY <1>2, <2>1 DEF PublishedBy
  <2>3. FlowTo(log', N + 1, D, C, early, c) BY <1>3 DEF FlowTo
  <2>4. SentTo(log', id, N + 1, D, C, early, c, c) BY <2>3 DEF SentTo, NoAnswers
  <2> HIDE DEF d
  <2>5. SentTo(log', id, N + 1, D, C, early, c, d) BY <2>2, <2>4
  <2> QED BY <2>5 DEF d
<1>4. CASE c.subs = <<id>>
  <2>1. Len(c.subs) = 1 /\ c.subs[1] = id /\ c.subs # <<>> BY <1>4
  <2>2. d = g[1] BY <1>2, <2>1 DEF PublishedBy
  <2>3. g[1] = SendEvent(g[0], c.subs[1], N + 1) /\ g[0] = c BY <1>2, <2>1 DEF PublishedBy
  <2>4. d = SendEvent(c, id, N + 1) BY <2>1, <2>2, <2>3
  <2>5. SentTo(log', id, N + 1, D, C, early, c, SendEvent(c, id, N + 1)) BY <2>1, SendEventOK
  <2> HIDE DEF d
  <2>6. SentTo(log', id, N + 1, D, C, early, c, d) BY <2>4, <2>5
  <2> QED BY <2>6 DEF d
<1> QED BY <1>3, <1>4 DEF OneSub

-----------------------------------------------------------------------------
(* The ring's operations *)

\* All of RingOK but the ring's size.
RingHas(l, s) ==
  /\ s \in [seq : Nat, ring : Seq(Entries), evicted : Int, lastMessage : Int]
  /\ s.seq = Len(l)
  /\ -1 <= s.evicted /\ s.evicted < s.seq /\ -1 <= s.lastMessage /\ s.lastMessage < s.seq
  /\ \A k \in DOMAIN s.ring : /\ s.ring[k].n \in DOMAIN l
                              /\ s.ring[k].i = s.ring[k].n - 1
                              /\ s.ring[k].type = l[s.ring[k].n].type
  /\ \A j, k \in DOMAIN s.ring : j < k => s.ring[j].i < s.ring[k].i
  /\ \A n \in DOMAIN l : \/ n - 1 <= s.evicted \/ n - 1 <= s.lastMessage
                         \/ Outdated(l, n)
                         \/ \E k \in DOMAIN s.ring : s.ring[k].n = n

LEMMA RingIs ==
  ASSUME NEW l, NEW s
  PROVE  RingOK(l, s) <=> RingHas(l, s) /\ Len(s.ring) <= MaxTelemetry + ControlSlots
BY DEF RingOK, RingHas

\* Of a sequence without its first, all but limit of them, limit are left.
LEMMA FewLast ==
  ASSUME NEW S, NEW u \in Seq(S), NEW limit \in Nat, NEW X, X \subseteq Range(u),
         Len(u) > limit => X \cap Range(SubSeq(u, 1, Len(u) - limit)) = {}
  PROVE  IsFiniteSet(X) /\ Cardinality(X) <= limit
<1> DEFINE n == Len(u)
           a == IF n > limit THEN n - limit + 1 ELSE 1
           T == {u[k] : k \in a..n}
           f == [k \in a..n |-> u[k]]
<1>1. n \in Nat /\ Range(u) = {u[k] : k \in 1..n} /\ \A k \in 1..n : u[k] \in S BY SeqFacts
<1>2. f \in Surjection(a..n, T) BY DEF Surjection
<1>3. a \in Int /\ n \in Int BY <1>1
<1>4. IsFiniteSet(a..n) /\ Cardinality(a..n) = IF a > n THEN 0 ELSE n - a + 1
  <2> HIDE DEF a, n
  <2> QED BY <1>3, FS_Interval
<1>5. Cardinality(a..n) <= limit /\ Cardinality(a..n) \in Nat
  <2>1. (IF a > n THEN 0 ELSE n - a + 1) <= limit /\ (IF a > n THEN 0 ELSE n - a + 1) \in Nat
    <3> HIDE DEF n
    <3> QED BY <1>1
  <2> HIDE DEF a, n
  <2> QED BY <1>4, <2>1
<1>6. IsFiniteSet(T) /\ Cardinality(T) <= Cardinality(a..n)
  <2> HIDE DEF a, n, T, f
  <2> QED BY <1>2, <1>4, FS_Surjection
<1>7. X \subseteq T
  <2> SUFFICES ASSUME NEW x \in X PROVE x \in T OBVIOUS
  <2>1. PICK k \in 1..n : x = u[k] BY <1>1
  <2>2. CASE k \in a..n BY <2>1, <2>2
  <2>3. CASE k \notin a..n
    <3>1. n > limit /\ k \in 1..(n - limit)
      <4> HIDE DEF n
      <4> QED BY <1>1, <2>3
    <3> DEFINE v == SubSeq(u, 1, n - limit)
    <3>2. n - limit \in Int /\ n - limit >= 1 /\ 1..(n - limit) \subseteq 1..n
      <4> HIDE DEF n
      <4> QED BY <1>1, <3>1
    <3>3. v \in Seq(S) /\ Len(v) = n - limit /\ \A i \in 1..(n - limit) : v[i] = u[i]
      <4>1. \A i \in 1..(n - limit) : u[i] \in S BY <1>1, <3>2
      <4> HIDE DEF n
      <4>2. v \in Seq(S) /\ Len(v) = n - limit - 1 + 1 /\ \A i \in 1..(n - limit - 1 + 1) : v[i] = u[1 + i - 1]
        BY <3>2, <4>1, SubSeqProperties
      <4>3. n - limit - 1 + 1 = n - limit /\ \A i \in 1..(n - limit) : 1 + i - 1 = i BY <3>2
      <4> HIDE DEF v
      <4> QED BY <4>2, <4>3
    <3> HIDE DEF v
    <3>4. Range(v) = {v[i] : i \in 1..Len(v)}
      <4> HIDE DEF n
      <4> QED BY <3>3, SeqFacts
    <3>5. u[k] \in Range(v) BY <3>1, <3>3, <3>4
    <3>6. X \cap Range(v) = {} BY <3>1 DEF v
    <3> QED BY <2>1, <3>5, <3>6
  <2> QED BY <2>2, <2>3
<1> HIDE DEF a, n, T, f
<1>8. IsFiniteSet(X) /\ Cardinality(X) <= Cardinality(T) BY <1>6, <1>7, FS_Subset
<1>9. Cardinality(X) \in Nat /\ Cardinality(T) \in Nat BY <1>6, <1>8, FS_CardinalityType
<1> QED BY <1>5, <1>6, <1>8, <1>9

\* An ascending sequence is as short as the set of its elements.
LEMMA AscendingFew ==
  ASSUME NEW r \in Seq(Entries), \A j, k \in 1..Len(r) : j < k => r[j].i < r[k].i,
         NEW Z, IsFiniteSet(Z), Range(r) \subseteq Z
  PROVE  Len(r) <= Cardinality(Z)
<1>1. Len(r) \in Nat /\ DOMAIN r = 1..Len(r) /\ Range(r) = {r[k] : k \in 1..Len(r)}
      /\ \A k \in 1..Len(r) : r[k] \in Entries BY SeqFacts
<1>2. r \in [1..Len(r) -> Z] BY <1>1
<1>3. \A j, k \in 1..Len(r) : r[j] = r[k] => j = k
  <2> SUFFICES ASSUME NEW j \in 1..Len(r), NEW k \in 1..Len(r), r[j] = r[k], j < k \/ k < j PROVE FALSE BY <1>1
  <2>1. r[j].i < r[k].i \/ r[k].i < r[j].i OBVIOUS
  <2>2. r[j].i \in Nat /\ r[k].i \in Nat BY <1>1 DEF Entries
  <2> QED BY <2>1, <2>2
<1>4. r \in Injection(1..Len(r), Z) BY <1>1, <1>2, <1>3 DEF Injection, IsInjective
<1>5. Cardinality(1..Len(r)) <= Cardinality(Z) BY <1>4, FS_Injection
<1>6. Cardinality(1..Len(r)) = Len(r)
  <2>1. 1 \in Int /\ Len(r) \in Int BY <1>1
  <2>2. Cardinality(1..Len(r)) = IF 1 > Len(r) THEN 0 ELSE Len(r) - 1 + 1 BY <2>1, FS_Interval
  <2> QED BY <1>1, <2>2
<1> QED BY <1>5, <1>6

\* The ring's entries of one class, and those that #evict takes of them.
OfClass(ring, d) == Only(ring, {e \in Range(ring) : Durable(e.type) = d})
Over(u, limit) == IF Len(u) > limit THEN Range(SubSeq(u, 1, Len(u) - limit)) ELSE {}
Leaves(ring) == Over(OfClass(ring, FALSE), MaxTelemetry) \cup Over(OfClass(ring, TRUE), ControlSlots)

LEMMA EvictIs ==
  ASSUME NEW s
  PROVE  Evict(s) = [s EXCEPT !.ring = Only(@, Range(@) \ Leaves(s.ring)),
                              !.evicted = Max({@} \cup {e.i : e \in Leaves(s.ring)})]
BY DEF Evict, Leaves, Over, OfClass

LEMMA OverIsOf ==
  ASSUME NEW S, NEW u \in Seq(S), NEW limit \in Nat
  PROVE  Over(u, limit) \subseteq Range(u)
<1> SUFFICES ASSUME Len(u) > limit PROVE Range(SubSeq(u, 1, Len(u) - limit)) \subseteq Range(u) BY DEF Over
<1> DEFINE m == Len(u) - limit
           v == SubSeq(u, 1, m)
<1>1. Len(u) \in Nat /\ (\A k \in 1..Len(u) : u[k] \in S) /\ Range(u) = {u[k] : k \in 1..Len(u)} BY SeqFacts
<1>2. m \in Int /\ m >= 1 /\ m <= Len(u) BY <1>1
<1> HIDE DEF m
<1>3. \A i \in 1..m : u[i] \in S BY <1>1, <1>2
<1>4. v \in Seq(S) /\ Len(v) = m - 1 + 1 /\ \A i \in 1..(m - 1 + 1) : v[i] = u[1 + i - 1]
  BY <1>2, <1>3, SubSeqProperties
<1>5. m - 1 + 1 = m /\ \A i \in 1..m : 1 + i - 1 = i BY <1>2
<1> HIDE DEF v
<1>6. Range(v) = {v[i] : i \in 1..Len(v)} BY <1>4, SeqFacts
<1>7. \A i \in 1..m : v[i] = u[i] /\ i \in 1..Len(u) BY <1>1, <1>2, <1>4, <1>5
<1>8. Range(v) \subseteq Range(u) BY <1>1, <1>4, <1>5, <1>6, <1>7
<1> QED BY <1>8 DEF v, m

LEMMA LeavesAreOf ==
  ASSUME NEW ring \in Seq(Entries)
  PROVE  Leaves(ring) \subseteq Range(ring)
<1>1. ASSUME NEW d \in BOOLEAN PROVE OfClass(ring, d) \in Seq(Entries) /\ Range(OfClass(ring, d)) \subseteq Range(ring)
  BY OnlyRange DEF OfClass
<1>2. MaxTelemetry \in Nat /\ ControlSlots \in Nat BY BudgetsAssumption
<1>3. Over(OfClass(ring, FALSE), MaxTelemetry) \subseteq Range(OfClass(ring, FALSE)) BY <1>1, <1>2, OverIsOf
<1>4. Over(OfClass(ring, TRUE), ControlSlots) \subseteq Range(OfClass(ring, TRUE)) BY <1>1, <1>2, OverIsOf
<1> QED BY <1>1, <1>3, <1>4 DEF Leaves

LEMMA SumBound ==
  ASSUME NEW a \in Nat, NEW b \in Nat, NEW x \in Nat, NEW m \in Nat, NEW k \in Nat, a <= m, b <= k
  PROVE  a + b - x <= m + k
OBVIOUS

\* What stays is within the two budgets.
LEMMA StaysWithin ==
  ASSUME NEW ring \in Seq(Entries), NEW r \in Seq(Entries), \A j, k \in 1..Len(r) : j < k => r[j].i < r[k].i,
         Range(r) \subseteq Range(ring) \ Leaves(ring)
  PROVE  Len(r) <= MaxTelemetry + ControlSlots
<1> DEFINE U(d) == OfClass(ring, d)
           X(d) == {e \in Range(r) : Durable(e.type) = d}
<1>1. ASSUME NEW d \in BOOLEAN
      PROVE  U(d) \in Seq(Entries) /\ Range(U(d)) = Range(ring) \cap {e \in Range(ring) : Durable(e.type) = d}
  BY OnlyRange DEF OfClass
<1>2. ASSUME NEW d \in BOOLEAN, NEW limit \in Nat, Over(U(d), limit) \subseteq Leaves(ring)
      PROVE  IsFiniteSet(X(d)) /\ Cardinality(X(d)) <= limit
  <2>1. X(d) \subseteq Range(U(d)) BY <1>1
  <2>2. X(d) \cap Over(U(d), limit) = {} BY <1>2
  <2>3. U(d) \in Seq(Entries) BY <1>1
  <2> HIDE DEF X, U
  <2>4. Len(U(d)) > limit => X(d) \cap Range(SubSeq(U(d), 1, Len(U(d)) - limit)) = {} BY <2>2 DEF Over
  <2> QED BY <2>1, <2>3, <2>4, FewLast
<1>3. IsFiniteSet(X(FALSE)) /\ Cardinality(X(FALSE)) <= MaxTelemetry
  <2>1. MaxTelemetry \in Nat BY BudgetsAssumption
  <2>2. Over(U(FALSE), MaxTelemetry) \subseteq Leaves(ring) BY DEF Leaves
  <2> HIDE DEF X, U
  <2> QED BY <1>2, <2>1, <2>2
<1>4. IsFiniteSet(X(TRUE)) /\ Cardinality(X(TRUE)) <= ControlSlots
  <2>1. ControlSlots \in Nat BY BudgetsAssumption
  <2>2. Over(U(TRUE), ControlSlots) \subseteq Leaves(ring) BY DEF Leaves
  <2> HIDE DEF X, U
  <2> QED BY <1>2, <2>1, <2>2
<1>5. Range(r) \subseteq X(FALSE) \cup X(TRUE) BY DEF Durable
<1> HIDE DEF X
<1> DEFINE Z == X(FALSE) \cup X(TRUE)
<1>6. IsFiniteSet(Z) /\ Cardinality(Z) = Cardinality(X(FALSE)) + Cardinality(X(TRUE)) - Cardinality(X(FALSE) \cap X(TRUE))
  BY <1>3, <1>4, FS_Union
<1>7. Cardinality(X(FALSE)) \in Nat /\ Cardinality(X(TRUE)) \in Nat /\ Cardinality(X(FALSE) \cap X(TRUE)) \in Nat
  <2>1. IsFiniteSet(X(FALSE) \cap X(TRUE)) BY <1>3, FS_Subset
  <2> QED BY <1>3, <1>4, <2>1, FS_CardinalityType
<1>8. MaxTelemetry \in Nat /\ ControlSlots \in Nat BY BudgetsAssumption
<1>9. Cardinality(Z) \in Nat /\ Cardinality(Z) <= MaxTelemetry + ControlSlots
  <2> HIDE DEF Z
  <2>1. Cardinality(Z) \in Nat BY <1>6, FS_CardinalityType
  <2> QED BY <1>3, <1>4, <1>6, <1>7, <1>8, <2>1, SumBound, ZenonT(30)
<1>10. Len(r) <= Cardinality(Z)
  <2> HIDE DEF Z
  <2>1. Range(r) \subseteq Z BY <1>5 DEF Z
  <2> QED BY <1>6, <2>1, AscendingFew
<1>11. Len(r) \in Nat OBVIOUS
<1> QED BY <1>8, <1>9, <1>10, <1>11

\* #evict keeps what the ring promises, and its size.
LEMMA EvictOK ==
  ASSUME NEW l, LogOK(l), NEW s, RingHas(l, s)
  PROVE  RingOK(l, Evict(s))
<1> DEFINE ring == s.ring
           gone == Leaves(ring)
           r == Only(ring, Range(ring) \ gone)
           W == {s.evicted} \cup {e.i : e \in gone}
           w == Max(W)
           t == Evict(s)
<1>1. s \in [seq : Nat, ring : Seq(Entries), evicted : Int, lastMessage : Int] /\ s.seq = Len(l) /\ -1 <= s.evicted
      /\ s.evicted < s.seq /\ -1 <= s.lastMessage /\ s.lastMessage < s.seq
  BY DEF RingHas
<1>2. ring \in Seq(Entries) /\ Len(ring) \in Nat /\ DOMAIN ring = 1..Len(ring) /\ Range(ring) = {ring[k] : k \in 1..Len(ring)}
  <2>1. ring \in Seq(Entries) BY <1>1
  <2> HIDE DEF ring
  <2> QED BY <2>1, SeqFacts
<1>3. t = [s EXCEPT !.ring = r, !.evicted = w] BY EvictIs
<1>4. r \in Seq(Entries) /\ Range(r) \subseteq Range(ring) \ gone
  <2> HIDE DEF ring, gone
  <2> QED BY <1>2, OnlyRange
<1>5. PICK h : Picks(h, r, ring, Range(ring) \ gone, Len(ring))
  <2> HIDE DEF ring, gone
  <2> QED BY <1>2, OnlyDoes
<1>6. gone \subseteq Range(ring)
  <2> HIDE DEF ring
  <2> QED BY <1>2, LeavesAreOf
<1>7. /\ \A k \in 1..Len(ring) : ring[k].n \in DOMAIN l /\ ring[k].i = ring[k].n - 1 /\ ring[k].type = l[ring[k].n].type
      /\ \A j, k \in 1..Len(ring) : j < k => ring[j].i < ring[k].i
  BY <1>2 DEF RingHas
<1>8. DOMAIN l = 1..Len(l) /\ Len(l) \in Nat BY DEF LogOK, Logs
<1>9. ASSUME NEW e \in Range(ring) PROVE e.i \in 0..(Len(l) - 1)
  <2>1. PICK k \in 1..Len(ring) : e = ring[k] BY <1>2
  <2>2. e.n \in 1..Len(l) /\ e.i = e.n - 1 BY <1>7, <1>8, <2>1
  <2> QED BY <1>8, <2>2
<1>10. w \in W /\ \A x \in W : x <= w
  <2>1. s.evicted \in (-1)..Len(l) BY <1>1, <1>8
  <2>2. \A e \in gone : e.i \in (-1)..Len(l) BY <1>6, <1>8, <1>9
  <2>3. W \in SUBSET ((-1)..Len(l)) /\ W # {} BY <2>1, <2>2
  <2> HIDE DEF W
  <2> QED BY <1>8, <2>3, MaxIsGreatest
<1>11. w \in Int /\ -1 <= w /\ w < Len(l)
  <2>1. CASE w = s.evicted BY <1>1, <2>1
  <2>2. CASE w # s.evicted
    <3>1. PICK e \in gone : w = e.i BY <1>10, <2>2
    <3> HIDE DEF w, gone
    <3> QED BY <1>6, <1>8, <1>9, <3>1
  <2> QED BY <2>1, <2>2
<1>12. s.evicted <= w /\ \A e \in gone : e.i <= w BY <1>10
<1> HIDE DEF w, W, gone, r, t
<1>13. /\ t \in [seq : Nat, ring : Seq(Entries), evicted : Int, lastMessage : Int]
       /\ t.seq = Len(l) /\ t.ring = r /\ t.evicted = w /\ t.lastMessage = s.lastMessage
  BY <1>1, <1>3, <1>4, <1>11
<1> HIDE DEF ring
<1>14. DOMAIN r = 1..Len(r) /\ Len(r) \in Nat /\ Range(r) = {r[k] : k \in 1..Len(r)} BY <1>4, SeqFacts
<1>15. \A k \in 1..Len(r) : r[k].n \in DOMAIN l /\ r[k].i = r[k].n - 1 /\ r[k].type = l[r[k].n].type
  <2> SUFFICES ASSUME NEW k \in 1..Len(r) PROVE r[k].n \in DOMAIN l /\ r[k].i = r[k].n - 1 /\ r[k].type = l[r[k].n].type
    OBVIOUS
  <2>1. h[k] \in 1..Len(ring) /\ r[k] = ring[h[k]] BY <1>5 DEF Picks
  <2> QED BY <1>7, <2>1
<1>16. \A j, k \in 1..Len(r) : j < k => r[j].i < r[k].i
  <2> SUFFICES ASSUME NEW j \in 1..Len(r), NEW k \in 1..Len(r), j < k PROVE r[j].i < r[k].i OBVIOUS
  <2>1. h[j] \in 1..Len(ring) /\ r[j] = ring[h[j]] /\ h[k] \in 1..Len(ring) /\ r[k] = ring[h[k]] /\ h[j] < h[k]
    BY <1>5 DEF Picks
  <2> QED BY <1>7, <2>1
<1>17. \A n \in DOMAIN l : \/ n - 1 <= w \/ n - 1 <= s.lastMessage
                           \/ Outdated(l, n)
                           \/ \E k \in 1..Len(r) : r[k].n = n
  <2> SUFFICES ASSUME NEW n \in DOMAIN l, ~(n - 1 <= w), ~(n - 1 <= s.lastMessage), ~Outdated(l, n)
               PROVE  \E k \in 1..Len(r) : r[k].n = n
    OBVIOUS
  <2>1. ~(n - 1 <= s.evicted) BY <1>1, <1>8, <1>11, <1>12
  <2>2. PICK k \in DOMAIN s.ring : s.ring[k].n = n BY <2>1 DEF RingHas
  <2>3. k \in 1..Len(ring) /\ ring[k].n = n /\ ring[k].i = n - 1 BY <1>2, <1>7, <2>2 DEF ring
  <2>4. ring[k] \notin gone BY <1>12, <2>3
  <2>5. ring[k] \in Range(ring) \ gone BY <1>2, <2>3, <2>4
  <2>6. PICK j \in 1..Len(r) : h[j] = k BY <1>5, <2>3, <2>5 DEF Picks
  <2>7. r[j] = ring[k] BY <1>5, <2>6 DEF Picks
  <2> QED BY <2>3, <2>7
<1>18. Len(r) <= MaxTelemetry + ControlSlots BY <1>2, <1>4, <1>16, StaysWithin DEF gone
<1>19. RingOK(l, t) BY <1>1, <1>11, <1>13, <1>14, <1>15, <1>16, <1>17, <1>18 DEF RingOK
<1> QED BY <1>19 DEF t

\* The log with one event more.
LEMMA LogGrows ==
  ASSUME LogOK(log), NEW type \in Types
  PROVE  LET l2 == Append(log, [i |-> Len(log), type |-> type])
         IN  /\ LogOK(l2) /\ Extends(log, l2) /\ Len(l2) = Len(log) + 1 /\ DOMAIN l2 = 1..(Len(log) + 1)
             /\ l2[Len(log) + 1] = [i |-> Len(log), type |-> type]
<1> DEFINE e == [i |-> Len(log), type |-> type]
           l2 == Append(log, e)
<1>1. log \in Logs /\ Len(log) \in Nat /\ DOMAIN log = 1..Len(log) BY DEF LogOK, Logs
<1>2. e \in [i : Nat, type : Kinds] BY <1>1, BudgetsAssumption DEF Kinds
<1>3. l2 \in Logs /\ Len(l2) = Len(log) + 1 /\ (\A k \in 1..Len(log) : l2[k] = log[k]) /\ l2[Len(log) + 1] = e
  BY <1>1, <1>2, AppendFacts DEF Logs
<1>4. e.i = Len(log) OBVIOUS
<1> HIDE DEF e, l2
<1>5. DOMAIN l2 = 1..(Len(log) + 1) BY <1>3 DEF Logs
<1>6. \A n \in DOMAIN l2 : l2[n].i = n - 1
  <2> SUFFICES ASSUME NEW n \in DOMAIN l2 PROVE l2[n].i = n - 1 OBVIOUS
  <2>1. CASE n = Len(log) + 1 BY <1>1, <1>3, <1>4, <2>1
  <2>2. CASE n # Len(log) + 1
    <3>1. n \in 1..Len(log) BY <1>1, <1>5, <2>2
    <3> QED BY <1>1, <1>3, <3>1 DEF LogOK
  <2> QED BY <2>1, <2>2
<1>7. LogOK(l2) BY <1>3, <1>6 DEF LogOK
<1>8. Extends(log, l2) BY <1>1, <1>3, <1>5 DEF Extends
<1> QED BY <1>3, <1>5, <1>7, <1>8 DEF e, l2

LEMMA OutdatedGrows ==
  ASSUME NEW l, NEW l2, Extends(l, l2), NEW n \in DOMAIN l, Outdated(l, n)
  PROVE  Outdated(l2, n)
<1>1. PICK m \in DOMAIN l : m > n /\ l[m].type = "tool" BY DEF Outdated
<1>2. m \in DOMAIN l2 /\ l2[m].type = "tool" /\ l2[n].type = "tool" BY <1>1 DEF Outdated, Extends
<1> QED BY <1>1, <1>2 DEF Outdated

\* push, publishChunk and pushToolCallUpdate keep what the ring promises.
LEMMA PushOK ==
  ASSUME LogOK(log), NEW s, RingOK(log, s), NEW type \in Types, NEW l2, l2 = Append(log, [i |-> s.seq, type |-> type])
  PROVE  RingOK(l2, Push(s, type))
<1> DEFINE N == Len(log)
           ring == s.ring
           keep == {x \in Range(ring) : x.type # "tool"}
           kept == IF type = "tool" THEN Only(ring, keep) ELSE ring
           e == [i |-> s.seq, type |-> type, n |-> N + 1]
           r == Append(kept, e)
           u == [s EXCEPT !.seq = @ + 1, !.ring = r]
           v == [s EXCEPT !.seq = @ + 1, !.lastMessage = s.seq]
<1>1. s \in [seq : Nat, ring : Seq(Entries), evicted : Int, lastMessage : Int] /\ s.seq = N /\ -1 <= s.evicted
      /\ s.evicted < s.seq /\ -1 <= s.lastMessage /\ s.lastMessage < s.seq
  BY DEF RingOK
<1>2. LogOK(l2) /\ Extends(log, l2) /\ Len(l2) = N + 1 /\ DOMAIN l2 = 1..(N + 1) /\ l2[N + 1].type = type
  <2>1. l2 = Append(log, [i |-> Len(log), type |-> type]) BY <1>1
  <2> QED BY <2>1, LogGrows
<1>3. ring \in Seq(Entries) /\ Len(ring) \in Nat /\ DOMAIN ring = 1..Len(ring) /\ Range(ring) = {ring[k] : k \in 1..Len(ring)}
  <2>1. ring \in Seq(Entries) BY <1>1
  <2> HIDE DEF ring
  <2> QED BY <2>1, SeqFacts
<1>4. DOMAIN log = 1..N /\ N \in Nat BY DEF LogOK, Logs
<1>5. /\ \A k \in 1..Len(ring) : ring[k].n \in 1..N /\ ring[k].i = ring[k].n - 1 /\ ring[k].type = log[ring[k].n].type
      /\ \A j, k \in 1..Len(ring) : j < k => ring[j].i < ring[k].i
  BY <1>3, <1>4 DEF RingOK
<1>6. CASE type = "chunk"
  <2>1. Push(s, type) = v BY <1>6 DEF Push
  <2>2. /\ v \in [seq : Nat, ring : Seq(Entries), evicted : Int, lastMessage : Int]
        /\ v.seq = N + 1 /\ v.ring = ring /\ v.evicted = s.evicted /\ v.lastMessage = N
    <3>1. N \in Int /\ N + 1 \in Nat BY <1>4
    <3>2. v = [s EXCEPT !.seq = N + 1, !.lastMessage = N] BY <1>1
    <3>3. s.ring \in Seq(Entries) /\ s.evicted \in Int BY <1>1
    <3> HIDE DEF N, v
    <3>4. v.seq = N + 1 /\ v.ring = s.ring /\ v.evicted = s.evicted /\ v.lastMessage = N BY <1>1, <3>2
    <3>5. v = [seq |-> N + 1, ring |-> s.ring, evicted |-> s.evicted, lastMessage |-> N] BY <1>1, <3>2
    <3> QED BY <3>1, <3>3, <3>4, <3>5
  <2> HIDE DEF v
  <2>3. \A k \in DOMAIN ring : ring[k].n \in DOMAIN l2 /\ ring[k].i = ring[k].n - 1 /\ ring[k].type = l2[ring[k].n].type
    <3> SUFFICES ASSUME NEW k \in 1..Len(ring)
                 PROVE  ring[k].n \in DOMAIN l2 /\ ring[k].i = ring[k].n - 1 /\ ring[k].type = l2[ring[k].n].type BY <1>3
    <3>1. ring[k].n \in DOMAIN log BY <1>4, <1>5
    <3> QED BY <1>2, <1>5, <3>1 DEF Extends
  <2>4. \A n \in DOMAIN l2 : n - 1 <= N BY <1>2, <1>4
  <2>5. Len(ring) <= MaxTelemetry + ControlSlots BY DEF RingOK
  <2>6. -1 <= s.evicted /\ s.evicted < N + 1 /\ -1 <= N /\ N < N + 1 BY <1>1, <1>4
  <2> HIDE DEF ring, N
  <2>7. RingOK(l2, v) BY <1>2, <1>3, <1>5, <2>2, <2>3, <2>4, <2>5, <2>6 DEF RingOK
  <2> QED BY <2>1, <2>7
<1>7. CASE type # "chunk"
  <2>1. Push(s, type) = Evict(u) BY <1>7 DEF Push
  <2>2. kept \in Seq(Entries) /\ Len(kept) \in Nat /\ Range(kept) = {kept[k] : k \in 1..Len(kept)}
    <3>1. kept \in Seq(Entries)
      <4> HIDE DEF ring, keep
      <4> QED BY <1>3, OnlyRange
    <3> HIDE DEF kept
    <3> QED BY <3>1, SeqFacts
  <2>3. PICK h : /\ \A k \in 1..Len(kept) : h[k] \in 1..Len(ring) /\ kept[k] = ring[h[k]]
                 /\ \A j, k \in 1..Len(kept) : j < k => h[j] < h[k]
    <3>1. CASE type = "tool"
      <4>1. kept = Only(ring, keep) BY <3>1
      <4>2. PICK h : Picks(h, kept, ring, keep, Len(ring))
        <5> HIDE DEF ring, keep
        <5> QED BY <1>3, <4>1, OnlyDoes
      <4> HIDE DEF kept, ring, keep
      <4> QED BY <4>2 DEF Picks
    <3>2. CASE type # "tool"
      <4>1. kept = ring BY <3>2
      <4> DEFINE h == [k \in 1..Len(ring) |-> k]
      <4>2. \A k \in 1..Len(ring) : h[k] = k OBVIOUS
      <4> HIDE DEF h, ring, kept
      <4>3. \A k \in 1..Len(kept) : h[k] \in 1..Len(ring) /\ kept[k] = ring[h[k]] BY <4>1, <4>2
      <4>4. \A j, k \in 1..Len(kept) : j < k => h[j] < h[k] BY <4>1, <4>2
      <4> QED BY <4>3, <4>4, Zenon
    <3> QED BY <3>1, <3>2
  <2>4. \A k \in 1..Len(ring) : (ring[k].type = "tool" /\ type = "tool") \/ \E j \in 1..Len(kept) : kept[j] = ring[k]
    <3> SUFFICES ASSUME NEW k \in 1..Len(ring), ~(ring[k].type = "tool" /\ type = "tool")
                 PROVE  \E j \in 1..Len(kept) : kept[j] = ring[k]
      OBVIOUS
    <3>1. CASE type = "tool"
      <4>1. ring[k] \in Range(ring) /\ ring[k].type # "tool" BY <1>3, <3>1
      <4>2. ring[k] \in Range(ring) \cap keep BY <4>1
      <4>3. Range(kept) = Range(ring) \cap keep
        <5>1. kept = Only(ring, keep) BY <3>1
        <5> HIDE DEF ring, keep, kept
        <5> QED BY <1>3, <5>1, OnlyRange
      <4> HIDE DEF kept, keep, ring
      <4> QED BY <2>2, <4>2, <4>3
    <3>2. CASE type # "tool"
      <4>1. kept = ring BY <3>2
      <4> HIDE DEF kept, ring
      <4> QED BY <4>1
    <3> QED BY <3>1, <3>2
  <2>5. e \in Entries /\ e.i = N /\ e.n = N + 1 /\ e.type = type
    BY <1>1, <1>4, BudgetsAssumption DEF Entries, Kinds
  <2> HIDE DEF e, kept, keep
  <2>6. r \in Seq(Entries) /\ Len(r) = Len(kept) + 1 /\ (\A k \in 1..Len(kept) : r[k] = kept[k]) /\ r[Len(kept) + 1] = e
    BY <2>2, <2>5, AppendFacts
  <2>7. u \in [seq : Nat, ring : Seq(Entries), evicted : Int, lastMessage : Int]
        /\ u.seq = N + 1 /\ u.ring = r /\ u.evicted = s.evicted /\ u.lastMessage = s.lastMessage
    <3>1. N \in Nat /\ N + 1 \in Nat BY <1>4
    <3> HIDE DEF r, N
    <3> QED BY <1>1, <2>6, <3>1
  <2> HIDE DEF r, u, N
  <2>8. DOMAIN r = 1..Len(r) /\ \A k \in 1..Len(r) : k \in 1..Len(kept) \/ k = Len(kept) + 1 BY <2>2, <2>6
  <2>9. ASSUME NEW k \in 1..Len(kept)
        PROVE  r[k] = ring[h[k]] /\ h[k] \in 1..Len(ring) /\ r[k].n \in 1..N /\ r[k].i = r[k].n - 1 /\ r[k].type = log[r[k].n].type
    <3>1. r[k] = ring[h[k]] /\ h[k] \in 1..Len(ring) BY <2>3, <2>6
    <3> QED BY <1>5, <3>1
  <2>10. \A k \in DOMAIN r : r[k].n \in DOMAIN l2 /\ r[k].i = r[k].n - 1 /\ r[k].type = l2[r[k].n].type
    <3> SUFFICES ASSUME NEW k \in 1..Len(r) PROVE r[k].n \in DOMAIN l2 /\ r[k].i = r[k].n - 1 /\ r[k].type = l2[r[k].n].type
      BY <2>8
    <3>1. CASE k \in 1..Len(kept)
      <4>1. r[k].n \in DOMAIN log BY <1>4, <2>9, <3>1
      <4> QED BY <1>2, <2>9, <3>1, <4>1 DEF Extends
    <3>2. CASE k = Len(kept) + 1
      <4>1. r[k] = e BY <2>6, <3>2
      <4> QED BY <1>2, <1>4, <2>5, <4>1
    <3> QED BY <2>8, <3>1, <3>2
  <2>11. \A j, k \in DOMAIN r : j < k => r[j].i < r[k].i
    <3> SUFFICES ASSUME NEW j \in 1..Len(r), NEW k \in 1..Len(r), j < k PROVE r[j].i < r[k].i BY <2>8
    <3>1. j \in 1..Len(kept) BY <2>2, <2>6
    <3>2. CASE k \in 1..Len(kept)
      <4>1. h[j] < h[k] BY <2>3, <3>1, <3>2
      <4> QED BY <1>5, <2>9, <3>1, <3>2, <4>1
    <3>3. CASE k = Len(kept) + 1
      <4>1. r[k].i = N BY <2>5, <2>6, <3>3
      <4>2. r[j].n \in 1..N /\ r[j].i = r[j].n - 1 BY <2>9, <3>1
      <4> QED BY <1>4, <4>1, <4>2
    <3> QED BY <2>8, <3>2, <3>3
  <2>12. ASSUME NEW n \in DOMAIN l2
         PROVE  n - 1 <= s.evicted \/ n - 1 <= s.lastMessage \/ Outdated(l2, n) \/ \E k \in DOMAIN r : r[k].n = n
    <3>1. CASE n = N + 1
      <4>1. Len(kept) + 1 \in DOMAIN r BY <2>2, <2>6, <2>8
      <4> QED BY <2>5, <2>6, <3>1, <4>1
    <3>2. CASE n # N + 1
      <4>1. n \in DOMAIN log BY <1>2, <1>4, <3>2
      <4>2. n - 1 <= s.evicted \/ n - 1 <= s.lastMessage \/ Outdated(log, n) \/ \E k \in DOMAIN s.ring : s.ring[k].n = n
        BY <4>1 DEF RingOK
      <4>3. Outdated(log, n) => Outdated(l2, n) BY <1>2, <4>1, OutdatedGrows
      <4>4. ASSUME NEW k \in DOMAIN s.ring, s.ring[k].n = n PROVE Outdated(l2, n) \/ \E j \in DOMAIN r : r[j].n = n
        <5>1. k \in 1..Len(ring) /\ ring[k].n = n BY <1>3, <4>4
        <5>2. CASE ring[k].type = "tool" /\ type = "tool"
          <6>1. l2[n].type = "tool" BY <1>2, <1>5, <4>1, <5>1, <5>2 DEF Extends
          <6>2. l2[N + 1].type = "tool" /\ N + 1 \in DOMAIN l2 /\ N + 1 > n BY <1>2, <1>4, <4>1, <5>2
          <6> QED BY <6>1, <6>2 DEF Outdated
        <5>3. CASE \E j \in 1..Len(kept) : kept[j] = ring[k]
          <6>1. PICK j \in 1..Len(kept) : kept[j] = ring[k] BY <5>3
          <6>2. j \in DOMAIN r /\ r[j] = ring[k] BY <2>2, <2>6, <2>8, <6>1
          <6> QED BY <5>1, <6>2
        <5> QED BY <2>4, <5>1, <5>2, <5>3
      <4> QED BY <4>2, <4>3, <4>4
    <3> QED BY <3>1, <3>2
  <2>13. -1 <= s.evicted /\ s.evicted < N + 1 /\ -1 <= s.lastMessage /\ s.lastMessage < N + 1 BY <1>1, <1>4
  <2>14. RingHas(l2, u) BY <1>2, <2>7, <2>10, <2>11, <2>12, <2>13 DEF RingHas
  <2>15. RingOK(l2, Evict(u)) BY <1>2, <2>14, EvictOK
  <2> QED BY <2>1, <2>15
<1> QED BY <1>6, <1>7

-----------------------------------------------------------------------------
(* Publish *)

LEMMA OfLogGrows ==
  ASSUME NEW l \in Logs, NEW l2 \in Logs, Extends(l, l2), Len(l) <= Len(l2), NEW S, NEW s \in Seq(S), OfLog(l, s),
         \A f \in S : f.kind = "gap" => f.from \in Nat
  PROVE  OfLog(l2, s)
<1>1. Len(l) \in Nat /\ Len(l2) \in Nat BY DEF Logs
<1>2. \A k \in 1..Len(s) : s[k] \in S OBVIOUS
<1> QED BY <1>1, <1>2 DEF OfLog, Extends

LEMMA FrameKinds ==
  /\ \A f \in AnyFrames : f.kind \in {"event", "gap", "reply"} /\ (f.kind = "gap" => f.from \in Nat /\ f \in GapFrames)
                          /\ (f.kind = "event" => f.n \in Nat /\ f \in EventFrames) /\ (f.kind = "reply" => f \in Replies)
                          /\ (f.kind # "reply" => f \in Tellings /\ f.sub \in Nat)
  /\ \A f \in Tellings : f \in AnyFrames /\ f.kind \in {"event", "gap"} /\ f \notin Replies
  /\ \A f \in EventFrames : f \in AnyFrames /\ f \in Tellings /\ f.kind = "event"
  /\ \A f \in Replies : f \in AnyFrames /\ f.kind = "reply"
BY DEF AnyFrames, Tellings, EventFrames, GapFrames, Replies

LEMMA ChanGrows ==
  ASSUME NEW l \in Logs, NEW l2 \in Logs, Extends(l, l2), Len(l) <= Len(l2), NEW c, ChanOK(l, c)
  PROVE  ChanOK(l2, c)
<1>1. c.stream \in Seq(AnyFrames) /\ c.normal \in Seq(Tellings) /\ c.low \in Seq(EventFrames) BY ChanFacts
<1>2. OfLog(l2, c.stream) /\ OfLog(l2, c.normal) /\ OfLog(l2, c.low)
  BY <1>1, FrameKinds, OfLogGrows DEF ChanOK, ChanType
<1>3. Framed(l, c) BY ChannelIsFramed DEF ChanOK
<1>4. \A k \in 1..Len(c.low) : l2[c.low[k].n] = l[c.low[k].n] BY <1>3 DEF Framed, Extends
<1> QED BY <1>2, <1>4 DEF ChanOK, ChanType

\* Everything is in order where everything is settled.
LEMMA FlowTrivial ==
  ASSUME NEW l \in Logs, NEW c, ChanOK(l, c), NEW early, OfLog(l, early)
  PROVE  Flow(l, DOMAIN l, DOMAIN l, early, c)
<1>1. Framed(l, c) /\ Within(l, early) BY ChannelIsFramed, OfLogWithin DEF ChanOK
<1>2. ASSUME NEW K, NEW n, 1..(n - 1) \subseteq DOMAIN l PROVE Heard(l, DOMAIN l, DOMAIN l, K, n)
  BY <1>2 DEF Heard, Knows, Has
<1>3. ASSUME NEW K, NEW s, Within(l, s) PROVE InOrder(l, DOMAIN l, DOMAIN l, K, s)
  BY <1>2, <1>3 DEF InOrder, Within
<1>4. 1..(Len(l) + 1 - 1) \subseteq DOMAIN l
  <2>1. Len(l) \in Nat /\ DOMAIN l = 1..Len(l) BY DEF Logs
  <2> QED BY <2>1
<1>5. \A K : Heard(l, DOMAIN l, DOMAIN l, K, Len(l) + 1) BY <1>2, <1>4
<1> QED BY <1>1, <1>3, <1>5 DEF Flow, FlowTo, Framed

LEMMA PublishesIdle ==
  ASSUME NEW c, c.subs = <<>>, NEW n
  PROVE  Publishes(c, n) = c
<1>1. Len(c.subs) = 0 OBVIOUS
<1>2. PICK g : PublishedBy(g, c, n) BY <1>1, PublishesUnfolds
<1> QED BY <1>1, <1>2 DEF PublishedBy

\* publishEvent of the log's new last event.
Published(l, id, D, C, early, c, d) ==
  ChanOK(l, d) /\ OneSub(id, d) /\ NoAnswers(c, d) /\ Flow(l, D, C, early, d)

LEMMA PublishStep ==
  ASSUME LogOK(log), LogOK(log'), Extends(log, log'), Len(log') = Len(log) + 1,
         NEW id \in Nat, NEW D, NEW D2, NEW C, NEW early, NEW c, ChanOK(log, c), OneSub(id, c), OfLog(log, early),
         Flow(log, D, C, early, c), D \subseteq D2
  PROVE  Published(log', id, D2, C, early, c, Publishes(c, Len(log')))
<1> DEFINE N == Len(log)
           d == Publishes(c, N + 1)
<1>1. log \in Logs /\ log' \in Logs /\ N \in Nat /\ DOMAIN log = 1..N /\ DOMAIN log' = 1..Len(log') BY DEF LogOK, Logs
<1>2. N + 1 \in DOMAIN log' /\ Len(log) <= Len(log') BY <1>1
<1>3. ChanOK(log', c) BY <1>1, <1>2, ChanGrows
<1>4. Framed(log, c) /\ Within(log, early) BY <1>1, ChannelIsFramed, OfLogWithin DEF ChanOK
<1>5. FlowTo(log', N, D2, C, early, c) BY <1>1, <1>4, FlowGrows
<1>6. \A k \in 1..Len(c.low) : c.low[k].n <= N BY <1>1, <1>4 DEF Framed
<1> HIDE DEF N
<1>7. SentTo(log', id, N + 1, D2, C, early, c, d) BY <1>1, <1>2, <1>3, <1>5, <1>6, PublishesOK
<1> HIDE DEF d
<1>8. Published(log', id, D2, C, early, c, d) BY <1>7 DEF SentTo, Published, Flow, N
<1> QED BY <1>8 DEF d, N

LEMMA UpToGrows ==
  ASSUME NEW l, NEW l2, Extends(l, l2), NEW n
  PROVE  UpTo(l, n) \subseteq UpTo(l2, n)
<1>1. ASSUME NEW m \in DOMAIN l, m <= n \/ Outdated(l, m) PROVE m \in UpTo(l2, n)
  <2>1. m \in DOMAIN l2 BY DEF Extends
  <2>2. Outdated(l, m) => Outdated(l2, m) BY OutdatedGrows
  <2> QED BY <1>1, <2>1, <2>2 DEF UpTo
<1> QED BY <1>1 DEF UpTo

LEMMA SettledGrows ==
  ASSUME NEW l, NEW l2, Extends(l, l2), NEW t
  PROVE  Settled(l, t) \subseteq Settled(l2, t)
<1>1. ASSUME NEW n \in Settled(l, t) PROVE n \in Settled(l2, t)
  <2>1. n \in DOMAIN l BY DEF Settled
  <2>2. n \in DOMAIN l2 BY <2>1 DEF Extends
  <2>3. Outdated(l, n) => Outdated(l2, n) BY <2>1, OutdatedGrows
  <2> QED BY <2>2, <2>3 DEF Settled
<1> QED BY <1>1

LEMMA ReplyGrows ==
  ASSUME NEW l \in Logs, NEW l2 \in Logs, Extends(l, l2), Len(l) <= Len(l2), NEW r \in Replies, ReplyOK(l, r)
  PROVE  ReplyOK(l2, r)
<1>1. Len(l) \in Nat /\ Len(l2) \in Nat /\ DOMAIN l = 1..Len(l) BY DEF Logs
<1>2. r.upto \in Nat /\ r.upto <= Len(l) BY DEF ReplyOK, Replies
<1>3. ASSUME NEW n \in 1..r.upto, Outdated(l, n) PROVE Outdated(l2, n)
  <2>1. n \in DOMAIN l BY <1>1, <1>2
  <2> QED BY <1>3, <2>1, OutdatedGrows
<1> QED BY <1>1, <1>2, <1>3 DEF ReplyOK

LEMMA ClientGrows ==
  ASSUME NEW l \in Logs, NEW l2 \in Logs, Extends(l, l2), Len(l) <= Len(l2), NEW t, ClientType(l, t)
  PROVE  ClientType(l2, t) /\ (PassedOK(l, t) => PassedOK(l2, t))
<1>1. Len(l) \in Nat /\ Len(l2) \in Nat /\ DOMAIN l = 1..Len(l) /\ DOMAIN l2 = 1..Len(l2) BY DEF Logs
<1>2. t.client.early \in Seq(Tellings) /\ t.client.cursor \in Nat /\ t.client.cursor <= Len(l)
      /\ t.client.floor \in Nat \cup {None}
  BY DEF ClientType
<1>3. OfLog(l2, t.client.early) BY <1>2, FrameKinds, OfLogGrows DEF ClientType
<1>4. t.client.cursor <= Len(l2) /\ (t.client.floor # None => t.client.floor <= Len(l2))
  BY <1>1, <1>2 DEF ClientType
<1>5. ClientType(l2, t) BY <1>3, <1>4 DEF ClientType
<1>6. ASSUME PassedOK(l, t), NEW n \in DOMAIN l2, n <= t.client.cursor
      PROVE  n \in Settled(l2, t) /\ (Durable(l2[n].type) => n \in t.got \cup t.cut)
  <2>1. n \in DOMAIN l BY <1>1, <1>2, <1>6
  <2>2. l2[n] = l[n] BY <2>1 DEF Extends
  <2>3. n \in Settled(l2, t) BY <1>6, <2>1, SettledGrows DEF PassedOK
  <2> QED BY <1>6, <2>1, <2>2, <2>3 DEF PassedOK
<1> QED BY <1>5, <1>6 DEF PassedOK

LEMMA ToldSame ==
  ASSUME client' = client, got' = got, cut' = cut
  PROVE  Told' = Told
BY DEF Told

LEMMA ClosingIs ==
  ASSUME NEW c, link \in {"down", "up", "closing"}
  PROVE  /\ Closing(c) \in {"down", "up", "closing"}
         /\ Closing(c) = "up" => ~c.failed
         /\ Closing(c) = "down" <=> link = "down"
BY DEF Closing

\* A published event keeps a subscription's connection whatever it was.
LEMMA PublishConnected ==
  ASSUME LogOK(log), LogOK(log'), Extends(log, log'), Len(log') = Len(log) + 1,
         NEW t, ClientType(log, t), NEW c, ChanOK(log, c), NEW as, Connected(log, t, c, as)
  PROVE  LET d == Publishes(c, Len(log')) IN ChanOK(log', d) /\ Connected(log', t, d, as)
<1> DEFINE d == Publishes(c, Len(log'))
           early == t.client.early
<1>1. log \in Logs /\ log' \in Logs /\ Len(log) \in Nat /\ Len(log') \in Nat /\ Len(log) <= Len(log') BY DEF LogOK, Logs
<1>2. PICK id \in Nat : OneSub(id, c) /\ (Asked(id, t, c, as) \/ Waits(log, id, t, c, as) \/ Lives(log, id, t, c, as))
  BY DEF Connected
<1>3. OfLog(log, early) /\ OfLog(log, <<>>) BY EmptyFrames DEF ClientType
<1>4. ASSUME NEW D, NEW D2, NEW C, NEW e, OfLog(log, e), Flow(log, D, C, e, c), D \subseteq D2
      PROVE  Published(log', id, D2, C, e, c, d)
  <2> HIDE DEF d
  <2>1. Published(log', id, D2, C, e, c, Publishes(c, Len(log'))) BY <1>2, <1>4, PublishStep
  <2> QED BY <2>1 DEF d
<1>5. ChanOK(log', d) /\ OneSub(id, d) /\ NoAnswers(c, d)
  <2>1. Flow(log, DOMAIN log, DOMAIN log, early, c) BY <1>1, <1>3, FlowTrivial
  <2>2. Published(log', id, DOMAIN log, DOMAIN log, early, c, d) BY <1>3, <1>4, <2>1
  <2> QED BY <2>2 DEF Published
<1>6. CASE Asked(id, t, c, as)
  <2>1. c.subs = <<>> BY <1>6 DEF Asked, NoFrame
  <2>2. d = c BY <2>1, PublishesIdle
  <2> HIDE DEF d
  <2> QED BY <1>2, <1>5, <1>6, <2>2 DEF Connected, d
<1>7. CASE Waits(log, id, t, c, as)
  <2>1. ASSUME NEW r \in Replies, r \in Range(d.stream) \cup Range(d.high) \cup ({t.client.reply} \ {None})
        PROVE  ReplyFits(log', id, t, d, r)
    <3>1. r \in Range(c.stream) \cup Range(c.high) \cup ({t.client.reply} \ {None}) BY <1>5, <2>1 DEF NoAnswers
    <3>2. ReplyFits(log, id, t, c, r) BY <1>7, <3>1 DEF Waits
    <3>3. ASSUME r.ok PROVE ReplyOK(log', r) /\ Flow(log', UpTo(log', r.upto), 1 .. r.upto, early, d)
      <4>1. ReplyOK(log, r) /\ Flow(log, UpTo(log, r.upto), 1 .. r.upto, early, c) BY <3>2, <3>3 DEF ReplyFits
      <4>2. ReplyOK(log', r) BY <1>1, <4>1, ReplyGrows
      <4>3. UpTo(log, r.upto) \subseteq UpTo(log', r.upto) BY UpToGrows
      <4>4. Published(log', id, UpTo(log', r.upto), 1 .. r.upto, early, c, d) BY <1>3, <1>4, <4>1, <4>3
      <4> QED BY <4>2, <4>4 DEF Published
    <3> QED BY <3>2, <3>3 DEF ReplyFits
  <2>2. Waits(log', id, t, d, as)
    <3> HIDE DEF d
    <3> QED BY <1>7, <2>1 DEF Waits
  <2> HIDE DEF d
  <2> QED BY <1>2, <1>5, <2>2 DEF Connected, d
<1>8. CASE Lives(log, id, t, c, as)
  <2>1. Flow(log, Settled(log, t), t.got \cup t.cut, <<>>, c) BY <1>8 DEF Lives
  <2>2. Settled(log, t) \subseteq Settled(log', t) BY SettledGrows
  <2>3. Published(log', id, Settled(log', t), t.got \cup t.cut, <<>>, c, d) BY <1>3, <1>4, <2>1, <2>2
  <2>4. Lives(log', id, t, d, as)
    <3> HIDE DEF d
    <3> QED BY <1>8, <2>3 DEF Lives, Published
  <2> HIDE DEF d
  <2> QED BY <1>2, <1>5, <2>4 DEF Connected, d
<1> QED BY <1>2, <1>6, <1>7, <1>8

LEMMA PublishKeeps ==
  ASSUME IInv, NEW type \in Types, Publish(type)
  PROVE  IInv'
<1> DEFINE t == Told
           c == chan
           d == chan'
<1>1. /\ LogOK(log) /\ RingOK(log, session) /\ ChanOK(log, c) /\ ClientType(log, t) /\ asks \in Seq(Asks)
      /\ link \in {"down", "up", "closing"} /\ Linked(log, c, t, asks, link)
  BY DEF IInv, Plain
<1>2. /\ log' = Append(log, [i |-> session.seq, type |-> type]) /\ session' = Push(session, type)
      /\ d = Publishes(c, Len(log')) /\ link' = Closing(d)
      /\ asks' = asks /\ client' = client /\ got' = got /\ cut' = cut /\ client.state # "ended"
  BY DEF Publish, history, Watching
<1>3. Told' = t BY <1>2, ToldSame
<1>4. LogOK(log') /\ Extends(log, log') /\ Len(log') = Len(log) + 1
  <2>1. session.seq = Len(log) BY <1>1 DEF RingOK
  <2> QED BY <1>1, <1>2, <2>1, LogGrows
<1>5. RingOK(log', session') BY <1>1, <1>2, PushOK
<1>6. log \in Logs /\ log' \in Logs /\ Len(log) <= Len(log')
  <2>1. Len(log) \in Nat BY <1>1 DEF LogOK, Logs
  <2> QED BY <1>1, <1>4, <2>1 DEF LogOK
<1>7. ClientType(log', t) /\ (PassedOK(log, t) => PassedOK(log', t)) BY <1>1, <1>4, <1>6, ClientGrows
<1>8. t.client = client BY DEF Told
<1>9. PassedOK(log, t) /\ (link # "down" => Connected(log, t, c, asks)) BY <1>1, <1>2, <1>8 DEF Linked
<1>10. link = "down" => /\ NoFrame(c) /\ asks = <<>>
                        /\ t.client.server = None /\ t.client.reply = None /\ t.client.early = <<>>
  BY DEF IInv, Plain
<1>11. link' \in {"down", "up", "closing"} /\ (link' = "up" => ~d.failed) /\ (link' = "down" <=> link = "down")
  BY <1>1, <1>2, ClosingIs
<1>12. CASE link = "down"
  <2>1. d = c BY <1>2, <1>10, <1>12, PublishesIdle DEF NoFrame
  <2>2. ChanOK(log', d) BY <1>1, <1>4, <1>6, <2>1, ChanGrows
  <2>3. Plain(log', session', d, t, asks, link') BY <1>1, <1>4, <1>5, <1>7, <1>10, <1>11, <1>12, <2>1, <2>2 DEF Plain
  <2>4. Linked(log', d, t, asks, link') BY <1>7, <1>9, <1>11, <1>12 DEF Linked
  <2> QED BY <1>2, <1>3, <2>3, <2>4 DEF IInv
<1>13. CASE link # "down"
  <2> HIDE DEF t, c, d
  <2>1. ChanOK(log', d) /\ Connected(log', t, d, asks) BY <1>1, <1>2, <1>4, <1>9, <1>13, PublishConnected
  <2>2. Plain(log', session', d, t, asks, link') BY <1>1, <1>4, <1>5, <1>7, <1>11, <1>13, <2>1 DEF Plain
  <2>3. Linked(log', d, t, asks, link') BY <1>7, <1>9, <2>1 DEF Linked
  <2> QED BY <1>2, <1>3, <2>2, <2>3 DEF IInv, c, d
<1> QED BY <1>12, <1>13

-----------------------------------------------------------------------------
(* The connection fails, ends and begins *)

\* Whatever the connection was for, it stays in order once it has failed.
LEMMA GoneConnected ==
  ASSUME NEW l, NEW t, NEW c, NEW d, NEW as, ChanOK(l, c), Gone(c, d), Connected(l, t, c, as)
  PROVE  ChanOK(l, d) /\ Connected(l, t, d, as)
<1>1. PICK id \in Nat : OneSub(id, c) /\ (Asked(id, t, c, as) \/ Waits(l, id, t, c, as) \/ Lives(l, id, t, c, as))
  BY DEF Connected
<1>2. ChanOK(l, d) /\ OneSub(id, d)
  <2>1. ToldOf(id, c.stream) BY <1>1 DEF OneSub
  <2> QED BY <2>1, GoneOK
<1>3. d.stream = c.stream /\ d.high = <<>> /\ d.normal = <<>> /\ d.low = <<>> /\ d.subs = <<>> BY DEF Gone
<1>4. ASSUME NEW D, NEW C, NEW early, Flow(l, D, C, early, c) PROVE Flow(l, D, C, early, d)
  <2>1. FlowTo(l, Len(l), D, C, early, c) BY <1>4 DEF Flow
  <2>2. FlowTo(l, Len(l), D, C, early, d) BY <1>3, <2>1, FlowFails
  <2> QED BY <2>2 DEF Flow
<1>5. CASE Asked(id, t, c, as)
  <2>1. Asked(id, t, d, as) BY <1>3, <1>5 DEF Asked, NoFrame
  <2> QED BY <1>2, <2>1 DEF Connected
<1>6. CASE Waits(l, id, t, c, as)
  <2>1. ASSUME NEW r \in Replies, r \in Range(d.stream) \cup Range(d.high) \cup ({t.client.reply} \ {None})
        PROVE  ReplyFits(l, id, t, d, r)
    <3>1. r \in Range(c.stream) \cup Range(c.high) \cup ({t.client.reply} \ {None}) BY <1>3, <2>1, EmptyFrames
    <3>2. ReplyFits(l, id, t, c, r) BY <1>6, <3>1 DEF Waits
    <3> QED BY <1>4, <3>2 DEF ReplyFits
  <2>2. Waits(l, id, t, d, as) BY <1>6, <2>1 DEF Waits
  <2> QED BY <1>2, <2>2 DEF Connected
<1>7. CASE Lives(l, id, t, c, as)
  <2>1. Lives(l, id, t, d, as) BY <1>4, <1>7 DEF Lives
  <2> QED BY <1>2, <2>1 DEF Connected
<1> QED BY <1>1, <1>5, <1>6, <1>7

LEMMA FailPlain ==
  ASSUME NEW l, NEW s, NEW s2, NEW t, NEW c, NEW as, NEW lk, NEW lk2, Plain(l, s, c, t, as, lk), Linked(l, c, t, as, lk),
         RingOK(l, s2), lk2 \in {"closing", "down"}, lk2 = "down" <=> lk = "down"
  PROVE  Plain(l, s2, Fail(c), t, as, lk2) /\ Linked(l, Fail(c), t, as, lk2)
<1> DEFINE d == Fail(c)
<1>1. ChanOK(l, c) /\ c \in Channels BY ChanFacts DEF Plain
<1>2. Gone(c, d) BY <1>1, FailIsGone
<1> HIDE DEF d
<1>3. ChanOK(l, d) BY <1>1, <1>2, GoneOK
<1>4. lk2 = "down" => NoFrame(d)
  <2>1. lk2 = "down" => NoFrame(c) BY DEF Plain
  <2> QED BY <1>2, <2>1 DEF NoFrame, Gone
<1>5. Plain(l, s2, d, t, as, lk2) BY <1>3, <1>4 DEF Plain
<1>6. Connected(l, t, c, as) => Connected(l, t, d, as) BY <1>1, <1>2, GoneConnected
<1>7. Linked(l, d, t, as, lk2) BY <1>6 DEF Linked
<1> QED BY <1>5, <1>7 DEF d

LEMMA WriteTimesOutKeeps ==
  ASSUME IInv, WriteTimesOut
  PROVE  IInv'
<1>1. chan' = Fail(chan) /\ link' = Closing(chan') /\ log' = log /\ session' = session /\ asks' = asks
      /\ client' = client /\ got' = got /\ cut' = cut
  BY DEF WriteTimesOut, history
<1>2. Told' = Told BY <1>1, ToldSame
<1>3. link \in {"down", "up", "closing"} /\ RingOK(log, session) BY DEF IInv, Plain
<1>4. Fail(chan).failed = TRUE /\ chan \in Channels
  <2>1. chan \in Channels BY ChanFacts DEF IInv, Plain
  <2> QED BY <2>1, FailIsGone DEF Gone
<1>5. link' \in {"closing", "down"} /\ (link' = "down" <=> link = "down") BY <1>1, <1>3, <1>4 DEF Closing
<1>6. Plain(log, session, Fail(chan), Told, asks, link') /\ Linked(log, Fail(chan), Told, asks, link')
  BY <1>3, <1>5, FailPlain DEF IInv
<1> QED BY <1>1, <1>2, <1>6 DEF IInv

\* A restarted daemon's ring is empty, all of it below its watermark.
LEMMA RestartRing ==
  ASSUME NEW l \in Logs, NEW s, RingOK(l, s)
  PROVE  RingOK(l, [s EXCEPT !.ring = <<>>, !.evicted = MaxOf(@, s.seq - 1)])
<1> DEFINE w == MaxOf(s.evicted, s.seq - 1)
           u == [s EXCEPT !.ring = <<>>, !.evicted = w]
<1>1. s \in [seq : Nat, ring : Seq(Entries), evicted : Int, lastMessage : Int] /\ s.seq = Len(l) /\ -1 <= s.evicted
      /\ s.evicted < s.seq /\ -1 <= s.lastMessage /\ s.lastMessage < s.seq
  BY DEF RingOK
<1>2. s.seq \in Nat /\ s.evicted \in Int BY <1>1
<1>3. w \in Int /\ -1 <= w /\ w < s.seq /\ s.seq - 1 <= w BY <1>1, <1>2 DEF MaxOf
<1>4. <<>> \in Seq(Entries) /\ DOMAIN <<>> = {} /\ Len(<<>>) = 0 OBVIOUS
<1> HIDE DEF w
<1>5. /\ u \in [seq : Nat, ring : Seq(Entries), evicted : Int, lastMessage : Int]
      /\ u.seq = s.seq /\ u.ring = <<>> /\ u.evicted = w /\ u.lastMessage = s.lastMessage
  BY <1>1, <1>3, <1>4
<1> HIDE DEF u
<1>6. \A n \in DOMAIN l : n - 1 <= w
  <2> SUFFICES ASSUME NEW n \in DOMAIN l PROVE n - 1 <= w OBVIOUS
  <2>1. n \in Nat /\ n <= Len(l) BY DEF Logs
  <2>2. n <= s.seq BY <1>1, <2>1
  <2> QED BY <1>2, <1>3, <2>1, <2>2
<1>7. 0 <= MaxTelemetry + ControlSlots BY BudgetsAssumption
<1>8. RingOK(l, u) BY <1>1, <1>3, <1>4, <1>5, <1>6, <1>7 DEF RingOK
<1> QED BY <1>8 DEF u, w

LEMMA RestartKeeps ==
  ASSUME Lossy = FALSE, IInv, Restart
  PROVE  IInv'
<1>1. chan' = Fail(chan) /\ link' = (IF link = "up" THEN "closing" ELSE link) /\ log' = log /\ asks' = asks
      /\ client' = client /\ got' = got /\ cut' = cut
  BY DEF Restart, history
<1>2. session' = [session EXCEPT !.ring = <<>>, !.evicted = MaxOf(@, session.seq - 1)] BY DEF Restart
<1>3. Told' = Told BY <1>1, ToldSame
<1>4. link \in {"down", "up", "closing"} /\ RingOK(log, session) /\ log \in Logs BY DEF IInv, Plain, LogOK
<1>5. RingOK(log, session') BY <1>2, <1>4, RestartRing
<1>6. link' \in {"closing", "down"} /\ (link' = "down" <=> link = "down") BY <1>1, <1>4
<1>7. Plain(log, session', Fail(chan), Told, asks, link') /\ Linked(log, Fail(chan), Told, asks, link')
  BY <1>4, <1>5, <1>6, FailPlain DEF IInv
<1> QED BY <1>1, <1>3, <1>7 DEF IInv

-----------------------------------------------------------------------------
(* The client's own steps *)

Clients == [state : {"calling", "live", "ended"}, cursor : Nat, floor : Nat \cup {None},
            server : Nat \cup {None}, early : Seq(Tellings), pending : Nat \cup {None},
            reply : Replies \cup {None}, timer : BOOLEAN, requests : Nat]

LEMMA ToldIs ==
  /\ Told.client = client /\ Told.got = got /\ Told.cut = cut
  /\ Told'.client = client' /\ Told'.got = got' /\ Told'.cut = cut'
BY DEF Told

LEMMA SettledSame ==
  ASSUME NEW l, NEW t, NEW u, u.got = t.got, u.cut = t.cut, u.client.floor = t.client.floor
  PROVE  Settled(l, u) = Settled(l, t)
BY DEF Settled

\* Bookkeeping that leaves the subscription where it was.
LEMMA LivesOn ==
  ASSUME NEW l, NEW t, NEW u, NEW c, NEW as, NEW as2, Connected(l, t, c, as), t.client.server # None,
         u.got = t.got, u.cut = t.cut, u.client.floor = t.client.floor, u.client.server = t.client.server,
         \A k \in DOMAIN as2 : as2[k].method = "unsubscribe" \/ (k \in DOMAIN as /\ as2[k] = as[k])
  PROVE  Connected(l, u, c, as2)
<1>1. PICK id \in Nat : OneSub(id, c) /\ Lives(l, id, t, c, as) BY DEF Connected, Asked, Waits
<1>2. Settled(l, u) = Settled(l, t) BY SettledSame
<1>3. Lives(l, id, u, c, as2) BY <1>1, <1>2 DEF Lives
<1> QED BY <1>1, <1>3 DEF Connected

\* A client whose subscription is over.
LEMMA EndedOK ==
  ASSUME NEW l, NEW t, ClientType(l, t), NEW u, u.client = Ended(t.client), u.got = t.got, u.cut = t.cut
  PROVE  ClientType(l, u) /\ u.client.state = "ended" /\ u.client.server = None /\ u.client.reply = None
         /\ u.client.early = t.client.early
<1> DEFINE k == t.client
           e == Ended(k)
<1>1. k \in Clients BY DEF ClientType, Clients
<1>2. /\ e \in Clients /\ e.state = "ended" /\ e.server = None /\ e.reply = None /\ e.pending = None /\ e.timer = FALSE
      /\ e.cursor = k.cursor /\ e.floor = k.floor /\ e.early = k.early
  <2> HIDE DEF k
  <2> QED BY <1>1 DEF Ended, Clients
<1> HIDE DEF e
<1>3. u.client = e BY DEF e
<1> QED BY <1>2, <1>3 DEF ClientType, Clients

LEMMA TimeOutKeeps ==
  ASSUME IInv, TimeOut
  PROVE  IInv'
<1>1. log' = log /\ session' = session /\ chan' = chan /\ asks' = asks /\ link' = link /\ got' = got /\ cut' = cut
      /\ client' = (IF client.server = None THEN Ended(client) ELSE [client EXCEPT !.pending = None]) /\ client.reply = None
  BY DEF TimeOut, history, Idle
<1> DEFINE t == Told
           u == Told'
<1>2. t.client = client /\ t.got = got /\ t.cut = cut /\ u.client = client' /\ u.got = got' /\ u.cut = cut' BY ToldIs
<1>3. Plain(log, session, chan, t, asks, link) /\ Linked(log, chan, t, asks, link) BY DEF IInv
<1> HIDE DEF t, u
<1>4. CASE client.server = None
  <2>1. ClientType(log, t) BY <1>3 DEF Plain
  <2>2. u.client = Ended(t.client) /\ u.got = t.got /\ u.cut = t.cut BY <1>1, <1>2, <1>4
  <2>3. ClientType(log, u) /\ u.client.state = "ended" /\ u.client.server = None /\ u.client.reply = None
        /\ u.client.early = t.client.early
    BY <2>1, <2>2, EndedOK
  <2>4. Plain(log, session, chan, u, asks, link) BY <1>3, <2>3 DEF Plain
  <2>5. Linked(log, chan, u, asks, link) BY <2>3 DEF Linked
  <2> QED BY <1>1, <2>4, <2>5 DEF IInv, u
<1>5. CASE client.server # None
  <2>1. client \in Clients BY <1>2, <1>3 DEF Plain, ClientType, Clients
  <2>2. /\ client' \in Clients /\ client'.state = client.state /\ client'.server = client.server /\ client'.reply = client.reply
        /\ client'.pending = None /\ client'.timer = client.timer
        /\ client'.cursor = client.cursor /\ client'.floor = client.floor /\ client'.early = client.early
    BY <1>1, <1>5, <2>1 DEF Clients
  <2>3. ClientType(log, t) BY <1>3 DEF Plain
  <2>4. ClientType(log, u) BY <1>2, <2>2, <2>3 DEF ClientType, Clients
  <2>5. Plain(log, session, chan, u, asks, link) BY <1>2, <1>3, <2>2, <2>4 DEF Plain
  <2>6. u.got = t.got /\ u.cut = t.cut /\ u.client.floor = t.client.floor /\ u.client.server = t.client.server
        /\ t.client.server # None /\ u.client.cursor = t.client.cursor /\ u.client.state = t.client.state
    BY <1>1, <1>2, <1>5, <2>2
  <2>7. Connected(log, t, chan, asks) => Connected(log, u, chan, asks)
    <3>1. \A k \in DOMAIN asks : asks[k].method = "unsubscribe" \/ (k \in DOMAIN asks /\ asks[k] = asks[k]) OBVIOUS
    <3> QED BY <2>6, <3>1, LivesOn
  <2>8. PassedOK(log, t) => PassedOK(log, u)
    <3>1. Settled(log, u) = Settled(log, t) BY <2>6, SettledSame
    <3> QED BY <2>6, <3>1 DEF PassedOK
  <2>9. Linked(log, chan, u, asks, link) BY <1>3, <2>6, <2>7, <2>8 DEF Linked
  <2> QED BY <1>1, <2>5, <2>9 DEF IInv, u
<1> QED BY <1>4, <1>5

LEMMA UnsubscribeKeeps ==
  ASSUME IInv, Unsubscribe
  PROVE  IInv'
<1> DEFINE ask == [id |-> client.requests + 1, method |-> "unsubscribe", cursor |-> client.server]
<1>1. log' = log /\ session' = session /\ chan' = chan /\ link' = link /\ got' = got /\ cut' = cut
      /\ client' = [client EXCEPT !.pending = client.requests + 1, !.requests = @ + 1] /\ asks' = Append(asks, ask)
      /\ client.reply = None /\ client.server # None /\ link = "up"
  BY DEF Unsubscribe, Ask, history, Idle
<1> DEFINE t == Told
           u == Told'
<1>2. t.client = client /\ t.got = got /\ t.cut = cut /\ u.client = client' /\ u.got = got' /\ u.cut = cut' BY ToldIs
<1>3. Plain(log, session, chan, t, asks, link) /\ Linked(log, chan, t, asks, link) BY DEF IInv
<1> HIDE DEF t, u
<1>4. client \in Clients BY <1>2, <1>3 DEF Plain, ClientType, Clients
<1>5. client.requests \in Nat /\ client.requests + 1 \in Nat /\ client.server \in Nat BY <1>1, <1>4 DEF Clients
<1>6. /\ client' \in Clients /\ client'.state = client.state /\ client'.server = client.server /\ client'.reply = client.reply
      /\ client'.pending = client.requests + 1 /\ client'.timer = client.timer
      /\ client'.cursor = client.cursor /\ client'.floor = client.floor /\ client'.early = client.early
  BY <1>1, <1>4, <1>5 DEF Clients
<1>7. ask \in Asks /\ ask.method = "unsubscribe" BY <1>5 DEF Asks
<1>8. asks \in Seq(Asks) BY <1>3 DEF Plain
<1> HIDE DEF ask
<1>9. asks' \in Seq(Asks) /\ \A k \in DOMAIN asks' : asks'[k].method = "unsubscribe" \/ (k \in DOMAIN asks /\ asks'[k] = asks[k])
  <2> DEFINE a == Append(asks, ask)
  <2>1. a \in Seq(Asks) /\ Len(a) = Len(asks) + 1 /\ (\A k \in 1..Len(asks) : a[k] = asks[k]) /\ a[Len(asks) + 1] = ask
    BY <1>7, <1>8, AppendFacts
  <2>2. Len(asks) \in Nat /\ DOMAIN asks = 1..Len(asks) BY <1>8
  <2>3. a = asks' BY <1>1
  <2> HIDE DEF a
  <2>4. DOMAIN a = 1..(Len(asks) + 1) BY <2>1
  <2>5. \A k \in 1..(Len(asks) + 1) : k \in 1..Len(asks) \/ k = Len(asks) + 1 BY <2>2
  <2> QED BY <1>7, <2>1, <2>2, <2>3, <2>4, <2>5
<1>10. ClientType(log, t) BY <1>3 DEF Plain
<1>11. t.client.state = "live" BY <1>1, <1>2, <1>10 DEF ClientType
<1>12. ClientType(log, u) BY <1>2, <1>6, <1>10, <1>11 DEF ClientType, Clients
<1>13. Plain(log, session, chan, u, asks', link) BY <1>1, <1>3, <1>9, <1>12 DEF Plain
<1>14. u.got = t.got /\ u.cut = t.cut /\ u.client.floor = t.client.floor /\ u.client.server = t.client.server
       /\ t.client.server # None /\ u.client.cursor = t.client.cursor /\ u.client.state = t.client.state
  BY <1>1, <1>2, <1>6
<1>15. Connected(log, t, chan, asks) => Connected(log, u, chan, asks') BY <1>9, <1>14, LivesOn
<1>16. PassedOK(log, t) => PassedOK(log, u)
  <2>1. Settled(log, u) = Settled(log, t) BY <1>14, SettledSame
  <2> QED BY <1>14, <2>1 DEF PassedOK
<1>17. Linked(log, chan, u, asks', link) BY <1>3, <1>14, <1>15, <1>16 DEF Linked
<1> QED BY <1>1, <1>13, <1>17 DEF IInv, u

LEMMA NoFramesOK ==
  ASSUME NEW l \in Logs, NEW id \in Nat
  PROVE  ChanOK(l, NoFrames) /\ NoFrame(NoFrames) /\ OneSub(id, NoFrames) /\ ~NoFrames.failed
<1>1. Len(<<>>) = 0 /\ \A S : <<>> \in Seq(S) OBVIOUS
<1>2. NoFrames \in Channels /\ NoFrame(NoFrames) /\ ~NoFrames.failed BY <1>1 DEF NoFrames, Channels, NoFrame
<1>3. HighWater > 0 /\ LowBudget >= 0 /\ NormalBudget >= 0 /\ HighBudget >= 0 /\ MaxQueue >= 0 BY BudgetsAssumption
<1>4. Weighs(0, 0, 0, 0, FALSE) BY <1>3, BudgetsAssumption DEF Weighs
<1>5. NoFrames.blocked = FALSE /\ NoFrames.stream = <<>> /\ NoFrames.high = <<>> /\ NoFrames.normal = <<>>
      /\ NoFrames.low = <<>> /\ NoFrames.subs = <<>> BY DEF NoFrames
<1>6. Budgets(NoFrames) BY <1>1, <1>2, <1>4, <1>5, BudgetsAre
<1>7. ChanType(l, NoFrames) BY <1>1, <1>2, <1>5, EmptyFrames DEF ChanType
<1>8. OneSub(id, NoFrames) BY <1>5, EmptyFrames DEF OneSub
<1> QED BY <1>2, <1>6, <1>7, <1>8 DEF ChanOK

LEMMA DisconnectKeeps ==
  ASSUME IInv, Disconnect
  PROVE  IInv'
<1>1. log' = log /\ session' = session /\ chan' = NoFrames /\ link' = "down" /\ asks' = <<>> /\ got' = got /\ cut' = cut
      /\ client' = Disconnected(client) /\ client.reply = None
  BY DEF Disconnect, history, Idle
<1> DEFINE t == Told
           u == Told'
           d == [client EXCEPT !.server = None, !.early = <<>>, !.pending = None]
<1>2. t.client = client /\ t.got = got /\ t.cut = cut /\ u.client = client' /\ u.got = got' /\ u.cut = cut' BY ToldIs
<1>3. Plain(log, session, chan, t, asks, link) /\ Linked(log, chan, t, asks, link) BY DEF IInv
<1> HIDE DEF t, u
<1>4. client \in Clients BY <1>2, <1>3 DEF Plain, ClientType, Clients
<1>5. <<>> \in Seq(Tellings) /\ <<>> \in Seq(Asks) OBVIOUS
<1>6. /\ d \in Clients /\ d.state = client.state /\ d.server = None /\ d.reply = client.reply
      /\ d.pending = None /\ d.cursor = client.cursor /\ d.floor = client.floor /\ d.early = <<>> /\ d.timer = client.timer
  BY <1>4, <1>5 DEF Clients
<1>7. log \in Logs /\ ClientType(log, t) BY <1>3 DEF Plain, LogOK
<1>8. ChanOK(log, NoFrames) /\ NoFrame(NoFrames) BY <1>7, NoFramesOK
<1>9. CASE client.state = "live"
  <2>1. client' = [d EXCEPT !.timer = TRUE] BY <1>1, <1>9 DEF Disconnected
  <2> HIDE DEF d
  <2>2. /\ client' \in Clients /\ client'.state = client.state /\ client'.server = None /\ client'.reply = None
        /\ client'.pending = None /\ client'.cursor = client.cursor /\ client'.floor = client.floor /\ client'.early = <<>>
    BY <1>1, <1>6, <2>1 DEF Clients
  <2>3. ClientType(log, u) BY <1>2, <1>7, <1>9, <2>2, EmptyFrames DEF ClientType, Clients
  <2>4. Plain(log, session, NoFrames, u, <<>>, "down") BY <1>2, <1>3, <1>5, <1>8, <2>2, <2>3 DEF Plain
  <2>5. u.got = t.got /\ u.cut = t.cut /\ u.client.floor = t.client.floor /\ u.client.cursor = t.client.cursor
    BY <1>1, <1>2, <2>2
  <2>6. PassedOK(log, t) BY <1>2, <1>3, <1>9 DEF Linked
  <2>7. PassedOK(log, u)
    <3>1. Settled(log, u) = Settled(log, t) BY <2>5, SettledSame
    <3> QED BY <2>5, <2>6, <3>1 DEF PassedOK
  <2>8. Linked(log, NoFrames, u, <<>>, "down") BY <2>7 DEF Linked
  <2> QED BY <1>1, <2>4, <2>8 DEF IInv, u
<1>10. CASE client.state # "live"
  <2>1. client' = Ended(d) BY <1>1, <1>10 DEF Disconnected
  <2> HIDE DEF d
  <2>2. /\ client' \in Clients /\ client'.state = "ended" /\ client'.server = None /\ client'.reply = None /\ client'.timer = FALSE
        /\ client'.pending = None /\ client'.cursor = client.cursor /\ client'.floor = client.floor /\ client'.early = <<>>
    BY <1>6, <2>1 DEF Clients, Ended
  <2>3. ClientType(log, u) BY <1>2, <1>7, <2>2, EmptyFrames DEF ClientType, Clients
  <2>4. Plain(log, session, NoFrames, u, <<>>, "down") BY <1>2, <1>3, <1>5, <1>8, <2>2, <2>3 DEF Plain
  <2>5. Linked(log, NoFrames, u, <<>>, "down") BY <1>2, <2>2 DEF Linked
  <2> QED BY <1>1, <2>4, <2>5 DEF IInv, u
<1> QED BY <1>9, <1>10

LEMMA ConnectKeeps ==
  ASSUME IInv, Connect
  PROVE  IInv'
<1> DEFINE r == Rewound([client EXCEPT !.timer = FALSE])
           ask == [id |-> r.requests + 1, method |-> "subscribe", cursor |-> r.cursor]
<1>1. log' = log /\ session' = session /\ chan' = NoFrames /\ link' = "up" /\ got' = got /\ cut' = cut
      /\ client' = [r EXCEPT !.pending = r.requests + 1, !.requests = @ + 1] /\ asks' = Append(asks, ask)
      /\ client.reply = None /\ link = "down" /\ (client.state = "calling" \/ client.timer)
  BY DEF Connect, Ask, history, Idle
<1> DEFINE t == Told
           u == Told'
<1>2. t.client = client /\ t.got = got /\ t.cut = cut /\ u.client = client' /\ u.got = got' /\ u.cut = cut' BY ToldIs
<1>3. Plain(log, session, chan, t, asks, link) /\ Linked(log, chan, t, asks, link) BY DEF IInv
<1> HIDE DEF t, u
<1>4. ClientType(log, t) /\ log \in Logs BY <1>3 DEF Plain, LogOK
<1>5. client \in Clients /\ client.state # "ended" /\ client.cursor <= Len(log)
      /\ (client.floor # None => client.floor <= Len(log))
  BY <1>1, <1>2, <1>4 DEF ClientType, Clients
<1>6. client.cursor \in Nat /\ client.floor \in Nat \cup {None} /\ None \notin Nat BY <1>5, BudgetsAssumption DEF Clients
<1> DEFINE q == IF client.floor = None THEN client.cursor ELSE MinOf(client.cursor, client.floor)
<1>7. q \in Nat /\ q <= client.cursor /\ q <= Len(log) /\ (client.floor # None => q <= client.floor)
  <2>1. CASE client.floor = None BY <1>5, <1>6, <2>1
  <2>2. CASE client.floor # None
    <3>1. client.floor \in Nat BY <1>6, <2>2
    <3>2. q = MinOf(client.cursor, client.floor) BY <2>2
    <3>3. q \in Nat /\ q <= client.cursor /\ q <= client.floor /\ q \in {client.cursor, client.floor}
      BY <1>6, <3>1, <3>2, MinMax
    <3> QED BY <1>5, <2>2, <3>3
  <2> QED BY <2>1, <2>2
<1>8. r = [client EXCEPT !.timer = FALSE, !.cursor = q] BY <1>5 DEF Rewound, Clients
<1> HIDE DEF q
<1>9. /\ r \in Clients /\ r.state = client.state /\ r.server = client.server /\ r.reply = client.reply
      /\ r.cursor = q /\ r.floor = client.floor /\ r.early = client.early /\ r.requests = client.requests
  BY <1>5, <1>7, <1>8 DEF Clients
<1>10. r.requests \in Nat /\ r.requests + 1 \in Nat BY <1>9 DEF Clients
<1>11. ask \in Asks /\ ask.method = "subscribe" /\ ask.cursor = q /\ ask.id = r.requests + 1 BY <1>7, <1>9, <1>10 DEF Asks
<1> HIDE DEF r
<1>12. /\ client' \in Clients /\ client'.state = client.state /\ client'.server = client.server /\ client'.reply = client.reply
       /\ client'.cursor = q /\ client'.floor = client.floor /\ client'.early = client.early
  BY <1>1, <1>9, <1>10 DEF Clients
<1>13. asks = <<>> /\ client.server = None /\ client.early = <<>> BY <1>1, <1>2, <1>3 DEF Plain
<1> HIDE DEF ask
<1>14. asks' = <<ask>> /\ asks' \in Seq(Asks)
  <2>1. asks' = <<ask>> BY <1>1, <1>13
  <2> QED BY <1>11, <2>1
<1>15. ChanOK(log, NoFrames) /\ NoFrame(NoFrames) /\ OneSub(r.requests + 1, NoFrames) /\ ~NoFrames.failed
  BY <1>4, <1>10, NoFramesOK
<1>16. ClientType(log, u) BY <1>2, <1>4, <1>5, <1>7, <1>12, <1>13, EmptyFrames DEF ClientType, Clients
<1>17. Plain(log, session, NoFrames, u, asks', "up") BY <1>3, <1>14, <1>15, <1>16 DEF Plain
<1>18. Rests(u) BY <1>2, <1>7, <1>12 DEF Rests
<1>19. Asked(r.requests + 1, u, NoFrames, asks') BY <1>1, <1>2, <1>11, <1>12, <1>13, <1>14, <1>15, <1>18 DEF Asked
<1>20. Connected(log, u, NoFrames, asks') BY <1>10, <1>15, <1>19 DEF Connected
<1>21. PassedOK(log, u)
  <2>1. Settled(log, u) = Settled(log, t)
    <3>1. u.got = t.got /\ u.cut = t.cut /\ u.client.floor = t.client.floor BY <1>1, <1>2, <1>12
    <3> QED BY <3>1, SettledSame
  <2>2. PassedOK(log, t) BY <1>2, <1>3, <1>5 DEF Linked
  <2>3. u.client.cursor <= t.client.cursor /\ u.client.cursor \in Nat /\ t.client.cursor \in Nat
    BY <1>2, <1>6, <1>7, <1>12
  <2>4. \A n \in DOMAIN log : n \in Nat BY <1>4 DEF Logs
  <2> QED BY <1>1, <1>2, <2>1, <2>2, <2>3, <2>4 DEF PassedOK
<1>22. Linked(log, NoFrames, u, asks', "up") BY <1>20, <1>21 DEF Linked
<1> QED BY <1>1, <1>17, <1>22 DEF IInv, u

-----------------------------------------------------------------------------
(* A frame is delivered *)

\* A subscription whose cursor passed nothing that is not settled.
Handles(l, t) ==
  /\ t = [client |-> t.client, got |-> t.got, cut |-> t.cut]
  /\ t.client \in Clients /\ t.client.cursor <= Len(l)
  /\ t.client.floor # None => t.client.floor <= Len(l)
  /\ PassedOK(l, t)

\* Only its cursor and its floor move.
SameBut(k, j) ==
  /\ j.state = k.state /\ j.server = k.server /\ j.early = k.early /\ j.pending = k.pending
  /\ j.reply = k.reply /\ j.timer = k.timer /\ j.requests = k.requests

IsDelivered(l, t, K, u) ==
  /\ Handles(l, u) /\ SameBut(t.client, u.client)
  /\ Absorbs(l, Settled(l, t), t.got \cup t.cut, K, Settled(l, u), u.got \cup u.cut, {})

LEMMA NothingSaid ==
  ASSUME NEW m
  PROVE  ~Sent({}, m) /\ ~Marked({}, m)
BY DEF Sent, Marked

\* A gap marker is a promise of the resubscribe's.
LEMMA GapDelivered ==
  ASSUME NEW l, LogOK(l), NEW t, Handles(l, t), NEW f \in GapFrames, f.from < Len(l)
  PROVE  IsDelivered(l, t, {f}, [t EXCEPT !.client.floor = IF @ = None THEN f.from ELSE MinOf(@, f.from)])
<1> DEFINE k == t.client
           w == IF k.floor = None THEN f.from ELSE MinOf(k.floor, f.from)
           j == [k EXCEPT !.floor = w]
           u == [t EXCEPT !.client.floor = w]
<1>1. k \in Clients /\ t = [client |-> k, got |-> t.got, cut |-> t.cut] /\ k.cursor <= Len(l) /\ PassedOK(l, t) BY DEF Handles
<1>2. f.from \in Nat /\ f.kind = "gap" /\ None \notin Nat /\ k.floor \in Nat \cup {None}
  BY <1>1, BudgetsAssumption DEF GapFrames, Clients
<1>3. Len(l) \in Nat /\ DOMAIN l = 1..Len(l) BY DEF LogOK, Logs
<1>4. w \in Nat /\ w <= f.from /\ w # None /\ w <= Len(l) /\ (k.floor # None => w <= k.floor)
  <2>1. CASE k.floor = None BY <1>2, <1>3, <2>1
  <2>2. CASE k.floor # None
    <3>1. k.floor \in Nat BY <1>2, <2>2
    <3>2. w = MinOf(k.floor, f.from) BY <2>2
    <3>3. w \in Nat /\ w <= k.floor /\ w <= f.from BY <1>2, <3>1, <3>2, MinMax
    <3> QED BY <1>2, <1>3, <3>3
  <2> QED BY <2>1, <2>2
<1> HIDE DEF w, k
<1>5. u = [client |-> j, got |-> t.got, cut |-> t.cut] BY <1>1
<1>6. /\ j \in Clients /\ j.floor = w /\ j.cursor = k.cursor
      /\ j.state = k.state /\ j.server = k.server /\ j.early = k.early /\ j.pending = k.pending
      /\ j.reply = k.reply /\ j.timer = k.timer /\ j.requests = k.requests
  BY <1>1, <1>4 DEF Clients
<1> HIDE DEF u, j
<1>7. u.client = j /\ u.got = t.got /\ u.cut = t.cut BY <1>5
<1>8. Settled(l, t) \subseteq Settled(l, u)
  <2> SUFFICES ASSUME NEW n \in Settled(l, t) PROVE n \in Settled(l, u) OBVIOUS
  <2>1. n \in DOMAIN l /\ n \in Nat BY <1>3 DEF Settled
  <2>2. k.floor # None /\ k.floor < n => w < n BY <1>2, <1>4, <2>1
  <2> QED BY <1>4, <1>6, <1>7, <2>1, <2>2 DEF Settled, k
<1>9. \A m \in DOMAIN l : f.from < m => m \in Settled(l, u)
  <2> SUFFICES ASSUME NEW m \in DOMAIN l, f.from < m PROVE m \in Settled(l, u) OBVIOUS
  <2>1. w < m BY <1>2, <1>3, <1>4
  <2> QED BY <1>4, <1>6, <1>7, <2>1 DEF Settled
<1>10. ~Sent({f}, 0) /\ \A m : ~Sent({f}, m) /\ (Marked({f}, m) <=> f.from < m) BY <1>2 DEF Sent, Marked
<1>11. Absorbs(l, Settled(l, t), t.got \cup t.cut, {f}, Settled(l, u), u.got \cup u.cut, {})
  BY <1>7, <1>8, <1>9, <1>10 DEF Absorbs, Knows, Has
<1>12. PassedOK(l, u) BY <1>1, <1>6, <1>7, <1>8 DEF PassedOK, k
<1>13. Handles(l, u) BY <1>1, <1>4, <1>5, <1>6, <1>7, <1>12 DEF Handles
<1> QED BY <1>6, <1>7, <1>11, <1>13 DEF IsDelivered, SameBut, u, w, k

\* An event the cursor has passed is skipped.
LEMMA SkipDelivered ==
  ASSUME NEW l, LogOK(l), NEW t, Handles(l, t), NEW f, f.kind = "event", f.n \in DOMAIN l, f.n <= t.client.cursor
  PROVE  IsDelivered(l, t, {f}, t)
<1>1. f.n \in Settled(l, t) /\ (Durable(l[f.n].type) => f.n \in t.got \cup t.cut) BY DEF Handles, PassedOK
<1>2. \A m : (Sent({f}, m) <=> m = f.n) /\ ~Marked({f}, m) BY DEF Sent, Marked
<1>3. Absorbs(l, Settled(l, t), t.got \cup t.cut, {f}, Settled(l, t), t.got \cup t.cut, {})
  BY <1>1, <1>2 DEF Absorbs, Knows, Has
<1> QED BY <1>3 DEF IsDelivered, SameBut

\* Any other moves the cursor past itself, all below it being heard of.
LEMMA EventDelivered ==
  ASSUME NEW l, LogOK(l), NEW t, Handles(l, t), NEW f \in EventFrames, f.n \in DOMAIN l,
         Heard(l, Settled(l, t), t.got \cup t.cut, {}, f.n)
  PROVE  IsDelivered(l, t, {f}, [t EXCEPT !.client.cursor = f.n, !.got = @ \cup {f.n}])
<1> DEFINE k == t.client
           j == [k EXCEPT !.cursor = f.n]
           u == [t EXCEPT !.client.cursor = f.n, !.got = @ \cup {f.n}]
<1>1. k \in Clients /\ t = [client |-> k, got |-> t.got, cut |-> t.cut] /\ k.cursor <= Len(l) /\ PassedOK(l, t) BY DEF Handles
<1>2. f.n \in Nat /\ f.kind = "event" BY DEF EventFrames
<1>3. Len(l) \in Nat /\ DOMAIN l = 1..Len(l) BY DEF LogOK, Logs
<1> HIDE DEF k
<1>4. u = [client |-> j, got |-> t.got \cup {f.n}, cut |-> t.cut]
  <2> DEFINE g == t.got
             z == t.cut
             x == [client |-> k, got |-> g, cut |-> z]
  <2>1. t = x BY <1>1
  <2>2. [x EXCEPT !.client.cursor = f.n, !.got = @ \cup {f.n}] = [client |-> j, got |-> g \cup {f.n}, cut |-> z]
    <3> HIDE DEF g, z, j
    <3>1. j = [k EXCEPT !.cursor = f.n] BY DEF j
    <3> DEFINE y == [x EXCEPT !.client.cursor = f.n]
    <3>2. y = [client |-> j, got |-> g, cut |-> z] BY <3>1
    <3>3. [x EXCEPT !.client.cursor = f.n, !.got = @ \cup {f.n}] = [y EXCEPT !.got = x.got \cup {f.n}] OBVIOUS
    <3>4. x.got = g OBVIOUS
    <3> HIDE DEF x, y
    <3>5. [y EXCEPT !.got = x.got \cup {f.n}] = [client |-> j, got |-> g \cup {f.n}, cut |-> z] BY <3>2, <3>4
    <3> QED BY <3>3, <3>5
  <2> HIDE DEF x, j
  <2> QED BY <2>1, <2>2
<1>5. /\ j \in Clients /\ j.cursor = f.n /\ j.floor = k.floor
      /\ j.state = k.state /\ j.server = k.server /\ j.early = k.early /\ j.pending = k.pending
      /\ j.reply = k.reply /\ j.timer = k.timer /\ j.requests = k.requests
  BY <1>1, <1>2 DEF Clients
<1> HIDE DEF u, j
<1>6. u.client = j /\ u.got = t.got \cup {f.n} /\ u.cut = t.cut BY <1>4
<1>7. Settled(l, t) \subseteq Settled(l, u) /\ f.n \in Settled(l, u) BY <1>5, <1>6 DEF Settled, k
<1>8. \A m : (Sent({f}, m) <=> m = f.n) /\ ~Marked({f}, m) BY <1>2 DEF Sent, Marked
<1>9. Absorbs(l, Settled(l, t), t.got \cup t.cut, {f}, Settled(l, u), u.got \cup u.cut, {})
  BY <1>6, <1>7, <1>8 DEF Absorbs, Knows, Has
<1>10. PassedOK(l, u)
  <2> SUFFICES ASSUME NEW n \in DOMAIN l, n <= f.n
               PROVE  n \in Settled(l, u) /\ (Durable(l[n].type) => n \in u.got \cup u.cut)
    BY <1>5, <1>6 DEF PassedOK
  <2>1. CASE n = f.n BY <1>6, <1>7, <2>1
  <2>2. CASE n # f.n
    <3>1. n \in 1..f.n - 1 BY <1>2, <1>3, <2>2
    <3>2. Knows(Settled(l, t), {}, n) /\ (Durable(l[n].type) => Has(t.got \cup t.cut, {}, n)) BY <3>1 DEF Heard
    <3>3. n \in Settled(l, t) /\ (Durable(l[n].type) => n \in t.got \cup t.cut)
      BY <3>2, NothingSaid DEF Knows, Has
    <3> QED BY <1>6, <1>7, <3>3
  <2> QED BY <2>1, <2>2
<1>11. f.n <= Len(l) /\ (k.floor # None => k.floor <= Len(l)) BY <1>2, <1>3 DEF Handles, k
<1>12. Handles(l, u) BY <1>4, <1>5, <1>6, <1>10, <1>11 DEF Handles
<1> QED BY <1>5, <1>6, <1>9, <1>12 DEF IsDelivered, SameBut, u, k

LEMMA DeliverOK ==
  ASSUME LogOK(log), NEW t, Handles(log, t), NEW f \in Tellings, InLog(log, f),
         f.kind = "event" => Heard(log, Settled(log, t), t.got \cup t.cut, {}, f.n)
  PROVE  IsDelivered(log, t, {f}, Deliver(t, f))
<1>1. CASE f.kind = "gap"
  <2>1. f \in GapFrames /\ f.from < Len(log) BY <1>1 DEF Tellings, EventFrames, InLog
  <2>2. Deliver(t, f) = [t EXCEPT !.client.floor = IF @ = None THEN f.from ELSE MinOf(@, f.from)] BY <1>1 DEF Deliver
  <2> QED BY <2>1, <2>2, GapDelivered
<1>2. CASE f.kind = "event"
  <2>1. f \in EventFrames /\ f.n \in DOMAIN log BY <1>2 DEF Tellings, GapFrames, InLog
  <2>2. Sequence(f.n) = f.n - 1 /\ f.n \in Nat /\ t.client.cursor \in Nat
    <3>1. log[f.n].i = f.n - 1 BY <2>1 DEF LogOK
    <3>2. f.n \in Nat BY <2>1 DEF EventFrames
    <3>3. t.client.cursor \in Nat BY DEF Handles, Clients
    <3> QED BY <3>1, <3>2, <3>3 DEF Sequence
  <2>3. CASE Sequence(f.n) < t.client.cursor
    <3>1. Deliver(t, f) = t BY <1>2, <2>3 DEF Deliver
    <3>2. f.n <= t.client.cursor BY <2>2, <2>3
    <3> QED BY <1>2, <2>1, <3>1, <3>2, SkipDelivered
  <2>4. CASE ~(Sequence(f.n) < t.client.cursor)
    <3>1. Sequence(f.n) + 1 = f.n BY <2>2
    <3>2. Deliver(t, f) = [t EXCEPT !.client.cursor = f.n, !.got = @ \cup {f.n}] BY <1>2, <2>4, <3>1 DEF Deliver
    <3>3. IsDelivered(log, t, {f}, [t EXCEPT !.client.cursor = f.n, !.got = @ \cup {f.n}]) BY <1>2, <2>1, EventDelivered
    <3> QED BY <3>2, <3>3
  <2> QED BY <2>3, <2>4
<1> QED BY <1>1, <1>2, FrameKinds

-----------------------------------------------------------------------------
(* Receive *)

LEMMA WeightsTail ==
  ASSUME NEW s \in Nat, NEW u \in Nat, NEW h \in Nat, NEW n \in Nat, NEW w \in Nat, NEW b, Weighs(s, h, n, w, b), u <= s
  PROVE  Weighs(u, h, n, w, b)
BY BudgetsAssumption DEF Weighs

\* The stream's first frame is read.
IsRead(c, d) ==
  /\ d \in Channels /\ d.stream = Tail(c.stream) /\ d.high = c.high /\ d.normal = c.normal /\ d.low = c.low
  /\ d.blocked = c.blocked /\ d.failed = c.failed /\ d.subs = c.subs

LEMMA ReadOK ==
  ASSUME NEW l, NEW c, ChanOK(l, c), c.stream # <<>>
  PROVE  LET d == [c EXCEPT !.stream = Tail(@)]
         IN  IsRead(c, d) /\ ChanOK(l, d) /\ \A id : OneSub(id, c) => OneSub(id, d)
<1> DEFINE s == c.stream
           u == Tail(s)
           d == [c EXCEPT !.stream = u]
<1>1. c \in Channels /\ s \in Seq(AnyFrames) BY ChanFacts
<1>2. u \in Seq(AnyFrames) /\ Len(u) = Len(s) - 1 /\ Len(s) \in Nat \ {0} /\ \A k \in 1..Len(u) : u[k] = s[k + 1]
  <2> HIDE DEF s
  <2> QED BY <1>1, TailFacts DEF s
<1> HIDE DEF u
<1>3. IsRead(c, d) BY <1>1, <1>2 DEF Channels, IsRead, u
<1> HIDE DEF d
<1>4. \A k \in 1..Len(u) : k + 1 \in 1..Len(s) BY <1>2
<1>5. OfLog(l, u) BY <1>2, <1>4 DEF OfLog, ChanOK, ChanType
<1>6. ASSUME NEW id, ToldOf(id, s) PROVE ToldOf(id, u) BY <1>2, <1>4, <1>6 DEF ToldOf
<1>7. d.stream = u BY <1>3 DEF IsRead, u
<1>8. ChanType(l, d) BY <1>3, <1>5, <1>7 DEF ChanType, IsRead, ChanOK
<1>9. Budgets(d)
  <2>1. Weighs(Len(c.stream), Len(c.high), Len(c.normal), Len(c.low), c.blocked)
        /\ Len(c.stream) \in Nat /\ Len(c.high) \in Nat /\ Len(c.normal) \in Nat /\ Len(c.low) \in Nat
    BY ChanFacts
  <2>2. Len(u) \in Nat /\ Len(u) <= Len(c.stream) BY <1>2
  <2>3. Weighs(Len(u), Len(c.high), Len(c.normal), Len(c.low), c.blocked) BY <2>1, <2>2, WeightsTail, Zenon
  <2>4. Weighs(Len(d.stream), Len(d.high), Len(d.normal), Len(d.low), d.blocked) BY <1>3, <1>7, <2>3 DEF IsRead
  <2>5. d.failed => d.high = <<>> /\ d.normal = <<>> /\ d.low = <<>> /\ d.subs = <<>>
    BY <1>3 DEF IsRead, ChanOK, Budgets
  <2> QED BY <2>4, <2>5, BudgetsAre, Zenon
<1>10. \A id : OneSub(id, c) => OneSub(id, d) BY <1>3, <1>6, <1>7 DEF OneSub, IsRead
<1> QED BY <1>3, <1>8, <1>9, <1>10 DEF ChanOK, d, u

\* What is in order behind the frames K is in order behind those of e2, where
\* they say as much.
LEMMA FlowRebases ==
  ASSUME NEW l \in Logs, NEW c, Framed(l, c), NEW D, NEW C, NEW K,
         InOrder(l, D, C, K, c.stream), InOrder(l, D, C, K \cup Range(c.stream), c.normal),
         InOrder(l, D, C, K \cup (Range(c.stream) \cup Range(c.normal)), c.low),
         c.subs # <<>> =>
           Heard(l, D, C, K \cup (Range(c.stream) \cup Range(c.normal) \cup Range(c.low)), Len(l) + 1),
         NEW D2, NEW C2, NEW e2, Absorbs(l, D, C, K, D2, C2, Range(e2)), InOrder(l, D2, C2, {}, e2)
  PROVE  Flow(l, D2, C2, e2, c)
<1> DEFINE X1 == Range(c.stream)
           X2 == Range(c.stream) \cup Range(c.normal)
           X3 == Range(c.stream) \cup Range(c.normal) \cup Range(c.low)
<1>1. InOrder(l, D2, C2, Range(e2), c.stream) BY InOrderAbsorbs DEF Framed
<1>2. ASSUME NEW X PROVE Absorbs(l, D, C, K \cup X, D2, C2, Range(e2) \cup X)
  <2>1. Wider(X, X) BY SubsetIsWider
  <2> QED BY <2>1, AbsorbsUnion
<1>3. InOrder(l, D2, C2, Range(e2) \cup X1, c.normal)
  <2>1. Within(l, c.normal) BY DEF Framed
  <2>2. InOrder(l, D, C, K \cup X1, c.normal) OBVIOUS
  <2> HIDE DEF X1
  <2> QED BY <1>2, <2>1, <2>2, InOrderAbsorbs
<1>4. InOrder(l, D2, C2, Range(e2) \cup X2, c.low)
  <2>1. Within(l, c.low) BY DEF Framed
  <2>2. InOrder(l, D, C, K \cup X2, c.low) OBVIOUS
  <2> HIDE DEF X2
  <2> QED BY <1>2, <2>1, <2>2, InOrderAbsorbs
<1>5. ASSUME c.subs # <<>> PROVE Heard(l, D2, C2, Range(e2) \cup X3, Len(l) + 1)
  <2>1. 1..(Len(l) + 1 - 1) \subseteq DOMAIN l
    <3>1. Len(l) \in Nat /\ DOMAIN l = 1..Len(l) BY DEF Logs
    <3> QED BY <3>1
  <2> DEFINE n == Len(l) + 1
  <2>2. 1..(n - 1) \subseteq DOMAIN l /\ Heard(l, D, C, K \cup X3, n) BY <1>5, <2>1
  <2>3. Absorbs(l, D, C, K \cup X3, D2, C2, Range(e2) \cup X3) BY <1>2
  <2> HIDE DEF X3, n
  <2>4. Heard(l, D2, C2, Range(e2) \cup X3, n) BY <2>2, <2>3, HeardAbsorbs
  <2> QED BY <2>4 DEF n
<1>6. Ahead(e2, c) = Range(e2) \cup X1 /\ AheadOfLow(e2, c) = Range(e2) \cup X2 /\ OnTheWay(e2, c) = Range(e2) \cup X3
  BY DEF Ahead, AheadOfLow, OnTheWay
<1> HIDE DEF X1, X2, X3
<1>7. FlowTo(l, Len(l), D2, C2, e2, c) BY <1>1, <1>3, <1>4, <1>5, <1>6 DEF FlowTo
<1> QED BY <1>7 DEF Flow

\* So it is once the early frames are delivered.
LEMMA FlowAbsorbs ==
  ASSUME NEW l \in Logs, NEW c, Framed(l, c), NEW D, NEW C, NEW early, Flow(l, D, C, early, c),
         NEW D2, NEW C2, Absorbs(l, D, C, Range(early), D2, C2, {})
  PROVE  Flow(l, D2, C2, <<>>, c)
<1> DEFINE K == Range(early)
<1>1. /\ InOrder(l, D, C, K, c.stream) /\ InOrder(l, D, C, K \cup Range(c.stream), c.normal)
      /\ InOrder(l, D, C, K \cup Range(c.stream) \cup Range(c.normal), c.low)
      /\ c.subs # <<>> => Heard(l, D, C, K \cup Range(c.stream) \cup Range(c.normal) \cup Range(c.low), Len(l) + 1)
  BY DEF Flow, FlowTo, Ahead, AheadOfLow, OnTheWay
<1>2. K \cup Range(c.stream) \cup Range(c.normal) = K \cup (Range(c.stream) \cup Range(c.normal)) OBVIOUS
<1>3. K \cup Range(c.stream) \cup Range(c.normal) \cup Range(c.low)
        = K \cup (Range(c.stream) \cup Range(c.normal) \cup Range(c.low)) OBVIOUS
<1>4. Absorbs(l, D, C, K, D2, C2, Range(<<>>)) /\ InOrder(l, D2, C2, {}, <<>>) BY EmptyFrames, InOrderEmpty
<1> HIDE DEF K
<1> QED BY <1>1, <1>2, <1>3, <1>4, FlowRebases

\* And once the stream's first frame is read, the client having heard what it
\* said.
LEMMA FlowReads ==
  ASSUME NEW l \in Logs, NEW c, Framed(l, c), c.stream # <<>>, NEW d, IsRead(c, d),
         NEW D, NEW C, NEW early, Flow(l, D, C, early, c),
         NEW D2, NEW C2, NEW e2, Absorbs(l, D, C, Range(early) \cup {Head(c.stream)}, D2, C2, Range(e2)),
         InOrder(l, D2, C2, {}, e2)
  PROVE  Flow(l, D2, C2, e2, d)
<1> DEFINE s == c.stream
           f == Head(s)
           u == Tail(s)
           K == Range(early) \cup {f}
<1>1. s \in Seq(AnyFrames) /\ Within(l, s) BY DEF Framed
<1>2. u \in Seq(AnyFrames) /\ Len(u) = Len(s) - 1 /\ Len(s) \in Nat \ {0} /\ (\A k \in 1..Len(u) : u[k] = s[k + 1])
      /\ Range(s) = {f} \cup Range(u)
  <2> HIDE DEF s
  <2> QED BY <1>1, TailFacts DEF s
<1>3. /\ InOrder(l, D, C, Range(early), s)
      /\ InOrder(l, D, C, Range(early) \cup Range(s), c.normal)
      /\ InOrder(l, D, C, Range(early) \cup Range(s) \cup Range(c.normal), c.low)
      /\ c.subs # <<>> => Heard(l, D, C, Range(early) \cup Range(s) \cup Range(c.normal) \cup Range(c.low), Len(l) + 1)
  BY DEF Flow, FlowTo, Ahead, AheadOfLow, OnTheWay
<1>4. InOrder(l, D, C, K, u)
  <2> HIDE DEF s
  <2> QED BY <1>1, <1>3, InOrderTail DEF s
<1> HIDE DEF s, f, u
<1>5. Absorbs(l, D, C, K, D2, C2, Range(e2)) BY DEF s, f
<1>6. Within(l, u)
  <2>1. \A k \in 1..Len(u) : k + 1 \in 1..Len(s) BY <1>2
  <2> QED BY <1>1, <1>2, <2>1 DEF Within
<1>7. d.stream = u /\ d.normal = c.normal /\ d.low = c.low /\ d.subs = c.subs BY DEF IsRead, u, s
<1>8. Framed(l, d) BY <1>2, <1>6, <1>7 DEF Framed
<1>9. /\ Range(early) \cup Range(s) = K \cup Range(d.stream)
      /\ Range(early) \cup Range(s) \cup Range(c.normal) = K \cup (Range(d.stream) \cup Range(d.normal))
      /\ Range(early) \cup Range(s) \cup Range(c.normal) \cup Range(c.low)
           = K \cup (Range(d.stream) \cup Range(d.normal) \cup Range(d.low))
  BY <1>2, <1>7
<1> HIDE DEF K
<1>10. /\ InOrder(l, D, C, K, d.stream) /\ InOrder(l, D, C, K \cup Range(d.stream), d.normal)
       /\ InOrder(l, D, C, K \cup (Range(d.stream) \cup Range(d.normal)), d.low)
       /\ d.subs # <<>> =>
            Heard(l, D, C, K \cup (Range(d.stream) \cup Range(d.normal) \cup Range(d.low)), Len(l) + 1)
  BY <1>3, <1>4, <1>7, <1>9
<1> QED BY <1>5, <1>8, <1>10, FlowRebases

LEMMA ReplySaysNothing ==
  ASSUME NEW l \in Logs, NEW D, NEW C, NEW K, NEW f, f.kind = "reply"
  PROVE  Absorbs(l, D, C, K \cup {f}, D, C, K)
<1>1. \A m : ~Sent({f}, m) /\ ~Marked({f}, m) BY DEF Sent, Marked
<1>2. Wider(K \cup {f}, K) BY <1>1, SentUnion DEF Wider
<1> QED BY <1>2, WiderAbsorbs

LEMMA AbsorbsSelf ==
  ASSUME NEW l, NEW D, NEW C, NEW K
  PROVE  Absorbs(l, D, C, K, D, C, K)
BY DEF Absorbs

\* A reply is read.
LEMMA ReadsReply ==
  ASSUME NEW l \in Logs, NEW t, NEW u, NEW c, NEW d, NEW as, ChanOK(l, c), c.stream # <<>>, IsRead(c, d),
         \A id : OneSub(id, c) => OneSub(id, d), Connected(l, t, c, as), OfLog(l, t.client.early),
         Head(c.stream) \in Replies,
         u.got = t.got, u.cut = t.cut, u.client.floor = t.client.floor, u.client.server = t.client.server,
         u.client.early = t.client.early, u.client.cursor = t.client.cursor,
         u.client.reply \in {t.client.reply, Head(c.stream)}
  PROVE  Connected(l, u, d, as)
<1> DEFINE f == Head(c.stream)
           early == t.client.early
<1>1. PICK id \in Nat : OneSub(id, c) /\ (Asked(id, t, c, as) \/ Waits(l, id, t, c, as) \/ Lives(l, id, t, c, as))
  BY DEF Connected
<1>2. c.stream \in Seq(AnyFrames) /\ Framed(l, c) /\ f.kind = "reply" BY ChanFacts, ChannelIsFramed, FrameKinds DEF ChanOK
<1>3. Range(c.stream) = {f} \cup Range(d.stream) BY <1>2, TailFacts DEF IsRead
<1>4. ASSUME NEW D, NEW C, NEW e, Flow(l, D, C, e, c) PROVE Flow(l, D, C, e, d)
  <2>1. Absorbs(l, D, C, Range(e) \cup {f}, D, C, Range(e)) BY <1>2, ReplySaysNothing
  <2>2. InOrder(l, D, C, {}, e) BY <1>4 DEF Flow, FlowTo
  <2> QED BY <1>2, <1>4, <2>1, <2>2, FlowReads
<1>5. CASE Asked(id, t, c, as) BY <1>5 DEF Asked, NoFrame
<1>6. CASE Waits(l, id, t, c, as)
  <2>1. ASSUME NEW r \in Replies, r \in Range(d.stream) \cup Range(d.high) \cup ({u.client.reply} \ {None})
        PROVE  ReplyFits(l, id, u, d, r)
    <3>1. r \in Range(c.stream) \cup Range(c.high) \cup ({t.client.reply} \ {None}) BY <1>3, <2>1 DEF IsRead
    <3>2. ReplyFits(l, id, t, c, r) BY <1>6, <3>1 DEF Waits
    <3> QED BY <1>4, <3>2 DEF ReplyFits
  <2>2. Waits(l, id, u, d, as) BY <1>6, <2>1 DEF Waits, Rests
  <2> QED BY <1>1, <2>2 DEF Connected
<1>7. CASE Lives(l, id, t, c, as)
  <2>1. Settled(l, u) = Settled(l, t) BY SettledSame
  <2>2. Lives(l, id, u, d, as) BY <1>4, <1>7, <2>1 DEF Lives
  <2> QED BY <1>1, <2>2 DEF Connected
<1> QED BY <1>1, <1>5, <1>6, <1>7

\* A frame of a subscription no reply has named yet is kept.
LEMMA ReadsEarly ==
  ASSUME NEW l \in Logs, NEW t, NEW u, NEW c, NEW d, NEW as, ChanOK(l, c), c.stream # <<>>, IsRead(c, d),
         \A id : OneSub(id, c) => OneSub(id, d), Connected(l, t, c, as), ClientType(l, t),
         Head(c.stream) \in Tellings, Head(c.stream).sub # t.client.server,
         u.got = t.got, u.cut = t.cut, u.client.floor = t.client.floor, u.client.server = t.client.server,
         u.client.early = Append(t.client.early, Head(c.stream)), u.client.cursor = t.client.cursor,
         u.client.reply = t.client.reply
  PROVE  Connected(l, u, d, as)
<1> DEFINE f == Head(c.stream)
           early == t.client.early
<1>1. PICK id \in Nat : OneSub(id, c) /\ (Asked(id, t, c, as) \/ Waits(l, id, t, c, as) \/ Lives(l, id, t, c, as))
  BY DEF Connected
<1>2. c.stream \in Seq(AnyFrames) /\ Framed(l, c) /\ f.kind # "reply" /\ early \in Seq(Tellings)
  BY ChanFacts, ChannelIsFramed, FrameKinds DEF ChanOK, ClientType
<1>3. Range(c.stream) = {f} \cup Range(d.stream) /\ f = c.stream[1] /\ 1 \in 1..Len(c.stream)
  <2>1. Len(c.stream) \in Nat \ {0} /\ f = c.stream[1] /\ Range(c.stream) = {f} \cup Range(Tail(c.stream)) BY <1>2, TailFacts
  <2> QED BY <2>1 DEF IsRead
<1>4. f.sub = id BY <1>1, <1>2, <1>3 DEF OneSub, ToldOf
<1>5. CASE Asked(id, t, c, as) BY <1>5 DEF Asked, NoFrame
<1>6. CASE Lives(l, id, t, c, as) BY <1>4, <1>6 DEF Lives
<1>7. CASE Waits(l, id, t, c, as)
  <2> DEFINE e2 == Append(early, f)
  <2>1. Range(e2) = Range(early) \cup {f} BY <1>2, AppendFacts
  <2>2. ASSUME NEW D, NEW C, Flow(l, D, C, early, c) PROVE Flow(l, D, C, e2, d)
    <3>1. InOrder(l, D, C, {}, early) /\ InOrder(l, D, C, Range(early), c.stream) BY <2>2 DEF Flow, FlowTo
    <3>2. f.kind = "event" => Heard(l, D, C, Range(early), f.n) BY <1>2, <3>1, InOrderTail
    <3>3. {} \cup Range(early) = Range(early) OBVIOUS
    <3>4. InOrder(l, D, C, {}, e2) BY <1>2, <3>1, <3>2, <3>3, InOrderAppend
    <3>5. Absorbs(l, D, C, Range(early) \cup {f}, D, C, Range(e2)) BY <2>1, AbsorbsSelf
    <3> HIDE DEF e2
    <3> QED BY <1>2, <2>2, <3>4, <3>5, FlowReads
  <2>3. ASSUME NEW r \in Replies, r \in Range(d.stream) \cup Range(d.high) \cup ({u.client.reply} \ {None})
        PROVE  ReplyFits(l, id, u, d, r)
    <3>1. r \in Range(c.stream) \cup Range(c.high) \cup ({t.client.reply} \ {None}) BY <1>3, <2>3 DEF IsRead
    <3>2. ReplyFits(l, id, t, c, r) BY <1>7, <3>1 DEF Waits
    <3> HIDE DEF f
    <3> QED BY <2>2, <3>2 DEF ReplyFits, f
  <2>4. ToldOf(id, e2) BY <1>2, <1>4, <1>7, ToldOfAppend DEF Waits
  <2>5. Waits(l, id, u, d, as) BY <1>7, <2>3, <2>4 DEF Waits, Rests
  <2> QED BY <1>1, <2>5 DEF Connected
<1> QED BY <1>1, <1>5, <1>6, <1>7

\* A frame of the subscription is delivered.
LEMMA ReadsDelivered ==
  ASSUME NEW l \in Logs, NEW t, NEW u, NEW c, NEW d, NEW as, ChanOK(l, c), c.stream # <<>>, IsRead(c, d),
         \A id : OneSub(id, c) => OneSub(id, d), Connected(l, t, c, as), ClientType(l, t),
         t.client.server # None, IsDelivered(l, t, {Head(c.stream)}, u)
  PROVE  Connected(l, u, d, as)
<1> DEFINE f == Head(c.stream)
<1>1. PICK id \in Nat : OneSub(id, c) /\ Lives(l, id, t, c, as) BY DEF Connected, Asked, Waits
<1>2. Framed(l, c) BY ChannelIsFramed DEF ChanOK
<1>3. Flow(l, Settled(l, t), t.got \cup t.cut, <<>>, c) BY <1>1 DEF Lives
<1>4. Range(<<>>) = {} BY EmptyFrames
<1>5. Absorbs(l, Settled(l, t), t.got \cup t.cut, Range(<<>>) \cup {f}, Settled(l, u), u.got \cup u.cut, Range(<<>>))
  <2>1. Range(<<>>) \cup {f} = {f} BY <1>4
  <2> HIDE DEF f
  <2> QED BY <1>4, <2>1 DEF IsDelivered, f
<1>6. InOrder(l, Settled(l, u), u.got \cup u.cut, {}, <<>>) BY InOrderEmpty
<1>7. Flow(l, Settled(l, u), u.got \cup u.cut, <<>>, d) BY <1>2, <1>3, <1>5, <1>6, FlowReads
<1>8. Lives(l, id, u, d, as) BY <1>1, <1>7 DEF Lives, IsDelivered, SameBut
<1> QED BY <1>1, <1>8 DEF Connected

\* The client's type, of a client in Clients.
LEMMA ClientTypeIs ==
  ASSUME NEW l, NEW t
  PROVE  ClientType(l, t) <=>
           /\ t.client \in Clients /\ t.client.cursor <= Len(l)
           /\ t.client.floor # None => t.client.floor <= Len(l)
           /\ t.client.early = <<>> \/ t.client.server = None
           /\ OfLog(l, t.client.early)
           /\ t.client.server # None => t.client.state = "live"
           /\ t.client.state = "ended" =>
                t.client.pending = None /\ t.client.reply = None /\ t.client.timer = FALSE
BY DEF ClientType, Clients

LEMMA ToldHandles ==
  ASSUME NEW l, ClientType(l, Told), PassedOK(l, Told)
  PROVE  Handles(l, Told)
<1>1. Told = [client |-> Told.client, got |-> Told.got, cut |-> Told.cut] BY DEF Told
<1>2. Told.client \in Clients /\ Told.client.cursor <= Len(l) /\ (Told.client.floor # None => Told.client.floor <= Len(l))
  BY ClientTypeIs
<1> QED BY <1>1, <1>2 DEF Handles

LEMMA TakesIs ==
  ASSUME NEW u, NEW l, Handles(l, u), Takes(u)
  PROVE  Told' = u
<1>1. u = [client |-> u.client, got |-> u.got, cut |-> u.cut] BY DEF Handles
<1>2. Told' = [client |-> client', got |-> got', cut |-> cut'] BY DEF Told
<1>3. client' = u.client /\ got' = u.got /\ cut' = u.cut BY DEF Takes
<1> QED BY <1>1, <1>2, <1>3

LEMMA ReceiveKeeps ==
  ASSUME IInv, Receive
  PROVE  IInv'
<1> DEFINE t == Told
           u == Told'
           c == chan
           d == [chan EXCEPT !.stream = Tail(@)]
           f == Head(chan.stream)
<1>1. log' = log /\ session' = session /\ chan' = d /\ asks' = asks /\ link' = link /\ link # "down" /\ c.stream # <<>>
  BY DEF Receive
<1>2. \/ /\ f.kind = "reply"
         /\ client' = IF f.id = client.pending THEN [client EXCEPT !.pending = None, !.reply = f] ELSE client
         /\ got' = got /\ cut' = cut
      \/ /\ f.kind # "reply" /\ f.sub = client.server
         /\ Takes(Deliver(t, f))
      \/ /\ f.kind # "reply" /\ f.sub # client.server
         /\ client' = [client EXCEPT !.early = Append(@, f)]
         /\ got' = got /\ cut' = cut
  BY DEF Receive, history
<1>3. t.client = client /\ t.got = got /\ t.cut = cut /\ u.client = client' /\ u.got = got' /\ u.cut = cut' BY ToldIs
<1>4. Plain(log, session, c, t, asks, link) /\ Linked(log, c, t, asks, link) BY DEF IInv
<1>5. LogOK(log) /\ log \in Logs /\ ChanOK(log, c) /\ ClientType(log, t) BY <1>4 DEF Plain, LogOK
<1>6. IsRead(c, d) /\ ChanOK(log, d) /\ \A id : OneSub(id, c) => OneSub(id, d) BY <1>1, <1>5, ReadOK
<1>7. c.stream \in Seq(AnyFrames) /\ f \in AnyFrames /\ f = c.stream[1] /\ 1 \in 1..Len(c.stream) /\ InLog(log, f)
  <2>1. c.stream \in Seq(AnyFrames) /\ OfLog(log, c.stream) BY <1>5, ChanFacts DEF ChanOK, ChanType
  <2>2. Len(c.stream) \in Nat \ {0} /\ f \in AnyFrames /\ f = c.stream[1] BY <1>1, <2>1, TailFacts
  <2>3. 1 \in 1..Len(c.stream) BY <2>2
  <2>4. InLog(log, f) BY <2>1, <2>2, <2>3 DEF OfLog, InLog
  <2> QED BY <2>1, <2>2, <2>3, <2>4
<1>8. /\ client \in Clients /\ client.cursor <= Len(log) /\ (client.floor # None => client.floor <= Len(log))
      /\ (client.early = <<>> \/ client.server = None) /\ OfLog(log, client.early)
      /\ (client.server # None => client.state = "live")
      /\ (client.state = "ended" => client.pending = None /\ client.reply = None /\ client.timer = FALSE)
  BY <1>3, <1>5, ClientTypeIs, Zenon
<1>9. None \notin Nat BY BudgetsAssumption
<1>10. client.state # "ended" => PassedOK(log, t) /\ Connected(log, t, c, asks) BY <1>1, <1>3, <1>4 DEF Linked
<1> HIDE DEF t, u, c, d, f
<1>11. SUFFICES Plain(log, session, d, u, asks, link) /\ Linked(log, d, u, asks, link) BY <1>1 DEF IInv, u, d
<1>12. SUFFICES ClientType(log, u) /\ Linked(log, d, u, asks, link) BY <1>1, <1>4, <1>6 DEF Plain, IsRead
<1>13. CASE /\ f.kind = "reply"
            /\ client' = IF f.id = client.pending THEN [client EXCEPT !.pending = None, !.reply = f] ELSE client
            /\ got' = got /\ cut' = cut
  <2>1. f \in Replies BY <1>7, <1>13, FrameKinds
  <2>2. /\ client' \in Clients /\ client'.state = client.state /\ client'.server = client.server
        /\ client'.cursor = client.cursor /\ client'.floor = client.floor /\ client'.early = client.early
        /\ client'.timer = client.timer /\ client'.reply \in {client.reply, f}
    <3>1. CASE f.id = client.pending
      <4>1. client' = [client EXCEPT !.pending = None, !.reply = f] BY <1>13, <3>1
      <4> QED BY <1>8, <2>1, <4>1 DEF Clients
    <3>2. CASE f.id # client.pending
      <4>1. client' = client BY <1>13, <3>2
      <4> QED BY <1>8, <4>1
    <3> QED BY <3>1, <3>2
  <2>3. client.state = "ended" => client'.pending = None /\ client'.reply = None
    <3>1. f.id \in Nat BY <2>1 DEF Replies
    <3>2. client.state = "ended" => client' = client BY <1>8, <1>9, <1>13, <3>1
    <3> QED BY <1>8, <3>2
  <2>4. ClientType(log, u) BY <1>3, <1>8, <2>2, <2>3, ClientTypeIs
  <2>5. u.got = t.got /\ u.cut = t.cut /\ u.client.floor = t.client.floor /\ u.client.server = t.client.server
        /\ u.client.early = t.client.early /\ u.client.cursor = t.client.cursor
        /\ u.client.reply \in {t.client.reply, Head(c.stream)} /\ u.client.state = t.client.state
    BY <1>3, <1>13, <2>2 DEF f, c
  <2>6. Connected(log, t, c, asks) => Connected(log, u, d, asks)
    <3>1. OfLog(log, t.client.early) BY <1>3, <1>8
    <3>2. Head(c.stream) \in Replies BY <2>1 DEF f, c
    <3> QED BY <1>1, <1>5, <1>6, <2>5, <3>1, <3>2, ReadsReply
  <2>7. PassedOK(log, t) => PassedOK(log, u)
    <3>1. Settled(log, u) = Settled(log, t) BY <2>5, SettledSame
    <3> QED BY <2>5, <3>1 DEF PassedOK
  <2> QED BY <1>3, <1>10, <2>4, <2>5, <2>6, <2>7 DEF Linked
<1>14. CASE f.kind # "reply" /\ f.sub = client.server /\ Takes(Deliver(t, f))
  <2>1. f \in Tellings /\ f.sub \in Nat BY <1>7, <1>14, FrameKinds
  <2>2. client.server # None /\ client.state = "live" BY <1>8, <1>9, <1>14, <2>1
  <2>3. PassedOK(log, t) /\ Connected(log, t, c, asks) BY <1>10, <2>2
  <2>4. Handles(log, t) BY <1>5, <2>3, ToldHandles DEF t
  <2>5. f.kind = "event" => Heard(log, Settled(log, t), t.got \cup t.cut, {}, f.n)
    <3>1. PICK id \in Nat : Lives(log, id, t, c, asks) BY <1>3, <2>2, <2>3 DEF Connected, Asked, Waits
    <3>2. InOrder(log, Settled(log, t), t.got \cup t.cut, Range(<<>>), c.stream) BY <3>1 DEF Lives, Flow, FlowTo
    <3>3. InOrder(log, Settled(log, t), t.got \cup t.cut, {}, c.stream) BY <3>2, EmptyFrames
    <3>4. Head(c.stream).kind = "event" => Heard(log, Settled(log, t), t.got \cup t.cut, {}, Head(c.stream).n)
      BY <1>1, <1>7, <3>3, InOrderTail
    <3> QED BY <3>4 DEF f, c
  <2>6. IsDelivered(log, t, {f}, Deliver(t, f)) BY <1>5, <1>7, <2>1, <2>4, <2>5, DeliverOK
  <2>7. u = Deliver(t, f)
    <3>1. Handles(log, Deliver(t, f)) BY <2>6 DEF IsDelivered
    <3> QED BY <1>14, <3>1, TakesIs DEF u
  <2>8. IsDelivered(log, t, {f}, u) BY <2>6, <2>7
  <2>9. Handles(log, u) /\ SameBut(t.client, u.client) BY <2>8 DEF IsDelivered
  <2>10. ClientType(log, u) BY <1>3, <1>8, <2>9, ClientTypeIs DEF Handles, SameBut
  <2>11. Connected(log, u, d, asks)
    <3>1. IsDelivered(log, t, {Head(c.stream)}, u) BY <2>8 DEF f, c
    <3>2. t.client.server # None BY <1>3, <2>2
    <3> QED BY <1>1, <1>5, <1>6, <2>3, <3>1, <3>2, ReadsDelivered
  <2> QED BY <2>9, <2>10, <2>11 DEF Linked, Handles
<1>15. CASE /\ f.kind # "reply" /\ f.sub # client.server
            /\ client' = [client EXCEPT !.early = Append(@, f)]
            /\ got' = got /\ cut' = cut
  <2>1. f \in Tellings /\ f.sub \in Nat BY <1>7, <1>15, FrameKinds
  <2>2. client.early \in Seq(Tellings) BY <1>8 DEF Clients
  <2>3. Append(client.early, f) \in Seq(Tellings) BY <2>1, <2>2
  <2>4. /\ client' \in Clients /\ client'.state = client.state /\ client'.server = client.server
        /\ client'.cursor = client.cursor /\ client'.floor = client.floor /\ client'.early = Append(client.early, f)
        /\ client'.timer = client.timer /\ client'.reply = client.reply /\ client'.pending = client.pending
    BY <1>8, <1>15, <2>3 DEF Clients
  <2>5. OfLog(log, Append(client.early, f)) BY <1>7, <1>8, <2>1, <2>2, OfLogAppend
  <2>6. client.server = None
    <3> SUFFICES ASSUME client.server # None PROVE FALSE OBVIOUS
    <3>1. Connected(log, t, c, asks) BY <1>8, <1>10
    <3>2. PICK id \in Nat : OneSub(id, c) /\ Lives(log, id, t, c, asks) BY <1>3, <3>1 DEF Connected, Asked, Waits
    <3>3. f.sub = id BY <1>7, <1>15, <3>2 DEF OneSub, ToldOf
    <3> QED BY <1>3, <1>15, <3>2, <3>3 DEF Lives
  <2>7. ClientType(log, u) BY <1>3, <1>8, <2>4, <2>5, <2>6, ClientTypeIs
  <2>8. u.got = t.got /\ u.cut = t.cut /\ u.client.floor = t.client.floor /\ u.client.server = t.client.server
        /\ u.client.early = Append(t.client.early, Head(c.stream)) /\ u.client.cursor = t.client.cursor
        /\ u.client.reply = t.client.reply /\ u.client.state = t.client.state
    BY <1>3, <1>15, <2>4 DEF f, c
  <2>9. Connected(log, t, c, asks) => Connected(log, u, d, asks)
    <3>1. Head(c.stream) \in Tellings /\ Head(c.stream).sub # t.client.server BY <1>3, <1>15, <2>1 DEF f, c
    <3> QED BY <1>1, <1>5, <1>6, <2>8, <3>1, ReadsEarly
  <2>10. PassedOK(log, t) => PassedOK(log, u)
    <3>1. Settled(log, u) = Settled(log, t) BY <2>8, SettledSame
    <3> QED BY <2>8, <3>1 DEF PassedOK
  <2> QED BY <1>3, <1>10, <2>7, <2>8, <2>9, <2>10 DEF Linked
<1> QED BY <1>2, <1>13, <1>14, <1>15

-----------------------------------------------------------------------------
(* Resume *)

\* Event n is settled for good.
Covered(l, t, n) == n \in Settled(l, t) /\ (Durable(l[n].type) => n \in t.got \cup t.cut)

LEMMA CoveredOn ==
  ASSUME NEW l, NEW t, NEW u, NEW n, Covered(l, t, n), t.client.floor = None, t.got \subseteq u.got, t.cut \subseteq u.cut
  PROVE  Covered(l, u, n)
BY DEF Covered, Settled

LEMMA AbsorbsTrans ==
  ASSUME NEW l, NEW D, NEW C, NEW K, NEW D2, NEW C2, NEW K2, NEW D3, NEW C3, NEW K3,
         Absorbs(l, D, C, K, D2, C2, K2), Absorbs(l, D2, C2, K2, D3, C3, K3)
  PROVE  Absorbs(l, D, C, K, D3, C3, K3)
BY DEF Absorbs

\* An event is skipped or moves the cursor past itself.
EventTaken(t, n, u) ==
  \/ n <= t.client.cursor /\ u = t
  \/ u.client.cursor = n /\ u.client.floor = t.client.floor /\ u.got = t.got \cup {n} /\ u.cut = t.cut

LEMMA EventIsTaken ==
  ASSUME LogOK(log), NEW t, Handles(log, t), NEW id \in Nat, NEW n \in DOMAIN log
  PROVE  EventTaken(t, n, Deliver(t, Event(id, n)))
<1> DEFINE f == Event(id, n)
<1>1. n \in Nat /\ Sequence(n) = n - 1 BY DEF LogOK, Logs, Sequence
<1>2. f.kind = "event" /\ f.n = n /\ t.client \in Clients /\ t = [client |-> t.client, got |-> t.got, cut |-> t.cut]
      /\ t.client.cursor \in Nat
  BY DEF Event, Handles, Clients
<1> HIDE DEF f
<1>3. CASE Sequence(n) < t.client.cursor
  <2>1. Deliver(t, f) = t BY <1>2, <1>3 DEF Deliver
  <2>2. n <= t.client.cursor BY <1>1, <1>2, <1>3
  <2> QED BY <2>1, <2>2 DEF EventTaken, f
<1>4. CASE ~(Sequence(n) < t.client.cursor)
  <2> DEFINE k == t.client
             g == t.got
             z == t.cut
             x == [client |-> k, got |-> g, cut |-> z]
             j == [k EXCEPT !.cursor = n]
             y == [x EXCEPT !.client.cursor = n]
  <2>1. Sequence(n) + 1 = n BY <1>1
  <2>2. Deliver(t, f) = [t EXCEPT !.client.cursor = n, !.got = @ \cup {n}] BY <1>2, <1>4, <2>1 DEF Deliver
  <2>3. t = x BY <1>2
  <2>4. j.cursor = n /\ j.floor = k.floor BY <1>2 DEF Clients
  <2> HIDE DEF g, z, k
  <2>5. y = [client |-> j, got |-> g, cut |-> z] OBVIOUS
  <2>6. [x EXCEPT !.client.cursor = n, !.got = @ \cup {n}] = [y EXCEPT !.got = x.got \cup {n}] OBVIOUS
  <2>7. x.got = g OBVIOUS
  <2> HIDE DEF x, y, j
  <2>8. [y EXCEPT !.got = x.got \cup {n}] = [client |-> j, got |-> g \cup {n}, cut |-> z]
    <3>1. [y EXCEPT !.got = x.got \cup {n}] = [y EXCEPT !.got = g \cup {n}] BY <2>7
    <3>2. [y EXCEPT !.got = g \cup {n}] = [client |-> j, got |-> g \cup {n}, cut |-> z] BY <2>5
    <3> QED BY <3>1, <3>2
  <2> DEFINE u == [t EXCEPT !.client.cursor = n, !.got = @ \cup {n}]
  <2>9. u = [client |-> j, got |-> g \cup {n}, cut |-> z] BY <2>3, <2>6, <2>8
  <2> HIDE DEF u
  <2>10. u.client = j /\ u.got = g \cup {n} /\ u.cut = z BY <2>9
  <2>11. EventTaken(t, n, u) BY <2>4, <2>10 DEF EventTaken, g, z, k
  <2> QED BY <2>2, <2>11 DEF u, f
<1> QED BY <1>3, <1>4

\* The first k events of a replay are delivered.
Replayed(l, r, t, u, k) ==
  /\ Handles(l, u) /\ SameBut(t.client, u.client)
  /\ u.client.floor = None /\ t.got \subseteq u.got /\ u.cut = t.cut
  /\ ~r.truncated =>
       /\ u.client.cursor = r.cursor \/ \E j \in 1..k : u.client.cursor = r.events[j]
       /\ \A j \in 1..k : r.events[j] \in u.got \/ r.events[j] <= r.cursor

\* What a replay answers: where it is cut short, what it leaves out is told.
Replays(l, r, t) ==
  /\ Handles(l, t) /\ t.client.floor = None
  /\ r \in Replies /\ ReplyOK(l, r) /\ r.cursor = t.client.cursor
  /\ r.truncated => \A n \in 1..r.upto : Covered(l, t, n)

LEMMA ReplyFacts ==
  ASSUME NEW l, LogOK(l), NEW r \in Replies, ReplyOK(l, r)
  PROVE  /\ r.events \in Seq(Nat) /\ Len(r.events) \in Nat /\ DOMAIN r.events = 1..Len(r.events)
         /\ r.upto \in Nat /\ r.upto <= Len(l) /\ r.cursor \in Nat /\ r.truncated \in BOOLEAN
         /\ \A k \in 1..Len(r.events) : r.events[k] \in 1..r.upto /\ r.events[k] \in DOMAIN l
<1>1. r.events \in Seq(Nat) /\ r.upto \in Nat /\ r.cursor \in Nat /\ r.truncated \in BOOLEAN BY DEF Replies
<1>2. Len(l) \in Nat /\ DOMAIN l = 1..Len(l) BY DEF LogOK, Logs
<1>3. r.upto <= Len(l) /\ \A k \in DOMAIN r.events : r.events[k] \in 1..r.upto BY DEF ReplyOK
<1>4. Len(r.events) \in Nat /\ DOMAIN r.events = 1..Len(r.events) BY <1>1
<1>5. 1..r.upto \subseteq DOMAIN l BY <1>1, <1>2, <1>3
<1> QED BY <1>1, <1>3, <1>4, <1>5

LEMMA OutdatedIsTool ==
  ASSUME NEW l, NEW n, Outdated(l, n)
  PROVE  ~Durable(l[n].type)
BY DEF Outdated, Durable

\* What lies between the cursor and a point of the replay is covered once the
\* events below that point are delivered.
LEMMA ReplayCovers ==
  ASSUME NEW l, LogOK(l), NEW r, NEW t, Replays(l, r, t), NEW u, NEW k \in 0..Len(r.events), Replayed(l, r, t, u, k),
         NEW m \in 1..r.upto, k < Len(r.events) => m < r.events[k + 1] \/ r.truncated
  PROVE  Covered(l, u, m)
<1>1. /\ Len(r.events) \in Nat /\ DOMAIN r.events = 1..Len(r.events)
      /\ r.upto \in Nat /\ r.upto <= Len(l) /\ r.cursor \in Nat /\ r.truncated \in BOOLEAN
      /\ \A i \in 1..Len(r.events) : r.events[i] \in 1..r.upto /\ r.events[i] \in DOMAIN l
  BY ReplyFacts DEF Replays
<1>2. Len(l) \in Nat /\ DOMAIN l = 1..Len(l) BY DEF LogOK, Logs
<1>3. m \in DOMAIN l /\ m \in Nat BY <1>1, <1>2
<1>4. t.client.floor = None /\ t.got \subseteq u.got /\ t.cut \subseteq u.cut /\ u.cut = t.cut BY DEF Replays, Replayed
<1>5. CASE r.truncated
  <2>1. Covered(l, t, m) BY <1>5 DEF Replays
  <2> QED BY <1>4, <2>1, CoveredOn
<1>6. CASE m <= r.cursor
  <2>1. Covered(l, t, m) BY <1>3, <1>6 DEF Replays, Handles, PassedOK, Covered
  <2> QED BY <1>4, <2>1, CoveredOn
<1>7. CASE ~r.truncated /\ ~(m <= r.cursor)
  <2>1. r.cursor < m BY <1>1, <1>3, <1>7
  <2>2. m \in Range(r.events) \/ Outdated(l, m) BY <1>7, <2>1 DEF Replays, ReplyOK
  <2>3. CASE Outdated(l, m)
    <3>1. m \in Settled(l, u) BY <1>3, <2>3 DEF Settled
    <3> QED BY <2>3, <3>1, OutdatedIsTool DEF Covered
  <2>4. CASE m \in Range(r.events)
    <3>1. PICK j \in 1..Len(r.events) : m = r.events[j] BY <1>1, <2>4 DEF Range
    <3>2. j <= k
      <4> SUFFICES ASSUME ~(j <= k) PROVE FALSE OBVIOUS
      <4>1. k < Len(r.events) /\ k + 1 \in 1..Len(r.events) /\ k + 1 <= j BY <1>1
      <4>2. m < r.events[k + 1] /\ r.events[k + 1] \in Nat BY <1>1, <1>7, <4>1
      <4>3. j # k + 1 BY <1>3, <3>1, <4>2
      <4>4. k + 1 < j BY <4>1, <4>3
      <4>5. r.events[k + 1] < r.events[j] BY <1>1, <1>7, <4>1, <4>4 DEF Replays, ReplyOK
      <4> QED BY <1>3, <3>1, <4>2, <4>5
    <3>3. j \in 1..k BY <3>2
    <3>4. m \in u.got BY <1>7, <3>1, <3>3 DEF Replayed
    <3> QED BY <1>3, <3>4 DEF Covered, Settled
  <2> QED BY <2>2, <2>3, <2>4
<1> QED BY <1>5, <1>6, <1>7

LEMMA ReplayStep ==
  ASSUME LogOK(log), NEW r, NEW t, Replays(log, r, t), NEW u, NEW k \in 1..Len(r.events), Replayed(log, r, t, u, k - 1),
         NEW id \in Nat
  PROVE  Replayed(log, r, t, Deliver(u, Event(id, r.events[k])), k)
<1> DEFINE n == r.events[k]
           f == Event(id, n)
           v == Deliver(u, f)
<1>1. /\ Len(r.events) \in Nat /\ r.upto \in Nat /\ r.upto <= Len(log) /\ r.cursor \in Nat /\ r.truncated \in BOOLEAN
      /\ DOMAIN r.events = 1..Len(r.events)
      /\ \A i \in 1..Len(r.events) : r.events[i] \in 1..r.upto /\ r.events[i] \in DOMAIN log
  BY ReplyFacts DEF Replays
<1>2. n \in 1..r.upto /\ n \in DOMAIN log /\ n \in Nat BY <1>1
<1>3. k - 1 \in 0..Len(r.events) /\ (k - 1) + 1 = k BY <1>1
<1>4. f \in Tellings /\ f.kind = "event" /\ f.n = n BY <1>2, EventFacts
<1>5. Heard(log, Settled(log, u), u.got \cup u.cut, {}, n)
  <2> SUFFICES ASSUME NEW m \in 1..n - 1
               PROVE  Knows(Settled(log, u), {}, m) /\ (Durable(log[m].type) => Has(u.got \cup u.cut, {}, m))
    BY DEF Heard
  <2>1. m \in 1..r.upto /\ m < n BY <1>1, <1>2
  <2>2. k - 1 < Len(r.events) => m < r.events[(k - 1) + 1] \/ r.truncated BY <1>3, <2>1
  <2>3. Covered(log, u, m) BY <1>3, <2>1, <2>2, ReplayCovers
  <2> QED BY <2>3 DEF Covered, Knows, Has
<1>6. InLog(log, f) BY <1>2, <1>4 DEF InLog
<1>7. Handles(log, u) BY DEF Replayed
<1>8. IsDelivered(log, u, {f}, v) BY <1>4, <1>5, <1>6, <1>7, DeliverOK
<1>9. EventTaken(u, n, v) BY <1>2, <1>7, EventIsTaken
<1> HIDE DEF n, f, v
<1>10. Handles(log, v) /\ SameBut(t.client, v.client) BY <1>8 DEF IsDelivered, SameBut, Replayed
<1>11. v.client.floor = None /\ t.got \subseteq v.got /\ v.cut = t.cut /\ u.got \subseteq v.got BY <1>9 DEF EventTaken, Replayed
<1>12. ASSUME ~r.truncated
       PROVE  /\ v.client.cursor = r.cursor \/ \E j \in 1..k : v.client.cursor = r.events[j]
              /\ \A j \in 1..k : r.events[j] \in v.got \/ r.events[j] <= r.cursor
  <2>1. u.client.cursor = r.cursor \/ \E j \in 1..(k - 1) : u.client.cursor = r.events[j] BY <1>12 DEF Replayed
  <2>2. \A j \in 1..(k - 1) : r.events[j] \in u.got \/ r.events[j] <= r.cursor BY <1>12 DEF Replayed
  <2>3. \A j \in 1..(k - 1) : j \in 1..k /\ j < k /\ j \in DOMAIN r.events BY <1>1
  <2>4. \A j \in 1..k : j \in 1..(k - 1) \/ j = k OBVIOUS
  <2>5. k \in 1..k /\ n = r.events[k] /\ k \in DOMAIN r.events BY <1>1 DEF n
  <2>6. CASE n <= u.client.cursor /\ v = u
    <3>1. n <= r.cursor
      <4>1. CASE u.client.cursor = r.cursor BY <2>6, <4>1
      <4>2. CASE \E j \in 1..(k - 1) : u.client.cursor = r.events[j]
        <5>1. PICK j \in 1..(k - 1) : u.client.cursor = r.events[j] BY <4>2
        <5>2. r.events[j] < n BY <1>12, <2>3, <2>5 DEF Replays, ReplyOK
        <5>3. r.events[j] \in Nat
          <6>1. j \in 1..Len(r.events) BY <1>1, <2>3
          <6> QED BY <1>1, <6>1
        <5> QED BY <1>2, <2>6, <5>1, <5>2, <5>3
      <4> QED BY <2>1, <4>1, <4>2
    <3> QED BY <2>1, <2>2, <2>3, <2>4, <2>5, <2>6, <3>1
  <2>7. CASE v.client.cursor = n /\ v.got = u.got \cup {n} BY <2>2, <2>4, <2>5, <2>7
  <2> QED BY <1>9, <2>6, <2>7 DEF EventTaken
<1> QED BY <1>10, <1>11, <1>12 DEF Replayed, v, f, n

\* The replay is delivered.
LEMMA ReplayDelivered ==
  ASSUME LogOK(log), NEW r, NEW t, Replays(log, r, t), NEW id \in Nat, NEW replay,
         replay = [k \in DOMAIN r.events |-> Event(id, r.events[k])]
  PROVE  LET v == Delivered(t, replay)
         IN  /\ Handles(log, v) /\ SameBut(t.client, v.client)
             /\ \A n \in 1..r.upto : Covered(log, v, n)
<1>1. r.events \in Seq(Nat) /\ Len(r.events) \in Nat /\ DOMAIN r.events = 1..Len(r.events) BY ReplyFacts DEF Replays
<1> DEFINE L == Len(r.events)
<1>2. DOMAIN replay = 1..L /\ \A k \in 1..L : replay[k] = Event(id, r.events[k]) BY <1>1
<1>3. Len(replay) = L BY <1>1, <1>2
<1>4. L \in Nat BY <1>1
<1> HIDE DEF L
<1>5. PICK g : DeliveredBy(g, t, replay) BY <1>3, <1>4, DeliveredUnfolds
<1> DEFINE B == {k \in 0..L : ~Replayed(log, r, t, g[k], k)}
<1>6. B = {}
  <2> SUFFICES ASSUME B # {} PROVE FALSE OBVIOUS
  <2>1. B \in SUBSET (0..L) OBVIOUS
  <2>2. PICK m \in B : m = 0 \/ m - 1 \notin B
    <3> HIDE DEF B
    <3> QED BY <1>4, <2>1, LeastOf
  <2>3. m \in 0..L /\ ~Replayed(log, r, t, g[m], m) OBVIOUS
  <2>4. CASE m = 0
    <3>1. g[0] = t BY <1>5 DEF DeliveredBy
    <3>2. Replayed(log, r, t, t, 0) BY DEF Replayed, Replays, SameBut
    <3> QED BY <2>3, <2>4, <3>1, <3>2
  <2>5. CASE m # 0
    <3>1. m - 1 \in 0..L /\ m \in 1..L BY <1>4, <2>3, <2>5
    <3>2. Replayed(log, r, t, g[m - 1], m - 1) BY <2>2, <2>5, <3>1
    <3>3. g[m] = Deliver(g[m - 1], replay[m]) BY <1>3, <1>5, <3>1 DEF DeliveredBy
    <3>4. replay[m] = Event(id, r.events[m]) BY <1>2, <3>1
    <3>5. m \in 1..Len(r.events) BY <3>1 DEF L
    <3>6. Replayed(log, r, t, Deliver(g[m - 1], Event(id, r.events[m])), m) BY <3>2, <3>5, ReplayStep
    <3> QED BY <2>3, <3>3, <3>4, <3>6
  <2> QED BY <2>4, <2>5
<1> DEFINE v == g[L]
<1>7. Replayed(log, r, t, v, L) /\ L \in 0..L BY <1>4, <1>6
<1>8. Delivered(t, replay) = v BY <1>3, <1>5 DEF DeliveredBy
<1> HIDE DEF v, B
<1>9. ASSUME NEW n \in 1..r.upto PROVE Covered(log, v, n)
  <2>1. Replayed(log, r, t, v, Len(r.events)) /\ Len(r.events) \in 0..Len(r.events) BY <1>7 DEF L
  <2>2. ~(Len(r.events) < Len(r.events)) BY <1>1
  <2> QED BY <2>1, <2>2, ReplayCovers
<1> QED BY <1>7, <1>8, <1>9 DEF Replayed

\* Then the early frames are.
LEMMA EarlyDelivered ==
  ASSUME LogOK(log), NEW v, Handles(log, v), NEW early \in Seq(Tellings), OfLog(log, early), NEW D, NEW C,
         InOrder(log, D, C, {}, early), Absorbs(log, D, C, {}, Settled(log, v), v.got \cup v.cut, {})
  PROVE  LET w == Delivered(v, early)
         IN  /\ Handles(log, w) /\ SameBut(v.client, w.client)
             /\ Absorbs(log, D, C, Range(early), Settled(log, w), w.got \cup w.cut, {})
<1>1. Len(early) \in Nat /\ DOMAIN early = 1..Len(early) /\ Range(early) = {early[q] : q \in 1..Len(early)} BY SeqFacts
<1>2. log \in Logs /\ Within(log, early) BY OfLogWithin DEF LogOK
<1>3. PICK g : DeliveredBy(g, v, early) BY <1>1, DeliveredUnfolds
<1> DEFINE Good(k) == /\ Handles(log, g[k]) /\ SameBut(v.client, g[k].client)
                      /\ Absorbs(log, D, C, {early[q] : q \in 1..k}, Settled(log, g[k]), g[k].got \cup g[k].cut, {})
           B == {k \in 0..Len(early) : ~Good(k)}
<1>4. B = {}
  <2> SUFFICES ASSUME B # {} PROVE FALSE OBVIOUS
  <2>1. B \in SUBSET (0..Len(early)) OBVIOUS
  <2>2. PICK m \in B : m = 0 \/ m - 1 \notin B
    <3> HIDE DEF B
    <3> QED BY <1>1, <2>1, LeastOf
  <2>3. m \in 0..Len(early) /\ ~Good(m) OBVIOUS
  <2>4. CASE m = 0
    <3>1. g[0] = v BY <1>3 DEF DeliveredBy
    <3>2. {early[q] : q \in 1..0} = {} OBVIOUS
    <3>3. SameBut(v.client, v.client) BY DEF SameBut
    <3> QED BY <2>3, <2>4, <3>1, <3>2, <3>3
  <2>5. CASE m # 0
    <3>1. m - 1 \in 0..Len(early) /\ m \in 1..Len(early) /\ m \in Nat BY <1>1, <2>3, <2>5
    <3>2. Good(m - 1) BY <2>2, <2>5, <3>1
    <3> DEFINE u == g[m - 1]
               w == g[m]
               f == early[m]
               X == {early[q] : q \in 1..(m - 1)}
    <3>3. w = Deliver(u, f) BY <1>3, <3>1 DEF DeliveredBy
    <3>4. f \in Tellings /\ InLog(log, f) BY <3>1 DEF OfLog, InLog
    <3>5. {early[q] : q \in 1..m} = X \cup {f}
      <4>1. \A q \in 1..m : q \in 1..(m - 1) \/ q = m BY <3>1
      <4>2. \A q \in 1..(m - 1) : q \in 1..m BY <3>1
      <4>3. m \in 1..m BY <3>1
      <4> QED BY <4>1, <4>2, <4>3
    <3>6. {} \cup X = X OBVIOUS
    <3>7. f.kind = "event" => Heard(log, D, C, X, f.n)
      <4>1. f.kind = "event" => Heard(log, D, C, Before({}, early, m), f.n) BY <3>1 DEF InOrder
      <4> QED BY <3>6, <4>1 DEF Before
    <3> HIDE DEF u, w, f, X
    <3>8. Handles(log, u) /\ SameBut(v.client, u.client)
          /\ Absorbs(log, D, C, X, Settled(log, u), u.got \cup u.cut, {})
      BY <3>2 DEF u, X
    <3>9. f.kind = "event" => Heard(log, Settled(log, u), u.got \cup u.cut, {}, f.n)
      <4> HAVE f.kind = "event"
      <4>1. 1..(f.n - 1) \subseteq DOMAIN log BY <1>2, <3>1 DEF Within, f
      <4> QED BY <3>7, <3>8, <4>1, HeardAbsorbs
    <3>10. IsDelivered(log, u, {f}, w) BY <3>3, <3>4, <3>8, <3>9, DeliverOK
    <3>11. Absorbs(log, D, C, X \cup {f}, Settled(log, u), u.got \cup u.cut, {} \cup {f})
      <4>1. Wider({f}, {f}) BY SubsetIsWider
      <4> QED BY <1>2, <3>8, <4>1, AbsorbsUnion
    <3>12. {} \cup {f} = {f} OBVIOUS
    <3>13. Absorbs(log, D, C, X \cup {f}, Settled(log, w), w.got \cup w.cut, {})
      BY <3>10, <3>11, <3>12, AbsorbsTrans DEF IsDelivered
    <3>14. Handles(log, w) /\ SameBut(v.client, w.client) BY <3>8, <3>10 DEF IsDelivered, SameBut
    <3>15. Good(m) BY <3>5, <3>13, <3>14 DEF w
    <3> QED BY <2>3, <3>15
  <2> QED BY <2>4, <2>5
<1>5. Good(Len(early)) /\ Delivered(v, early) = g[Len(early)]
  <2>1. Len(early) \in 0..Len(early) BY <1>1
  <2> QED BY <1>3, <1>4, <2>1 DEF DeliveredBy
<1> QED BY <1>1, <1>5

\* A subscription that restores: what it becomes before its replay.
Restored(t, r) ==
  LET c == [t.client EXCEPT !.state = "live", !.server = r.id, !.floor = None, !.reply = None,
                            !.early = Only(@, {f \in Range(@) : f.sub # r.id})]
      missing == IF r.truncated THEN {n \in DOMAIN log : n <= r.upto /\ Sequence(n) >= r.cursor} ELSE {}
  IN  [client |-> c, got |-> t.got, cut |-> t.cut \cup missing]

LEMMA SubscribedIs ==
  ASSUME NEW t, t = [client |-> t.client, got |-> t.got, cut |-> t.cut], NEW r
  PROVE  Subscribed(t, r) =
           Delivered(Delivered(Restored(t, r), [k \in DOMAIN r.events |-> Event(r.id, r.events[k])]),
                     DrainEarly(t.client, r.id))
<1> DEFINE c == [t.client EXCEPT !.state = "live", !.server = r.id, !.floor = None, !.reply = None,
                                 !.early = Only(@, {f \in Range(@) : f.sub # r.id})]
           missing == IF r.truncated THEN {n \in DOMAIN log : n <= r.upto /\ Sequence(n) >= r.cursor} ELSE {}
           k == t.client
           g == t.got
           z == t.cut
           x == [client |-> k, got |-> g, cut |-> z]
           y == [x EXCEPT !.client = c]
<1>1. t = x OBVIOUS
<1>2. Subscribed(t, r) =
        Delivered(Delivered([t EXCEPT !.client = c, !.cut = @ \cup missing],
                            [j \in DOMAIN r.events |-> [kind |-> "event", sub |-> r.id, n |-> r.events[j]]]),
                  DrainEarly(t.client, r.id))
  BY DEF Subscribed
<1>3. Restored(t, r) = [client |-> c, got |-> g, cut |-> z \cup missing] BY DEF Restored
<1> HIDE DEF c, missing, k, g, z
<1>4. [x EXCEPT !.client = c, !.cut = @ \cup missing] = [client |-> c, got |-> g, cut |-> z \cup missing]
  <2>1. y = [client |-> c, got |-> g, cut |-> z] OBVIOUS
  <2>2. [x EXCEPT !.client = c, !.cut = @ \cup missing] = [y EXCEPT !.cut = x.cut \cup missing] OBVIOUS
  <2>3. x.cut = z OBVIOUS
  <2> HIDE DEF x, y
  <2>4. [y EXCEPT !.cut = x.cut \cup missing] = [y EXCEPT !.cut = z \cup missing] BY <2>3
  <2>5. [y EXCEPT !.cut = z \cup missing] = [client |-> c, got |-> g, cut |-> z \cup missing] BY <2>1
  <2> QED BY <2>2, <2>4, <2>5
<1> HIDE DEF x, y
<1>5. [t EXCEPT !.client = c, !.cut = @ \cup missing] = Restored(t, r) BY <1>1, <1>3, <1>4
<1> QED BY <1>2, <1>5, Zenon DEF Event

\* It is ready for the replay.
LEMMA RestoredReplays ==
  ASSUME LogOK(log), NEW t, Handles(log, t), Rests(t), NEW r \in Replies, ReplyOK(log, r), r.cursor = t.client.cursor,
         ToldOf(r.id, t.client.early)
  PROVE  LET u == Restored(t, r)
         IN  /\ Replays(log, r, u)
             /\ u.client.state = "live" /\ u.client.server = r.id /\ u.client.reply = None /\ u.client.early = <<>>
             /\ u.client.pending = t.client.pending /\ u.client.timer = t.client.timer
<1> DEFINE k == t.client
           e == Only(k.early, {f \in Range(k.early) : f.sub # r.id})
           c == [k EXCEPT !.state = "live", !.server = r.id, !.floor = None, !.reply = None, !.early = e]
           missing == IF r.truncated THEN {n \in DOMAIN log : n <= r.upto /\ Sequence(n) >= r.cursor} ELSE {}
           u == Restored(t, r)
<1>1. k \in Clients /\ k.early \in Seq(Tellings) BY DEF Handles, Clients
<1>2. e = <<>>
  <2>1. \A f \in Range(k.early) : f.sub = r.id
    <3>1. Range(k.early) = {k.early[q] : q \in 1..Len(k.early)} /\ \A q \in 1..Len(k.early) : k.early[q] \in Tellings
      BY <1>1, SeqFacts
    <3>2. \A f \in Tellings : f.kind # "reply" BY DEF Tellings, EventFrames, GapFrames
    <3> QED BY <3>1, <3>2 DEF ToldOf
  <2>2. Range(k.early) \cap {f \in Range(k.early) : f.sub # r.id} = {} BY <2>1
  <2> QED BY <1>1, <2>2, OnlyRange
<1>3. r.id \in Nat BY DEF Replies
<1>4. c.state = "live" /\ c.server = r.id /\ c.floor = None /\ c.reply = None /\ c.early = e /\ c.cursor = k.cursor
      /\ c.pending = k.pending /\ c.timer = k.timer /\ c.requests = k.requests /\ c \in Clients
  <2>0. <<>> \in Seq(Tellings) OBVIOUS
  <2> HIDE DEF e, k
  <2>1. e \in Seq(Tellings) BY <1>2, <2>0
  <2> QED BY <1>1, <1>3, <2>1 DEF Clients
<1>5. u = [client |-> c, got |-> t.got, cut |-> t.cut \cup missing] BY DEF Restored
<1> HIDE DEF c, missing, e, u
<1>6. u.client = c /\ u.got = t.got /\ u.cut = t.cut \cup missing BY <1>5
<1>7. k.cursor \in Nat /\ Len(log) \in Nat /\ DOMAIN log = 1..Len(log) /\ k.floor \in Nat \cup {None} BY <1>1 DEF LogOK, Logs, Clients
<1>8. PassedOK(log, u)
  <2> SUFFICES ASSUME NEW n \in DOMAIN log, n <= k.cursor
               PROVE  n \in Settled(log, u) /\ (Durable(log[n].type) => n \in u.got \cup u.cut)
    BY <1>4, <1>6 DEF PassedOK
  <2>1. n \in Settled(log, t) /\ (Durable(log[n].type) => n \in t.got \cup t.cut) BY DEF Handles, PassedOK
  <2>2. ~(t.client.floor # None /\ t.client.floor < n)
    <3> SUFFICES ASSUME t.client.floor # None, t.client.floor < n PROVE FALSE OBVIOUS
    <3>1. k.cursor <= t.client.floor BY DEF Rests
    <3>2. t.client.floor \in Nat /\ n \in Nat BY <1>7
    <3> QED BY <1>7, <3>1, <3>2
  <2> QED BY <1>6, <2>1, <2>2 DEF Settled
<1>9. k.cursor <= Len(log) BY DEF Handles
<1>10. Handles(log, u)
  <2>1. u = [client |-> u.client, got |-> u.got, cut |-> u.cut] BY <1>5
  <2> QED BY <1>4, <1>6, <1>8, <1>9, <2>1 DEF Handles
<1>11. ASSUME r.truncated, NEW n \in 1..r.upto PROVE Covered(log, u, n)
  <2>1. r.upto \in Nat /\ r.upto <= Len(log) BY ReplyFacts
  <2>2. n \in DOMAIN log /\ n \in Nat /\ n <= r.upto BY <1>7, <2>1
  <2>3. CASE n <= k.cursor BY <1>4, <1>6, <1>8, <2>2, <2>3 DEF PassedOK, Covered
  <2>4. CASE ~(n <= k.cursor)
    <3>1. Sequence(n) = n - 1 BY <2>2 DEF LogOK, Sequence
    <3>2. Sequence(n) >= r.cursor BY <1>7, <2>2, <2>4, <3>1
    <3>3. n \in missing BY <1>11, <2>2, <3>2 DEF missing
    <3> QED BY <1>6, <2>2, <3>3 DEF Covered, Settled
  <2> QED BY <2>3, <2>4
<1>12. Replays(log, r, u) BY <1>4, <1>6, <1>10, <1>11 DEF Replays
<1> QED BY <1>2, <1>4, <1>6, <1>12 DEF u

\* It is restored: the replay and the early frames are delivered.
LEMMA SubscribedLives ==
  ASSUME LogOK(log), NEW t, Handles(log, t), Rests(t), NEW r \in Replies, ReplyOK(log, r), r.cursor = t.client.cursor,
         ToldOf(r.id, t.client.early), OfLog(log, t.client.early), NEW c, ChanOK(log, c),
         Flow(log, UpTo(log, r.upto), 1..r.upto, t.client.early, c)
  PROVE  LET w == Subscribed(t, r)
         IN  /\ Handles(log, w) /\ SameBut(Restored(t, r).client, w.client)
             /\ Flow(log, Settled(log, w), w.got \cup w.cut, <<>>, c)
<1> DEFINE u == Restored(t, r)
           replay == [k \in DOMAIN r.events |-> Event(r.id, r.events[k])]
           v == Delivered(u, replay)
           early == t.client.early
           w == Delivered(v, early)
           D == UpTo(log, r.upto)
           C == 1..r.upto
<1>1. early \in Seq(Tellings) /\ t = [client |-> t.client, got |-> t.got, cut |-> t.cut] BY DEF Handles, Clients
<1>2. DrainEarly(t.client, r.id) = early
  <2>1. \A q \in 1..Len(early) : early[q] \in {f \in Range(early) : f.sub = r.id}
    <3> SUFFICES ASSUME NEW q \in 1..Len(early) PROVE early[q] \in Range(early) /\ early[q].sub = r.id OBVIOUS
    <3>1. early[q] \in Range(early) /\ early[q] \in Tellings
      <4> HIDE DEF early
      <4> QED BY <1>1, SeqFacts
    <3>2. early[q].kind # "reply" BY <3>1 DEF Tellings, EventFrames, GapFrames
    <3> QED BY <3>1, <3>2 DEF ToldOf
  <2> HIDE DEF early
  <2>2. Only(early, {f \in Range(early) : f.sub = r.id}) = early BY <1>1, <2>1, OnlyAll
  <2> QED BY <2>2 DEF DrainEarly, early
<1>3. Subscribed(t, r) = w BY <1>1, <1>2, SubscribedIs
<1>4. Replays(log, r, u) BY RestoredReplays
<1>5. r.id \in Nat BY DEF Replies
<1>6. Handles(log, v) /\ SameBut(u.client, v.client) /\ \A n \in 1..r.upto : Covered(log, v, n)
  <2> HIDE DEF u
  <2> QED BY <1>4, <1>5, ReplayDelivered
<1> HIDE DEF u, v
<1>7. Absorbs(log, D, C, {}, Settled(log, v), v.got \cup v.cut, {})
  <2> SUFFICES ASSUME NEW m \in DOMAIN log
               PROVE  /\ Knows(D, {}, m) => Knows(Settled(log, v), {}, m)
                      /\ Durable(log[m].type) /\ Has(C, {}, m) => Has(v.got \cup v.cut, {}, m)
    BY DEF Absorbs
  <2>1. r.upto \in Nat /\ m \in Nat
    <3>1. r.upto \in Nat BY ReplyFacts
    <3>2. m \in Nat BY DEF LogOK, Logs
    <3> QED BY <3>1, <3>2
  <2>2. m \in D => m \in Settled(log, v)
    <3> HAVE m \in D
    <3>1. m <= r.upto \/ Outdated(log, m) BY DEF UpTo
    <3>2. CASE m <= r.upto
      <4>1. m \in 1..r.upto BY <2>1, <3>2 DEF LogOK, Logs
      <4> QED BY <1>6, <4>1 DEF Covered
    <3>3. CASE Outdated(log, m) BY <3>3 DEF Settled
    <3> QED BY <3>1, <3>2, <3>3
  <2>3. Durable(log[m].type) /\ m \in C => m \in v.got \cup v.cut BY <1>6 DEF Covered
  <2> HIDE DEF D, C
  <2> QED BY <2>2, <2>3, NothingSaid DEF Knows, Has
<1>8. InOrder(log, D, C, {}, early) BY DEF Flow, FlowTo
<1>9. Flow(log, D, C, early, c) OBVIOUS
<1> HIDE DEF D, C, early
<1>10. OfLog(log, early) BY DEF early
<1>11. Handles(log, w) /\ SameBut(v.client, w.client)
       /\ Absorbs(log, D, C, Range(early), Settled(log, w), w.got \cup w.cut, {})
  BY <1>1, <1>6, <1>7, <1>8, <1>10, EarlyDelivered
<1>12. Framed(log, c) /\ log \in Logs BY ChannelIsFramed DEF ChanOK, LogOK
<1> HIDE DEF w
<1>13. Flow(log, Settled(log, w), w.got \cup w.cut, <<>>, c) BY <1>9, <1>11, <1>12, FlowAbsorbs
<1>14. SameBut(u.client, w.client) BY <1>6, <1>11 DEF SameBut
<1> QED BY <1>3, <1>11, <1>13, <1>14 DEF u

LEMMA ResumeKeeps ==
  ASSUME IInv, Resume
  PROVE  IInv'
<1> DEFINE t == Told
           u == Told'
           r == client.reply
<1>1. log' = log /\ session' = session /\ chan' = chan /\ asks' = asks /\ link' = link /\ r # None
  BY DEF Resume
<1>2. \/ r.ok /\ client.server = None /\ Takes(Subscribed(t, r))
      \/ client' = Ended(client) /\ got' = got /\ cut' = cut
  BY DEF Resume, history
<1>3. t.client = client /\ t.got = got /\ t.cut = cut /\ u.client = client' /\ u.got = got' /\ u.cut = cut' BY ToldIs
<1>4. Plain(log, session, chan, t, asks, link) /\ Linked(log, chan, t, asks, link) BY DEF IInv
<1>5. LogOK(log) /\ log \in Logs /\ ChanOK(log, chan) /\ ClientType(log, t) BY <1>4 DEF Plain, LogOK
<1> HIDE DEF t, u
<1>6. CASE client' = Ended(client) /\ got' = got /\ cut' = cut
  <2>1. u.client = Ended(t.client) /\ u.got = t.got /\ u.cut = t.cut BY <1>3, <1>6
  <2>2. ClientType(log, u) /\ u.client.state = "ended" /\ u.client.server = None /\ u.client.reply = None
        /\ u.client.early = t.client.early
    BY <1>5, <2>1, EndedOK
  <2>3. Plain(log, session, chan, u, asks, link) BY <1>4, <2>2 DEF Plain
  <2>4. Linked(log, chan, u, asks, link) BY <2>2 DEF Linked
  <2> QED BY <1>1, <2>3, <2>4 DEF IInv, u
<1>7. CASE r.ok /\ client.server = None /\ Takes(Subscribed(t, r))
  <2>1. /\ client \in Clients /\ client.cursor <= Len(log) /\ OfLog(log, client.early)
        /\ (client.state = "ended" => client.reply = None)
    BY <1>3, <1>5, ClientTypeIs, Zenon
  <2>2. r \in Replies BY <1>1, <2>1 DEF Clients
  <2>3. link # "down" /\ client.state # "ended" BY <1>1, <1>3, <1>4, <2>1 DEF Plain
  <2>4. PassedOK(log, t) /\ Connected(log, t, chan, asks) BY <1>3, <1>4, <2>3 DEF Linked
  <2>5. PICK id \in Nat : OneSub(id, chan) /\ (Asked(id, t, chan, asks) \/ Waits(log, id, t, chan, asks) \/ Lives(log, id, t, chan, asks))
    BY <2>4 DEF Connected
  <2>6. Waits(log, id, t, chan, asks) BY <1>1, <1>3, <1>7, <2>5, BudgetsAssumption DEF Asked, Lives
  <2>7. ReplyFits(log, id, t, chan, r) /\ asks = <<>> /\ ToldOf(id, t.client.early) /\ Rests(t)
    BY <1>1, <1>3, <2>2, <2>6 DEF Waits
  <2>8. /\ r.id = id /\ r.cursor = t.client.cursor /\ ReplyOK(log, r)
        /\ Flow(log, UpTo(log, r.upto), 1..r.upto, t.client.early, chan)
    BY <1>7, <2>7 DEF ReplyFits
  <2>9. Handles(log, t) BY <1>5, <2>4, ToldHandles DEF t
  <2> DEFINE w == Subscribed(t, r)
             k == Restored(t, r).client
  <2> HIDE DEF r
  <2>10. /\ k.state = "live" /\ k.server = r.id /\ k.reply = None /\ k.early = <<>>
         /\ k.pending = t.client.pending /\ k.timer = t.client.timer
    BY <1>5, <2>2, <2>7, <2>8, <2>9, RestoredReplays
  <2>11. OfLog(log, t.client.early) BY <1>3, <2>1
  <2>12. Handles(log, w) /\ SameBut(k, w.client) /\ Flow(log, Settled(log, w), w.got \cup w.cut, <<>>, chan)
    BY <1>5, <2>2, <2>7, <2>8, <2>9, <2>11, SubscribedLives
  <2> HIDE DEF w, k
  <2>13. u = w BY <1>7, <2>12, TakesIs DEF u, w
  <2>14. u.client.state = "live" /\ u.client.server = id /\ u.client.reply = None /\ u.client.early = <<>>
    BY <2>8, <2>10, <2>12, <2>13 DEF SameBut
  <2>15. ClientType(log, u) BY <2>12, <2>13, <2>14, EmptyFrames, ClientTypeIs DEF Handles
  <2>16. Plain(log, session, chan, u, asks, link) BY <1>4, <2>3, <2>15 DEF Plain
  <2>17. Lives(log, id, u, chan, asks)
    <3>1. DOMAIN asks = {} BY <2>7
    <3> QED BY <2>12, <2>13, <2>14, <3>1 DEF Lives
  <2>18. Linked(log, chan, u, asks, link) BY <2>5, <2>12, <2>13, <2>17 DEF Linked, Connected, Handles
  <2> QED BY <1>1, <2>16, <2>18 DEF IInv, u
<1> QED BY <1>2, <1>6, <1>7

-----------------------------------------------------------------------------
(* Handle *)

\* An answer is written.
HighWritten(l, c, d, f) ==
  /\ ChanOK(l, d) /\ \A id : OneSub(id, c) => OneSub(id, d)
  /\ Gone(c, d) \/ Streamed(c, d, f) \/ Highed(c, d, f)

LEMMA WriteHighOK ==
  ASSUME NEW l, NEW c, ChanOK(l, c), ~c.failed, NEW f \in Replies
  PROVE  HighWritten(l, c, Write(c, "high", f), f)
<1> DEFINE d == Write(c, "high", f)
<1>1. c \in Channels /\ c.blocked \in BOOLEAN /\ (Queued(c) > 0 => c.blocked) /\ Queued(c) \in Nat
  <2>1. /\ c \in Channels /\ c.blocked \in BOOLEAN /\ (Queued(c) > 0 => c.blocked)
        /\ Len(c.high) \in Nat /\ Len(c.normal) \in Nat /\ Len(c.low) \in Nat
        /\ Queued(c) = Len(c.high) + Len(c.normal) + Len(c.low) BY ChanFacts
  <2> DEFINE h == Len(c.high)
             n == Len(c.normal)
             w == Len(c.low)
  <2>2. h \in Nat /\ n \in Nat /\ w \in Nat /\ Queued(c) = h + n + w BY <2>1
  <2> HIDE DEF h, n, w
  <2>3. h + n + w \in Nat BY <2>2
  <2>4. Queued(c) \in Nat BY <2>2, <2>3
  <2> QED BY <2>1, <2>4, Zenon
<1>2. f \in AnyFrames /\ f.kind = "reply" /\ InLog(l, f) BY FrameKinds DEF InLog
<1>3. CASE Queued(c) = 0 /\ ~c.blocked
  <2>1. d = ToStream(c, f) BY <1>3 DEF Write
  <2>2. \A id : Streamed(c, d, f) /\ ChanOK(l, d) /\ (OneSub(id, c) => OneSub(id, d)) BY <1>2, <1>3, <2>1, ToStreamOK
  <2> QED BY <2>2 DEF HighWritten
<1>4. CASE ~(Queued(c) = 0 /\ ~c.blocked)
  <2>1. c.blocked
    <3>1. CASE Queued(c) = 0 BY <1>4, <3>1
    <3>2. CASE Queued(c) # 0
      <4>1. Queued(c) > 0 BY <1>1, <3>2
      <4> QED BY <1>1, <4>1
    <3> QED BY <3>1, <3>2
  <2>2. d = IF Fits(c, "high") THEN Queue(c, "high", f) ELSE Fail(c) BY <2>1, WriteBlocked
  <2>3. CASE Fits(c, "high")
    <3>1. d = Queue(c, "high", f) BY <2>2, <2>3
    <3>2. \A id : Highed(c, d, f) /\ ChanOK(l, d) /\ (OneSub(id, c) => OneSub(id, d)) BY <2>1, <2>3, <3>1, QueueHighOK
    <3> QED BY <3>2 DEF HighWritten
  <2>4. CASE ~Fits(c, "high")
    <3>1. Gone(c, d) BY <1>1, <2>2, <2>4, FailIsGone
    <3>2. \A id : ChanOK(l, d) /\ (ToldOf(id, c.stream) => OneSub(id, d)) BY <3>1, GoneOK
    <3>3. \A id : OneSub(id, c) => OneSub(id, d) BY <3>2 DEF OneSub
    <3> QED BY <3>1, <3>2, <3>3 DEF HighWritten
  <2> QED BY <2>3, <2>4
<1> QED BY <1>3, <1>4

\* It is the only answer that was not there.
LEMMA HighAnswers ==
  ASSUME NEW l, NEW c, ChanOK(l, c), NEW f \in Replies, NEW d, HighWritten(l, c, d, f)
  PROVE  Range(d.stream) \cup Range(d.high) \subseteq Range(c.stream) \cup Range(c.high) \cup {f}
<1>1. c.stream \in Seq(AnyFrames) /\ c.high \in Seq(Replies) /\ f \in AnyFrames BY ChanFacts, FrameKinds
<1>2. CASE Gone(c, d) BY <1>2, EmptyFrames DEF Gone
<1>3. CASE Streamed(c, d, f)
  <2>1. Range(Append(c.stream, f)) = Range(c.stream) \cup {f} BY <1>1, AppendFacts
  <2>2. Range(d.high) = {} BY <1>3, EmptyFrames DEF Streamed
  <2> QED BY <1>3, <2>1, <2>2 DEF Streamed
<1>4. CASE Highed(c, d, f)
  <2>1. Range(Append(c.high, f)) = Range(c.high) \cup {f} BY <1>1, AppendFacts
  <2> QED BY <1>4, <2>1 DEF Highed
<1> QED BY <1>2, <1>3, <1>4 DEF HighWritten

\* And it says nothing.
LEMMA HighKeepsFlow ==
  ASSUME NEW l, NEW c, ChanOK(l, c), NEW f \in Replies, NEW d, HighWritten(l, c, d, f),
         NEW D, NEW C, NEW early, Flow(l, D, C, early, c)
  PROVE  Flow(l, D, C, early, d)
<1>1. FlowTo(l, Len(l), D, C, early, c) BY DEF Flow
<1>2. CASE Gone(c, d)
  <2>1. FlowTo(l, Len(l), D, C, early, d) BY <1>1, <1>2, FlowFails DEF Gone
  <2> QED BY <2>1 DEF Flow
<1>3. CASE Highed(c, d, f)
  <2>1. FlowTo(l, Len(l), D, C, early, d)
    BY <1>1, <1>3 DEF FlowTo, Highed, Ahead, AheadOfLow, OnTheWay
  <2> QED BY <2>1 DEF Flow
<1>4. CASE Streamed(c, d, f)
  <2>1. c.stream \in Seq(AnyFrames) /\ f \in AnyFrames /\ f.kind = "reply" BY ChanFacts, FrameKinds
  <2>2. d.stream = Append(c.stream, f) /\ d.normal = <<>> /\ d.low = <<>> /\ d.subs = c.subs
        /\ c.normal = <<>> /\ c.low = <<>> BY <1>4 DEF Streamed
  <2>3. Range(d.stream) = Range(c.stream) \cup {f} BY <2>1, <2>2, AppendFacts
  <2>4. InOrder(l, D, C, Range(early), c.stream) BY <1>1 DEF FlowTo
  <2>5. InOrder(l, D, C, Range(early), d.stream)
    <3>1. f.kind # "event" BY <2>1
    <3>2. InOrder(l, D, C, Range(early), Append(c.stream, f)) BY <2>1, <2>4, <3>1, InOrderAppend
    <3> QED BY <2>2, <3>2
  <2>6. Wider(OnTheWay(early, c), OnTheWay(early, d))
    <3>1. OnTheWay(early, c) \subseteq OnTheWay(early, d) BY <2>2, <2>3 DEF OnTheWay, AheadOfLow, Ahead
    <3> QED BY <3>1, SubsetIsWider
  <2>7. d.subs # <<>> => Heard(l, D, C, OnTheWay(early, d), Len(l) + 1)
    <3> HAVE d.subs # <<>>
    <3>1. Heard(l, D, C, OnTheWay(early, c), Len(l) + 1) BY <1>1, <2>2 DEF FlowTo
    <3> DEFINE n == Len(l) + 1
    <3> HIDE DEF n
    <3>2. Heard(l, D, C, OnTheWay(early, c), n) => Heard(l, D, C, OnTheWay(early, d), n) BY <2>6, HeardWider
    <3> QED BY <3>1, <3>2 DEF n
  <2>8. InOrder(l, D, C, {}, early) BY <1>1 DEF FlowTo
  <2>9. FlowTo(l, Len(l), D, C, early, d) BY <2>2, <2>5, <2>7, <2>8, InOrderEmpty DEF FlowTo
  <2> QED BY <2>9 DEF Flow
<1> QED BY <1>2, <1>3, <1>4 DEF HighWritten

\* The connection's subscriptions change.
LEMMA SubsOK ==
  ASSUME NEW l, NEW c, ChanOK(l, c), ~c.failed, NEW s \in Seq(Nat)
  PROVE  LET e == [c EXCEPT !.subs = s]
         IN  /\ ChanOK(l, e) /\ e.stream = c.stream /\ e.high = c.high /\ e.normal = c.normal /\ e.low = c.low
             /\ e.blocked = c.blocked /\ e.failed = c.failed /\ e.subs = s
<1> DEFINE e == [c EXCEPT !.subs = s]
<1>1. c \in Channels BY ChanFacts
<1>2. /\ e \in Channels /\ e.stream = c.stream /\ e.high = c.high /\ e.normal = c.normal /\ e.low = c.low
      /\ e.blocked = c.blocked /\ e.failed = c.failed /\ e.subs = s
  BY <1>1 DEF Channels
<1> HIDE DEF e
<1>3. ChanType(l, e) BY <1>2 DEF ChanType, ChanOK
<1>4. Budgets(e)
  <2>1. Weighs(Len(c.stream), Len(c.high), Len(c.normal), Len(c.low), c.blocked) BY ChanFacts
  <2>2. Weighs(Len(e.stream), Len(e.high), Len(e.normal), Len(e.low), e.blocked) BY <1>2, <2>1
  <2>3. e.failed => e.high = <<>> /\ e.normal = <<>> /\ e.low = <<>> /\ e.subs = <<>> BY <1>2
  <2> QED BY <2>2, <2>3, BudgetsAre, Zenon
<1> QED BY <1>2, <1>3, <1>4 DEF ChanOK, e

\* Its replay, of the ring r from cursor on.
IsCandidates(l, s, cursor, all) ==
  /\ all \in Seq(Entries) /\ \A k \in 1..Len(all) : all[k].n \in DOMAIN l
  /\ \A j, k \in 1..Len(all) : j < k => all[j].n < all[k].n
  /\ \A i \in 1..Len(s.ring) : s.ring[i].i >= cursor => \E k \in 1..Len(all) : all[k] = s.ring[i]

LEMMA CandidatesAre ==
  ASSUME NEW l, LogOK(l), NEW s, RingOK(l, s), NEW cursor \in Nat, NEW all,
         all = Only(s.ring, {e \in Range(s.ring) : e.i >= cursor})
  PROVE  IsCandidates(l, s, cursor, all)
<1> DEFINE ring == s.ring
           X == {e \in Range(ring) : e.i >= cursor}
<1>1. ring \in Seq(Entries) BY DEF RingOK
<1> HIDE DEF ring
<1>2. all \in Seq(Entries) BY <1>1, OnlyDoes DEF ring
<1>3. PICK h : Picks(h, all, ring, X, Len(ring)) BY <1>1, OnlyDoes DEF ring
<1>4. Len(ring) \in Nat /\ DOMAIN ring = 1..Len(ring) /\ Range(ring) = {ring[k] : k \in 1..Len(ring)} BY <1>1, SeqFacts
<1>5. \A k \in 1..Len(ring) : ring[k].n \in DOMAIN l /\ ring[k].i = ring[k].n - 1 BY <1>4 DEF RingOK, ring
<1>6. \A k \in 1..Len(all) : h[k] \in 1..Len(ring) /\ all[k] = ring[h[k]] BY <1>3 DEF Picks
<1>7. \A j, k \in 1..Len(ring) : j < k => ring[j].n < ring[k].n
  <2> SUFFICES ASSUME NEW j \in 1..Len(ring), NEW k \in 1..Len(ring), j < k PROVE ring[j].n < ring[k].n OBVIOUS
  <2>1. ring[j].i < ring[k].i BY <1>4 DEF RingOK, ring
  <2>2. ring[j].n \in Nat /\ ring[k].n \in Nat
    <3>1. DOMAIN l = 1..Len(l) BY DEF LogOK, Logs
    <3> QED BY <1>5, <3>1
  <2> QED BY <1>5, <2>1, <2>2
<1>8. ASSUME NEW j \in 1..Len(all), NEW k \in 1..Len(all), j < k PROVE all[j].n < all[k].n
  <2>1. h[j] < h[k] BY <1>3, <1>8 DEF Picks
  <2> QED BY <1>6, <1>7, <2>1
<1>9. ASSUME NEW i \in 1..Len(ring), ring[i].i >= cursor PROVE \E k \in 1..Len(all) : all[k] = ring[i]
  <2>1. ring[i] \in X BY <1>4, <1>9
  <2>2. PICK k \in 1..Len(all) : h[k] = i BY <1>3, <2>1 DEF Picks
  <2> QED BY <1>6, <2>2
<1> QED BY <1>2, <1>5, <1>6, <1>8, <1>9 DEF ring, IsCandidates

\* The newest of them, all if they are within the budget.
IsSlice(all, kept) ==
  /\ kept \in Seq(Entries)
  /\ \A k \in 1..Len(kept) : \E j \in 1..Len(all) : kept[k] = all[j]
  /\ Len(all) <= ReplayBudget => Len(kept) = Len(all) /\ \A k \in 1..Len(all) : kept[k] = all[k]

LEMMA ReplayIsSlice ==
  ASSUME NEW all \in Seq(Entries), NEW kept, kept = SubSeq(all, MaxOf(1, Len(all) - ReplayBudget + 1), Len(all))
  PROVE  IsSlice(all, kept)
<1> DEFINE L == Len(all)
           m == MaxOf(1, L - ReplayBudget + 1)
<1>1. L \in Nat /\ \A i \in 1..L : all[i] \in Entries OBVIOUS
<1>2. kept = SubSeq(all, m, L) OBVIOUS
<1> HIDE DEF L
<1>3. ReplayBudget \in Nat BY BudgetsAssumption
<1>4. m \in Nat /\ 1 <= m /\ m <= L + 1 /\ (L <= ReplayBudget => m = 1)
  <2>1. CASE 1 < L - ReplayBudget + 1 BY <1>1, <1>3, <2>1 DEF MaxOf
  <2>2. CASE ~(1 < L - ReplayBudget + 1) BY <1>1, <1>3, <2>2 DEF MaxOf
  <2> QED BY <2>1, <2>2
<1> HIDE DEF m
<1>5. \A i \in m..L : all[i] \in Entries
  <2>1. m..L \subseteq 1..L BY <1>1, <1>4
  <2> QED BY <1>1, <2>1
<1>6. m \in Int /\ L \in Int BY <1>1, <1>4
<1>7. kept \in Seq(Entries) /\ Len(kept) = (IF m <= L THEN L - m + 1 ELSE 0)
      /\ \A i \in 1..(L - m + 1) : kept[i] = all[m + i - 1]
  <2> DEFINE u == SubSeq(all, m, L)
  <2>1. /\ u \in Seq(Entries) /\ Len(u) = (IF m <= L THEN L - m + 1 ELSE 0)
        /\ \A i \in 1..(L - m + 1) : u[i] = all[m + i - 1]
    <3>1. u \in Seq(Entries) BY <1>5, <1>6, SubSeqProperties
    <3>2. Len(u) = (IF m <= L THEN L - m + 1 ELSE 0) BY <1>5, <1>6, SubSeqProperties
    <3>3. \A i \in 1..(L - m + 1) : u[i] = all[m + i - 1] BY <1>5, <1>6, SubSeqProperties
    <3> QED BY <3>1, <3>2, <3>3, Zenon
  <2>2. kept = u BY <1>2
  <2> HIDE DEF u
  <2> QED BY <2>1, <2>2
<1>8. Len(kept) = L - m + 1
  <2>1. CASE m <= L BY <1>7, <2>1
  <2>2. CASE ~(m <= L)
    <3>1. m = L + 1 BY <1>1, <1>4, <2>2
    <3>2. L - m + 1 = 0 BY <1>1, <3>1
    <3> QED BY <1>7, <2>2, <3>2
  <2> QED BY <2>1, <2>2
<1>9. ASSUME NEW k \in 1..Len(kept) PROVE \E j \in 1..L : kept[k] = all[j]
  <2>1. k \in 1..(L - m + 1) BY <1>8
  <2>2. m + k - 1 \in 1..L BY <1>1, <1>4, <2>1
  <2> QED BY <1>7, <2>1, <2>2
<1>10. ASSUME L <= ReplayBudget PROVE Len(kept) = L /\ \A k \in 1..L : kept[k] = all[k]
  <2>1. m = 1 /\ Len(kept) = L
    <3>1. m = 1 BY <1>4, <1>10
    <3>2. L - m + 1 = L BY <1>1, <3>1
    <3> QED BY <1>8, <3>1, <3>2
  <2>2. \A k \in 1..L : k \in 1..(L - m + 1) /\ m + k - 1 = k BY <1>1, <2>1
  <2> QED BY <1>7, <2>1, <2>2
<1> QED BY <1>7, <1>9, <1>10 DEF L, IsSlice

\* The answer to the ask a.
Answer(a) ==
  LET kept == Replay(a.cursor)
  IN  [kind |-> "reply", id |-> a.id, ok |-> TRUE, cursor |-> a.cursor,
       events |-> [k \in DOMAIN kept |-> kept[k].n],
       truncated |-> Truncated(a.cursor), upto |-> Len(log)]

LEMMA AnswerOK ==
  ASSUME LogOK(log), RingOK(log, session), NEW a \in Asks
  PROVE  /\ Answer(a) \in Replies /\ ReplyOK(log, Answer(a))
         /\ Answer(a).id = a.id /\ Answer(a).cursor = a.cursor /\ Answer(a).upto = Len(log) /\ Answer(a).ok = TRUE
<1> DEFINE cursor == a.cursor
           all == Candidates(cursor)
           kept == Replay(cursor)
           events == [k \in DOMAIN kept |-> kept[k].n]
           cut_ == Truncated(cursor)
           N == Len(log)
           r == Answer(a)
<1>1. cursor \in Nat /\ a.id \in Nat BY DEF Asks
<1>2. N \in Nat /\ DOMAIN log = 1..N BY DEF LogOK, Logs
<1>3. all = Only(session.ring, {e \in Range(session.ring) : e.i >= cursor}) BY DEF Candidates
<1>4. kept = SubSeq(all, MaxOf(1, Len(all) - ReplayBudget + 1), Len(all)) BY DEF Replay
<1>5. cut_ = (cursor <= session.evicted \/ cursor <= session.lastMessage \/ Len(all) > ReplayBudget) BY DEF Truncated
<1>6. r = [kind |-> "reply", id |-> a.id, ok |-> TRUE, cursor |-> cursor, events |-> events, truncated |-> cut_, upto |-> N]
  BY DEF Answer
<1> HIDE DEF cursor, all, kept, cut_, r, N
<1>7. /\ all \in Seq(Entries) /\ (\A k \in 1..Len(all) : all[k].n \in DOMAIN log)
      /\ (\A j, k \in 1..Len(all) : j < k => all[j].n < all[k].n)
      /\ \A i \in 1..Len(session.ring) : session.ring[i].i >= cursor => \E k \in 1..Len(all) : all[k] = session.ring[i]
  <2>1. IsCandidates(log, session, cursor, all) BY <1>1, <1>3, CandidatesAre
  <2> QED BY <2>1 DEF IsCandidates
<1>8. /\ kept \in Seq(Entries)
      /\ (\A k \in 1..Len(kept) : \E j \in 1..Len(all) : kept[k] = all[j])
      /\ (Len(all) <= ReplayBudget => Len(kept) = Len(all) /\ \A k \in 1..Len(all) : kept[k] = all[k])
  <2>1. IsSlice(all, kept) BY <1>4, <1>7, ReplayIsSlice
  <2> QED BY <2>1 DEF IsSlice
<1>9. Len(kept) \in Nat /\ DOMAIN kept = 1..Len(kept) /\ Len(all) \in Nat BY <1>7, <1>8
<1>10. DOMAIN events = 1..Len(kept) /\ \A k \in 1..Len(kept) : events[k] = kept[k].n /\ events[k] \in 1..N
  BY <1>2, <1>7, <1>8, <1>9
<1>11. events \in Seq(Nat)
  <2>1. \A k \in 1..Len(kept) : events[k] \in Nat BY <1>10
  <2>2. events = [k \in 1..Len(kept) |-> events[k]] BY <1>10
  <2> HIDE DEF events
  <2> QED BY <1>9, <2>1, <2>2
<1>12. cut_ \in BOOLEAN BY <1>5
<1> HIDE DEF events
<1>13. r \in Replies BY <1>1, <1>2, <1>6, <1>11, <1>12 DEF Replies
<1>14. r.id = a.id /\ r.cursor = cursor /\ r.upto = N /\ r.ok = TRUE /\ r.events = events /\ r.truncated = cut_ BY <1>6
<1>15. ASSUME ~cut_
       PROVE  /\ \A j, k \in DOMAIN events : j < k => events[j] < events[k]
              /\ \A n \in 1..N : cursor < n => n \in Range(events) \/ Outdated(log, n)
  <2>1. ~(cursor <= session.evicted) /\ ~(cursor <= session.lastMessage) /\ Len(all) <= ReplayBudget
    <3>1. ~(cursor <= session.evicted) /\ ~(cursor <= session.lastMessage) /\ ~(Len(all) > ReplayBudget) BY <1>5, <1>15, Zenon
    <3>2. ReplayBudget \in Nat BY BudgetsAssumption
    <3>3. \A x \in Nat : ~(x > ReplayBudget) => x <= ReplayBudget BY <3>2
    <3> QED BY <1>9, <3>1, <3>3, Zenon
  <2>2. Len(kept) = Len(all) /\ \A k \in 1..Len(all) : kept[k] = all[k] BY <1>8, <2>1
  <2>3. ASSUME NEW j \in DOMAIN events, NEW k \in DOMAIN events, j < k PROVE events[j] < events[k]
    <3>1. j \in 1..Len(all) /\ k \in 1..Len(all) BY <1>10, <2>2
    <3>2. events[j] = all[j].n /\ events[k] = all[k].n
      <4>1. kept[j] = all[j] /\ kept[k] = all[k] BY <2>2, <3>1, Zenon
      <4>2. events[j] = kept[j].n /\ events[k] = kept[k].n BY <1>10, <2>2, <3>1, Zenon
      <4> QED BY <4>1, <4>2
    <3>3. all[j].n < all[k].n BY <1>7, <2>3, <3>1, Zenon
    <3> QED BY <3>2, <3>3
  <2>4. ASSUME NEW n \in 1..N, cursor < n PROVE n \in Range(events) \/ Outdated(log, n)
    <3>1. session.evicted \in Int /\ session.lastMessage \in Int BY DEF RingOK
    <3>2. ~(n - 1 <= session.evicted) /\ ~(n - 1 <= session.lastMessage) BY <1>1, <1>2, <2>1, <2>4, <3>1
    <3>3. Outdated(log, n) \/ \E k \in DOMAIN session.ring : session.ring[k].n = n BY <1>2, <3>2 DEF RingOK
    <3>4. ASSUME NEW k \in DOMAIN session.ring, session.ring[k].n = n PROVE n \in Range(events)
      <4>1. session.ring[k].i = n - 1 BY <3>4 DEF RingOK
      <4>2. session.ring[k].i >= cursor BY <1>1, <1>2, <2>4, <4>1
      <4>3. DOMAIN session.ring = 1..Len(session.ring)
        <5>1. session.ring \in Seq(Entries) BY DEF RingOK
        <5> QED BY <5>1
      <4>4. PICK i \in 1..Len(all) : all[i] = session.ring[k] BY <1>7, <4>2, <4>3
      <4>5. i \in DOMAIN events /\ events[i] = n BY <1>10, <2>2, <3>4, <4>4
      <4> QED BY <4>5 DEF Range
    <3> QED BY <3>3, <3>4
  <2> QED BY <2>3, <2>4
<1>16. ReplyOK(log, r)
  <2>1. r.upto <= Len(log) BY <1>2, <1>14 DEF N
  <2>2. \A k \in DOMAIN r.events : r.events[k] \in 1..r.upto BY <1>10, <1>14
  <2> QED BY <1>14, <1>15, <2>1, <2>2 DEF ReplyOK
<1> QED BY <1>13, <1>14, <1>16 DEF r, cursor, N

\* The answers the daemon may give.
Refusal(a) == [Answer(a) EXCEPT !.ok = FALSE, !.events = <<>>, !.truncated = FALSE]
Farewell(a) == [Answer(a) EXCEPT !.events = <<>>, !.truncated = FALSE]

LEMMA OtherAnswersOK ==
  ASSUME LogOK(log), RingOK(log, session), NEW a \in Asks
  PROVE  /\ Refusal(a) \in Replies /\ Refusal(a).id = a.id /\ Refusal(a).cursor = a.cursor /\ Refusal(a).ok = FALSE
         /\ Farewell(a) \in Replies
<1>1. Answer(a) \in Replies /\ Answer(a).id = a.id /\ Answer(a).cursor = a.cursor BY AnswerOK
<1> DEFINE r == Answer(a)
<1>2. <<>> \in Seq(Nat) OBVIOUS
<1> HIDE DEF r
<1>3. /\ [r EXCEPT !.ok = FALSE, !.events = <<>>, !.truncated = FALSE] \in Replies
      /\ [r EXCEPT !.ok = FALSE, !.events = <<>>, !.truncated = FALSE].id = r.id
      /\ [r EXCEPT !.ok = FALSE, !.events = <<>>, !.truncated = FALSE].cursor = r.cursor
      /\ [r EXCEPT !.ok = FALSE, !.events = <<>>, !.truncated = FALSE].ok = FALSE
      /\ [r EXCEPT !.events = <<>>, !.truncated = FALSE] \in Replies
  BY <1>1, <1>2 DEF r, Replies
<1> QED BY <1>1, <1>3 DEF r, Refusal, Farewell

\* One subscription is left, or none.
LEMMA SubsLeft ==
  ASSUME NEW id \in Nat, NEW s \in {<<>>, <<id>>}, NEW x
  PROVE  Only(s, Range(s) \ {x}) \in {<<>>, <<id>>} /\ (s = <<>> => Only(s, Range(s) \ {x}) = <<>>)
<1> DEFINE Y == Range(s) \ {x}
<1>1. s \in Seq(Nat)
  <2>1. <<>> \in Seq(Nat) OBVIOUS
  <2>2. <<id>> \in Seq(Nat) OBVIOUS
  <2> HIDE DEF Y
  <2> QED BY <2>1, <2>2, Zenon
<1>2. CASE s = <<>>
  <2>1. Range(s) \cap Y = {} BY <1>2, EmptyFrames
  <2> HIDE DEF Y
  <2>2. Only(s, Y) = <<>> BY <1>1, <2>1, OnlyRange
  <2> QED BY <2>2 DEF Y
<1>3. CASE s = <<id>>
  <2>1. Len(s) = 1 /\ s[1] = id /\ Range(s) = {id}
    <3>1. Len(s) = 1 /\ s[1] = id BY <1>3
    <3>2. Range(s) = {s[k] : k \in 1..Len(s)} BY <1>1, SeqFacts
    <3> QED BY <3>1, <3>2
  <2>2. CASE x = id
    <3>1. Range(s) \cap Y = {} BY <2>1, <2>2
    <3> HIDE DEF Y
    <3>2. Only(s, Y) = <<>> BY <1>1, <3>1, OnlyRange
    <3> QED BY <1>3, <3>2 DEF Y
  <2>3. CASE x # id
    <3>1. \A k \in 1..Len(s) : s[k] \in Y BY <2>1, <2>3
    <3> HIDE DEF Y
    <3>2. Only(s, Y) = s BY <1>1, <3>1, OnlyAll
    <3> QED BY <1>3, <3>2 DEF Y
  <2> QED BY <2>2, <2>3
<1> QED BY <1>2, <1>3

\* The three answers: a subscription, its refusal, its end.
Answers(a, c, d) ==
  \/ a.method = "subscribe" /\ d = Write([c EXCEPT !.subs = Append(@, a.id)], "high", Answer(a))
  \/ a.method = "subscribe" /\ d = Write(c, "high", Refusal(a))
  \/ a.method = "unsubscribe"
     /\ d = Write([c EXCEPT !.subs = Only(@, Range(@) \ {a.cursor})], "high", Farewell(a))

LEMMA HandleIs ==
  ASSUME Handle
  PROVE  /\ asks # <<>> /\ link = "up" /\ asks' = Tail(asks) /\ link' = Closing(chan')
         /\ log' = log /\ session' = session /\ client' = client /\ got' = got /\ cut' = cut
         /\ Answers(Head(asks), chan, chan')
BY DEF Handle, Answers, Answer, Refusal, Farewell, history

\* A channel that differs in its subscriptions, and then an answer.
IsSubs(c, e, s) ==
  /\ e.stream = c.stream /\ e.high = c.high /\ e.normal = c.normal /\ e.low = c.low
  /\ e.blocked = c.blocked /\ e.failed = c.failed /\ e.subs = s

AnswersWith(l, c, s, f, d) ==
  \E e : ChanOK(l, e) /\ IsSubs(c, e, s) /\ HighWritten(l, e, d, f)

LEMMA AnswersAre ==
  ASSUME LogOK(log), RingOK(log, session), NEW c, ChanOK(log, c), ~c.failed, NEW a \in Asks, NEW d, Answers(a, c, d)
  PROVE  \/ a.method = "subscribe" /\ AnswersWith(log, c, Append(c.subs, a.id), Answer(a), d)
         \/ a.method = "subscribe" /\ AnswersWith(log, c, c.subs, Refusal(a), d)
         \/ a.method = "unsubscribe" /\ AnswersWith(log, c, Only(c.subs, Range(c.subs) \ {a.cursor}), Farewell(a), d)
<1>1. Answer(a) \in Replies /\ Refusal(a) \in Replies /\ Farewell(a) \in Replies BY AnswerOK, OtherAnswersOK
<1>2. c.subs \in Seq(Nat) /\ a.id \in Nat BY ChanFacts DEF Asks
<1>3. ASSUME NEW s \in Seq(Nat), NEW f \in Replies, d = Write([c EXCEPT !.subs = s], "high", f)
      PROVE  AnswersWith(log, c, s, f, d)
  <2> DEFINE e == [c EXCEPT !.subs = s]
  <2>1. ChanOK(log, e) /\ IsSubs(c, e, s) BY SubsOK DEF IsSubs
  <2> HIDE DEF e
  <2>2. ~e.failed BY <2>1 DEF IsSubs
  <2>3. HighWritten(log, e, Write(e, "high", f), f) BY <2>1, <2>2, WriteHighOK
  <2> QED BY <1>3, <2>1, <2>3 DEF AnswersWith, e
<1>4. CASE a.method = "subscribe" /\ d = Write([c EXCEPT !.subs = Append(@, a.id)], "high", Answer(a))
  <2>1. Append(c.subs, a.id) \in Seq(Nat) BY <1>2
  <2>2. AnswersWith(log, c, Append(c.subs, a.id), Answer(a), d) BY <1>1, <1>3, <1>4, <2>1
  <2> QED BY <1>4, <2>2
<1>5. CASE a.method = "subscribe" /\ d = Write(c, "high", Refusal(a))
  <2>1. HighWritten(log, c, d, Refusal(a)) BY <1>1, <1>5, WriteHighOK
  <2>2. IsSubs(c, c, c.subs) BY DEF IsSubs
  <2>3. AnswersWith(log, c, c.subs, Refusal(a), d) BY <2>1, <2>2 DEF AnswersWith
  <2> QED BY <1>5, <2>3
<1>6. CASE a.method = "unsubscribe"
           /\ d = Write([c EXCEPT !.subs = Only(@, Range(@) \ {a.cursor})], "high", Farewell(a))
  <2> DEFINE s == Only(c.subs, Range(c.subs) \ {a.cursor})
  <2>1. s \in Seq(Nat) BY <1>2, OnlyRange
  <2>2. AnswersWith(log, c, s, Farewell(a), d) BY <1>1, <1>3, <1>6, <2>1
  <2> QED BY <1>6, <2>2
<1> QED BY <1>4, <1>5, <1>6 DEF Answers

\* The subscribe is answered.
LEMMA AskAnswered ==
  ASSUME LogOK(log), RingOK(log, session), NEW t, ClientType(log, t), NEW c, NEW d, NEW id \in Nat, OneSub(id, c),
         NEW as, Asked(id, t, c, as), NEW a, as = <<a>>, a \in Asks,
         \/ AnswersWith(log, c, Append(c.subs, a.id), Answer(a), d)
         \/ AnswersWith(log, c, c.subs, Refusal(a), d)
  PROVE  Connected(log, t, d, <<>>)
<1>1. /\ a.id = id /\ a.cursor = t.client.cursor /\ NoFrame(c) /\ t.client.reply = None /\ t.client.server = None
      /\ t.client.early = <<>> /\ Rests(t)
  <2>1. \A b : as = <<b>> => a = b OBVIOUS
  <2> QED BY <2>1 DEF Asked
<1>2. Len(log) \in Nat /\ DOMAIN log = 1..Len(log) /\ log \in Logs BY DEF LogOK, Logs
<1>3. OfLog(log, <<>>) /\ ToldOf(id, <<>>) /\ Range(<<>>) = {} BY EmptyFrames
<1>4. PICK f \in {Answer(a), Refusal(a)}, s \in {Append(c.subs, a.id), c.subs} :
        /\ AnswersWith(log, c, s, f, d)
        /\ f \in Replies /\ f.id = id /\ f.cursor = t.client.cursor
        /\ f.ok => ReplyOK(log, f) /\ f.upto = Len(log)
  BY <1>1, AnswerOK, OtherAnswersOK
<1>5. PICK e : ChanOK(log, e) /\ IsSubs(c, e, s) /\ HighWritten(log, e, d, f) BY <1>4 DEF AnswersWith
<1>6. OneSub(id, e)
  <2>1. c.subs = <<>> BY <1>1 DEF NoFrame
  <2>2. Append(<<>>, id) = <<id>> OBVIOUS
  <2>3. s \in {<<>>, <<id>>} BY <1>1, <1>4, <2>1, <2>2
  <2> QED BY <1>5, <2>3 DEF IsSubs, OneSub
<1>7. ChanOK(log, d) /\ OneSub(id, d) BY <1>5, <1>6 DEF HighWritten
<1>8. Range(d.stream) \cup Range(d.high) \subseteq {f}
  <2>1. e.stream = <<>> /\ e.high = <<>> BY <1>1, <1>5 DEF IsSubs, NoFrame
  <2>2. Range(d.stream) \cup Range(d.high) \subseteq Range(e.stream) \cup Range(e.high) \cup {f} BY <1>4, <1>5, HighAnswers
  <2> QED BY <1>3, <2>1, <2>2
<1>9. ASSUME f.ok PROVE Flow(log, UpTo(log, f.upto), 1..f.upto, t.client.early, d)
  <2>1. UpTo(log, f.upto) = DOMAIN log /\ 1..f.upto = DOMAIN log BY <1>2, <1>4, <1>9 DEF UpTo
  <2>2. Flow(log, DOMAIN log, DOMAIN log, t.client.early, d) BY <1>1, <1>2, <1>3, <1>7, FlowTrivial
  <2> QED BY <2>1, <2>2
<1>10. ReplyFits(log, id, t, d, f) BY <1>4, <1>9 DEF ReplyFits
<1>11. Waits(log, id, t, d, <<>>) BY <1>1, <1>3, <1>8, <1>10 DEF Waits
<1> QED BY <1>7, <1>11 DEF Connected

\* The unsubscribe is.
LEMMA FarewellAnswered ==
  ASSUME LogOK(log), RingOK(log, session), NEW t, NEW c, NEW d, NEW id \in Nat, OneSub(id, c),
         NEW as \in Seq(Asks), as # <<>>, Lives(log, id, t, c, as),
         NEW a \in Asks, AnswersWith(log, c, Only(c.subs, Range(c.subs) \ {a.cursor}), Farewell(a), d)
  PROVE  Connected(log, t, d, Tail(as))
<1> DEFINE s == Only(c.subs, Range(c.subs) \ {a.cursor})
           D == Settled(log, t)
           C == t.got \cup t.cut
<1>1. PICK e : ChanOK(log, e) /\ IsSubs(c, e, s) /\ HighWritten(log, e, d, Farewell(a)) BY DEF AnswersWith
<1>2. s \in {<<>>, <<id>>} /\ (c.subs = <<>> => s = <<>>) BY SubsLeft DEF OneSub
<1> HIDE DEF s
<1>3. OneSub(id, e) BY <1>1, <1>2 DEF OneSub, IsSubs
<1>4. OneSub(id, d) BY <1>1, <1>3 DEF HighWritten
<1>5. Flow(log, D, C, <<>>, e)
  <2>1. FlowTo(log, Len(log), D, C, <<>>, c) BY DEF Lives, Flow
  <2> HIDE DEF D, C
  <2>2. FlowTo(log, Len(log), D, C, <<>>, e) BY <1>1, <1>2, <2>1 DEF FlowTo, IsSubs, Ahead, AheadOfLow, OnTheWay
  <2> QED BY <2>2 DEF Flow
<1>6. Farewell(a) \in Replies BY OtherAnswersOK
<1>7. Flow(log, D, C, <<>>, d) BY <1>1, <1>5, <1>6, HighKeepsFlow
<1>8. \A k \in DOMAIN Tail(as) : Tail(as)[k].method = "unsubscribe"
  <2>1. Tail(as) \in Seq(Asks) /\ Len(Tail(as)) = Len(as) - 1 /\ Len(as) \in Nat
        /\ \A k \in 1..Len(Tail(as)) : Tail(as)[k] = as[k + 1] BY TailFacts
  <2> DEFINE u == Tail(as)
  <2> HIDE DEF u
  <2>2. DOMAIN u = 1..Len(u) /\ DOMAIN as = 1..Len(as) BY <2>1 DEF u
  <2>3. Len(u) = Len(as) - 1 /\ (\A k \in 1..Len(u) : u[k] = as[k + 1]) BY <2>1 DEF u
  <2>4. \A k \in DOMAIN u : k + 1 \in DOMAIN as
    <3> DEFINE n == Len(as)
    <3>1. n \in Nat BY <2>1
    <3> HIDE DEF n
    <3>2. \A k \in 1..(n - 1) : k + 1 \in 1..n BY <3>1
    <3>3. DOMAIN u = 1..(n - 1) /\ DOMAIN as = 1..n BY <2>2, <2>3 DEF n
    <3> QED BY <3>2, <3>3
  <2>5. \A k \in DOMAIN u : u[k].method = "unsubscribe" BY <2>2, <2>3, <2>4 DEF Lives
  <2> QED BY <2>5 DEF u
<1>9. Lives(log, id, t, d, Tail(as)) BY <1>7, <1>8 DEF Lives
<1> QED BY <1>4, <1>9 DEF Connected

LEMMA HandleKeeps ==
  ASSUME IInv, Handle
  PROVE  IInv'
<1> DEFINE t == Told
           a == Head(asks)
           c == chan
           d == chan'
           as == Tail(asks)
<1>1. /\ asks # <<>> /\ link = "up" /\ asks' = as /\ link' = Closing(d)
      /\ log' = log /\ session' = session /\ client' = client /\ got' = got /\ cut' = cut
      /\ Answers(a, c, d)
  BY HandleIs
<1>2. Told' = t BY <1>1, ToldSame
<1>3. Plain(log, session, c, t, asks, link) /\ Linked(log, c, t, asks, link) BY DEF IInv
<1> HIDE DEF t, c, d
<1>4. LogOK(log) /\ RingOK(log, session) /\ ChanOK(log, c) /\ ~c.failed /\ ClientType(log, t) /\ asks \in Seq(Asks)
  BY <1>1, <1>3 DEF Plain
<1>5. as \in Seq(Asks) /\ a \in Asks /\ asks[1] = a /\ 1 \in DOMAIN asks
  <2>1. Len(asks) \in Nat \ {0} /\ DOMAIN asks = 1..Len(asks) BY <1>1, <1>4
  <2> QED BY <1>1, <1>4, <2>1, TailFacts
<1> HIDE DEF as, a
<1>6. \/ a.method = "subscribe" /\ AnswersWith(log, c, Append(c.subs, a.id), Answer(a), d)
      \/ a.method = "subscribe" /\ AnswersWith(log, c, c.subs, Refusal(a), d)
      \/ a.method = "unsubscribe" /\ AnswersWith(log, c, Only(c.subs, Range(c.subs) \ {a.cursor}), Farewell(a), d)
  BY <1>1, <1>4, <1>5, AnswersAre
<1>7. ChanOK(log, d) BY <1>6 DEF AnswersWith, HighWritten
<1>8. link' \in {"down", "up", "closing"} /\ (link' = "up" => ~d.failed) /\ link' # "down"
  <2>1. link \in {"down", "up", "closing"} BY <1>3 DEF Plain
  <2> QED BY <1>1, <2>1, ClosingIs
<1>9. Plain(log, session, d, t, as, link') BY <1>3, <1>4, <1>5, <1>7, <1>8 DEF Plain
<1>10. ASSUME t.client.state # "ended" PROVE PassedOK(log, t) /\ Connected(log, t, d, as)
  <2>1. PassedOK(log, t) /\ Connected(log, t, c, asks) BY <1>1, <1>3, <1>10 DEF Linked
  <2>2. PICK id \in Nat : OneSub(id, c) /\ (Asked(id, t, c, asks) \/ Waits(log, id, t, c, asks) \/ Lives(log, id, t, c, asks))
    BY <2>1 DEF Connected
  <2>3. CASE Asked(id, t, c, asks)
    <3>1. asks = <<a>> /\ a.method = "subscribe"
      <4>1. PICK b : asks = <<b>> /\ b.method = "subscribe" BY <2>3 DEF Asked
      <4>2. asks[1] = b BY <4>1
      <4> QED BY <1>5, <4>1, <4>2
    <3>2. as = <<>>
      <4>1. Tail(asks) = Tail(<<a>>) BY <3>1
      <4>2. Tail(<<a>>) = <<>> OBVIOUS
      <4> QED BY <4>1, <4>2 DEF as
    <3>3. Connected(log, t, d, <<>>) BY <1>4, <1>5, <1>6, <2>2, <2>3, <3>1, AskAnswered
    <3> QED BY <2>1, <3>2, <3>3
  <2>4. CASE Waits(log, id, t, c, asks) BY <1>1, <2>4 DEF Waits
  <2>5. CASE Lives(log, id, t, c, asks)
    <3>1. a.method = "unsubscribe" BY <1>5, <2>5 DEF Lives
    <3>2. AnswersWith(log, c, Only(c.subs, Range(c.subs) \ {a.cursor}), Farewell(a), d) BY <1>6, <3>1
    <3>3. Connected(log, t, d, Tail(asks)) BY <1>1, <1>4, <1>5, <2>2, <2>5, <3>2, FarewellAnswered
    <3> QED BY <2>1, <3>3 DEF as
  <2> QED BY <2>2, <2>3, <2>4, <2>5
<1>11. Linked(log, d, t, as, link') BY <1>10 DEF Linked
<1> QED BY <1>1, <1>2, <1>9, <1>11 DEF IInv, d

-----------------------------------------------------------------------------
(* Drain *)

\* Sequence u is a followed by b.
Splits(u, a, b) ==
  /\ Len(u) = Len(a) + Len(b)
  /\ \A j \in 1..Len(a) : a[j] = u[j]
  /\ \A j \in 1..Len(b) : b[j] = u[Len(a) + j]

Cuts(u, i, a, b) == a = SubSeq(u, 1, i) /\ b = SubSeq(u, i + 1, Len(u))
Shares(S, a, b, i, j) == a \in Seq(S) /\ b \in Seq(S) /\ Len(a) = i /\ Len(b) = j

LEMMA SplitAt ==
  ASSUME NEW S, NEW u \in Seq(S), NEW N \in Nat, N = Len(u), NEW i \in 0..N, NEW a, NEW b, Cuts(u, i, a, b)
  PROVE  Shares(S, a, b, i, N - i) /\ Splits(u, a, b)
<1>1. \A j \in 1..N : u[j] \in S OBVIOUS
<1>2. i \in Nat /\ i <= N /\ 1 \in Int /\ i + 1 \in Int /\ i \in Int /\ N \in Int OBVIOUS
<1>3. a = SubSeq(u, 1, i) /\ b = SubSeq(u, i + 1, N) BY DEF Cuts
<1>4. 1..i \subseteq 1..N /\ (i + 1)..N \subseteq 1..N BY <1>2
<1>5. (\A j \in 1..i : u[j] \in S) /\ (\A j \in (i + 1)..N : u[j] \in S) BY <1>1, <1>4
<1>6. a \in Seq(S) /\ Len(a) = i /\ \A j \in 1..i : a[j] = u[j]
  <2> DEFINE v == SubSeq(u, 1, i)
  <2>1. v \in Seq(S) BY <1>2, <1>5, SubSeqProperties
  <2>2. Len(v) = (IF 1 <= i THEN i - 1 + 1 ELSE 0) BY <1>2, <1>5, SubSeqProperties
  <2>3. \A j \in 1..(i - 1 + 1) : v[j] = u[1 + j - 1] BY <1>2, <1>5, SubSeqProperties
  <2> HIDE DEF v
  <2>4. i - 1 + 1 = i /\ (~(1 <= i) => i = 0) /\ \A j \in 1..i : 1 + j - 1 = j BY <1>2
  <2>5. Len(v) = i BY <2>2, <2>4
  <2>6. \A j \in 1..i : v[j] = u[j] BY <2>3, <2>4
  <2> QED BY <1>3, <2>1, <2>5, <2>6 DEF v
<1>7. b \in Seq(S) /\ Len(b) = N - i /\ \A j \in 1..(N - i) : b[j] = u[i + j]
  <2> DEFINE v == SubSeq(u, i + 1, N)
  <2>1. v \in Seq(S) BY <1>2, <1>5, SubSeqProperties
  <2>2. Len(v) = (IF i + 1 <= N THEN N - (i + 1) + 1 ELSE 0) BY <1>2, <1>5, SubSeqProperties
  <2>3. \A j \in 1..(N - (i + 1) + 1) : v[j] = u[i + 1 + j - 1] BY <1>2, <1>5, SubSeqProperties
  <2> HIDE DEF v
  <2>4. N - (i + 1) + 1 = N - i /\ (~(i + 1 <= N) => N - i = 0) /\ \A j \in 1..(N - i) : i + 1 + j - 1 = i + j BY <1>2
  <2>5. Len(v) = N - i BY <2>2, <2>4
  <2>6. \A j \in 1..(N - i) : v[j] = u[i + j] BY <2>3, <2>4
  <2> QED BY <1>3, <2>1, <2>5, <2>6 DEF v
<1>8. Len(u) = Len(a) + Len(b)
  <2>1. i + (N - i) = N BY <1>2
  <2>2. Len(u) = N OBVIOUS
  <2>3. Len(a) = i /\ Len(b) = N - i BY <1>6, <1>7
  <2> QED BY <2>1, <2>2, <2>3, Zenon
<1>9. Splits(u, a, b) BY <1>6, <1>7, <1>8 DEF Splits
<1> QED BY <1>6, <1>7, <1>9, Zenon DEF Shares

LEMMA SplitsRange ==
  ASSUME NEW S, NEW u \in Seq(S), NEW a \in Seq(S), NEW b \in Seq(S), Splits(u, a, b)
  PROVE  Range(u) = Range(a) \cup Range(b)
<1> DEFINE A == Len(a)
           B == Len(b)
<1>1. A \in Nat /\ B \in Nat /\ Len(u) = A + B BY DEF Splits
<1>2. Range(u) = {u[k] : k \in 1..Len(u)} /\ Range(a) = {a[k] : k \in 1..Len(a)} /\ Range(b) = {b[k] : k \in 1..Len(b)}
  BY SeqFacts
<1>3. (\A j \in 1..A : a[j] = u[j]) /\ (\A j \in 1..B : b[j] = u[A + j]) BY DEF Splits
<1>4. Range(u) = {u[k] : k \in 1..(A + B)} /\ Range(a) = {a[k] : k \in 1..A} /\ Range(b) = {b[k] : k \in 1..B}
  BY <1>1, <1>2
<1> HIDE DEF A, B
<1>5. \A k \in 1..(A + B) : k \in 1..A \/ (k - A \in 1..B /\ A + (k - A) = k) BY <1>1
<1>6. (\A k \in 1..A : k \in 1..(A + B)) /\ \A k \in 1..B : A + k \in 1..(A + B) BY <1>1
<1>7. \A k \in 1..(A + B) : u[k] \in Range(a) \cup Range(b) BY <1>3, <1>4, <1>5
<1>8. Range(a) \subseteq Range(u) /\ Range(b) \subseteq Range(u) BY <1>3, <1>4, <1>6
<1> QED BY <1>4, <1>7, <1>8

LEMMA ConcatSplits ==
  ASSUME NEW S, NEW a \in Seq(S), NEW b \in Seq(S)
  PROVE  a \o b \in Seq(S) /\ Len(a \o b) = Len(a) + Len(b) /\ Splits(a \o b, a, b)
<1> DEFINE u == a \o b
<1>1. u \in Seq(S) /\ Len(u) = Len(a) + Len(b) /\ Len(a) \in Nat /\ Len(b) \in Nat OBVIOUS
<1>2. \A j \in 1..(Len(a) + Len(b)) : u[j] = IF j <= Len(a) THEN a[j] ELSE b[j - Len(a)] OBVIOUS
<1> HIDE DEF u
<1> DEFINE A == Len(a)
           B == Len(b)
<1>3. A \in Nat /\ B \in Nat /\ \A j \in 1..(A + B) : u[j] = IF j <= A THEN a[j] ELSE b[j - A] BY <1>1, <1>2
<1> HIDE DEF A, B
<1>4. \A j \in 1..A : j \in 1..(A + B) /\ j <= A BY <1>3
<1>5. \A j \in 1..B : A + j \in 1..(A + B) /\ ~(A + j <= A) /\ A + j - A = j BY <1>3
<1>6. (\A j \in 1..A : a[j] = u[j]) /\ (\A j \in 1..B : b[j] = u[A + j]) BY <1>3, <1>4, <1>5
<1> QED BY <1>1, <1>6 DEF Splits, A, B, u

\* The two parts of a sequence are in order, the second behind the first, when
\* the whole is.
LEMMA InOrderSplits ==
  ASSUME NEW l, NEW D, NEW C, NEW K, NEW S, NEW u \in Seq(S), NEW a \in Seq(S), NEW b \in Seq(S), Splits(u, a, b)
  PROVE  InOrder(l, D, C, K, u) <=> InOrder(l, D, C, K, a) /\ InOrder(l, D, C, K \cup Range(a), b)
<1> DEFINE A == Len(a)
           B == Len(b)
<1>1. A \in Nat /\ B \in Nat /\ Len(u) = A + B BY DEF Splits
<1>2. Range(a) = {a[k] : k \in 1..A} BY SeqFacts
<1>3. (\A j \in 1..A : a[j] = u[j]) /\ (\A j \in 1..B : b[j] = u[A + j]) BY DEF Splits
<1>4. Len(a) = A /\ Len(b) = B OBVIOUS
<1> HIDE DEF A, B
<1>5. \A k \in 1..(A + B) : k \in 1..A \/ (k - A \in 1..B /\ A + (k - A) = k) BY <1>1
<1>6. (\A k \in 1..A : k \in 1..(A + B)) /\ \A k \in 1..B : A + k \in 1..(A + B) BY <1>1
<1>7. ASSUME NEW p \in 1..A PROVE Before(K, a, p) = Before(K, u, p) /\ a[p] = u[p]
  <2>1. \A q \in 1..(p - 1) : q \in 1..A BY <1>1
  <2>2. \A q \in 1..(p - 1) : a[q] = u[q] BY <1>3, <2>1
  <2>3. {a[q] : q \in 1..(p - 1)} = {u[q] : q \in 1..(p - 1)} BY <2>2
  <2> QED BY <1>3, <2>3 DEF Before
<1>8. ASSUME NEW p \in 1..B, NEW r, r = A + p PROVE Before(K \cup Range(a), b, p) = Before(K, u, r) /\ b[p] = u[r]
  <2>1. \A q \in 1..(p - 1) : q \in 1..B /\ A + q \in 1..(r - 1) BY <1>1, <1>8
  <2>2. \A q \in 1..(r - 1) : q \in 1..A \/ (q - A \in 1..(p - 1) /\ A + (q - A) = q) BY <1>1, <1>8
  <2>3. \A q \in 1..A : q \in 1..(r - 1) BY <1>1, <1>8
  <2>4. \A q \in 1..(p - 1) : b[q] = u[A + q] BY <1>3, <2>1
  <2>5. {u[q] : q \in 1..(r - 1)} = {a[q] : q \in 1..A} \cup {b[q] : q \in 1..(p - 1)}
    <3>1. \A q \in 1..(r - 1) : u[q] \in {a[j] : j \in 1..A} \cup {b[j] : j \in 1..(p - 1)} BY <1>3, <2>2, <2>4
    <3>2. \A q \in 1..A : a[q] \in {u[j] : j \in 1..(r - 1)} BY <1>3, <2>3
    <3>3. \A q \in 1..(p - 1) : b[q] \in {u[j] : j \in 1..(r - 1)} BY <2>1, <2>4
    <3> QED BY <3>1, <3>2, <3>3
  <2>6. Before(K \cup Range(a), b, p) = (K \cup Range(a)) \cup {b[q] : q \in 1..(p - 1)} BY DEF Before
  <2>7. Before(K, u, r) = K \cup {u[q] : q \in 1..(r - 1)} BY DEF Before
  <2>8. Before(K, u, r) = K \cup (Range(a) \cup {b[q] : q \in 1..(p - 1)}) BY <1>2, <2>5, <2>7, Zenon
  <2>9. (K \cup Range(a)) \cup {b[q] : q \in 1..(p - 1)} = K \cup (Range(a) \cup {b[q] : q \in 1..(p - 1)})
    <3> DEFINE X == {b[q] : q \in 1..(p - 1)}
               Y == Range(a)
    <3> HIDE DEF X, Y
    <3>1. (K \cup Y) \cup X = K \cup (Y \cup X) OBVIOUS
    <3> QED BY <3>1 DEF X, Y
  <2>10. b[p] = u[r] BY <1>3, <1>8
  <2> QED BY <2>6, <2>8, <2>9, <2>10, Zenon
<1>9. ASSUME InOrder(l, D, C, K, u) PROVE InOrder(l, D, C, K, a) /\ InOrder(l, D, C, K \cup Range(a), b)
  <2>1. \A p \in 1..(A + B) : u[p].kind = "event" => Heard(l, D, C, Before(K, u, p), u[p].n) BY <1>1, <1>9 DEF InOrder
  <2>2. \A p \in 1..A : a[p].kind = "event" => Heard(l, D, C, Before(K, a, p), a[p].n) BY <1>6, <1>7, <2>1
  <2>3. \A p \in 1..B : b[p].kind = "event" => Heard(l, D, C, Before(K \cup Range(a), b, p), b[p].n)
    <3> SUFFICES ASSUME NEW p \in 1..B, b[p].kind = "event" PROVE Heard(l, D, C, Before(K \cup Range(a), b, p), b[p].n) OBVIOUS
    <3> DEFINE r == A + p
    <3>1. r \in 1..(A + B) BY <1>6
    <3> HIDE DEF r
    <3>2. Before(K \cup Range(a), b, p) = Before(K, u, r) /\ b[p] = u[r] BY <1>8 DEF r
    <3> QED BY <2>1, <3>1, <3>2
  <2> QED BY <1>4, <2>2, <2>3 DEF InOrder
<1>10. ASSUME InOrder(l, D, C, K, a), InOrder(l, D, C, K \cup Range(a), b) PROVE InOrder(l, D, C, K, u)
  <2>2. \A p \in 1..A : a[p].kind = "event" => Heard(l, D, C, Before(K, a, p), a[p].n) BY <1>4, <1>10 DEF InOrder
  <2>3. \A p \in 1..B : b[p].kind = "event" => Heard(l, D, C, Before(K \cup Range(a), b, p), b[p].n) BY <1>4, <1>10 DEF InOrder
  <2>4. \A p \in 1..(A + B) : u[p].kind = "event" => Heard(l, D, C, Before(K, u, p), u[p].n)
    <3> SUFFICES ASSUME NEW p \in 1..(A + B), u[p].kind = "event" PROVE Heard(l, D, C, Before(K, u, p), u[p].n) OBVIOUS
    <3>1. CASE p \in 1..A BY <1>7, <2>2, <3>1
    <3>2. CASE p - A \in 1..B /\ A + (p - A) = p
      <4> DEFINE q == p - A
      <4>1. q \in 1..B /\ p = A + q BY <3>2
      <4> HIDE DEF q
      <4>2. Before(K \cup Range(a), b, q) = Before(K, u, p) /\ b[q] = u[p] BY <1>8, <4>1
      <4> QED BY <2>3, <4>1, <4>2
    <3> QED BY <1>5, <3>1, <3>2
  <2> QED BY <1>1, <2>4 DEF InOrder
<1> QED BY <1>9, <1>10

LEMMA InOrderConcat ==
  ASSUME NEW l, NEW D, NEW C, NEW K, NEW S, NEW a \in Seq(S), NEW b \in Seq(S),
         InOrder(l, D, C, K, a), InOrder(l, D, C, K \cup Range(a), b)
  PROVE  InOrder(l, D, C, K, a \o b)
<1> DEFINE u == a \o b
<1>1. u \in Seq(S) /\ Splits(u, a, b) BY ConcatSplits
<1> HIDE DEF u
<1>2. InOrder(l, D, C, K, u) BY <1>1, InOrderSplits
<1> QED BY <1>2 DEF u

LEMMA OfLogRange ==
  ASSUME NEW l, NEW S, NEW s \in Seq(S)
  PROVE  OfLog(l, s) <=> \A f \in Range(s) : InLog(l, f)
<1>1. Range(s) = {s[k] : k \in 1..Len(s)} BY SeqFacts
<1> DEFINE R == Range(s)
<1> HIDE DEF R
<1>2. R = {s[k] : k \in 1..Len(s)} BY <1>1 DEF R
<1>3. OfLog(l, s) <=> \A f \in R : InLog(l, f) BY <1>2 DEF OfLog, InLog
<1> QED BY <1>3 DEF R

LEMMA ToldOfRange ==
  ASSUME NEW id, NEW S, NEW s \in Seq(S)
  PROVE  ToldOf(id, s) <=> \A f \in Range(s) : f.kind # "reply" => f.sub = id
<1>1. Range(s) = {s[k] : k \in 1..Len(s)} BY SeqFacts
<1> DEFINE R == Range(s)
<1> HIDE DEF R
<1>2. R = {s[k] : k \in 1..Len(s)} BY <1>1 DEF R
<1>3. ToldOf(id, s) <=> \A f \in R : f.kind # "reply" => f.sub = id BY <1>2 DEF ToldOf
<1> QED BY <1>3 DEF R

\* The lanes' heads, in the lanes' order, behind what the stream holds.
Pumps(c, d, a, b, e) ==
  /\ a \in Seq(Replies) /\ b \in Seq(Tellings) /\ e \in Seq(EventFrames) /\ d \in Channels
  /\ d.stream = c.stream \o a \o b \o e /\ d.subs = c.subs /\ d.failed = c.failed
  /\ Splits(c.high, a, d.high) /\ Splits(c.normal, b, d.normal) /\ Splits(c.low, e, d.low)
  /\ e # <<>> => d.normal = <<>>

\* What the four parts of the stream hold, and the lanes.
LEMMA PumpsRanges ==
  ASSUME NEW c \in Channels, NEW d, NEW a, NEW b, NEW e, Pumps(c, d, a, b, e)
  PROVE  /\ Range(d.stream) = Range(c.stream) \cup Range(a) \cup Range(b) \cup Range(e)
         /\ Range(c.high) = Range(a) \cup Range(d.high)
         /\ Range(c.normal) = Range(b) \cup Range(d.normal)
         /\ Range(c.low) = Range(e) \cup Range(d.low)
<1>1. a \in Seq(AnyFrames) /\ b \in Seq(AnyFrames) /\ e \in Seq(AnyFrames) /\ c.stream \in Seq(AnyFrames)
  BY DEF Pumps, Channels, AnyFrames, Tellings
<1> DEFINE x == c.stream \o a
           y == x \o b
           z == y \o e
<1>a. z = d.stream /\ z = y \o e /\ y = x \o b /\ x = c.stream \o a BY DEF Pumps
<1>b. x \in Seq(AnyFrames) /\ Splits(x, c.stream, a) BY <1>1, ConcatSplits
<1> HIDE DEF x
<1>c. y \in Seq(AnyFrames) /\ Splits(y, x, b) BY <1>1, <1>b, ConcatSplits
<1> HIDE DEF y
<1>d. z \in Seq(AnyFrames) /\ Splits(z, y, e) BY <1>1, <1>c, ConcatSplits
<1> HIDE DEF z
<1>e. Range(x) = Range(c.stream) \cup Range(a) BY <1>1, <1>b, SplitsRange
<1>f. Range(y) = Range(x) \cup Range(b) BY <1>1, <1>b, <1>c, SplitsRange
<1>g. Range(z) = Range(y) \cup Range(e) BY <1>1, <1>c, <1>d, SplitsRange
<1>8. Range(c.high) = Range(a) \cup Range(d.high) BY SplitsRange DEF Pumps, Channels
<1>9. Range(c.normal) = Range(b) \cup Range(d.normal) BY SplitsRange DEF Pumps, Channels
<1>10. Range(c.low) = Range(e) \cup Range(d.low) BY SplitsRange DEF Pumps, Channels
<1> QED BY <1>8, <1>9, <1>10, <1>a, <1>e, <1>f, <1>g, Zenon

LEMMA PumpsType ==
  ASSUME NEW l, NEW c, ChanType(l, c), NEW d, NEW a, NEW b, NEW e, Pumps(c, d, a, b, e)
  PROVE  /\ ChanType(l, d) /\ NoAnswers(c, d)
         /\ \A id : OneSub(id, c) => OneSub(id, d)
<1>1. c \in Channels /\ d \in Channels BY DEF ChanType, Pumps
<1>2. /\ Range(d.stream) = Range(c.stream) \cup Range(a) \cup Range(b) \cup Range(e)
      /\ Range(c.high) = Range(a) \cup Range(d.high)
      /\ Range(c.normal) = Range(b) \cup Range(d.normal)
      /\ Range(c.low) = Range(e) \cup Range(d.low)
  BY <1>1, PumpsRanges
<1>3. /\ c.stream \in Seq(AnyFrames) /\ c.normal \in Seq(Tellings) /\ c.low \in Seq(EventFrames)
      /\ d.stream \in Seq(AnyFrames) /\ d.normal \in Seq(Tellings) /\ d.low \in Seq(EventFrames)
      /\ a \in Seq(Replies) /\ b \in Seq(Tellings) /\ e \in Seq(EventFrames)
  BY <1>1 DEF Channels, Pumps
<1>4. Range(a) \subseteq Replies /\ Range(b) \subseteq Tellings /\ Range(e) \subseteq EventFrames
  BY <1>3, SeqFacts
<1>5. (\A f \in Replies : f.kind = "reply") /\ (\A f \in Tellings : f.kind # "reply" /\ f \notin Replies)
      /\ (\A f \in EventFrames : f.kind # "reply" /\ f \notin Replies)
  BY DEF Replies, Tellings, EventFrames, GapFrames
<1>6. OfLog(l, d.stream) /\ OfLog(l, d.normal) /\ OfLog(l, d.low)
  <2>1. (\A f \in Range(c.stream) : InLog(l, f)) /\ (\A f \in Range(c.normal) : InLog(l, f)) /\ (\A f \in Range(c.low) : InLog(l, f))
    BY <1>3, OfLogRange DEF ChanType
  <2>2. \A f \in Replies : InLog(l, f) BY <1>5 DEF InLog
  <2>3. (\A f \in Range(d.stream) : InLog(l, f)) /\ (\A f \in Range(d.normal) : InLog(l, f)) /\ (\A f \in Range(d.low) : InLog(l, f))
    BY <1>2, <1>4, <2>1, <2>2
  <2> QED BY <1>3, <2>3, OfLogRange
<1>7. \A k \in 1..Len(d.low) : ~Durable(l[d.low[k].n].type)
  <2>1. Range(d.low) \subseteq Range(c.low) BY <1>2
  <2>2. Range(d.low) = {d.low[k] : k \in 1..Len(d.low)} /\ Range(c.low) = {c.low[k] : k \in 1..Len(c.low)} BY <1>3, SeqFacts
  <2>3. \A f \in Range(c.low) : ~Durable(l[f.n].type) BY <2>2 DEF ChanType
  <2> QED BY <2>1, <2>2, <2>3
<1>8. NoAnswers(c, d) BY <1>2, <1>4, <1>5 DEF NoAnswers
<1>9. ASSUME NEW id, OneSub(id, c) PROVE OneSub(id, d)
  <2>1. /\ \A f \in Range(c.stream) : f.kind # "reply" => f.sub = id
        /\ \A f \in Range(c.normal) : f.kind # "reply" => f.sub = id
        /\ \A f \in Range(c.low) : f.kind # "reply" => f.sub = id
    BY <1>3, <1>9, ToldOfRange DEF OneSub
  <2>2. /\ \A f \in Range(d.stream) : f.kind # "reply" => f.sub = id
        /\ \A f \in Range(d.normal) : f.kind # "reply" => f.sub = id
        /\ \A f \in Range(d.low) : f.kind # "reply" => f.sub = id
    BY <1>2, <1>4, <1>5, <2>1
  <2>3. ToldOf(id, d.stream) /\ ToldOf(id, d.normal) /\ ToldOf(id, d.low) BY <1>3, <2>2, ToldOfRange
  <2> QED BY <1>9, <2>3 DEF OneSub, Pumps
<1> QED BY <1>1, <1>6, <1>7, <1>8, <1>9 DEF ChanType

LEMMA PumpsFlow ==
  ASSUME NEW l, NEW D, NEW C, NEW early, NEW c, ChanType(l, c), NEW d, NEW a, NEW b, NEW e, Pumps(c, d, a, b, e),
         Flow(l, D, C, early, c)
  PROVE  Flow(l, D, C, early, d)
<1> DEFINE E == Range(early)
           K == E \cup Range(c.stream)
           x == c.stream \o a
           y == x \o b
           z == y \o e
<1>1. c \in Channels /\ d \in Channels BY DEF ChanType, Pumps
<1>2. /\ Range(d.stream) = Range(c.stream) \cup Range(a) \cup Range(b) \cup Range(e)
      /\ Range(c.high) = Range(a) \cup Range(d.high)
      /\ Range(c.normal) = Range(b) \cup Range(d.normal)
      /\ Range(c.low) = Range(e) \cup Range(d.low)
  BY <1>1, PumpsRanges
<1>3. /\ c.stream \in Seq(AnyFrames) /\ c.normal \in Seq(Tellings) /\ c.low \in Seq(EventFrames)
      /\ d.normal \in Seq(Tellings) /\ d.low \in Seq(EventFrames)
      /\ a \in Seq(AnyFrames) /\ b \in Seq(AnyFrames) /\ e \in Seq(AnyFrames)
      /\ a \in Seq(Replies) /\ b \in Seq(Tellings) /\ e \in Seq(EventFrames)
  <2>1. /\ c.stream \in Seq(AnyFrames) /\ c.normal \in Seq(Tellings) /\ c.low \in Seq(EventFrames)
        /\ d.normal \in Seq(Tellings) /\ d.low \in Seq(EventFrames)
        /\ a \in Seq(Replies) /\ b \in Seq(Tellings) /\ e \in Seq(EventFrames)
    BY <1>1 DEF Channels, Pumps
  <2>2. Replies \subseteq AnyFrames /\ Tellings \subseteq AnyFrames /\ EventFrames \subseteq AnyFrames
    BY DEF AnyFrames, Tellings
  <2>3. Seq(Replies) \subseteq Seq(AnyFrames) /\ Seq(Tellings) \subseteq Seq(AnyFrames) /\ Seq(EventFrames) \subseteq Seq(AnyFrames)
    BY <2>2, SeqMonotonic
  <2>4. a \in Seq(AnyFrames) /\ b \in Seq(AnyFrames) /\ e \in Seq(AnyFrames) BY <2>1, <2>3, Zenon
  <2> QED BY <2>1, <2>4, Zenon
<1>4. /\ InOrder(l, D, C, {}, early) /\ InOrder(l, D, C, E, c.stream) /\ InOrder(l, D, C, K, c.normal)
      /\ InOrder(l, D, C, K \cup Range(c.normal), c.low)
      /\ c.subs # <<>> => Heard(l, D, C, K \cup Range(c.normal) \cup Range(c.low), Len(l) + 1)
  BY Zenon DEF Flow, FlowTo, Ahead, AheadOfLow, OnTheWay
<1>5. InOrder(l, D, C, K, b) /\ InOrder(l, D, C, K \cup Range(b), d.normal)
  <2>1. Splits(c.normal, b, d.normal) BY DEF Pumps
  <2> HIDE DEF K
  <2> QED BY <1>3, <1>4, <2>1, InOrderSplits
<1>6. /\ InOrder(l, D, C, K \cup Range(c.normal), e)
      /\ InOrder(l, D, C, (K \cup Range(c.normal)) \cup Range(e), d.low)
  <2> DEFINE L == K \cup Range(c.normal)
  <2>1. Splits(c.low, e, d.low) BY DEF Pumps
  <2>2. InOrder(l, D, C, L, c.low) BY <1>4
  <2> HIDE DEF L
  <2>3. InOrder(l, D, C, L, e) /\ InOrder(l, D, C, L \cup Range(e), d.low) BY <1>3, <2>1, <2>2, InOrderSplits
  <2> QED BY <2>3 DEF L
<1>7. \A X, Y, s : X \subseteq Y /\ InOrder(l, D, C, X, s) => InOrder(l, D, C, Y, s) BY SubsetIsWider, InOrderWider
<1>8. InOrder(l, D, C, K, a)
  <2>1. \A k \in 1..Len(a) : a[k] \in Replies BY <1>3
  <2>2. \A k \in 1..Len(a) : a[k].kind # "event" BY <2>1 DEF Replies
  <2> QED BY <2>2, InOrderQuiet
<1>a. z = d.stream /\ z = y \o e /\ y = x \o b /\ x = c.stream \o a BY DEF Pumps
<1>b. x \in Seq(AnyFrames) /\ Splits(x, c.stream, a) BY <1>3, ConcatSplits
<1> HIDE DEF x
<1>c. y \in Seq(AnyFrames) /\ Splits(y, x, b) BY <1>3, <1>b, ConcatSplits
<1> HIDE DEF y
<1>d. z \in Seq(AnyFrames) /\ Splits(z, y, e) BY <1>3, <1>c, ConcatSplits
<1> HIDE DEF z
<1>e. Range(x) = Range(c.stream) \cup Range(a) BY <1>3, <1>b, SplitsRange
<1>f. Range(y) = Range(x) \cup Range(b) BY <1>3, <1>b, <1>c, SplitsRange
<1>g. Range(z) = Range(y) \cup Range(e) BY <1>3, <1>c, <1>d, SplitsRange
<1>9. x \in Seq(AnyFrames) /\ Range(x) = Range(c.stream) \cup Range(a) /\ InOrder(l, D, C, E, x)
  <2>1. x \in Seq(AnyFrames) /\ Range(x) = Range(c.stream) \cup Range(a) BY <1>b, <1>e
  <2> HIDE DEF E
  <2>2. InOrder(l, D, C, E, c.stream \o a) BY <1>3, <1>4, <1>8, InOrderConcat DEF E
  <2> QED BY <1>a, <2>1, <2>2
<1>10. y \in Seq(AnyFrames) /\ Range(y) = Range(x) \cup Range(b) /\ InOrder(l, D, C, E, y)
  <2>1. y \in Seq(AnyFrames) /\ Range(y) = Range(x) \cup Range(b) BY <1>c, <1>f
  <2>2. K \subseteq E \cup Range(x) BY <1>9
  <2>3. InOrder(l, D, C, E \cup Range(x), b) BY <1>5, <1>7, <2>2
  <2> HIDE DEF E
  <2>4. InOrder(l, D, C, E, x \o b) BY <1>3, <1>9, <2>3, InOrderConcat
  <2> QED BY <1>a, <2>1, <2>4
<1>11. InOrder(l, D, C, E, z)
  <2>1. InOrder(l, D, C, E \cup Range(y), e)
    <3>1. CASE e = <<>> BY <3>1, InOrderEmpty
    <3>2. CASE e # <<>>
      <4>1. Range(d.normal) = {} BY <3>2, EmptyFrames DEF Pumps
      <4>2. K \cup Range(c.normal) \subseteq E \cup Range(y) BY <1>2, <1>9, <1>10, <4>1
      <4> HIDE DEF K
      <4> QED BY <1>6, <1>7, <4>2
    <3> QED BY <3>1, <3>2
  <2> HIDE DEF E
  <2>2. InOrder(l, D, C, E, y \o e) BY <1>3, <1>10, <2>1, InOrderConcat
  <2> QED BY <1>a, <2>2
<1> DEFINE A == E \cup Range(d.stream)
<1>12. InOrder(l, D, C, A, d.normal)
  <2>1. K \cup Range(b) \subseteq A BY <1>2
  <2> HIDE DEF K, A
  <2> QED BY <1>5, <1>7, <2>1
<1>13. InOrder(l, D, C, A \cup Range(d.normal), d.low)
  <2>1. (K \cup Range(c.normal)) \cup Range(e) \subseteq A \cup Range(d.normal) BY <1>2
  <2> HIDE DEF K, A
  <2> QED BY <1>6, <1>7, <2>1
<1>14. ASSUME d.subs # <<>> PROVE Heard(l, D, C, A \cup Range(d.normal) \cup Range(d.low), Len(l) + 1)
  <2>1. K \cup Range(c.normal) \cup Range(c.low) \subseteq A \cup Range(d.normal) \cup Range(d.low) BY <1>2
  <2>2. c.subs # <<>> BY <1>14 DEF Pumps
  <2> DEFINE X == K \cup Range(c.normal) \cup Range(c.low)
             Y == A \cup Range(d.normal) \cup Range(d.low)
             N == Len(l) + 1
  <2>3. Heard(l, D, C, X, N) BY <1>4, <2>2
  <2>4. X \subseteq Y BY <2>1
  <2> HIDE DEF X, Y, N
  <2>5. Heard(l, D, C, Y, N) BY <2>3, <2>4, SubsetIsWider, HeardWider
  <2> QED BY <2>5 DEF Y, N
<1>15. InOrder(l, D, C, E, d.stream) BY <1>11, <1>a
<1> QED BY <1>4, <1>12, <1>13, <1>14, <1>15, Zenon DEF Flow, FlowTo, Ahead, AheadOfLow, OnTheWay

\* What each lane keeps when the stream takes what it has room for.
LEMMA PumpsCount ==
  ASSUME NEW s \in Nat, NEW H \in Nat, NEW N \in Nat, NEW W \in Nat, NEW full \in Nat, NEW room \in Nat,
         NEW h \in Nat, NEW n \in Nat, NEW k \in Nat, room = full - s,
         h <= H, h < room => h = H, n <= N, h + n < room => n = N,
         k <= W, h + n + k <= room, h + n + k < room => k = W
  PROVE  /\ s + (h + n + k) + (H - h + (N - n) + (W - k)) = s + (H + N + W)
         /\ s + (h + n + k) <= full
         /\ h + n + k < room => H - h + (N - n) + (W - k) = 0 /\ s + (h + n + k) < full
         /\ k > 0 => n = N
OBVIOUS

LEMMA MinOfIs ==
  ASSUME NEW x \in Nat, NEW y \in Nat
  PROVE  MinOf(x, y) \in Nat /\ MinOf(x, y) <= x /\ MinOf(x, y) <= y /\ (MinOf(x, y) < x => MinOf(x, y) = y)
BY DEF MinOf

\* Of the three lanes, in their order.
Takings(room, H, N, W, h, n, k) ==
  /\ h \in Nat /\ h <= H /\ (h < room => h = H)
  /\ n \in Nat /\ n <= N /\ (h + n < room => n = N)
  /\ k \in Nat /\ k <= W /\ h + n + k <= room /\ (h + n + k < room => k = W)

Left(room, h, n, k, p, q) == (h + n < room => n < p) /\ (h + n + k < room => k < q) /\ h + n + k <= room

LEMMA RoomLeft ==
  ASSUME NEW room \in Nat, NEW h \in Nat, NEW n \in Nat, NEW k \in Nat, NEW p \in Nat, NEW q \in Nat,
         p = room - h, q = p - n, k <= q
  PROVE  Left(room, h, n, k, p, q)
BY DEF Left

LEMMA TakingsAre ==
  ASSUME NEW room \in Nat, NEW H \in Nat, NEW N \in Nat, NEW W \in Nat, NEW h, h = MinOf(room, H),
         NEW n, n = MinOf(room - h, N), NEW k, k = MinOf(room - h - n, W)
  PROVE  Takings(room, H, N, W, h, n, k)
<1>1. h \in Nat /\ h <= H /\ h <= room /\ (h < room => h = H) BY MinOfIs
<1> DEFINE p == room - h
<1>2. p \in Nat /\ p = room - h BY <1>1
<1>3. n = MinOf(p, N) OBVIOUS
<1> HIDE DEF p
<1>4. n \in Nat /\ n <= N /\ n <= p /\ (n < p => n = N) BY <1>2, <1>3, MinOfIs
<1> DEFINE q == p - n
<1>5. q \in Nat /\ q = p - n BY <1>2, <1>4
<1>6. k = MinOf(q, W) BY DEF p
<1> HIDE DEF q
<1>7. k \in Nat /\ k <= W /\ k <= q /\ (k < q => k = W) BY <1>5, <1>6, MinOfIs
<1>8. (h + n < room => n < p) /\ (h + n + k < room => k < q) /\ h + n + k <= room
  <2>1. h \in Nat /\ n \in Nat /\ k \in Nat /\ p \in Nat /\ q \in Nat BY <1>1, <1>2, <1>4, <1>5, <1>7
  <2>2. p = room - h /\ q = p - n /\ k <= q BY <1>2, <1>5, <1>7, Zenon
  <2>3. Left(room, h, n, k, p, q) BY <2>1, <2>2, RoomLeft
  <2> QED BY <2>3, Zenon DEF Left
<1> QED BY <1>1, <1>4, <1>7, <1>8, Zenon DEF Takings

\* What the drain moves leaves the channel within its budgets.
IsRoom(room, s) == room \in Nat /\ room = HighWater - s
Moved(s, H, N, W, room, h, n, k) ==
  /\ h \in 0..H /\ n \in 0..N /\ k \in 0..W
  /\ Weighs(s + (h + n + k), H - h, N - n, W - k, h + n + k >= room)
  /\ k > 0 => n = N

LEMMA PumpsWeigh ==
  ASSUME NEW s \in Nat, NEW H \in Nat, NEW N \in Nat, NEW W \in Nat, Weighs(s, H, N, W, TRUE),
         NEW room, IsRoom(room, s), NEW h, NEW n, NEW k, Takings(room, H, N, W, h, n, k)
  PROVE  Moved(s, H, N, W, room, h, n, k)
<1>a. room \in Nat /\ room = HighWater - s BY DEF IsRoom
<1>1. /\ h \in Nat /\ h <= H /\ (h < room => h = H)
      /\ n \in Nat /\ n <= N /\ (h + n < room => n = N)
      /\ k \in Nat /\ k <= W /\ h + n + k <= room /\ (h + n + k < room => k = W)
  BY Zenon DEF Takings
<1>2. HighWater \in Nat BY BudgetsAssumption
<1>3. /\ s + (h + n + k) + (H - h + (N - n) + (W - k)) = s + (H + N + W)
      /\ s + (h + n + k) <= HighWater
      /\ h + n + k < room => H - h + (N - n) + (W - k) = 0 /\ s + (h + n + k) < HighWater
      /\ k > 0 => n = N
  BY <1>1, <1>2, <1>a, PumpsCount
<1>4. W <= LowBudget /\ N <= NormalBudget /\ H <= HighBudget /\ s + (H + N + W) <= MaxQueue BY Zenon DEF Weighs
<1>5. LowBudget \in Nat /\ NormalBudget \in Nat /\ HighBudget \in Nat BY BudgetsAssumption
<1>6. W - k <= LowBudget /\ N - n <= NormalBudget /\ H - h <= HighBudget BY <1>1, <1>4, <1>5
<1>7. s + (h + n + k) + (H - h + (N - n) + (W - k)) <= MaxQueue BY <1>3, <1>4, Zenon
<1>8. ~(h + n + k >= room) => h + n + k < room BY <1>1, <1>a
<1>9. Weighs(s + (h + n + k), H - h, N - n, W - k, h + n + k >= room) BY <1>3, <1>6, <1>7, <1>8, Zenon DEF Weighs
<1>10. h \in 0..H /\ n \in 0..N /\ k \in 0..W BY <1>1
<1> QED BY <1>3, <1>9, <1>10, Zenon DEF Moved

Joined(z, x, a, b, e) == z = x \o a \o b \o e
Long(z, s, h, n, k) == Len(z) = s + (h + n + k)

LEMMA JoinedLength ==
  ASSUME NEW S, NEW x \in Seq(S), NEW a \in Seq(S), NEW b \in Seq(S), NEW e \in Seq(S), NEW z, Joined(z, x, a, b, e)
  PROVE  z \in Seq(S) /\ Long(z, Len(x), Len(a), Len(b), Len(e))
<1> DEFINE s == Len(x)
           h == Len(a)
           n == Len(b)
           k == Len(e)
<1>1. s \in Nat /\ h \in Nat /\ n \in Nat /\ k \in Nat OBVIOUS
<1>2. x \o a \o b \o e \in Seq(S) OBVIOUS
<1>3. Len(x \o a \o b \o e) = s + h + n + k OBVIOUS
<1> HIDE DEF s, h, n, k
<1>4. s + h + n + k = s + (h + n + k) BY <1>1
<1>5. z = x \o a \o b \o e BY DEF Joined
<1>6. Len(z) = s + (h + n + k) BY <1>3, <1>4, <1>5, Zenon
<1>7. z \in Seq(S) BY <1>2, <1>5, Zenon
<1>8. Long(z, s, h, n, k) BY <1>6, Zenon DEF Long
<1> QED BY <1>7, <1>8, Zenon DEF s, h, n, k

\* What the stream has room for, of each lane.
Room(c) == HighWater - Len(c.stream)
Highs(c) == MinOf(Room(c), Len(c.high))
Normals(c) == MinOf(Room(c) - Highs(c), Len(c.normal))
Lows(c) == MinOf(Room(c) - Highs(c) - Normals(c), Len(c.low))

LEMMA DrainPumps ==
  ASSUME Drain, ChanOK(log, chan)
  PROVE  Budgets(chan') /\ \E a, b, e : Pumps(chan, chan', a, b, e)
<1> DEFINE c == chan
           d == chan'
           s == Len(c.stream)
           H == Len(c.high)
           N == Len(c.normal)
           W == Len(c.low)
           h == Highs(c)
           n == Normals(c)
           k == Lows(c)
           blocks == h + n + k >= Room(c)
           a == SubSeq(c.high, 1, h)
           b == SubSeq(c.normal, 1, n)
           e == SubSeq(c.low, 1, k)
           high == SubSeq(c.high, h + 1, Len(c.high))
           normal == SubSeq(c.normal, n + 1, Len(c.normal))
           low == SubSeq(c.low, k + 1, Len(c.low))
<1>1. /\ c.blocked /\ ~c.failed /\ s < HighWater
      /\ d = [c EXCEPT !.stream = c.stream \o a \o b \o e, !.high = high, !.normal = normal, !.low = low, !.blocked = blocks]
  BY Zenon DEF Drain, Room, Highs, Normals, Lows
<1>2. /\ c \in Channels /\ c.stream \in Seq(AnyFrames) /\ c.high \in Seq(Replies) /\ c.normal \in Seq(Tellings)
      /\ c.low \in Seq(EventFrames) /\ c.blocked \in BOOLEAN
      /\ s \in Nat /\ H \in Nat /\ N \in Nat /\ W \in Nat /\ Weighs(s, H, N, W, c.blocked)
  BY ChanFacts
<1>3. Weighs(s, H, N, W, TRUE) BY <1>1, <1>2 DEF Weighs
<1>4. blocks \in BOOLEAN OBVIOUS
<1>5. /\ h \in 0..H /\ n \in 0..N /\ k \in 0..W
      /\ Weighs(s + (h + n + k), H - h, N - n, W - k, blocks)
      /\ k > 0 => n = N
  <2>1. Room(c) = HighWater - s /\ h = MinOf(Room(c), H) /\ n = MinOf(Room(c) - h, N) /\ k = MinOf(Room(c) - h - n, W)
    BY Zenon DEF Room, Highs, Normals, Lows
  <2> DEFINE r == Room(c)
  <2>2. r = HighWater - s /\ h = MinOf(r, H) /\ n = MinOf(r - h, N) /\ k = MinOf(r - h - n, W) BY <2>1, Zenon
  <2> HIDE DEF r, h, n, k, s, H, N, W
  <2>3. r \in Nat BY <1>1, <1>2, <2>2, BudgetsAssumption
  <2>4. Takings(r, H, N, W, h, n, k)
    <3> HIDE DEF c, d
    <3> QED BY <1>2, <2>2, <2>3, TakingsAre
  <2>5. IsRoom(r, s) BY <2>2, <2>3, Zenon DEF IsRoom
  <2>6. Moved(s, H, N, W, r, h, n, k)
    <3> HIDE DEF c, d
    <3>1. s \in Nat /\ H \in Nat /\ N \in Nat /\ W \in Nat /\ Weighs(s, H, N, W, TRUE) BY <1>2, <1>3
    <3> QED BY <2>4, <2>5, <3>1, PumpsWeigh
  <2> QED BY <2>6, Zenon DEF r, Moved
<1>b. /\ a = SubSeq(c.high, 1, h) /\ high = SubSeq(c.high, h + 1, Len(c.high)) /\ H = Len(c.high)
      /\ b = SubSeq(c.normal, 1, n) /\ normal = SubSeq(c.normal, n + 1, Len(c.normal)) /\ N = Len(c.normal)
      /\ e = SubSeq(c.low, 1, k) /\ low = SubSeq(c.low, k + 1, Len(c.low)) /\ W = Len(c.low)
      /\ s = Len(c.stream)
  OBVIOUS
<1> HIDE DEF h, n, k, blocks, s, H, N, W, a, b, e, high, normal, low
<1>6. a \in Seq(Replies) /\ high \in Seq(Replies) /\ Len(a) = h /\ Len(high) = H - h /\ Splits(c.high, a, high)
  <2> DEFINE v == c.high
  <2>1. v \in Seq(Replies) /\ H \in Nat /\ H = Len(v) /\ h \in 0..H BY <1>2, <1>5, <1>b
  <2>2. Cuts(v, h, a, high) BY <1>b, Zenon DEF Cuts
  <2> HIDE DEF v, c, d
  <2>3. Shares(Replies, a, high, h, H - h) /\ Splits(v, a, high) BY <2>1, <2>2, SplitAt
  <2> QED BY <2>1, <2>3, Zenon DEF v, Shares
<1>7. b \in Seq(Tellings) /\ normal \in Seq(Tellings) /\ Len(b) = n /\ Len(normal) = N - n /\ Splits(c.normal, b, normal)
  <2> DEFINE v == c.normal
  <2>1. v \in Seq(Tellings) /\ N \in Nat /\ N = Len(v) /\ n \in 0..N BY <1>2, <1>5, <1>b
  <2>2. Cuts(v, n, b, normal) BY <1>b, Zenon DEF Cuts
  <2> HIDE DEF v, c, d
  <2>3. Shares(Tellings, b, normal, n, N - n) /\ Splits(v, b, normal) BY <2>1, <2>2, SplitAt
  <2> QED BY <2>1, <2>3, Zenon DEF v, Shares
<1>8. e \in Seq(EventFrames) /\ low \in Seq(EventFrames) /\ Len(e) = k /\ Len(low) = W - k /\ Splits(c.low, e, low)
  <2> DEFINE v == c.low
  <2>1. v \in Seq(EventFrames) /\ W \in Nat /\ W = Len(v) /\ k \in 0..W BY <1>2, <1>5, <1>b
  <2>2. Cuts(v, k, e, low) BY <1>b, Zenon DEF Cuts
  <2> HIDE DEF v, c, d
  <2>3. Shares(EventFrames, e, low, k, W - k) /\ Splits(v, e, low) BY <2>1, <2>2, SplitAt
  <2> QED BY <2>1, <2>3, Zenon DEF v, Shares
<1>9. a \in Seq(AnyFrames) /\ b \in Seq(AnyFrames) /\ e \in Seq(AnyFrames) BY <1>6, <1>7, <1>8 DEF AnyFrames, Tellings
<1> DEFINE stream == c.stream \o a \o b \o e
<1>a. stream = c.stream \o a \o b \o e OBVIOUS
<1>10. stream \in Seq(AnyFrames) /\ Len(stream) = s + (h + n + k)
  <2>1. s = Len(c.stream) /\ h = Len(a) /\ n = Len(b) /\ k = Len(e) BY <1>6, <1>7, <1>8, <1>b
  <2>2. c.stream \in Seq(AnyFrames) BY <1>2
  <2>3. Joined(stream, c.stream, a, b, e) BY <1>a, Zenon DEF Joined
  <2> HIDE DEF c, d, stream
  <2>4. stream \in Seq(AnyFrames) /\ Long(stream, Len(c.stream), Len(a), Len(b), Len(e)) BY <1>9, <2>2, <2>3, JoinedLength
  <2>5. Long(stream, s, h, n, k) BY <2>1, <2>4, Zenon
  <2> QED BY <2>4, <2>5, Zenon DEF Long
<1>11. d = [c EXCEPT !.stream = stream, !.high = high, !.normal = normal, !.low = low, !.blocked = blocks] BY <1>1
<1> HIDE DEF stream, c, d
<1>12. /\ d \in Channels /\ d.stream = stream /\ d.high = high /\ d.normal = normal /\ d.low = low /\ d.blocked = blocks
       /\ d.failed = c.failed /\ d.subs = c.subs
  BY <1>2, <1>4, <1>6, <1>7, <1>8, <1>10, <1>11 DEF Channels
<1>13. Budgets(d)
  <2>1. Weighs(Len(d.stream), Len(d.high), Len(d.normal), Len(d.low), d.blocked)
    BY <1>5, <1>6, <1>7, <1>8, <1>10, <1>12, Zenon
  <2>2. ~d.failed BY <1>1, <1>12
  <2> QED BY <2>1, <2>2, BudgetsAre, Zenon
<1>14. ASSUME e # <<>> PROVE d.normal = <<>>
  <2>1. k \in Nat /\ k # 0
    <3>1. k \in Nat BY <1>2, <1>5
    <3>2. Len(e) # 0 BY <1>8, <1>14
    <3> QED BY <1>8, <3>1, <3>2
  <2>2. n = N BY <1>5, <2>1
  <2>3. Len(normal) = 0 BY <1>2, <1>7, <2>2
  <2> QED BY <1>7, <1>12, <2>3
<1>15. Pumps(c, d, a, b, e) BY <1>6, <1>7, <1>8, <1>12, <1>14, <1>a, Zenon DEF Pumps
<1> QED BY <1>13, <1>15 DEF c, d

LEMMA DrainKeeps ==
  ASSUME IInv, Drain
  PROVE  IInv'
<1> DEFINE t == Told
           c == chan
           d == chan'
<1>1. /\ log' = log /\ session' = session /\ asks' = asks /\ link' = link /\ client' = client /\ got' = got /\ cut' = cut
      /\ c.blocked /\ ~c.failed
  BY DEF Drain, history
<1>2. Told' = t BY <1>1, ToldSame
<1>3. Plain(log, session, c, t, asks, link) /\ Linked(log, c, t, asks, link) BY DEF IInv
<1>4. ChanOK(log, c) BY <1>3 DEF Plain
<1>5. Budgets(d) /\ \E a, b, e : Pumps(c, d, a, b, e) BY <1>4, DrainPumps
<1> HIDE DEF t, c, d
<1>6. PICK a, b, e : Pumps(c, d, a, b, e) BY <1>5
<1>7. ChanType(log, c) BY <1>4 DEF ChanOK
<1>8. ChanType(log, d) /\ NoAnswers(c, d) /\ \A id : OneSub(id, c) => OneSub(id, d) BY <1>6, <1>7, PumpsType
<1>9. ChanOK(log, d) BY <1>5, <1>8 DEF ChanOK
<1>10. ASSUME NEW D, NEW C, NEW early, Flow(log, D, C, early, c) PROVE Flow(log, D, C, early, d)
  BY <1>6, <1>7, <1>10, PumpsFlow
<1>11. ASSUME NoFrame(c) PROVE NoFrame(d)
  <2>1. c.stream = <<>> /\ c.high = <<>> /\ c.normal = <<>> /\ c.low = <<>> /\ c.subs = <<>> BY <1>11 DEF NoFrame
  <2>2. c \in Channels /\ d \in Channels BY <1>7, <1>8 DEF ChanType
  <2>3. /\ Range(d.stream) = Range(c.stream) \cup Range(a) \cup Range(b) \cup Range(e)
        /\ Range(c.high) = Range(a) \cup Range(d.high)
        /\ Range(c.normal) = Range(b) \cup Range(d.normal)
        /\ Range(c.low) = Range(e) \cup Range(d.low)
    BY <1>6, <2>2, PumpsRanges
  <2>4. Range(<<>>) = {} BY EmptyFrames
  <2>5. Range(d.stream) = {} /\ Range(d.high) = {} /\ Range(d.normal) = {} /\ Range(d.low) = {} BY <2>1, <2>3, <2>4
  <2>6. ASSUME NEW S, NEW x \in Seq(S), Range(x) = {} PROVE x = <<>>
    <3>1. Range(x) = {x[j] : j \in 1..Len(x)} BY SeqFacts
    <3>2. \A j \in 1..Len(x) : FALSE BY <2>6, <3>1
    <3>3. Len(x) \in Nat BY SeqFacts
    <3>4. Len(x) = 0
      <4> DEFINE n == Len(x)
      <4>1. n \in Nat /\ 1..n = {} BY <3>2, <3>3
      <4> HIDE DEF n
      <4>2. n = 0 BY <4>1
      <4> QED BY <4>2 DEF n
    <3> QED BY <3>4
  <2>7. d.stream = <<>> /\ d.high = <<>> /\ d.normal = <<>> /\ d.low = <<>> BY <2>2, <2>5, <2>6 DEF Channels
  <2> QED BY <1>6, <2>1, <2>7 DEF NoFrame, Pumps
<1>12. link = "up" => ~d.failed BY <1>3, <1>6 DEF Plain, Pumps
<1>13. Plain(log, session, d, t, asks, link) BY <1>3, <1>9, <1>11, <1>12 DEF Plain
<1>14. ASSUME t.client.state # "ended", link # "down" PROVE Connected(log, t, d, asks)
  <2>1. PICK id \in Nat : OneSub(id, c) /\ (Asked(id, t, c, asks) \/ Waits(log, id, t, c, asks) \/ Lives(log, id, t, c, asks))
    BY <1>3, <1>14 DEF Linked, Connected
  <2>2. OneSub(id, d) BY <1>8, <2>1
  <2>3. CASE Asked(id, t, c, asks)
    <3>1. Asked(id, t, d, asks) BY <1>11, <2>3 DEF Asked
    <3> QED BY <2>2, <3>1 DEF Connected
  <2>4. CASE Waits(log, id, t, c, asks)
    <3>1. ASSUME NEW r \in Replies, r \in Range(d.stream) \cup Range(d.high) \cup ({t.client.reply} \ {None})
          PROVE  ReplyFits(log, id, t, d, r)
      <4>1. r \in Range(c.stream) \cup Range(c.high) \cup ({t.client.reply} \ {None}) BY <1>8, <3>1 DEF NoAnswers
      <4>2. ReplyFits(log, id, t, c, r) BY <2>4, <4>1 DEF Waits
      <4> QED BY <1>10, <4>2 DEF ReplyFits
    <3>2. Waits(log, id, t, d, asks) BY <2>4, <3>1 DEF Waits
    <3> QED BY <2>2, <3>2 DEF Connected
  <2>5. CASE Lives(log, id, t, c, asks)
    <3>1. Lives(log, id, t, d, asks) BY <1>10, <2>5 DEF Lives
    <3> QED BY <2>2, <3>1 DEF Connected
  <2> QED BY <2>1, <2>3, <2>4, <2>5
<1>15. Linked(log, d, t, asks, link) BY <1>3, <1>14 DEF Linked
<1> QED BY <1>1, <1>2, <1>13, <1>15 DEF IInv, d

-----------------------------------------------------------------------------
(* The specification *)

LEMMA InitHolds ==
  ASSUME Init
  PROVE  IInv
<1> DEFINE t == Told
<1>1. /\ log = <<>> /\ session = [seq |-> 0, ring |-> <<>>, evicted |-> -1, lastMessage |-> -1]
      /\ chan = NoFrames /\ asks = <<>> /\ link = "down"
      /\ client = [state |-> "calling", cursor |-> 0, floor |-> None, server |-> None,
                   early |-> <<>>, pending |-> None, reply |-> None, timer |-> FALSE, requests |-> 0]
      /\ got = {} /\ cut = {}
  BY DEF Init
<1>2. t.client = client BY ToldIs
<1> HIDE DEF t
<1>3. <<>> \in Seq([i : Nat, type : Kinds]) /\ <<>> \in Seq(Entries) /\ <<>> \in Seq(Tellings) /\ <<>> \in Seq(Asks)
      /\ Len(<<>>) = 0 /\ DOMAIN <<>> = {}
  OBVIOUS
<1>4. LogOK(log) /\ log \in Logs BY <1>1, <1>3 DEF LogOK, Logs
<1>5. MaxTelemetry + ControlSlots \in Nat BY BudgetsAssumption
<1>6. RingOK(log, session)
  <2>1. /\ session \in [seq : Nat, ring : Seq(Entries), evicted : Int, lastMessage : Int]
        /\ session.seq = 0 /\ session.ring = <<>> /\ session.evicted = -1 /\ session.lastMessage = -1
    BY <1>1, <1>3
  <2> QED BY <1>1, <1>3, <1>5, <2>1 DEF RingOK
<1>7. ChanOK(log, chan) /\ NoFrame(chan) BY <1>1, <1>4, NoFramesOK
<1>8. client \in Clients BY <1>1, <1>3 DEF Clients
<1>9. ClientType(log, t)
  <2>1. OfLog(log, <<>>) BY EmptyFrames
  <2>2. /\ client.cursor = 0 /\ client.floor = None /\ client.server = None /\ client.early = <<>>
        /\ client.state = "calling"
    BY <1>1
  <2>3. Len(log) = 0 /\ 0 <= 0 BY <1>1, <1>3
  <2>4. client.cursor <= Len(log) BY <2>2, <2>3, Zenon
  <2>5. "calling" # "ended" OBVIOUS
  <2> QED BY <1>2, <1>8, <2>1, <2>2, <2>4, <2>5, ClientTypeIs, Zenon
<1>10. Plain(log, session, chan, t, asks, link) BY <1>1, <1>2, <1>3, <1>4, <1>6, <1>7, <1>9 DEF Plain
<1>11. Linked(log, chan, t, asks, link) BY <1>1, <1>3 DEF Linked, PassedOK
<1> QED BY <1>10, <1>11 DEF IInv, t

LEMMA StutterKeeps ==
  ASSUME IInv, UNCHANGED vars
  PROVE  IInv'
<1>1. /\ log' = log /\ session' = session /\ chan' = chan /\ asks' = asks /\ link' = link
      /\ client' = client /\ got' = got /\ cut' = cut
  BY DEF vars
<1>2. Told' = Told BY <1>1, ToldSame
<1> QED BY <1>1, <1>2 DEF IInv

\* The invariant is inductive while a restart loses nothing the session has
\* published.
LEMMA NextKeeps ==
  ASSUME Lossy = FALSE, IInv, [Next]_vars
  PROVE  IInv'
<1>1. CASE \E type \in Types : Publish(type) BY <1>1, PublishKeeps
<1>2. CASE Drain BY <1>2, DrainKeeps
<1>3. CASE WriteTimesOut BY <1>3, WriteTimesOutKeeps
<1>4. CASE Handle BY <1>4, HandleKeeps
<1>5. CASE Restart BY <1>5, RestartKeeps
<1>6. CASE Connect BY <1>6, ConnectKeeps
<1>7. CASE Receive BY <1>7, ReceiveKeeps
<1>8. CASE Resume BY <1>8, ResumeKeeps
<1>9. CASE TimeOut BY <1>9, TimeOutKeeps
<1>10. CASE Unsubscribe BY <1>10, UnsubscribeKeeps
<1>11. CASE Disconnect BY <1>11, DisconnectKeeps
<1>12. CASE UNCHANGED vars BY <1>12, StutterKeeps
<1> QED BY <1>1, <1>2, <1>3, <1>4, <1>5, <1>6, <1>7, <1>8, <1>9, <1>10, <1>11, <1>12 DEF Next

LEMMA IInvTypes ==
  ASSUME IInv
  PROVE  TypeOK
<1> DEFINE t == Told
<1>1. Plain(log, session, chan, t, asks, link) BY DEF IInv
<1>2. t.client = client BY ToldIs
<1> HIDE DEF t
<1>3. LogOK(log) /\ RingOK(log, session) /\ ChanOK(log, chan) /\ ClientType(log, t) /\ link \in {"down", "up", "closing"}
  BY <1>1 DEF Plain
<1>4. /\ Len(chan.low) <= LowBudget /\ Len(chan.normal) <= NormalBudget /\ Len(chan.high) <= HighBudget
      /\ Len(chan.stream) + Queued(chan) <= MaxQueue
  BY <1>3, Zenon DEF ChanOK, Budgets
<1>5. \A f \in Frames : f.kind \in {"event", "gap", "reply"}
  <2>1. /\ chan.stream \in Seq(AnyFrames) /\ chan.high \in Seq(Replies) /\ chan.normal \in Seq(Tellings)
        /\ chan.low \in Seq(EventFrames)
    BY <1>3, ChanFacts
  <2>2. /\ Range(chan.stream) \subseteq AnyFrames /\ Range(chan.high) \subseteq Replies
        /\ Range(chan.normal) \subseteq Tellings /\ Range(chan.low) \subseteq EventFrames
    BY <2>1, SeqFacts
  <2>3. Frames \subseteq AnyFrames BY <2>2 DEF Frames, AnyFrames, Tellings
  <2>4. \A f \in AnyFrames : f.kind \in {"event", "gap", "reply"}
    BY DEF AnyFrames, Tellings, Replies, EventFrames, GapFrames
  <2> QED BY <2>3, <2>4
<1>6. Len(log) \in Nat /\ session.seq = Len(log) BY <1>3 DEF LogOK, Logs, RingOK
<1>7. client \in Clients /\ client.cursor <= Len(log) /\ (client.floor # None => client.floor <= Len(log))
  BY <1>2, <1>3, ClientTypeIs
<1>8. client.state \in {"calling", "live", "ended"} /\ client.cursor \in Nat /\ client.floor \in Nat \cup {None}
  BY <1>7 DEF Clients
<1>9. client.cursor \in 0 .. session.seq /\ client.floor \in {None} \cup 0 .. session.seq BY <1>6, <1>7, <1>8
<1>10. /\ session.evicted < session.seq /\ session.lastMessage < session.seq
       /\ \A a, b \in DOMAIN session.ring : a < b => session.ring[a].i < session.ring[b].i
       /\ Len(session.ring) <= MaxTelemetry + ControlSlots
  BY <1>3 DEF RingOK
<1> QED BY <1>3, <1>4, <1>5, <1>8, <1>9, <1>10, Zenon DEF TypeOK

\* What the cursor of a live subscription passed is settled.
LEMMA PassedIsSettled ==
  ASSUME IInv, NEW n \in DOMAIN log, Passed(n)
  PROVE  /\ \/ n \in got \cup cut
            \/ Superseded(n)
            \/ client.floor # None /\ client.floor <= Sequence(n)
         /\ Durable(log[n].type) => n \in got \cup cut
<1> DEFINE t == Told
<1>1. Plain(log, session, chan, t, asks, link) /\ Linked(log, chan, t, asks, link) BY DEF IInv
<1>2. t.client = client /\ t.got = got /\ t.cut = cut BY ToldIs
<1> HIDE DEF t
<1>3. LogOK(log) /\ ClientType(log, t) BY <1>1 DEF Plain
<1>4. log[n].i = n - 1 /\ n \in Nat BY <1>3 DEF LogOK, Logs
<1>5. client.cursor \in Nat /\ client.floor \in Nat \cup {None} BY <1>2, <1>3, ClientTypeIs DEF Clients
<1>6. client.state = "live" /\ n <= client.cursor BY <1>4, <1>5 DEF Passed, Sequence
<1>7. PassedOK(log, t) BY <1>1, <1>2, <1>6 DEF Linked
<1>8. n \in Settled(log, t) /\ (Durable(log[n].type) => n \in got \cup cut) BY <1>2, <1>6, <1>7 DEF PassedOK
<1>9. n \in got \cup cut \/ Outdated(log, n) \/ (client.floor # None /\ client.floor < n) BY <1>2, <1>8 DEF Settled
<1>10. Outdated(log, n) => Superseded(n) BY DEF Outdated, Superseded
<1>11. client.floor # None /\ client.floor < n => client.floor <= Sequence(n)
  <2> SUFFICES ASSUME client.floor # None, client.floor < n PROVE client.floor <= Sequence(n) OBVIOUS
  <2>1. client.floor \in Nat BY <1>5
  <2> QED BY <1>4, <2>1 DEF Sequence
<1> QED BY <1>8, <1>9, <1>10, <1>11

\* Whatever interleaving of publishing, writing, draining, disconnecting and
\* resubscribing, the invariant holds (sessions.js, socket-flow.js and
\* socket-rpc.js together), unless a restart forgets published events.
THEOREM StreamInvariant ==
  ASSUME Lossy = FALSE
  PROVE  Spec => []IInv
<1>1. Init => IInv BY InitHolds
<1>2. IInv /\ [Next]_vars => IInv' BY NextKeeps
<1> QED BY <1>1, <1>2, PTL DEF Spec

\* No event the subscription's cursor has passed is lost for good in silence
\* (reportGaps, retractOvertaken, #deliver and #restoreSubscriptions).
THEOREM NothingIsLostForGood ==
  ASSUME Lossy = FALSE
  PROVE  Spec => []NothingLostForGood
<1>1. IInv => NothingLostForGood BY PassedIsSettled DEF NothingLostForGood
<1> QED BY <1>1, StreamInvariant, PTL

\* Within the budgets of the lanes and the ring, control events are never shed
\* in silence, whatever telemetry flooded them.
THEOREM ControlEventsAreDelivered ==
  ASSUME Lossy = FALSE
  PROVE  Spec => []ControlIsDelivered
<1>1. IInv => ControlIsDelivered BY IInvTypes, PassedIsSettled DEF ControlIsDelivered
<1> QED BY <1>1, StreamInvariant, PTL
=============================================================================
