-------------------------- MODULE SessionTurnProofs --------------------------
(***************************************************************************)
(* Proofs about SessionTurn, for any number of prompts, worker requests,   *)
(* provider processes and commands of Main.                                *)
(***************************************************************************)
EXTENDS SessionTurn, SequenceTheorems, FiniteSetTheorems, TLAPS

-----------------------------------------------------------------------------
(* The invariant *)

Crit == Queued(box.crit)
Main == Queued(box.main)

Prompting(n) == \E cmd \in Main \cup {box.run} : cmd.op = "prompt" /\ cmd.n = n

\* What each lane takes, and where a command that runs may be.
LanesOK ==
  /\ \A cmd \in Crit : cmd.at = "queued" /\ cmd.op \in {"turn_end", "turn_fail", "provider_exit", "update"}
  /\ \A cmd \in Crit : cmd.op = "update" => cmd.x \in Requests /\ cmd = Cmd("update", 0, cmd.x)
  /\ \A cmd \in Main : cmd.at = "queued" /\ cmd.op \in {"prompt", "restore", "config", "answer", "cancel", "close", "orphan"}
  /\ \A cmd \in Main \cup {box.run} :
       /\ cmd.op = "prompt" => cmd.n \in Turns
       /\ cmd.op \in {"prompt", "restore"} => cmd.x # "list"
       /\ cmd.op = "answer" => cmd.x \in Requests
  /\ \/ box.run = Free
     \/ box.run.at \in {"client", "resume", "attach"} /\ box.run.op \in {"prompt", "restore", "config"}
     \/ box.run.at \in {"ready", "answer"} /\ box.run.op \in {"prompt", "config"}
     \/ box.run.at = "operate" /\ box.run.op = "answer"
     \/ box.run.at = "closing" /\ box.run.op = "close"

\* The mailbox is closed with its session, and empty from then on.
ClosedTogether ==
  /\ box.closed <=> session.status = "closed"
  /\ ~session.here => box.closed
  /\ box.closed => box.run = Free /\ Crit = {} /\ Main = {}

\* One process at most is alive; a dead one holds nothing.
ProcessesOK ==
  /\ \A c, d \in Conns : conns[c].alive /\ conns[d].alive => c = d
  /\ \A c \in Conns : ~conns[c].alive => conns[c].queued = {} /\ conns[c].sent = {} /\ conns[c].held = {}
  /\ \A c \in Conns : conns[c].held # {} => conns[c].handler
  /\ \A c \in Conns : conns[c].queued \cap conns[c].sent = {}
  /\ \A c \in Conns : c > used.conns => ~conns[c].alive
  /\ session.client <= used.conns

\* The commands whose caller reserved the session.
Holds(cmd) == cmd.op \in {"prompt", "restore", "config"} /\ cmd.x # "list"

\* A request is announced once, and one command that holds the reservation waits.
OneOfEach(b) ==
  /\ \A i, j \in DOMAIN b.crit :
       b.crit[i].op = "update" /\ b.crit[j].op = "update" /\ b.crit[i].x = b.crit[j].x => i = j
  /\ \A i, j \in DOMAIN b.main : Holds(b.main[i]) /\ Holds(b.main[j]) => i = j

\* The reservation is one command's, and that command's caller found no turn;
\* none starts meanwhile.
OneHolder ==
  /\ Holds(box.run) => \A cmd \in Main : ~Holds(cmd)
  /\ \A cmd \in Main \cup {box.run} : Holds(cmd) => session.reserved = cmd.op

ReservationOK ==
  /\ session.reserved # "none" => session.status \notin Active \ {"restoring"}
  /\ session.reserved # "none" => \E cmd \in Main \cup {box.run} : Holds(cmd) /\ cmd.op = session.reserved

\* A restore finds no turn, and keeps its process.
RestoreOK ==
  /\ box.run.at = "client" => session.status \notin Active \cup {"closed"}
  /\ box.run.at \in {"resume", "attach"} =>
       session.status = "restoring" /\ box.run.c \in Conns /\ box.run.c <= used.conns

\* Active statuses and what will end them.
StatusOK ==
  /\ session.status \in Active \ {"restoring"} =>
       \/ box.run.at = "closing" \/ ExitQueued
       \/ /\ TurnLive
          /\ EndQueued(session.turn) \/ (ClientAlive /\ session.turn \in Unanswered(conns[session.client]))
  /\ session.status = "restoring" => box.run.at \in {"resume", "attach"}
  /\ TurnLive => session.status \in Active \ {"restoring"}
  /\ box.run.op = "prompt" /\ box.run.at \in {"ready", "answer"} => session.status \in {"idle", "error", "cancelled"}
  /\ box.run.at = "closing" => ~TurnLive /\ ~Gone

\* Nothing is known yet of a prompt that has not gone out.
Fresh(n) ==
  /\ n # session.turn /\ said[n] = "none"
  /\ \A c \in Conns : n \notin Unanswered(conns[c])
  /\ \A r \in Requests : inbox[r].turn # n

NumbersOK ==
  /\ \A cmd \in Main \cup {box.run} : cmd.op = "prompt" => cmd.n <= used.prompts /\ Fresh(cmd.n)
  /\ session.turn <= used.prompts
  /\ \A n \in Turns : n > used.prompts => Fresh(n)

AnswersOK ==
  /\ \A c \in Conns : \A n \in Unanswered(conns[c]) : said[n] = "none"
  /\ \A cmd \in Crit : cmd.op = "turn_end" =>
       cmd.n \in Turns /\ cmd.x \in {"end", "cancelled"} /\ (cmd.x = "end" => said[cmd.n] = "end")

TasksOK ==
  /\ \A n \in Turns : tasks[n] \in Open =>
       session.task = n /\ (Prompting(n) \/ (TurnLive /\ session.turn = n))
  /\ session.task # 0 => tasks[session.task] \in Open
  /\ \A n \in Turns : tasks[n] = "completed" => said[n] = "end"

\* A request whose announcement is queued is held by the process that asked, dead
\* or alive, unless a restore on that process has just failed.
AsksOK ==
  \A cmd \in Crit : cmd.op = "update" =>
    LET by == inbox[cmd.x].by
    IN /\ by \in Conns /\ by <= used.conns
       /\ conns[by].alive /\ cmd.x \notin conns[by].held => ~Busy /\ session.status \notin Active

RowsOK ==
  /\ box.run.at = "operate" => session.client # 0
  /\ (TurnLive /\ ~EndQueued(session.turn)) =>
       LET client == conns[session.client]
       IN /\ box.run.at # "operate" /\ session.status = "waiting_permission" =>
               WaitsForPermission(client) \/ Strays \cap (Permissions \cup Operations) # {}
          /\ box.run.at # "operate" /\ session.status = "waiting_input" =>
               WaitsForInput(client) \/ Strays \cap Questions # {}
          /\ \A r \in Requests \ Strays : inbox[r].status = "pending" /\ inbox[r].turn = session.turn =>
               r \in client.held \/ (box.run.at = "operate" /\ box.run.x = r)
  /\ Gone \/ box.run.at = "closing" => \A r \in Requests : inbox[r].status # "pending"

TurnInv ==
  /\ TypeOK /\ LanesOK /\ ClosedTogether /\ ProcessesOK /\ OneOfEach(box)
  /\ OneHolder /\ ReservationOK /\ RestoreOK /\ StatusOK
  /\ NumbersOK /\ AnswersOK /\ TasksOK /\ CancelIsHeard /\ AsksOK /\ RowsOK

-----------------------------------------------------------------------------
(* Constants and sequences *)

LEMMA TurnsAreNumbers ==
  /\ IsFiniteSet(Turns) /\ Turns \subseteq Nat /\ 0 \notin Turns
  /\ Cardinality(Turns) \in Nat /\ Turns = 1..Cardinality(Turns)
  /\ Conns = 1..MaxConns /\ MaxConns \in Nat \ {0}
PROOF
  <1>1. IsFiniteSet(Turns) /\ Turns = 1..Cardinality(Turns) /\ MaxConns \in Nat \ {0}
    BY SessionTurnAssumption DEF SessionTurnAssumption
  <1>2. Cardinality(Turns) \in Nat
    BY <1>1, FS_CardinalityType
  <1>3. \A n \in 1..Cardinality(Turns) : n \in Nat /\ n # 0
    BY <1>2
  <1> QED BY <1>1, <1>2, <1>3 DEF Conns

LEMMA AppendQueued ==
  ASSUME NEW S, NEW s \in Seq(S), NEW e \in S
  PROVE  Append(s, e) \in Seq(S) /\ Queued(Append(s, e)) = Queued(s) \cup {e}
PROOF
  <1>1. Append(s, e) \in Seq(S) /\ DOMAIN Append(s, e) = 1..Len(s) + 1 /\ DOMAIN s = 1..Len(s) /\ Len(s) \in Nat
    BY AppendProperties, LenProperties
  <1>2. \A i \in 1..Len(s) + 1 : Append(s, e)[i] = IF i = Len(s) + 1 THEN e ELSE s[i]
    BY <1>1, AppendProperties
  <1>3. 1..Len(s) + 1 = (1..Len(s)) \cup {Len(s) + 1}
    BY <1>1
  <1> QED BY <1>1, <1>2, <1>3 DEF Queued

LEMMA ConcatQueued ==
  ASSUME NEW S, NEW s \in Seq(S), NEW t \in Seq(S)
  PROVE  s \o t \in Seq(S) /\ Queued(s \o t) = Queued(s) \cup Queued(t)
PROOF
  <1>1. s \o t \in Seq(S) /\ DOMAIN (s \o t) = 1..Len(s) + Len(t) /\ DOMAIN s = 1..Len(s) /\ DOMAIN t = 1..Len(t)
        /\ Len(s) \in Nat /\ Len(t) \in Nat
    BY ConcatProperties, LenProperties
  <1>2. \A i \in 1..Len(s) + Len(t) : (s \o t)[i] = IF i <= Len(s) THEN s[i] ELSE t[i - Len(s)]
    BY ConcatProperties
  <1>3. \A i \in 1..Len(s) : i \in 1..Len(s) + Len(t) /\ (s \o t)[i] = s[i]
    BY <1>1, <1>2
  <1>4. \A i \in 1..Len(t) : i + Len(s) \in 1..Len(s) + Len(t) /\ (s \o t)[i + Len(s)] = t[i]
    BY <1>1, <1>2
  <1>5. Queued(s) \cup Queued(t) \subseteq Queued(s \o t)
    BY <1>1, <1>3, <1>4 DEF Queued
  <1>6. ASSUME NEW i \in DOMAIN (s \o t) PROVE (s \o t)[i] \in Queued(s) \cup Queued(t)
    <2>1. CASE i <= Len(s)
      BY <1>1, <1>2, <2>1 DEF Queued
    <2>2. CASE ~(i <= Len(s))
      <3>1. i - Len(s) \in 1..Len(t) /\ (s \o t)[i] = t[i - Len(s)]
        BY <1>1, <1>2, <2>2
      <3> QED BY <1>1, <3>1 DEF Queued
    <2> QED BY <2>1, <2>2
  <1> QED BY <1>1, <1>5, <1>6 DEF Queued

LEMMA TailQueued ==
  ASSUME NEW S, NEW s \in Seq(S), s # <<>>
  PROVE  /\ Tail(s) \in Seq(S) /\ Head(s) \in S
         /\ Queued(s) = Queued(Tail(s)) \cup {Head(s)}
         /\ DOMAIN Tail(s) = 1..Len(s) - 1 /\ DOMAIN s = 1..Len(s) /\ Len(s) \in Nat
         /\ \A i \in DOMAIN Tail(s) : i + 1 \in DOMAIN s /\ Tail(s)[i] = s[i + 1]
         /\ 1 \in DOMAIN s /\ s[1] = Head(s)
PROOF
  <1>1. /\ Tail(s) \in Seq(S) /\ Head(s) \in S /\ DOMAIN s = 1..Len(s) /\ Len(s) \in Nat
        /\ DOMAIN Tail(s) = 1..Len(s) - 1 /\ Len(s) # 0
    BY HeadTailProperties, LenProperties, EmptySeq
  <1>2. \A i \in 1..Len(s) - 1 : i + 1 \in DOMAIN s /\ Tail(s)[i] = s[i + 1]
    BY <1>1, HeadTailProperties
  <1>3. 1 \in DOMAIN s /\ s[1] = Head(s)
    BY <1>1
  <1>4. Queued(Tail(s)) \cup {Head(s)} \subseteq Queued(s)
    BY <1>1, <1>2, <1>3 DEF Queued
  <1>5. ASSUME NEW i \in DOMAIN s PROVE s[i] \in Queued(Tail(s)) \cup {Head(s)}
    <2>1. CASE i = 1
      BY <1>3, <2>1
    <2>2. CASE i # 1
      <3>1. i - 1 \in 1..Len(s) - 1 /\ Tail(s)[i - 1] = s[i]
        BY <1>1, <1>2, <2>2
      <3> QED BY <1>1, <3>1 DEF Queued
    <2> QED BY <2>1, <2>2
  <1> QED BY <1>1, <1>2, <1>3, <1>4, <1>5 DEF Queued

-----------------------------------------------------------------------------
(* Prompts in order: by induction on the set, in the form of a minimal       *)
(* counterexample, which WFMin gives for sets.                               *)

LEMMA MinimalSet ==
  ASSUME NEW S, IsFiniteSet(S), NEW Bad \in SUBSET (SUBSET S), Bad # {}
  PROVE  \E T \in Bad : \A x \in T : T \ {x} \notin Bad
PROOF
  <1>1. IsWellFoundedOn(StrictSubsetOrdering(S), SUBSET S)
    BY FS_StrictSubsetOrderingWellFounded, FS_FiniteSubsetsOfFinite
  <1>2. \E T \in Bad : \A U \in Bad : ~(<<U, T>> \in StrictSubsetOrdering(S))
    BY <1>1, WFMin
  <1>3. PICK T \in Bad : \A U \in Bad : ~(<<U, T>> \in StrictSubsetOrdering(S))
    BY <1>2
  <1>4. ASSUME NEW x \in T, T \ {x} \in Bad PROVE FALSE
    <2>1. <<T \ {x}, T>> \in (SUBSET S) \X (SUBSET S) /\ T \ {x} \subseteq T /\ T \ {x} # T
      OBVIOUS
    <2>2. <<T \ {x}, T>> \in StrictSubsetOrdering(S)
      BY <2>1 DEF StrictSubsetOrdering
    <2> QED BY <1>3, <1>4, <2>2
  <1> QED BY <1>4

LEMMA MaxExists ==
  ASSUME NEW S \in SUBSET Nat, IsFiniteSet(S), S # {}
  PROVE  \E m \in S : \A x \in S : x <= m
PROOF
  <1> DEFINE HasMax(T) == \E m \in T : \A x \in T : x <= m
             Bad == {T \in SUBSET S : T # {} /\ ~HasMax(T)}
  <1>1. SUFFICES Bad = {}
    OBVIOUS
  <1>2. SUFFICES ASSUME Bad # {} PROVE FALSE
    OBVIOUS
  <1>3. PICK T \in Bad : \A x \in T : T \ {x} \notin Bad
    <2>1. Bad \in SUBSET (SUBSET S)
      OBVIOUS
    <2> HIDE DEF Bad
    <2> QED BY <1>2, <2>1, MinimalSet
  <1>4. PICK x \in T : TRUE
    OBVIOUS
  <1>5. T \in SUBSET Nat /\ ~HasMax(T)
    OBVIOUS
  <1>6. CASE T \ {x} = {}
    BY <1>5, <1>6
  <1>7. CASE T \ {x} # {}
    <2>1. PICK m \in T \ {x} : \A y \in T \ {x} : y <= m
      BY <1>3, <1>7
    <2>2. CASE x <= m
      BY <1>5, <2>1, <2>2
    <2>3. CASE ~(x <= m)
      BY <1>5, <2>1, <2>3
    <2> QED BY <2>2, <2>3
  <1> QED BY <1>6, <1>7

Increasing(f) == \A i, j \in DOMAIN f : i < j => f[i] < f[j]

LEMMA OrderExists ==
  ASSUME NEW S \in SUBSET Nat, IsFiniteSet(S)
  PROVE  \E f \in [1..Cardinality(S) -> S] : Increasing(f)
PROOF
  <1> DEFINE Ordered(T) == \E f \in [1..Cardinality(T) -> T] : Increasing(f)
             Bad == {T \in SUBSET S : ~Ordered(T)}
  <1>1. SUFFICES ASSUME Bad # {} PROVE FALSE
    OBVIOUS
  <1>2. PICK T \in Bad : \A x \in T : T \ {x} \notin Bad
    <2>1. Bad \in SUBSET (SUBSET S)
      OBVIOUS
    <2> HIDE DEF Bad
    <2> QED BY <1>1, <2>1, MinimalSet
  <1>3. T \in SUBSET Nat /\ IsFiniteSet(T) /\ ~Ordered(T) /\ Cardinality(T) \in Nat
    BY FS_Subset, FS_CardinalityType
  <1>4. CASE T = {}
    <2>1. Cardinality(T) = 0
      BY <1>4, FS_EmptySet
    <2>2. [i \in 1..0 |-> 0] \in [1..0 -> T] /\ Increasing([i \in 1..0 |-> 0])
      BY DEF Increasing
    <2> QED BY <1>3, <2>1, <2>2
  <1>5. CASE T # {}
    <2>1. PICK m \in T : \A x \in T : x <= m
      BY <1>3, <1>5, MaxExists
    <2> DEFINE U == T \ {m}
               k == Cardinality(T)
    <2>2. Cardinality(U) = k - 1 /\ k - 1 \in Nat
      <3>1. IsFiniteSet(T \ {m}) /\ Cardinality(T \ {m}) = Cardinality(T) - 1
        BY <1>3, FS_RemoveElement
      <3>2. Cardinality(T \ {m}) \in Nat
        BY <3>1, FS_CardinalityType
      <3> QED BY <3>1, <3>2
    <2>3. PICK f \in [1..(k - 1) -> U] : Increasing(f)
      BY <1>2, <2>2
    <2> DEFINE g == [i \in 1..k |-> IF i = k THEN m ELSE f[i]]
    <2>4. g \in [1..k -> T]
      BY <1>3, <2>2, <2>3
    <2>5. ASSUME NEW i \in 1..k, NEW j \in 1..k, i < j PROVE g[i] < g[j]
      <3>1. i \in 1..(k - 1) /\ g[i] = f[i] /\ f[i] \in U
        BY <1>3, <2>2, <2>3, <2>5
      <3>2. CASE j = k
        <4>1. g[j] = m /\ f[i] \in Nat /\ m \in Nat /\ f[i] <= m /\ f[i] # m
          BY <1>3, <2>1, <3>1, <3>2
        <4> QED BY <3>1, <4>1
      <3>3. CASE j # k
        <4>1. j \in 1..(k - 1) /\ g[j] = f[j]
          BY <1>3, <2>2, <3>3
        <4> QED BY <2>3, <2>5, <3>1, <4>1 DEF Increasing
      <3> QED BY <3>2, <3>3
    <2>6. Increasing(g)
      BY <2>4, <2>5 DEF Increasing
    <2> QED BY <1>3, <2>4, <2>6
  <1> QED BY <1>4, <1>5

LEMMA InOrderEnumerates ==
  ASSUME NEW S \in SUBSET Nat, IsFiniteSet(S)
  PROVE  /\ InOrder(S) \in [1..Cardinality(S) -> S] /\ Cardinality(S) \in Nat
         /\ \A n \in S : \E i \in 1..Cardinality(S) : InOrder(S)[i] = n
PROOF
  <1> DEFINE f == InOrder(S)
             k == Cardinality(S)
  <1>1. f \in [1..k -> S] /\ \A i, j \in DOMAIN f : i < j => f[i] < f[j]
    BY OrderExists DEF Increasing, InOrder
  <1>2. k \in Nat
    BY FS_CardinalityType
  <1> HIDE DEF f
  <1>3. ASSUME NEW i \in 1..k, NEW j \in 1..k, f[i] = f[j] PROVE i = j
    <2>1. f[i] \in Nat /\ i \in Int /\ j \in Int
      <3>1. f[i] \in S
        BY <1>1
      <3>2. f[i] \in Nat
        BY <3>1
      <3>3. i \in Int /\ j \in Int
        BY <1>2
      <3> QED BY <3>2, <3>3
    <2>2. ~(i < j) /\ ~(j < i)
      BY <1>1, <1>3, <2>1
    <2> QED BY <2>1, <2>2
  <1> HIDE DEF k
  <1>4. f \in Injection(1..k, S)
    BY <1>1, <1>3 DEF Injection, IsInjective
  <1>5. IsFiniteSet(1..k) /\ Cardinality(1..k) = k
    BY <1>2, FS_Interval
  <1>6. f \in Surjection(1..k, S)
    BY <1>4, <1>5, FS_Injection DEF k
  <1>7. \A n \in S : \E i \in 1..k : f[i] = n
    BY <1>6 DEF Surjection
  <1> QED BY <1>1, <1>2, <1>7 DEF f, k

\* The outcomes of a set of prompts are one command each.
LEMMA OutcomesQueued ==
  ASSUME NEW ns \in SUBSET Turns, NEW op, NEW x, \A n \in Turns : Cmd(op, n, x) \in Commands
  PROVE  Outcomes(ns, op, x) \in Seq(Commands) /\ Queued(Outcomes(ns, op, x)) = {Cmd(op, n, x) : n \in ns}
PROOF
  <1>1. ns \in SUBSET Nat /\ IsFiniteSet(ns)
    <2>1. Turns \subseteq Nat /\ IsFiniteSet(Turns)
      BY TurnsAreNumbers
    <2> QED BY <2>1, FS_Subset
  <1> DEFINE f == InOrder(ns)
             k == Cardinality(ns)
  <1>2. f \in [1..k -> ns] /\ k \in Nat /\ \A n \in ns : \E i \in 1..k : f[i] = n
    BY <1>1, InOrderEnumerates
  <1> HIDE DEF f, k
  <1>3. Outcomes(ns, op, x) = [i \in 1..k |-> Cmd(op, f[i], x)]
    BY <1>2 DEF Outcomes, f
  <1> HIDE DEF Outcomes
  <1>4. Outcomes(ns, op, x) \in [1..k -> Commands]
    BY <1>2, <1>3
  <1>5. Outcomes(ns, op, x) \in Seq(Commands)
    BY <1>2, <1>4, IsASeq
  <1>6. Queued(Outcomes(ns, op, x)) = {Outcomes(ns, op, x)[i] : i \in 1..k}
    BY <1>3 DEF Queued
  <1>7. \A i \in 1..k : Outcomes(ns, op, x)[i] = Cmd(op, f[i], x) /\ f[i] \in ns
    BY <1>2, <1>3
  <1>8. {Outcomes(ns, op, x)[i] : i \in 1..k} = {Cmd(op, n, x) : n \in ns}
    BY <1>2, <1>7
  <1> QED BY <1>5, <1>6, <1>8

-----------------------------------------------------------------------------
(* The mailbox *)

CritOps == {"turn_end", "turn_fail", "provider_exit", "update"}
MainOps == {"prompt", "restore", "config", "answer", "cancel", "close", "orphan"}

Boxes == [run : Commands, crit : Seq(Commands), main : Seq(Commands), closed : BOOLEAN]

LEMMA BoxType ==
  ASSUME TypeOK PROVE box \in Boxes /\ box.crit \in Seq(Commands) /\ box.main \in Seq(Commands) /\ box.run \in Commands
PROOF
  BY DEF TypeOK, Boxes

LEMMA QueuedEmpty == Queued(<<>>) = {}
PROOF
  BY DEF Queued

LEMMA CmdType ==
  ASSUME NEW op \in {"free"} \cup CritOps \cup MainOps, NEW n \in Turns \cup {0},
         NEW x \in Requests \cup {None, "plain", "task", "set", "list", "end", "cancelled", "error"}
  PROVE  /\ Cmd(op, n, x) \in Commands
         /\ Cmd(op, n, x).op = op /\ Cmd(op, n, x).n = n /\ Cmd(op, n, x).x = x
         /\ Cmd(op, n, x).at = "queued" /\ Cmd(op, n, x).c = 0
PROOF
  BY DEF Cmd, Commands, CritOps, MainOps

LEMMA FreeFields == Free.op = "free" /\ Free.at = "queued" /\ Free.n = 0 /\ Free.x = None /\ Free \in Commands
PROOF
  <1>1. Free = Cmd("free", 0, None)
    BY DEF Free
  <1> QED BY <1>1, CmdType

\* Taking the first announcement or outcome of the worker.
LEMMA CritDone ==
  ASSUME TypeOK, LanesOK, ClosedTogether, OneOfEach(box), Cur.op \in CritOps
  PROVE  /\ box.run = Free /\ ~box.closed /\ session.status # "closed" /\ ~Gone /\ Cur \in Crit /\ Cur \in Commands
         /\ Done \in Boxes /\ OneOfEach(Done)
         /\ Done.run = Free /\ Done.closed = FALSE /\ Done.main = box.main
         /\ Crit = Queued(Done.crit) \cup {Cur}
         /\ \A cmd \in Queued(Done.crit) : cmd.op = "update" /\ Cur.op = "update" => cmd.x # Cur.x
PROOF
  <1>1. box \in Boxes /\ box.crit \in Seq(Commands) /\ box.main \in Seq(Commands)
    BY BoxType
  <1>2. ~Busy /\ box.crit # <<>> /\ Cur = Head(box.crit) /\ Done = [box EXCEPT !.crit = Tail(box.crit)]
    <2>1. ~Busy
      <3>1. SUFFICES ASSUME Busy PROVE FALSE
        OBVIOUS
      <3>2. Cur = box.run /\ box.run # Free
        BY <3>1 DEF Cur, Busy
      <3> QED BY <3>2 DEF LanesOK, CritOps
    <2>2. box.crit # <<>>
      <3>1. SUFFICES ASSUME box.crit = <<>> PROVE FALSE
        OBVIOUS
      <3>2. CASE box.main = <<>>
        <4>1. Cur = Free
          BY <2>1, <3>1, <3>2 DEF Cur
        <4> QED BY <4>1, FreeFields DEF CritOps
      <3>3. CASE box.main # <<>>
        <4>1. Cur = Head(box.main)
          BY <2>1, <3>1, <3>3 DEF Cur
        <4>2. Cur \in Main
          BY <1>1, <3>3, <4>1, TailQueued DEF Main
        <4> QED BY <4>2 DEF LanesOK, CritOps
      <3> QED BY <3>2, <3>3
    <2>3. Cur = Head(box.crit) /\ Done = [box EXCEPT !.crit = Tail(box.crit)]
      BY <2>1, <2>2 DEF Cur, Done
    <2> QED BY <2>1, <2>2, <2>3
  <1>3. box.run = Free /\ ~box.closed
    <2>1. Cur \in Crit
      BY <1>1, <1>2, TailQueued DEF Crit
    <2> QED BY <1>2, <2>1 DEF Busy, ClosedTogether
  <1>4. session.status # "closed" /\ ~Gone
    BY <1>3 DEF ClosedTogether, Gone
  <1>5. /\ Tail(box.crit) \in Seq(Commands) /\ Cur \in Commands
        /\ Queued(box.crit) = Queued(Tail(box.crit)) \cup {Cur}
        /\ DOMAIN Tail(box.crit) = 1..Len(box.crit) - 1 /\ Len(box.crit) \in Nat
        /\ \A i \in DOMAIN Tail(box.crit) : i + 1 \in DOMAIN box.crit /\ Tail(box.crit)[i] = box.crit[i + 1]
        /\ 1 \in DOMAIN box.crit /\ box.crit[1] = Cur
    BY <1>1, <1>2, TailQueued
  <1>6. Done \in Boxes /\ Done.run = Free /\ Done.closed = FALSE /\ Done.main = box.main /\ Done.crit = Tail(box.crit)
    BY <1>1, <1>2, <1>3, <1>5 DEF Boxes
  <1>7. OneOfEach(Done)
    <2>1. ASSUME NEW i \in DOMAIN Tail(box.crit), NEW j \in DOMAIN Tail(box.crit),
                 Tail(box.crit)[i].op = "update", Tail(box.crit)[j].op = "update", Tail(box.crit)[i].x = Tail(box.crit)[j].x
          PROVE  i = j
      <3>1. i + 1 = j + 1
        BY <1>5, <2>1 DEF OneOfEach
      <3>2. i \in Int /\ j \in Int
        BY <1>5
      <3> QED BY <3>1, <3>2
    <2> QED BY <1>6, <2>1 DEF OneOfEach
  <1>8. ASSUME NEW cmd \in Queued(Tail(box.crit)), cmd.op = "update", Cur.op = "update", cmd.x = Cur.x PROVE FALSE
    <2>1. PICK i \in DOMAIN Tail(box.crit) : cmd = Tail(box.crit)[i]
      BY DEF Queued
    <2>2. i + 1 = 1
      BY <1>5, <1>8, <2>1 DEF OneOfEach
    <2>3. i \in 1..Len(box.crit) - 1
      BY <1>5
    <2> QED BY <1>5, <2>2, <2>3
  <1> QED BY <1>3, <1>4, <1>5, <1>6, <1>7, <1>8 DEF Crit

\* Taking Main's first command, with the worker lane empty.
LEMMA MainTaken ==
  ASSUME TypeOK, LanesOK, ClosedTogether, OneOfEach(box), Cur.op \in MainOps, ~Busy
  PROVE  /\ box.run = Free /\ ~box.closed /\ box.crit = <<>> /\ Crit = {}
         /\ Cur \in Main /\ Cur \in Commands
         /\ Done \in Boxes /\ OneOfEach(Done)
         /\ Done.run = Free /\ Done.closed = FALSE /\ Done.crit = box.crit
         /\ Main = Queued(Done.main) \cup {Cur}
         /\ Holds(Cur) => \A cmd \in Queued(Done.main) : ~Holds(cmd)
PROOF
  <1>1. box \in Boxes /\ box.crit \in Seq(Commands) /\ box.main \in Seq(Commands)
    BY BoxType
  <1>2. box.crit = <<>> /\ box.main # <<>> /\ Cur = Head(box.main) /\ Done = [box EXCEPT !.main = Tail(box.main)]
    <2>1. box.crit = <<>>
      <3>1. SUFFICES ASSUME box.crit # <<>> PROVE FALSE
        OBVIOUS
      <3>2. Cur = Head(box.crit)
        BY <3>1 DEF Cur
      <3>3. Cur \in Crit
        BY <1>1, <3>1, <3>2, TailQueued DEF Crit
      <3> QED BY <3>3 DEF LanesOK, MainOps
    <2>2. box.main # <<>>
      <3>1. SUFFICES ASSUME box.main = <<>> PROVE FALSE
        OBVIOUS
      <3>2. Cur = Free
        BY <2>1, <3>1 DEF Cur
      <3> QED BY <3>2, FreeFields DEF MainOps
    <2>3. Cur = Head(box.main) /\ Done = [box EXCEPT !.main = Tail(box.main)]
      BY <2>1, <2>2 DEF Cur, Done
    <2> QED BY <2>1, <2>2, <2>3
  <1>3. box.run = Free /\ ~box.closed
    <2>1. Cur \in Main
      BY <1>1, <1>2, TailQueued DEF Main
    <2> QED BY <2>1 DEF Busy, ClosedTogether
  <1>5. /\ Tail(box.main) \in Seq(Commands) /\ Cur \in Commands
        /\ Queued(box.main) = Queued(Tail(box.main)) \cup {Cur}
        /\ DOMAIN Tail(box.main) = 1..Len(box.main) - 1 /\ Len(box.main) \in Nat
        /\ \A i \in DOMAIN Tail(box.main) : i + 1 \in DOMAIN box.main /\ Tail(box.main)[i] = box.main[i + 1]
        /\ 1 \in DOMAIN box.main /\ box.main[1] = Cur
    BY <1>1, <1>2, TailQueued
  <1>6. Done \in Boxes /\ Done.run = Free /\ Done.closed = FALSE /\ Done.crit = box.crit /\ Done.main = Tail(box.main)
    BY <1>1, <1>2, <1>3, <1>5 DEF Boxes
  <1>7. OneOfEach(Done)
    <2>1. ASSUME NEW i \in DOMAIN Tail(box.main), NEW j \in DOMAIN Tail(box.main),
                 Holds(Tail(box.main)[i]), Holds(Tail(box.main)[j])
          PROVE  i = j
      <3>1. i + 1 = j + 1
        BY <1>5, <2>1 DEF OneOfEach
      <3>2. i \in Int /\ j \in Int
        BY <1>5
      <3> QED BY <3>1, <3>2
    <2> QED BY <1>6, <2>1 DEF OneOfEach
  <1>8. ASSUME NEW cmd \in Queued(Tail(box.main)), Holds(cmd), Holds(Cur) PROVE FALSE
    <2>1. PICK i \in DOMAIN Tail(box.main) : cmd = Tail(box.main)[i]
      BY DEF Queued
    <2>2. i + 1 = 1
      BY <1>5, <1>8, <2>1 DEF OneOfEach
    <2>3. i \in 1..Len(box.main) - 1
      BY <1>5
    <2> QED BY <1>5, <2>2, <2>3
  <1> QED BY <1>2, <1>3, <1>5, <1>6, <1>7, <1>8, QueuedEmpty DEF Crit, Main

\* A command of Main that ends, or goes on at its next await.
LEMMA MainDone ==
  ASSUME TypeOK, LanesOK, ClosedTogether, OneOfEach(box), OneHolder, Cur.op \in MainOps
  PROVE  /\ ~box.closed /\ session.status # "closed" /\ ~Gone
         /\ Cur \in Main \cup {box.run} /\ Cur \in Commands
         /\ Done \in Boxes /\ OneOfEach(Done)
         /\ Done.run = Free /\ Done.closed = FALSE /\ Done.crit = box.crit
         /\ Queued(Done.main) \subseteq Main
         /\ Main \cup {box.run} \subseteq Queued(Done.main) \cup {Cur, Free}
         /\ Holds(Cur) => \A cmd \in Queued(Done.main) : ~Holds(cmd)
         /\ Cur.at = "queued" => box.run = Free /\ Crit = {}
         /\ Cur.at # "queued" => Busy /\ Cur = box.run
PROOF
  <1>1. CASE Busy
    <2>1. Cur = box.run /\ Done = [box EXCEPT !.run = Free] /\ box.run # Free
      BY <1>1 DEF Cur, Done, Busy
    <2>2. ~box.closed
      BY <2>1 DEF ClosedTogether
    <2>3. session.status # "closed" /\ ~Gone
      BY <2>2 DEF ClosedTogether, Gone
    <2>4. Done \in Boxes /\ Done.run = Free /\ Done.closed = FALSE /\ Done.crit = box.crit /\ Done.main = box.main
      BY <2>1, <2>2, BoxType, FreeFields DEF Boxes
    <2>5. OneOfEach(Done)
      BY <2>4 DEF OneOfEach
    <2>6. Cur.at # "queued"
      BY <2>1 DEF LanesOK
    <2> QED BY <1>1, <2>1, <2>2, <2>3, <2>4, <2>5, <2>6, BoxType DEF Main, OneHolder
  <1>2. CASE ~Busy
    <2>1. Cur.at = "queued"
      BY <1>2, MainTaken DEF LanesOK
    <2>2. ~Gone /\ session.status # "closed"
      BY <1>2, MainTaken DEF ClosedTogether, Gone
    <2> QED BY <1>2, <2>1, <2>2, MainTaken
  <1> QED BY <1>1, <1>2

Places == {"client", "resume", "attach", "ready", "answer", "operate", "closing"}

LEMMA MainAwaits ==
  ASSUME TypeOK, LanesOK, ClosedTogether, OneOfEach(box), OneHolder, Cur.op \in MainOps,
         NEW at \in Places, NEW c \in Conns \cup {0}
  PROVE  /\ Awaits(at, c) \in Boxes /\ OneOfEach(Awaits(at, c)) /\ Awaits(at, c).run # Free
         /\ Awaits(at, c).run.op = Cur.op /\ Awaits(at, c).run.n = Cur.n /\ Awaits(at, c).run.x = Cur.x
         /\ Awaits(at, c).run.at = at /\ Awaits(at, c).run.c = c
         /\ Awaits(at, c).closed = FALSE /\ Awaits(at, c).crit = box.crit /\ Awaits(at, c).main = Done.main
PROOF
  <1>1. Done \in Boxes /\ OneOfEach(Done) /\ Done.closed = FALSE /\ Done.crit = box.crit /\ Cur \in Commands
    BY MainDone
  <1> DEFINE b == Awaits(at, c)
             r == [Cur EXCEPT !.at = at, !.c = c]
  <1>2. r \in Commands /\ r.op = Cur.op /\ r.n = Cur.n /\ r.x = Cur.x /\ r.at = at /\ r.c = c
    BY <1>1, ZenonT(30) DEF Commands, Places
  <1>3. r # Free
    BY <1>2, FreeFields DEF MainOps
  <1>4. b = [Done EXCEPT !.run = r]
    BY DEF Awaits
  <1> HIDE DEF b, r
  <1>5. b \in Boxes /\ b.run = r /\ b.closed = FALSE /\ b.crit = box.crit /\ b.main = Done.main
    BY <1>1, <1>2, <1>4 DEF Boxes
  <1>6. OneOfEach(b)
    BY <1>1, <1>5 DEF OneOfEach
  <1> QED BY <1>2, <1>3, <1>5, <1>6 DEF b, r

LEMMA MainWaits ==
  ASSUME TypeOK, LanesOK, ClosedTogether, OneOfEach(box), OneHolder, Cur.op \in MainOps,
         NEW at \in Places, NEW c \in Conns \cup {0}, box' = Awaits(at, c)
  PROVE  /\ box' \in Boxes /\ OneOfEach(box)' /\ box'.run.op = Cur.op /\ box'.run.n = Cur.n /\ box'.run.x = Cur.x
         /\ box'.run.at = at /\ box'.run.c = c /\ box'.run # Free /\ box'.closed = FALSE
         /\ box'.crit = box.crit /\ box'.main = Done.main
PROOF
  <1>1. box' \in Boxes /\ box'.run # Free /\ box'.closed = FALSE
    BY MainAwaits
  <1>2. box'.run.op = Cur.op /\ box'.run.n = Cur.n /\ box'.run.x = Cur.x /\ box'.run.at = at /\ box'.run.c = c
    BY MainAwaits
  <1>3. box'.crit = box.crit /\ box'.main = Done.main
    BY MainAwaits
  <1>4. OneOfEach(Awaits(at, c))
    BY MainAwaits
  <1>5. OneOfEach(box)'
    BY <1>4 DEF OneOfEach
  <1> QED BY <1>1, <1>2, <1>3, <1>5

LEMMA MainSubmits ==
  ASSUME TypeOK, OneOfEach(box), NEW cmd \in Commands, Submit(cmd),
         Holds(cmd) => \A other \in Main : ~Holds(other)
  PROVE  /\ ~box.closed /\ box' \in Boxes /\ OneOfEach(box)'
         /\ box'.closed = FALSE /\ box'.run = box.run /\ Crit' = Crit /\ Main' = Main \cup {cmd}
PROOF
  <1>1. box \in Boxes /\ box.main \in Seq(Commands) /\ box' = [box EXCEPT !.main = Append(box.main, cmd)] /\ ~box.closed
    BY BoxType DEF Submit
  <1>2. Append(box.main, cmd) \in Seq(Commands) /\ Queued(Append(box.main, cmd)) = Queued(box.main) \cup {cmd}
    BY <1>1, AppendQueued
  <1>3. box' \in Boxes /\ box'.run = box.run /\ box'.crit = box.crit /\ box'.main = Append(box.main, cmd) /\ box'.closed = FALSE
    BY <1>1, <1>2 DEF Boxes
  <1>4. /\ DOMAIN Append(box.main, cmd) = 1..Len(box.main) + 1 /\ DOMAIN box.main = 1..Len(box.main) /\ Len(box.main) \in Nat
        /\ \A i \in 1..Len(box.main) + 1 : Append(box.main, cmd)[i] = IF i = Len(box.main) + 1 THEN cmd ELSE box.main[i]
    BY <1>1, AppendProperties, LenProperties
  <1>5. ASSUME NEW i \in 1..Len(box.main) + 1, NEW j \in 1..Len(box.main) + 1,
               Holds(Append(box.main, cmd)[i]), Holds(Append(box.main, cmd)[j])
        PROVE  i = j
    <2>1. CASE Holds(cmd)
      <3>1. \A k \in 1..Len(box.main) : ~Holds(box.main[k])
        BY <1>4, <2>1 DEF Main, Queued
      <3>2. ASSUME NEW k \in 1..Len(box.main) + 1, Holds(Append(box.main, cmd)[k]) PROVE k = Len(box.main) + 1
        <4>1. CASE k = Len(box.main) + 1 BY <4>1
        <4>2. CASE k # Len(box.main) + 1
          <5>1. k \in 1..Len(box.main) BY ONLY <1>4, <4>2
          <5>2. Append(box.main, cmd)[k] = box.main[k] BY ONLY <1>4, <4>2
          <5> QED BY ONLY <3>1, <3>2, <5>1, <5>2
        <4> QED BY <4>1, <4>2
      <3>3. i = Len(box.main) + 1 BY ONLY <1>5, <3>2, ZenonT(20)
      <3>4. j = Len(box.main) + 1 BY ONLY <1>5, <3>2, ZenonT(20)
      <3> QED BY ONLY <3>3, <3>4
    <2>2. CASE ~Holds(cmd)
      <3>1. \A k, l \in DOMAIN box.main : Holds(box.main[k]) /\ Holds(box.main[l]) => k = l BY DEF OneOfEach
      <3>2. ASSUME NEW k \in 1..Len(box.main) + 1, Holds(Append(box.main, cmd)[k])
            PROVE  k \in DOMAIN box.main /\ Holds(box.main[k])
        <4>1. k # Len(box.main) + 1 BY ONLY <1>4, <2>2, <3>2
        <4>2. Append(box.main, cmd)[k] = box.main[k] BY ONLY <1>4, <4>1
        <4>3. k \in DOMAIN box.main BY ONLY <1>4, <4>1
        <4> QED BY ONLY <3>2, <4>2, <4>3
      <3>3. i \in DOMAIN box.main /\ Holds(box.main[i]) BY ONLY <1>5, <3>2, ZenonT(20)
      <3>4. j \in DOMAIN box.main /\ Holds(box.main[j]) BY ONLY <1>5, <3>2, ZenonT(20)
      <3> QED BY ONLY <3>1, <3>3, <3>4
    <2> QED BY <2>1, <2>2
  <1>6. OneOfEach(box)'
    BY <1>3, <1>4, <1>5 DEF OneOfEach
  <1> QED BY <1>1, <1>2, <1>3, <1>6 DEF Crit, Main

\* Outcomes and an exit posted to a mailbox.
LEMMA BoxPosted ==
  ASSUME NEW b \in Boxes, OneOfEach(b), NEW cmds \in Seq(Commands), \A cmd \in Queued(cmds) : cmd.op # "update"
  PROVE  LET after == Posted(b, cmds)
         IN /\ after \in Boxes /\ OneOfEach(after)
            /\ after.run = b.run /\ after.main = b.main /\ after.closed = b.closed
            /\ Queued(after.crit) = Queued(b.crit) \cup (IF b.closed THEN {} ELSE Queued(cmds))
PROOF
  <1> DEFINE after == Posted(b, cmds)
  <1>1. CASE b.closed
    <2>1. after = b
      BY <1>1 DEF Posted
    <2> QED BY <1>1, <2>1
  <1>2. CASE ~b.closed
    <2>1. after = [b EXCEPT !.crit = b.crit \o cmds] /\ b.crit \in Seq(Commands)
      BY <1>2 DEF Posted, Boxes
    <2>2. b.crit \o cmds \in Seq(Commands) /\ Queued(b.crit \o cmds) = Queued(b.crit) \cup Queued(cmds)
      BY <2>1, ConcatQueued
    <2> HIDE DEF after
    <2>3. after \in Boxes /\ after.run = b.run /\ after.main = b.main /\ after.closed = b.closed /\ after.crit = b.crit \o cmds
      BY <2>1, <2>2 DEF Boxes
    <2>4. /\ DOMAIN (b.crit \o cmds) = 1..Len(b.crit) + Len(cmds) /\ DOMAIN b.crit = 1..Len(b.crit)
          /\ DOMAIN cmds = 1..Len(cmds) /\ Len(b.crit) \in Nat /\ Len(cmds) \in Nat
          /\ \A i \in 1..Len(b.crit) + Len(cmds) :
               (b.crit \o cmds)[i] = IF i <= Len(b.crit) THEN b.crit[i] ELSE cmds[i - Len(b.crit)]
      BY <2>1, ConcatProperties, LenProperties
    <2>5. ASSUME NEW i \in 1..Len(b.crit) + Len(cmds), (b.crit \o cmds)[i].op = "update"
          PROVE  i \in DOMAIN b.crit /\ (b.crit \o cmds)[i] = b.crit[i]
      <3>1. CASE i <= Len(b.crit)
        BY <2>4, <3>1
      <3>2. CASE ~(i <= Len(b.crit))
        <4>1. i - Len(b.crit) \in DOMAIN cmds /\ (b.crit \o cmds)[i] = cmds[i - Len(b.crit)]
          BY <2>4, <3>2
        <4>2. (b.crit \o cmds)[i] \in Queued(cmds)
          BY <4>1 DEF Queued
        <4> QED BY <2>5, <4>2
      <3> QED BY <3>1, <3>2
    <2>6. OneOfEach(after)
      BY <2>3, <2>4, <2>5 DEF OneOfEach
    <2> QED BY <1>2, <2>2, <2>3, <2>6 DEF after
  <1> QED BY <1>1, <1>2

\* A request's announcement posted, when there is none of it yet.
LEMMA CmdPosted ==
  ASSUME NEW b \in Boxes, OneOfEach(b), ~b.closed, NEW cmd \in Commands,
         \A other \in Queued(b.crit) : cmd.op = "update" /\ other.op = "update" => other.x # cmd.x
  PROVE  LET after == Posted(b, <<cmd>>)
         IN /\ after \in Boxes /\ OneOfEach(after)
            /\ after.run = b.run /\ after.main = b.main /\ after.closed = FALSE
            /\ Queued(after.crit) = Queued(b.crit) \cup {cmd}
PROOF
  <1> DEFINE after == Posted(b, <<cmd>>)
             longer == Append(b.crit, cmd)
  <1>1. b.crit \in Seq(Commands)
    BY DEF Boxes
  <1>2. b.crit \o <<cmd>> = longer
    BY <1>1, AppendIsConcat
  <1>3. after = [b EXCEPT !.crit = longer]
    BY <1>2 DEF Posted
  <1>4. longer \in Seq(Commands) /\ Queued(longer) = Queued(b.crit) \cup {cmd}
    BY <1>1, AppendQueued
  <1>5. /\ DOMAIN longer = 1..Len(b.crit) + 1 /\ DOMAIN b.crit = 1..Len(b.crit) /\ Len(b.crit) \in Nat
        /\ \A i \in 1..Len(b.crit) + 1 : longer[i] = IF i = Len(b.crit) + 1 THEN cmd ELSE b.crit[i]
    BY <1>1, AppendProperties, LenProperties
  <1> HIDE DEF after, longer
  <1>6. after \in Boxes /\ after.run = b.run /\ after.main = b.main /\ after.closed = FALSE /\ after.crit = longer
    BY <1>3, <1>4 DEF Boxes
  <1>7. \A i \in 1..Len(b.crit) : b.crit[i] \in Queued(b.crit)
    BY <1>5 DEF Queued
  <1>8. OneOfEach(after)
    <2>1. \A i, j \in DOMAIN after.main : Holds(after.main[i]) /\ Holds(after.main[j]) => i = j
      BY <1>6 DEF OneOfEach
    <2>2. ASSUME NEW i \in 1..Len(b.crit) + 1, NEW j \in 1..Len(b.crit) + 1,
                 longer[i].op = "update", longer[j].op = "update", longer[i].x = longer[j].x
          PROVE  i = j
      <3>1. CASE i = Len(b.crit) + 1 /\ j = Len(b.crit) + 1
        BY ONLY <3>1
      <3>2. CASE i # Len(b.crit) + 1 /\ j # Len(b.crit) + 1
        <4>1. i \in DOMAIN b.crit /\ j \in DOMAIN b.crit /\ longer[i] = b.crit[i] /\ longer[j] = b.crit[j]
          BY ONLY <1>5, <3>2
        <4> QED BY <2>2, <4>1 DEF OneOfEach
      <3>3. CASE i = Len(b.crit) + 1 /\ j # Len(b.crit) + 1
        <4>1. j \in 1..Len(b.crit) /\ longer[i] = cmd /\ longer[j] = b.crit[j]
          BY ONLY <1>5, <3>3
        <4> QED BY <1>7, <2>2, <4>1
      <3>4. CASE i # Len(b.crit) + 1 /\ j = Len(b.crit) + 1
        <4>1. i \in 1..Len(b.crit) /\ longer[j] = cmd /\ longer[i] = b.crit[i]
          BY ONLY <1>5, <3>4
        <4> QED BY <1>7, <2>2, <4>1
      <3> QED BY ONLY <3>1, <3>2, <3>3, <3>4
    <2>3. DOMAIN after.crit = 1..Len(b.crit) + 1 /\ after.crit = longer BY ONLY <1>5, <1>6
    <2> QED BY ONLY <2>1, <2>2, <2>3 DEF OneOfEach
  <1> QED BY <1>4, <1>6, <1>8 DEF after

\* The outcomes of several prompts posted.
LEMMA FailuresPosted ==
  ASSUME NEW b \in Boxes, OneOfEach(b), NEW ns \in SUBSET Turns
  PROVE  LET after == Posted(b, Outcomes(ns, "turn_fail", None))
         IN /\ after \in Boxes /\ OneOfEach(after)
            /\ after.run = b.run /\ after.main = b.main /\ after.closed = b.closed
            /\ Queued(after.crit) = Queued(b.crit) \cup (IF b.closed THEN {} ELSE {Cmd("turn_fail", n, None) : n \in ns})
PROOF
  <1> DEFINE ends == Outcomes(ns, "turn_fail", None)
             cmds == {Cmd("turn_fail", n, None) : n \in ns}
  <1>1. \A n \in Turns : Cmd("turn_fail", n, None) \in Commands /\ Cmd("turn_fail", n, None).op # "update"
    BY CmdType DEF CritOps
  <1>2. ends \in Seq(Commands) /\ Queued(ends) = cmds
    <2>1. \A n \in Turns : Cmd("turn_fail", n, None) \in Commands
      BY <1>1
    <2> QED BY <2>1, OutcomesQueued, Zenon
  <1>3. \A cmd \in cmds : cmd.op # "update"
    BY <1>1
  <1> HIDE DEF ends, cmds
  <1>4. /\ Posted(b, ends) \in Boxes /\ OneOfEach(Posted(b, ends))
        /\ Posted(b, ends).run = b.run /\ Posted(b, ends).main = b.main /\ Posted(b, ends).closed = b.closed
        /\ Queued(Posted(b, ends).crit) = Queued(b.crit) \cup (IF b.closed THEN {} ELSE cmds)
    BY <1>2, <1>3, BoxPosted
  <1> QED BY <1>4 DEF ends, cmds

LEMMA CancelledPosted ==
  ASSUME NEW b \in Boxes, OneOfEach(b), NEW ns \in SUBSET Turns
  PROVE  LET after == Posted(b, Outcomes(ns, "turn_end", "cancelled"))
         IN /\ after \in Boxes /\ OneOfEach(after)
            /\ after.run = b.run /\ after.main = b.main /\ after.closed = b.closed
            /\ Queued(after.crit) = Queued(b.crit) \cup (IF b.closed THEN {} ELSE {Cmd("turn_end", n, "cancelled") : n \in ns})
PROOF
  <1> DEFINE ends == Outcomes(ns, "turn_end", "cancelled")
             cmds == {Cmd("turn_end", n, "cancelled") : n \in ns}
  <1>1. \A n \in Turns : Cmd("turn_end", n, "cancelled") \in Commands /\ Cmd("turn_end", n, "cancelled").op # "update"
    BY CmdType DEF CritOps
  <1>2. ends \in Seq(Commands) /\ Queued(ends) = cmds
    <2>1. \A n \in Turns : Cmd("turn_end", n, "cancelled") \in Commands
      BY <1>1
    <2> QED BY <2>1, OutcomesQueued, Zenon
  <1>3. \A cmd \in cmds : cmd.op # "update"
    BY <1>1
  <1> HIDE DEF ends, cmds
  <1>4. /\ Posted(b, ends) \in Boxes /\ OneOfEach(Posted(b, ends))
        /\ Posted(b, ends).run = b.run /\ Posted(b, ends).main = b.main /\ Posted(b, ends).closed = b.closed
        /\ Queued(Posted(b, ends).crit) = Queued(b.crit) \cup (IF b.closed THEN {} ELSE cmds)
    BY <1>2, <1>3, BoxPosted
  <1> QED BY <1>4 DEF ends, cmds

Reports(c) ==
  (IF session.here /\ session.client = c THEN {Cmd("provider_exit", 0, None)} ELSE {})
    \cup {Cmd("turn_fail", n, None) : n \in Unanswered(conns[c])}

LEMMA ClientFields ==
  ASSUME NEW c \in Conns, TypeOK
  PROVE  /\ conns[c] \in Clients /\ conns[c].queued \in SUBSET Turns /\ conns[c].sent \in SUBSET Turns
         /\ conns[c].told \in SUBSET Turns /\ conns[c].held \in SUBSET Requests
         /\ Unanswered(conns[c]) \in SUBSET Turns /\ Retracted(conns[c]) \in SUBSET Turns
PROOF
  BY DEF TypeOK, Clients, Unanswered, Retracted

LEMMA ExitPosted ==
  ASSUME TypeOK, NEW b \in Boxes, OneOfEach(b), NEW c \in Conns
  PROVE  LET after == Posted(b, ExitReports(c))
         IN /\ after \in Boxes /\ OneOfEach(after)
            /\ after.run = b.run /\ after.main = b.main /\ after.closed = b.closed
            /\ Queued(after.crit) = Queued(b.crit) \cup (IF b.closed THEN {} ELSE Reports(c))
PROOF
  <1> DEFINE exit == IF session.here /\ session.client = c THEN <<Cmd("provider_exit", 0, None)>> ELSE <<>>
             ends == Outcomes(Unanswered(conns[c]), "turn_fail", None)
  <1>1. \A n \in Turns : Cmd("turn_fail", n, None) \in Commands /\ Cmd("turn_fail", n, None).op = "turn_fail"
    BY CmdType DEF CritOps
  <1>2. ends \in Seq(Commands) /\ Queued(ends) = {Cmd("turn_fail", n, None) : n \in Unanswered(conns[c])}
    <2>1. \A n \in Turns : Cmd("turn_fail", n, None) \in Commands
      BY <1>1
    <2>2. Unanswered(conns[c]) \in SUBSET Turns
      BY ClientFields
    <2> QED BY <2>1, <2>2, OutcomesQueued, Zenon
  <1>3. Cmd("provider_exit", 0, None) \in Commands /\ Cmd("provider_exit", 0, None).op = "provider_exit"
    BY CmdType DEF CritOps
  <1>4. exit \in Seq(Commands) /\ Queued(exit) = IF session.here /\ session.client = c THEN {Cmd("provider_exit", 0, None)} ELSE {}
    <2> DEFINE e == Cmd("provider_exit", 0, None)
    <2> HIDE DEF e
    <2>1. <<e>> \in Seq(Commands) /\ Queued(<<e>>) = {e}
      BY <1>3 DEF Queued, e
    <2>2. <<>> \in Seq(Commands) /\ Queued(<<>>) = {}
      BY QueuedEmpty
    <2> QED BY <2>1, <2>2 DEF e
  <1>5. ExitReports(c) = exit \o ends
    BY DEF ExitReports
  <1> HIDE DEF exit, ends
  <1>6. ExitReports(c) \in Seq(Commands) /\ Queued(ExitReports(c)) = Queued(exit) \cup Queued(ends)
    BY <1>2, <1>4, <1>5, ConcatQueued
  <1>7. Queued(ExitReports(c)) = Reports(c)
    BY <1>2, <1>4, <1>6 DEF Reports
  <1>8. \A cmd \in Reports(c) : cmd.op # "update"
    BY <1>1, <1>3, ClientFields DEF Reports
  <1> QED BY <1>6, <1>7, <1>8, BoxPosted

-----------------------------------------------------------------------------
(* The status machine *)

LEMMA MovedFacts ==
  ASSUME NEW s \in Statuses
  PROVE  /\ \A t \in Statuses : Moved(s, t) \in {s, t, "cancelled"} /\ (Moved(s, t) = "cancelled" => s # "closed" \/ t = "closed")
         /\ Moved(s, "closed") = "closed"
         /\ s # "closed" => Moved(s, "disconnected") = "disconnected"
         /\ s = "closed" => Moved(s, "disconnected") = "closed"
         /\ s \notin (Active \ {"restoring"}) \cup {"closed"} => Moved(s, "restoring") = "restoring"
         /\ s = "restoring" => Moved(s, "unavailable") = "unavailable" /\ Moved(s, "idle") = "idle"
         /\ s \in {"idle", "error", "cancelled"} => Moved(s, "running") = "running"
         /\ s \in {"running"} \cup Waiting => Moved(s, "running") = "running"
         /\ s = "cancelling" => Moved(s, "running") = "cancelling"
         /\ \A w \in Waiting : /\ s \in {"running"} \cup Waiting => Moved(s, w) = w
                               /\ s \notin {"running"} \cup Waiting => Moved(s, w) = s
         /\ s \in Active \ {"restoring"} =>
              /\ Moved(s, "cancelling") = "cancelling" /\ Moved(s, "cancelled") = "cancelled"
              /\ Moved(s, "error") = "error"
              /\ Moved(s, "idle") = IF s = "cancelling" THEN "cancelled" ELSE "idle"
PROOF
  <1>1. /\ Legal["idle"] = {"running", "restoring", "disconnected", "closed"}
        /\ Legal["running"] = Waiting \cup {"cancelling", "idle", "cancelled", "error", "disconnected", "closed"}
        /\ Legal["waiting_permission"] = {"running", "waiting_input", "cancelling", "idle", "cancelled", "error", "disconnected", "closed"}
        /\ Legal["waiting_input"] = {"running", "waiting_permission", "cancelling", "idle", "cancelled", "error", "disconnected", "closed"}
        /\ Legal["cancelling"] = {"cancelled", "error", "disconnected", "closed"}
        /\ Legal["restoring"] = {"idle", "unavailable", "disconnected", "closed"}
        /\ Legal["disconnected"] = {"restoring", "closed"}
        /\ Legal["unavailable"] = {"restoring", "disconnected", "closed"}
        /\ Legal["error"] = {"running", "restoring", "disconnected", "closed"}
        /\ Legal["cancelled"] = {"running", "restoring", "disconnected", "closed"}
        /\ Legal["closed"] = {}
    BY DEF Legal
  <1> HIDE DEF Legal
  <1>2. \/ s = "idle" \/ s = "running" \/ s = "waiting_permission" \/ s = "waiting_input" \/ s = "cancelling" \/ s = "restoring"
        \/ s = "disconnected" \/ s = "unavailable" \/ s = "error" \/ s = "cancelled" \/ s = "closed"
    BY DEF Statuses, Waiting
  <1>3. CASE s \in {"idle", "error", "cancelled", "disconnected", "unavailable"}
    BY <1>1, <1>3 DEF Moved, Statuses, Waiting, Active
  <1>4. CASE s = "running"
    BY <1>1, <1>4 DEF Moved, Statuses, Waiting, Active
  <1>5. CASE s \in {"waiting_permission", "waiting_input"}
    BY <1>1, <1>5 DEF Moved, Statuses, Waiting, Active
  <1>6. CASE s \in {"cancelling", "restoring", "closed"}
    BY <1>1, <1>6 DEF Moved, Statuses, Waiting, Active
  <1> QED BY <1>2, <1>3, <1>4, <1>5, <1>6

-----------------------------------------------------------------------------
(* Main's calls *)

\* What the rest of the invariant looks at.
CoreKept ==
  /\ session'.status = session.status /\ session'.here = session.here /\ session'.client = session.client
  /\ session'.turn = session.turn /\ session'.seal = session.seal
  /\ session'.cancelRequested = session.cancelRequested

Sessions == [status : Statuses, here : BOOLEAN, client : Conns \cup {0}, turn : Turns \cup {0},
             seal : Turns \cup {0}, reserved : {"none", "prompt", "restore", "config"},
             failures : 0..MaxRestoreFailures, cancelRequested : BOOLEAN,
             orphaned : {"no", "marked", "expired"}, orphanCancel : BOOLEAN,
             task : Turns \cup {0}, preparing : Turns \cup {0}]

LEMMA SessionType ==
  ASSUME TypeOK PROVE session \in Sessions /\ session.status \in Statuses
PROOF
  BY DEF TypeOK, Sessions

\* Steps that at most queue one of Main's commands other than a prompt.
LEMMA Asking ==
  ASSUME TurnInv, TypeOK', OneOfEach(box)', CoreKept, session'.task = session.task,
         UNCHANGED <<conns, tasks, inbox, said>>, used'.prompts = used.prompts, used'.conns = used.conns,
         Crit' = Crit, box'.run = box.run, box'.closed = box.closed,
         Main \subseteq Main', Main' # Main => ~box.closed,
         \A cmd \in Main' \ Main : /\ cmd.at = "queued" /\ cmd.op \in MainOps \ {"prompt"}
                                   /\ cmd.op = "restore" => cmd.x # "list"
                                   /\ cmd.op = "answer" => cmd.x \in Requests,
         \A cmd \in Main' \ Main : Holds(cmd) => session.reserved = "none" /\ session'.reserved = cmd.op,
         \/ session'.reserved = session.reserved
         \/ /\ session.reserved = "none" /\ session.status \notin Active \cup {"closed"}
            /\ \E cmd \in Main' : Holds(cmd) /\ cmd.op = session'.reserved
  PROVE  TurnInv'
PROOF
  <1>1. /\ LanesOK /\ ClosedTogether /\ ProcessesOK /\ OneOfEach(box)
        /\ OneHolder /\ ReservationOK /\ RestoreOK /\ StatusOK
        /\ NumbersOK /\ AnswersOK /\ TasksOK /\ CancelIsHeard /\ AsksOK /\ RowsOK
    BY DEF TurnInv
  <1>2. (Gone <=> Gone') /\ (TurnLive <=> TurnLive') /\ (ClientAlive <=> ClientAlive') /\ Strays' = Strays
    BY DEF CoreKept, Gone, TurnLive, ClientAlive, Strays
  <1>3. (ExitQueued <=> ExitQueued') /\ (EndQueued(session.turn) <=> EndQueued(session.turn)') /\ (Busy <=> Busy')
    BY DEF CoreKept, ExitQueued, EndQueued, Crit, Busy
  <1>4. LanesOK'
    BY <1>1 DEF LanesOK, MainOps
  <1>5. ClosedTogether'
    BY <1>1 DEF ClosedTogether, CoreKept
  <1>6. ProcessesOK'
    BY <1>1 DEF ProcessesOK, CoreKept
  <1>7. OneHolder'
    <2>1. \A cmd \in Main \cup {box.run} : Holds(cmd) => session.reserved = cmd.op /\ session.reserved # "none"
      BY <1>1 DEF OneHolder, Holds
    <2> QED BY <1>1, <2>1 DEF OneHolder
  <1>8. ReservationOK'
    BY <1>1 DEF ReservationOK, CoreKept
  <1>9. RestoreOK'
    BY <1>1 DEF RestoreOK, CoreKept
  <1>10. StatusOK'
    BY <1>1, <1>2, <1>3 DEF StatusOK, CoreKept
  <1>11. NumbersOK'
    BY <1>1 DEF NumbersOK, CoreKept, Fresh
  <1>12. AnswersOK'
    BY <1>1 DEF AnswersOK
  <1>13. TasksOK'
    BY <1>1, <1>2 DEF TasksOK, CoreKept, Prompting
  <1>14. CancelIsHeard'
    BY <1>1, <1>2 DEF CancelIsHeard, CoreKept
  <1>15. AsksOK'
    BY <1>1, <1>3 DEF AsksOK, CoreKept
  <1>16. RowsOK'
    BY <1>1, <1>2, <1>3 DEF RowsOK, CoreKept
  <1> QED BY <1>4, <1>5, <1>6, <1>7, <1>8, <1>9, <1>10, <1>11, <1>12, <1>13, <1>14, <1>15, <1>16 DEF TurnInv

Bounds == [prompts : Turns \cup {0}, conns : Conns, commands : 0..MaxCommands]
Rows == [status : {"none", "pending", "event", "refused", "answered", "interrupted", "removed"},
         turn : Turns \cup {0}, by : Conns \cup {0}]
TaskStates == Terminal \cup Open \cup {"none", "removed"}
Sayings == {"none", "end", "cancelled", "error"}

LEMMA TypeParts ==
  TypeOK <=> /\ session \in Sessions /\ session.seal \in {0, session.turn} /\ box \in Boxes /\ conns \in [Conns -> Clients]
             /\ tasks \in [Turns -> TaskStates]
             /\ inbox \in [Requests -> Rows]
             /\ present \in BOOLEAN
             /\ said \in [Turns -> Sayings]
             /\ used \in Bounds
PROOF
  BY DEF TypeOK, Sessions, Boxes, Bounds, Rows, TaskStates, Sayings

LEMMA InvParts ==
  TurnInv => /\ TypeOK /\ LanesOK /\ ClosedTogether /\ ProcessesOK /\ OneOfEach(box)
             /\ OneHolder /\ ReservationOK /\ RestoreOK /\ StatusOK
             /\ NumbersOK /\ AnswersOK /\ TasksOK /\ CancelIsHeard /\ AsksOK /\ RowsOK
PROOF
  BY DEF TurnInv

LEMMA TypeNext ==
  ASSUME session' \in Sessions, session'.seal \in {0, session'.turn}, box' \in Boxes, conns' \in [Conns -> Clients],
         tasks' \in [Turns -> TaskStates], inbox' \in [Requests -> Rows], present' \in BOOLEAN,
         said' \in [Turns -> Sayings], used' \in Bounds
  PROVE  TypeOK'
PROOF
  BY DEF TypeOK, Sessions, Boxes, Bounds, Rows, TaskStates, Sayings

LEMMA BareCmd ==
  \A op \in {"free"} \cup CritOps \cup MainOps :
    /\ Cmd(op, 0, None) \in Commands /\ Cmd(op, 0, None).op = op
    /\ Cmd(op, 0, None).at = "queued" /\ Cmd(op, 0, None).n = 0 /\ Cmd(op, 0, None).x = None
PROOF
  BY CmdType

LEMMA SpendType ==
  ASSUME TypeOK, Spend
  PROVE  used' \in Bounds /\ used'.prompts = used.prompts /\ used'.conns = used.conns
PROOF
  <1>1. MaxCommands \in Nat
    BY SessionTurnAssumption DEF SessionTurnAssumption
  <1>2. used \in Bounds /\ used.commands < MaxCommands /\ used' = [used EXCEPT !.commands = used.commands + 1]
    BY TypeParts DEF Spend
  <1>3. used.commands + 1 \in 0..MaxCommands
    BY <1>1, <1>2 DEF Bounds
  <1> QED BY <1>2, <1>3 DEF Bounds

\* Steps that look at the Main's presence only.
LEMMA PresenceOK ==
  ASSUME TurnInv, MainLeaves \/ MainReturns \/ GraceEnds PROVE TurnInv'
PROOF
  <1>1. TypeOK /\ OneOfEach(box) /\ session \in Sessions
    BY SessionType DEF TurnInv
  <1>2. UNCHANGED <<box, conns, tasks, inbox, said>>
    BY DEF MainLeaves, MainReturns, GraceEnds
  <1>3. used' \in Bounds /\ used'.prompts = used.prompts /\ used'.conns = used.conns /\ present' \in BOOLEAN
    BY <1>1, SpendType, TypeParts DEF MainLeaves, MainReturns, GraceEnds
  <1>4. \E v \in {"no", "marked", "expired"} : session' = [session EXCEPT !.orphaned = v]
    BY <1>1 DEF MainLeaves, MainReturns, GraceEnds, Sessions
  <1>5. session' \in Sessions /\ CoreKept /\ session'.task = session.task /\ session'.reserved = session.reserved
    BY <1>1, <1>4 DEF Sessions, CoreKept
  <1>6. TypeOK'
    BY <1>1, <1>2, <1>3, <1>5, TypeParts, TypeNext DEF CoreKept
  <1>7. OneOfEach(box)' /\ Crit' = Crit /\ Main' = Main /\ box'.run = box.run /\ box'.closed = box.closed
    BY <1>1, <1>2 DEF OneOfEach, Crit, Main
  <1>8. Main \subseteq Main' /\ (Main' # Main => ~box.closed) /\ Main' \ Main = {}
    BY <1>7
  <1> QED BY <1>2, <1>3, <1>5, <1>6, <1>7, <1>8, Asking

\* Queueing one of Main's commands.
LEMMA QueueingOK ==
  ASSUME TurnInv, NEW cmd \in Commands, Submit(cmd), cmd.at = "queued", cmd.op \in MainOps \ {"prompt"},
         cmd.op = "restore" => cmd.x # "list", cmd.op = "answer" => cmd.x \in Requests,
         UNCHANGED <<conns, tasks, inbox, present, said>>, UNCHANGED used \/ Spend,
         \/ UNCHANGED session /\ ~Holds(cmd)
         \/ MayStart /\ Holds(cmd) /\ session' = [session EXCEPT !.reserved = cmd.op]
  PROVE  TurnInv'
PROOF
  <1>11. Holds(cmd) => session.reserved = "none" /\ cmd.op \in {"restore", "config"}
    BY DEF Holds, MayStart
  <1>1. TypeOK /\ OneOfEach(box) /\ session \in Sessions
    BY SessionType DEF TurnInv
  <1>2. used' \in Bounds /\ used'.prompts = used.prompts /\ used'.conns = used.conns
    BY <1>1, SpendType, TypeParts
  <1>3. session' \in Sessions /\ CoreKept /\ session'.task = session.task
    BY <1>1, <1>11 DEF Sessions, CoreKept
  <1>4. \/ session'.reserved = session.reserved
        \/ /\ session.reserved = "none" /\ session.status \notin Active \cup {"closed"}
           /\ Holds(cmd) /\ cmd.op = session'.reserved
    BY <1>1 DEF Sessions, MayStart
  <1>5. /\ ~box.closed /\ box' \in Boxes /\ OneOfEach(box)'
        /\ box'.closed = FALSE /\ box'.run = box.run /\ Crit' = Crit /\ Main' = Main \cup {cmd}
    <2>1. Holds(cmd) => \A other \in Main : ~Holds(other)
      BY <1>11, InvParts DEF OneHolder, Holds
    <2> QED BY <1>1, <2>1, MainSubmits, Zenon
  <1>6. TypeOK'
    BY <1>1, <1>2, <1>3, <1>5, TypeParts, TypeNext DEF CoreKept
  <1>7. box'.closed = box.closed
    BY <1>1, <1>5, TypeParts DEF Boxes
  <1>8. /\ Main \subseteq Main' /\ (Main' # Main => ~box.closed) /\ cmd \in Main'
        /\ \A other \in Main' \ Main : other = cmd
    BY <1>5
  <1>9. \A other \in Main' \ Main :
          /\ other.at = "queued" /\ other.op \in MainOps \ {"prompt"}
          /\ other.op = "restore" => other.x # "list"
          /\ other.op = "answer" => other.x \in Requests
    BY <1>8
  <1>10. \/ session'.reserved = session.reserved
         \/ /\ session.reserved = "none" /\ session.status \notin Active \cup {"closed"}
            /\ \E other \in Main' : Holds(other) /\ other.op = session'.reserved
    BY <1>4, <1>8
  <1>12. \A other \in Main' \ Main : Holds(other) => session.reserved = "none" /\ session'.reserved = other.op
    BY <1>1, <1>8, <1>11 DEF Sessions
  <1> QED BY <1>2, <1>3, <1>5, <1>6, <1>7, <1>8, <1>9, <1>10, <1>12, Asking, Zenon

LEMMA MainAsksOK ==
  ASSUME TurnInv,
         \/ Restores
         \/ \E action \in {"set", "list"} : Configures(action)
         \/ \E r \in Requests : Answers(r)
         \/ \E k \in Turns \cup {0} : Cancels(k) /\ ~(k # 0 /\ session.preparing = k)
         \/ Closes /\ session.status # "closed"
         \/ SweepsOrphan
  PROVE  TurnInv'
PROOF
  <1>1. CASE Restores
    <2> DEFINE cmd == Cmd("restore", 0, None)
    <2>2. cmd \in Commands /\ cmd.op = "restore" /\ cmd.at = "queued" /\ cmd.x = None /\ None # "list"
      BY CmdType, SessionTurnAssumption DEF MainOps, SessionTurnAssumption
    <2>3. /\ Submit(cmd) /\ UNCHANGED <<conns, tasks, inbox, present, said>> /\ Spend
          /\ MayStart /\ session' = [session EXCEPT !.reserved = "restore"]
      BY <1>1 DEF Restores
    <2> HIDE DEF cmd
    <2> QED BY <2>2, <2>3, QueueingOK DEF MainOps, Holds
  <1>2. CASE \E action \in {"set", "list"} : Configures(action)
    <2>1. PICK action \in {"set", "list"} : Configures(action)
      BY <1>2
    <2> DEFINE cmd == Cmd("config", 0, action)
    <2>2. cmd \in Commands /\ cmd.op = "config" /\ cmd.at = "queued" /\ cmd.x = action
      BY CmdType DEF MainOps
    <2>3. /\ Submit(cmd) /\ UNCHANGED <<conns, tasks, inbox, present, said>> /\ Spend
          /\ \/ UNCHANGED session /\ action = "list"
             \/ MayStart /\ action # "list" /\ session' = [session EXCEPT !.reserved = "config"]
      BY <2>1 DEF Configures
    <2> HIDE DEF cmd
    <2>4. \/ UNCHANGED session /\ ~Holds(cmd)
          \/ MayStart /\ Holds(cmd) /\ session' = [session EXCEPT !.reserved = cmd.op]
      BY <2>2, <2>3 DEF Holds
    <2>5. cmd.op \in MainOps \ {"prompt"} /\ cmd.op # "restore" /\ cmd.op # "answer"
      BY <2>2 DEF MainOps
    <2> QED BY ONLY <2>2, <2>3, <2>4, <2>5, QueueingOK, TurnInv
  <1>3. CASE \E r \in Requests : Answers(r)
    <2>1. PICK r \in Requests : Answers(r)
      BY <1>3
    <2> DEFINE cmd == Cmd("answer", 0, r)
    <2>2. cmd \in Commands /\ cmd.op = "answer" /\ cmd.at = "queued" /\ cmd.x = r
      BY CmdType DEF MainOps
    <2>3. /\ Submit(cmd) /\ UNCHANGED <<conns, tasks, inbox, present, said>> /\ (UNCHANGED used \/ Spend)
          /\ UNCHANGED session
      BY <2>1 DEF Answers
    <2> HIDE DEF cmd
    <2> QED BY <2>2, <2>3, QueueingOK DEF MainOps, Holds
  <1>4. CASE \E k \in Turns \cup {0} : Cancels(k) /\ ~(k # 0 /\ session.preparing = k)
    <2>1. PICK k \in Turns \cup {0} : Cancels(k) /\ ~(k # 0 /\ session.preparing = k)
      BY <1>4
    <2> DEFINE cmd == Cmd("cancel", k, None)
    <2>2. cmd \in Commands /\ cmd.op = "cancel" /\ cmd.at = "queued" /\ cmd.x = None
      BY CmdType DEF MainOps
    <2>3. /\ Submit(cmd) /\ UNCHANGED <<conns, tasks, inbox, present, said>> /\ (UNCHANGED used \/ Spend)
          /\ UNCHANGED session
      BY <2>1 DEF Cancels
    <2> HIDE DEF cmd
    <2> QED BY <2>2, <2>3, QueueingOK DEF MainOps, Holds
  <1>5. CASE Closes /\ session.status # "closed"
    <2> DEFINE cmd == Cmd("close", 0, None)
    <2>2. cmd \in Commands /\ cmd.op = "close" /\ cmd.at = "queued" /\ cmd.x = None
      BY BareCmd DEF MainOps
    <2>3. /\ Submit(cmd) /\ UNCHANGED <<conns, tasks, inbox, present, said>> /\ (UNCHANGED used \/ Spend)
          /\ UNCHANGED session
      BY <1>5 DEF Closes
    <2> HIDE DEF cmd
    <2> QED BY <2>2, <2>3, QueueingOK DEF MainOps, Holds
  <1>6. CASE SweepsOrphan
    <2> DEFINE cmd == Cmd("orphan", 0, None)
    <2>2. cmd \in Commands /\ cmd.op = "orphan" /\ cmd.at = "queued" /\ cmd.x = None
      BY BareCmd DEF MainOps
    <2>3. /\ Submit(cmd) /\ UNCHANGED <<conns, tasks, inbox, present, said>> /\ (UNCHANGED used \/ Spend)
          /\ UNCHANGED session
      BY <1>6 DEF SweepsOrphan
    <2> HIDE DEF cmd
    <2> QED BY <2>2, <2>3, QueueingOK DEF MainOps, Holds
  <1> QED BY <1>1, <1>2, <1>3, <1>4, <1>5, <1>6

\* A session that may start something has no turn, no prompt and no task.
LEMMA NothingRuns ==
  ASSUME TurnInv, MayStart
  PROVE  /\ ~TurnLive /\ (\A cmd \in Main \cup {box.run} : ~Holds(cmd) /\ cmd.op # "prompt")
         /\ session.task = 0 /\ (\A n \in Turns : tasks[n] \notin Open)
PROOF
  <1>1. ~TurnLive
    BY InvParts DEF StatusOK, MayStart
  <1>2. \A cmd \in Main \cup {box.run} : ~Holds(cmd) /\ cmd.op # "prompt"
    BY InvParts DEF OneHolder, MayStart, Holds, LanesOK
  <1>3. \A n \in Turns : tasks[n] \notin Open
    BY <1>1, <1>2, InvParts DEF TasksOK, Prompting
  <1>4. session.task = 0
    BY <1>3, InvParts, SessionType DEF TasksOK, Sessions
  <1> QED BY <1>1, <1>2, <1>3, <1>4

LEMMA PromptsOK ==
  ASSUME TurnInv, NEW kind \in Kinds, Prompts(kind) PROVE TurnInv'
PROOF
  <1> DEFINE n == used.prompts + 1
             cmd == Cmd("prompt", n, kind)
  <1>1. /\ TypeOK /\ LanesOK /\ ClosedTogether /\ ProcessesOK /\ OneOfEach(box)
        /\ OneHolder /\ ReservationOK /\ RestoreOK /\ StatusOK
        /\ NumbersOK /\ AnswersOK /\ TasksOK /\ CancelIsHeard /\ AsksOK /\ RowsOK
    BY InvParts
  <1>2. kind \in {"plain", "task"} /\ kind # "list"
    BY SessionTurnAssumption DEF SessionTurnAssumption
  <1>3. /\ session \in Sessions /\ used \in Bounds /\ tasks \in [Turns -> TaskStates]
    BY <1>1, TypeParts
  <1>4. /\ n \in Turns /\ MayStart /\ Submit(cmd) /\ UNCHANGED <<conns, inbox, present, said>>
        /\ used' = [used EXCEPT !.prompts = n]
        /\ tasks' = IF kind = "task" THEN [tasks EXCEPT ![n] = "working"] ELSE tasks
        /\ \E p \in {n, session.preparing} :
             session' = [session EXCEPT !.reserved = "prompt", !.task = IF kind = "task" THEN n ELSE session.task, !.preparing = p]
    BY <1>3 DEF Prompts, Sessions
  <1>5. n \in Nat /\ used.prompts \in Nat /\ n = used.prompts + 1
    BY <1>3, <1>4, TurnsAreNumbers DEF Bounds
  <1>6. cmd \in Commands /\ cmd.op = "prompt" /\ cmd.n = n /\ cmd.x = kind /\ cmd.at = "queued"
    BY <1>2, <1>4, CmdType DEF MainOps
  <1> HIDE DEF cmd, n
  <1>7. /\ CoreKept /\ session'.reserved = "prompt" /\ session'.task = (IF kind = "task" THEN n ELSE session.task)
        /\ session' \in Sessions
    <2>1. PICK p \in {n, session.preparing} :
            session' = [session EXCEPT !.reserved = "prompt", !.task = IF kind = "task" THEN n ELSE session.task, !.preparing = p]
      BY <1>4
    <2>2. p \in Turns \cup {0} /\ n \in Turns \cup {0}
      BY <1>3, <1>4, <2>1 DEF Sessions
    <2> QED BY <1>3, <2>1, <2>2, ZenonT(30) DEF Sessions, CoreKept
  <1>8. used' \in Bounds /\ used'.prompts = n /\ used'.conns = used.conns
    BY <1>3, <1>4 DEF Bounds
  <1>9. tasks' \in [Turns -> TaskStates] /\ (\A m \in Turns : tasks'[m] = IF m = n /\ kind = "task" THEN "working" ELSE tasks[m])
    BY <1>3, <1>4 DEF TaskStates, Open
  <1>10. /\ ~TurnLive /\ (\A other \in Main \cup {box.run} : ~Holds(other) /\ other.op # "prompt")
         /\ session.task = 0 /\ (\A m \in Turns : tasks[m] \notin Open)
    BY <1>4, NothingRuns
  <1>11. /\ ~box.closed /\ box' \in Boxes /\ OneOfEach(box)'
         /\ box'.closed = FALSE /\ box'.run = box.run /\ Crit' = Crit /\ Main' = Main \cup {cmd}
    BY <1>1, <1>4, <1>6, <1>10, MainSubmits
  <1>12. (Gone <=> Gone') /\ (TurnLive <=> TurnLive') /\ (ClientAlive <=> ClientAlive') /\ Strays' = Strays
    BY <1>4, <1>7 DEF CoreKept, Gone, TurnLive, ClientAlive, Strays
  <1>13. (ExitQueued <=> ExitQueued') /\ (EndQueued(session.turn) <=> EndQueued(session.turn)') /\ (Busy <=> Busy')
    BY <1>7, <1>11 DEF CoreKept, ExitQueued, EndQueued, Crit, Busy
  <1>14. TypeOK'
    BY <1>1, <1>4, <1>7, <1>8, <1>9, <1>11, TypeParts, TypeNext DEF CoreKept
  <1>15. LanesOK'
    BY <1>1, <1>2, <1>4, <1>6, <1>11 DEF LanesOK
  <1>16. ClosedTogether'
    BY <1>1, <1>7, <1>11 DEF ClosedTogether, CoreKept
  <1>17. ProcessesOK'
    BY <1>1, <1>4, <1>7, <1>8 DEF ProcessesOK, CoreKept
  <1>18. OneHolder'
    BY <1>2, <1>6, <1>7, <1>10, <1>11 DEF OneHolder
  <1>19. ReservationOK'
    BY <1>2, <1>4, <1>6, <1>7, <1>11 DEF ReservationOK, CoreKept, MayStart, Holds
  <1>20. RestoreOK'
    BY <1>1, <1>7, <1>8, <1>11 DEF RestoreOK, CoreKept
  <1>21. StatusOK'
    BY <1>1, <1>4, <1>7, <1>11, <1>12, <1>13 DEF StatusOK, CoreKept
  <1>22. NumbersOK'
    <2>1. \A m \in Turns : Fresh(m) => Fresh(m)'
      BY <1>4, <1>7 DEF Fresh, CoreKept
    <2>2. Fresh(n)
      BY <1>1, <1>4, <1>5 DEF NumbersOK
    <2>3. \A m \in Turns : m > n => m > used.prompts
      BY <1>5, TurnsAreNumbers
    <2>4. session.turn <= n
      BY <1>1, <1>3, <1>5, TurnsAreNumbers DEF NumbersOK, Sessions
    <2>5. n <= n
      BY <1>5
    <2> QED BY <1>1, <1>4, <1>6, <1>7, <1>8, <1>10, <1>11, <2>1, <2>2, <2>3, <2>4, <2>5 DEF NumbersOK, CoreKept
  <1>23. AnswersOK'
    BY <1>1, <1>4, <1>11 DEF AnswersOK
  <1>24. TasksOK'
    BY <1>4, <1>6, <1>7, <1>9, <1>10, <1>11, <1>1 DEF TasksOK, Prompting, Open
  <1>25. CancelIsHeard'
    BY <1>1, <1>4, <1>7, <1>12 DEF CancelIsHeard, CoreKept
  <1>26. AsksOK'
    BY <1>1, <1>4, <1>7, <1>11, <1>13 DEF AsksOK, CoreKept
  <1>27. RowsOK'
    BY <1>1, <1>4, <1>7, <1>11, <1>12, <1>13 DEF RowsOK, CoreKept
  <1> QED
    BY <1>11, <1>14, <1>15, <1>16, <1>17, <1>18, <1>19, <1>20, <1>21, <1>22, <1>23, <1>24, <1>25, <1>26, <1>27 DEF TurnInv

\* taskCancel of a task whose prompt is still being prepared.
LEMMA CancelsNowOK ==
  ASSUME TurnInv, NEW k \in Turns, Cancels(k), session.preparing = k PROVE TurnInv'
PROOF
  <1>1. /\ TypeOK /\ LanesOK /\ ClosedTogether /\ ProcessesOK /\ OneOfEach(box)
        /\ OneHolder /\ ReservationOK /\ RestoreOK /\ StatusOK
        /\ NumbersOK /\ AnswersOK /\ TasksOK /\ CancelIsHeard /\ AsksOK /\ RowsOK
    BY InvParts
  <1>2. session \in Sessions /\ tasks \in [Turns -> TaskStates] /\ k # 0
    BY <1>1, TypeParts, TurnsAreNumbers
  <1>3. /\ UNCHANGED <<box, conns, inbox, present, said>> /\ Spend /\ tasks[k] \in Open
        /\ tasks' = EndTask(tasks, k, "cancelled")
        /\ session' = [session EXCEPT !.task = IF session.task = k THEN 0 ELSE session.task]
    BY <1>2 DEF Cancels
  <1>4. used' \in Bounds /\ used'.prompts = used.prompts /\ used'.conns = used.conns
    BY <1>1, <1>3, SpendType
  <1>5. CoreKept /\ session'.reserved = session.reserved /\ session' \in Sessions
        /\ session'.task = (IF session.task = k THEN 0 ELSE session.task)
    BY <1>2, <1>3 DEF Sessions, CoreKept
  <1>6. tasks' \in [Turns -> TaskStates] /\ (\A n \in Turns : tasks'[n] = IF n = k THEN "cancelled" ELSE tasks[n])
    BY <1>2, <1>3 DEF EndTask, TaskStates, Terminal
  <1>7. OneOfEach(box)' /\ Crit' = Crit /\ Main' = Main
    BY <1>1, <1>3 DEF OneOfEach, Crit, Main
  <1>8. (Gone <=> Gone') /\ (TurnLive <=> TurnLive') /\ (ClientAlive <=> ClientAlive') /\ Strays' = Strays
    BY <1>3, <1>5 DEF CoreKept, Gone, TurnLive, ClientAlive, Strays
  <1>9. (ExitQueued <=> ExitQueued') /\ (EndQueued(session.turn) <=> EndQueued(session.turn)') /\ (Busy <=> Busy')
    BY <1>3, <1>5 DEF CoreKept, ExitQueued, EndQueued, Busy
  <1>10. TypeOK'
    BY <1>1, <1>3, <1>4, <1>5, <1>6, TypeParts, TypeNext DEF CoreKept
  <1>11. LanesOK' /\ OneHolder'
    BY <1>1, <1>3, <1>5, <1>7 DEF LanesOK, OneHolder
  <1>12. ClosedTogether' /\ ProcessesOK'
    BY <1>1, <1>3, <1>4, <1>5, <1>7 DEF ClosedTogether, ProcessesOK, CoreKept
  <1>13. ReservationOK' /\ RestoreOK'
    BY <1>1, <1>3, <1>4, <1>5, <1>7 DEF ReservationOK, RestoreOK, CoreKept
  <1>14. StatusOK'
    BY <1>1, <1>3, <1>5, <1>8, <1>9 DEF StatusOK, CoreKept
  <1>15. NumbersOK'
    BY <1>1, <1>3, <1>4, <1>5, <1>7 DEF NumbersOK, Fresh, CoreKept
  <1>16. AnswersOK'
    BY <1>1, <1>3, <1>7 DEF AnswersOK
  <1>17. TasksOK'
    BY <1>1, <1>2, <1>3, <1>5, <1>6, <1>7, <1>8 DEF TasksOK, Prompting, Open, CoreKept, Sessions
  <1>18. CancelIsHeard'
    BY <1>1, <1>3, <1>5, <1>8 DEF CancelIsHeard, CoreKept
  <1>19. AsksOK'
    BY <1>1, <1>3, <1>4, <1>5, <1>7, <1>9 DEF AsksOK, CoreKept
  <1>20. RowsOK'
    BY <1>1, <1>3, <1>5, <1>8, <1>9 DEF RowsOK, CoreKept
  <1> QED BY <1>7, <1>10, <1>11, <1>12, <1>13, <1>14, <1>15, <1>16, <1>17, <1>18, <1>19, <1>20 DEF TurnInv

\* A closed record that is dropped.
LEMMA DroppedOK ==
  ASSUME TurnInv, session.status = "closed", session' = [session EXCEPT !.here = FALSE],
         UNCHANGED <<box, conns, tasks, inbox, present, said, used>>
  PROVE  TurnInv'
PROOF
  <1>1. /\ TypeOK /\ LanesOK /\ ClosedTogether /\ ProcessesOK /\ OneOfEach(box)
        /\ OneHolder /\ ReservationOK /\ RestoreOK /\ StatusOK
        /\ NumbersOK /\ AnswersOK /\ TasksOK /\ CancelIsHeard /\ AsksOK /\ RowsOK
    BY InvParts
  <1>2. session \in Sessions
    BY <1>1, TypeParts
  <1>3. /\ session' \in Sessions /\ session'.status = session.status /\ session'.client = session.client
        /\ session'.turn = session.turn /\ session'.seal = session.seal /\ session'.task = session.task
        /\ session'.reserved = session.reserved /\ session'.cancelRequested = session.cancelRequested
    BY <1>2 DEF Sessions
  <1>4. Gone /\ Gone' /\ ~TurnLive /\ ~TurnLive' /\ (ClientAlive <=> ClientAlive') /\ box.closed /\ box.run = Free
    BY <1>1, <1>3 DEF Gone, TurnLive, ClientAlive, ClosedTogether
  <1>5. OneOfEach(box)' /\ Crit' = Crit /\ Main' = Main
    BY <1>1 DEF OneOfEach, Crit, Main
  <1>6. TypeOK'
    BY <1>1, <1>3, TypeParts, TypeNext
  <1>7. LanesOK' /\ OneHolder' /\ ClosedTogether' /\ ProcessesOK'
    BY <1>1, <1>3, <1>4, <1>5 DEF LanesOK, OneHolder, ClosedTogether, ProcessesOK
  <1>8. ReservationOK' /\ RestoreOK'
    BY <1>1, <1>3, <1>5 DEF ReservationOK, RestoreOK
  <1>9. StatusOK'
    BY <1>1, <1>3, <1>4, FreeFields DEF StatusOK, Active, Waiting
  <1>10. NumbersOK'
    BY <1>1, <1>3, <1>5 DEF NumbersOK, Fresh
  <1>11. AnswersOK' /\ CancelIsHeard' /\ TasksOK'
    BY <1>1, <1>3, <1>4, <1>5 DEF AnswersOK, CancelIsHeard, TasksOK, Prompting
  <1>12. AsksOK'
    BY <1>1, <1>3, <1>5 DEF AsksOK, Busy
  <1>13. RowsOK'
    BY <1>1, <1>3, <1>4 DEF RowsOK
  <1> QED BY <1>5, <1>6, <1>7, <1>8, <1>9, <1>10, <1>11, <1>12, <1>13 DEF TurnInv

LEMMA MainCallsOK ==
  ASSUME TurnInv, MainCalls PROVE TurnInv'
PROOF
  <1>1. CASE \E kind \in Kinds : Prompts(kind)
    BY <1>1, PromptsOK
  <1>2. ASSUME NEW k \in Turns \cup {0}, Cancels(k), k # 0, session.preparing = k PROVE TurnInv'
    BY <1>2, CancelsNowOK
  <1>3. CASE Closes /\ session.status = "closed"
    <2>1. session' = [session EXCEPT !.here = FALSE] /\ UNCHANGED <<box, conns, tasks, inbox, present, said, used>>
      BY <1>3 DEF Closes
    <2> QED BY <1>3, <2>1, DroppedOK
  <1> QED BY <1>1, <1>2, <1>3, MainAsksOK, PresenceOK DEF MainCalls

-----------------------------------------------------------------------------
(* Commands that wait, and commands that end without a turn *)

\* While a turn is live and nothing of its end is queued, its worker is there.
LEMMA LiveWorker ==
  ASSUME TurnInv, TurnLive, ~EndQueued(session.turn)
  PROVE  ClientAlive /\ session.client \in Conns /\ session.turn \in Unanswered(conns[session.client])
PROOF
  <1>1. TypeOK /\ StatusOK
    BY InvParts
  <1>2. ClientAlive /\ session.turn \in Unanswered(conns[session.client])
    BY <1>1 DEF StatusOK, EndQueued
  <1> QED BY <1>1, <1>2 DEF ClientAlive, TypeOK

\* A session whose worker lane is empty is in an active status only with its
\* worker there, and restores nothing.
LEMMA QueuedCommand ==
  ASSUME TurnInv, Cur.op \in MainOps, Cur.at = "queued"
  PROVE  /\ box.run = Free /\ Crit = {} /\ session.status \notin {"restoring", "closed"}
         /\ session.status \in Active => TurnLive /\ ClientAlive
PROOF
  <1>1. TypeOK /\ LanesOK /\ ClosedTogether /\ OneOfEach(box) /\ OneHolder /\ StatusOK
    BY InvParts
  <1>2. box.run = Free /\ Crit = {} /\ session.status # "closed"
    BY <1>1, MainDone
  <1>3. ~ExitQueued /\ \A n : ~EndQueued(n)
    BY <1>2 DEF ExitQueued, EndQueued, Crit
  <1> QED BY <1>1, <1>2, <1>3, FreeFields DEF StatusOK

LEMMA ClearedFields ==
  \A client \in Clients :
    LET cleared == ClearSession(client)
    IN /\ cleared \in Clients /\ cleared.alive = client.alive /\ cleared.queued = client.queued
       /\ cleared.sent = client.sent /\ cleared.told = client.told /\ cleared.stop = client.stop
       /\ cleared.held = {} /\ cleared.handler = FALSE
       /\ Unanswered(cleared) = Unanswered(client)
PROOF
  BY DEF ClearSession, Clients, Unanswered

LEMMA AwaitingOK ==
  ASSUME TurnInv, Cur.op \in MainOps, NEW at \in Places, NEW c \in Conns \cup {0},
         box' = Awaits(at, c), UNCHANGED <<session, conns, tasks, inbox, present, said, used>>,
         \/ Cur.op \in {"prompt", "config"} /\ at \in {"client", "attach", "ready", "answer"}
         \/ Cur.op = "restore" /\ at \in {"client", "attach"},
         at = "client" => session.status \notin Active \cup {"closed"},
         at = "attach" => session.status = "restoring" /\ c \in Conns /\ c <= used.conns,
         at # "attach" => session.status # "restoring",
         at \in {"ready", "answer"} /\ Cur.op = "prompt" => session.status \in {"idle", "error", "cancelled"}
  PROVE  TurnInv'
PROOF
  <1>1. /\ TypeOK /\ LanesOK /\ ClosedTogether /\ ProcessesOK /\ OneOfEach(box)
        /\ OneHolder /\ ReservationOK /\ RestoreOK /\ StatusOK
        /\ NumbersOK /\ AnswersOK /\ TasksOK /\ CancelIsHeard /\ AsksOK /\ RowsOK
    BY InvParts
  <1>2. /\ ~box.closed /\ Cur \in Main \cup {box.run}
        /\ Queued(Done.main) \subseteq Main /\ Main \cup {box.run} \subseteq Queued(Done.main) \cup {Cur, Free}
        /\ Holds(Cur) => \A cmd \in Queued(Done.main) : ~Holds(cmd)
        /\ Cur.at = "queued" => box.run = Free /\ Crit = {}
        /\ Cur.at # "queued" => Busy /\ Cur = box.run
    BY <1>1, MainDone
  <1>3. /\ box' \in Boxes /\ OneOfEach(box)' /\ box'.run.op = Cur.op /\ box'.run.n = Cur.n /\ box'.run.x = Cur.x
        /\ box'.run.at = at /\ box'.run.c = c /\ box'.run # Free /\ box'.closed = FALSE
        /\ box'.crit = box.crit /\ box'.main = Done.main
    BY ONLY <1>1, MainWaits, Cur.op \in MainOps, at \in Places, c \in Conns \cup {0}, box' = Awaits(at, c)
  <1>4. Crit' = Crit /\ Main' = Queued(Done.main)
    BY <1>3 DEF Crit, Main
  <1>5. (Gone <=> Gone') /\ (TurnLive <=> TurnLive') /\ (ClientAlive <=> ClientAlive') /\ Strays' = Strays
    BY DEF Gone, TurnLive, ClientAlive, Strays
  <1>6. (ExitQueued <=> ExitQueued') /\ (EndQueued(session.turn) <=> EndQueued(session.turn)') /\ Busy'
    BY <1>3 DEF ExitQueued, EndQueued, Busy
  <1>7. Cur.at \notin {"closing", "operate"} /\ box.run.at \notin {"closing", "operate"}
    BY <1>1, <1>2, FreeFields DEF LanesOK
  <1>8. TypeOK'
    BY <1>1, <1>3, TypeParts, TypeNext
  <1>9. LanesOK'
    BY <1>1, <1>2, <1>3, <1>4 DEF LanesOK, MainOps
  <1>10. ClosedTogether' /\ ProcessesOK'
    BY <1>1, <1>2, <1>3 DEF ClosedTogether, ProcessesOK
  <1>11. OneHolder'
    <2>1. Holds(box'.run) => Holds(Cur)
      BY <1>3 DEF Holds
    <2> QED BY <1>1, <1>2, <1>3, <1>4, <2>1 DEF OneHolder
  <1>12. ReservationOK'
    <2>1. ASSUME session.reserved # "none" PROVE \E cmd \in Main' \cup {box'.run} : Holds(cmd) /\ cmd.op = session.reserved
      <3>1. PICK cmd \in Main \cup {box.run} : Holds(cmd) /\ cmd.op = session.reserved
        BY <1>1, <2>1 DEF ReservationOK
      <3>2. cmd \in Queued(Done.main) \/ cmd = Cur
        BY <1>2, <3>1, FreeFields DEF Holds
      <3> QED BY <1>3, <1>4, <3>1, <3>2 DEF Holds
    <2> QED BY <1>1, <2>1 DEF ReservationOK
  <1>13. RestoreOK'
    BY <1>1, <1>3 DEF RestoreOK
  <1>14. StatusOK'
    BY <1>1, <1>3, <1>5, <1>6, <1>7 DEF StatusOK
  <1>15. NumbersOK'
    BY <1>1, <1>2, <1>3, <1>4 DEF NumbersOK, Fresh
  <1>16. AnswersOK'
    BY <1>1, <1>4 DEF AnswersOK
  <1>17. TasksOK'
    <2>1. \A n : Prompting(n) => Prompting(n)'
      BY <1>2, <1>3, <1>4, FreeFields DEF Prompting
    <2> QED BY <1>1, <1>5, <2>1 DEF TasksOK
  <1>18. CancelIsHeard'
    BY <1>1, <1>5 DEF CancelIsHeard
  <1>19. AsksOK'
    BY <1>1, <1>2, <1>4 DEF AsksOK
  <1>20. RowsOK'
    BY <1>1, <1>3, <1>5, <1>6, <1>7 DEF RowsOK
  <1> QED
    BY <1>3, <1>8, <1>9, <1>10, <1>11, <1>12, <1>13, <1>14, <1>15, <1>16, <1>17, <1>18, <1>19, <1>20 DEF TurnInv

\* A command that ends without a turn: its caller gives back what it reserved, and
\* its task if it was a prompt.
LEMMA EndingOK ==
  ASSUME TurnInv, Cur.op \in {"prompt", "restore", "config"}, box' = Done,
         session' \in Sessions, session'.here = session.here, session'.client = session.client,
         session'.turn = session.turn, session'.seal = session.seal, session'.cancelRequested = session.cancelRequested,
         session'.reserved = (IF session.reserved = Cur.op /\ Cur.x # "list" THEN "none" ELSE session.reserved),
         session'.task = (IF Cur.op = "prompt" /\ session.task = Cur.n THEN 0 ELSE session.task),
         \/ session'.status = session.status /\ session.status # "restoring" /\ UNCHANGED conns
         \/ /\ session'.status = "unavailable" /\ session.status \notin (Active \ {"restoring"}) \cup {"closed"}
            /\ Cur.at # "queued"
            /\ conns' \in [Conns -> Clients]
            /\ \A c \in Conns : conns'[c] = conns[c] \/ (c # session.client /\ conns'[c] = ClearSession(conns[c])),
         tasks' \in [Turns -> TaskStates],
         \A n \in Turns : IF Cur.op = "prompt" /\ Cur.n = n THEN tasks'[n] \notin Open /\ (tasks'[n] = "completed" => tasks[n] = "completed")
                          ELSE tasks'[n] = tasks[n],
         UNCHANGED <<inbox, present, said, used>>
  PROVE  TurnInv'
PROOF
  <1>1. /\ TypeOK /\ LanesOK /\ ClosedTogether /\ ProcessesOK /\ OneOfEach(box)
        /\ OneHolder /\ ReservationOK /\ RestoreOK /\ StatusOK
        /\ NumbersOK /\ AnswersOK /\ TasksOK /\ CancelIsHeard /\ AsksOK /\ RowsOK
    BY InvParts
  <1>2. /\ ~box.closed /\ session.status # "closed" /\ ~Gone /\ Cur \in Main \cup {box.run}
        /\ Done \in Boxes /\ OneOfEach(Done)
        /\ Done.run = Free /\ Done.closed = FALSE /\ Done.crit = box.crit
        /\ Queued(Done.main) \subseteq Main /\ Main \cup {box.run} \subseteq Queued(Done.main) \cup {Cur, Free}
        /\ Holds(Cur) => \A cmd \in Queued(Done.main) : ~Holds(cmd)
        /\ Cur.at = "queued" => box.run = Free /\ Crit = {}
        /\ Cur.at # "queued" => Busy /\ Cur = box.run
    BY <1>1, MainDone DEF MainOps
  <1>3. /\ box' \in Boxes /\ OneOfEach(box)' /\ box'.run = Free /\ box'.closed = FALSE
        /\ box'.crit = box.crit /\ Crit' = Crit /\ Main' = Queued(Done.main)
    BY <1>2 DEF OneOfEach, Crit, Main
  <1>4. session \in Sessions /\ conns \in [Conns -> Clients] /\ tasks \in [Turns -> TaskStates]
    BY <1>1, TypeParts
  <1>5. Cur.at \notin {"closing", "operate"} /\ box.run.at \notin {"closing", "operate"}
    BY <1>1, <1>2, FreeFields DEF LanesOK
  <1>6. /\ \A c \in Conns : /\ conns'[c].alive = conns[c].alive /\ conns'[c].queued = conns[c].queued /\ conns'[c].sent = conns[c].sent
                            /\ conns'[c].held \in {{}, conns[c].held} /\ (conns'[c].held # {} => conns'[c].handler = conns[c].handler)
                            /\ Unanswered(conns'[c]) = Unanswered(conns[c])
        /\ session.client # 0 => conns'[session.client] = conns[session.client]
        /\ conns' \in [Conns -> Clients]
    <2>1. ASSUME NEW c \in Conns
          PROVE  conns'[c] = conns[c] \/ (c # session.client /\ conns'[c] = ClearSession(conns[c]))
      OBVIOUS
    <2>2. \A c \in Conns : conns[c] \in Clients
      BY <1>4
    <2>3. conns' \in [Conns -> Clients]
      BY <1>4
    <2>4. session.client # 0 => session.client \in Conns
      BY <1>4 DEF Sessions
    <2> QED BY <2>1, <2>2, <2>3, <2>4, ClearedFields
  <1>7. ~Gone' /\ (TurnLive <=> TurnLive') /\ (ClientAlive <=> ClientAlive') /\ Strays' = Strays /\ (UNCHANGED conns \/ ~TurnLive)
    BY <1>1, <1>2, <1>6 DEF Gone, TurnLive, ClientAlive, Strays, StatusOK, Active, Waiting
  <1>8. (ExitQueued <=> ExitQueued') /\ (EndQueued(session.turn) <=> EndQueued(session.turn)') /\ ~Busy'
    BY <1>3 DEF ExitQueued, EndQueued, Busy
  <1>9. TypeOK'
    BY <1>1, <1>3, <1>6, TypeParts, TypeNext
  <1>10. LanesOK'
    BY <1>1, <1>2, <1>3, FreeFields DEF LanesOK, MainOps
  <1>11. ClosedTogether'
    BY <1>1, <1>2, <1>3 DEF ClosedTogether
  <1>12. ProcessesOK'
    BY <1>1, <1>6 DEF ProcessesOK
  <1>13. OneHolder'
    <2>1. ~Holds(Free)
      BY FreeFields DEF Holds
    <2>2. ASSUME NEW cmd \in Main', Holds(cmd) PROVE session'.reserved = cmd.op
      <3>1. cmd \in Main /\ session.reserved = cmd.op /\ ~Holds(Cur)
        BY <1>1, <1>2, <1>3, <2>2 DEF OneHolder
      <3>2. Cur.x = "list"
        BY <3>1 DEF Holds
      <3> QED BY <3>1, <3>2
    <2> QED BY <1>3, <2>1, <2>2 DEF OneHolder
  <1>14. ReservationOK'
    <2>1. ASSUME session'.reserved # "none" PROVE \E cmd \in Main' \cup {box'.run} : Holds(cmd) /\ cmd.op = session'.reserved
      <3>1. session'.reserved = session.reserved /\ ~(session.reserved = Cur.op /\ Cur.x # "list")
        BY <1>4, <2>1 DEF Sessions
      <3>2. PICK cmd \in Main \cup {box.run} : Holds(cmd) /\ cmd.op = session.reserved
        BY <1>1, <2>1, <3>1 DEF ReservationOK
      <3>3. cmd \in Queued(Done.main)
        BY <1>2, <3>1, <3>2, FreeFields DEF Holds
      <3> QED BY <1>3, <3>1, <3>2, <3>3
    <2> QED BY <1>1, <2>1 DEF ReservationOK, Active, Waiting
  <1>15. RestoreOK'
    BY <1>3, FreeFields DEF RestoreOK
  <1>16. StatusOK'
    BY <1>1, <1>3, <1>5, <1>6, <1>7, <1>8, FreeFields DEF StatusOK, Active, Waiting, ClientAlive
  <1>17. NumbersOK'
    BY <1>1, <1>2, <1>3, <1>6, FreeFields DEF NumbersOK, Fresh
  <1>18. AnswersOK'
    BY <1>1, <1>3, <1>6 DEF AnswersOK
  <1>19. TasksOK'
    <2>1. CASE Cur.op = "prompt"
      <3>1. ~TurnLive /\ Cur.n \in Turns
        BY <1>1, <1>2, <2>1 DEF OneHolder, Holds, ReservationOK, StatusOK, LanesOK
      <3>2. \A n \in Turns : Prompting(n) => n = Cur.n
        BY <1>1, <1>2, <2>1, FreeFields DEF Prompting, Holds, LanesOK
      <3>3. \A n \in Turns : tasks[n] \in Open => n = Cur.n
        BY <1>1, <3>1, <3>2 DEF TasksOK
      <3>4. \A n \in Turns : tasks'[n] \notin Open
        BY <2>1, <3>3
      <3>5. session'.task = 0
        BY <1>1, <1>4, <2>1, <3>3 DEF TasksOK, Sessions
      <3> QED BY <1>1, <2>1, <3>4, <3>5 DEF TasksOK
    <2>2. CASE Cur.op # "prompt"
      <3>1. \A n : Prompting(n) => Prompting(n)'
        BY <1>2, <1>3, <2>2, FreeFields DEF Prompting
      <3> QED BY <1>1, <1>4, <1>7, <2>2, <3>1 DEF TasksOK, Sessions
    <2> QED BY <2>1, <2>2
  <1>20. CancelIsHeard'
    BY <1>1, <1>7 DEF CancelIsHeard
  <1>21. AsksOK'
    BY <1>1, <1>2, <1>3, <1>6, <1>8 DEF AsksOK, Active, Waiting
  <1>22. RowsOK'
    BY <1>1, <1>2, <1>3, <1>5, <1>7, <1>8, FreeFields DEF RowsOK
  <1> QED
    BY <1>3, <1>9, <1>10, <1>11, <1>12, <1>13, <1>14, <1>15, <1>16, <1>17, <1>18, <1>19, <1>20, <1>21, <1>22 DEF TurnInv

LEMMA EndTaskFacts ==
  ASSUME NEW ts \in [Turns -> TaskStates], NEW k, NEW st \in TaskStates
  PROVE  /\ EndTask(ts, k, st) \in [Turns -> TaskStates]
         /\ \A n \in Turns : EndTask(ts, k, st)[n] = IF n = k /\ ts[n] \in Open THEN st ELSE ts[n]
PROOF
  BY DEF EndTask

LEMMA ThrowingOK ==
  ASSUME TurnInv, Cur.op \in {"prompt", "restore", "config"}, NEW s \in Sessions, Throws(s),
         s.here = session.here, s.client = session.client, s.turn = session.turn, s.seal = session.seal,
         s.cancelRequested = session.cancelRequested, s.reserved = session.reserved, s.task = session.task,
         \/ s.status = session.status /\ session.status # "restoring" /\ UNCHANGED conns
         \/ /\ s.status = "unavailable" /\ session.status \notin (Active \ {"restoring"}) \cup {"closed"}
            /\ Cur.at # "queued"
            /\ conns' \in [Conns -> Clients]
            /\ \A c \in Conns : conns'[c] = conns[c] \/ (c # session.client /\ conns'[c] = ClearSession(conns[c])),
         UNCHANGED <<inbox, present, said, used>>
  PROVE  TurnInv'
PROOF
  <1>1. TypeOK /\ LanesOK /\ ClosedTogether /\ OneOfEach(box) /\ OneHolder /\ tasks \in [Turns -> TaskStates]
    BY InvParts, TypeParts
  <1>2. session' = Failed(s, Cur) /\ tasks' = FailedTasks(Cur) /\ box' = Done
    BY DEF Throws
  <1>3. /\ session' \in Sessions /\ session'.here = s.here /\ session'.client = s.client /\ session'.status = s.status
        /\ session'.turn = s.turn /\ session'.seal = s.seal /\ session'.cancelRequested = s.cancelRequested
        /\ session'.reserved = (IF s.reserved = Cur.op /\ Cur.x # "list" THEN "none" ELSE s.reserved)
        /\ session'.task = (IF Cur.op = "prompt" /\ s.task = Cur.n THEN 0 ELSE s.task)
    <2> DEFINE r == Released(s, Cur)
    <2>1. r = [s EXCEPT !.reserved = IF s.reserved = Cur.op /\ Cur.x # "list" THEN "none" ELSE s.reserved,
                        !.preparing = IF Cur.op = "prompt" THEN 0 ELSE s.preparing]
      BY DEF Released, Sessions
    <2>2. r \in Sessions /\ r.reserved = (IF s.reserved = Cur.op /\ Cur.x # "list" THEN "none" ELSE s.reserved)
      BY <2>1 DEF Sessions
    <2>3. /\ r.here = s.here /\ r.client = s.client /\ r.status = s.status /\ r.turn = s.turn /\ r.seal = s.seal
          /\ r.cancelRequested = s.cancelRequested /\ r.task = s.task
      BY <2>1 DEF Sessions
    <2>4. Failed(s, Cur) = [r EXCEPT !.task = IF Cur.op = "prompt" /\ r.task = Cur.n THEN 0 ELSE r.task]
      BY <2>2 DEF Failed, Sessions
    <2> HIDE DEF r
    <2> QED BY <1>2, <2>2, <2>3, <2>4 DEF Sessions
  <1>4. /\ tasks' \in [Turns -> TaskStates]
        /\ \A n \in Turns : IF Cur.op = "prompt" /\ Cur.n = n
                            THEN tasks'[n] \notin Open /\ (tasks'[n] = "completed" => tasks[n] = "completed")
                            ELSE tasks'[n] = tasks[n]
    <2>1. CASE Cur.op # "prompt"
      BY <1>1, <1>2, <2>1 DEF FailedTasks
    <2>2. CASE Cur.op = "prompt"
      <3>1. \E st \in {"failed", "removed"} : tasks' = EndTask(tasks, Cur.n, st)
        BY <1>2, <2>2 DEF FailedTasks
      <3>2. PICK st \in {"failed", "removed"} : tasks' = EndTask(tasks, Cur.n, st)
        BY <3>1
      <3>3. st \in TaskStates /\ st \notin Open /\ st # "completed"
        BY DEF TaskStates, Open, Terminal
      <3> QED BY <1>1, <2>2, <3>2, <3>3, EndTaskFacts
    <2> QED BY <2>1, <2>2
  <1> QED BY <1>2, <1>3, <1>4, EndingOK

LEMMA ConnectsOK ==
  ASSUME TurnInv, Connects PROVE TurnInv'
PROOF
  <1>1. TypeOK /\ LanesOK /\ ClosedTogether /\ OneOfEach(box) /\ OneHolder /\ StatusOK /\ ReservationOK /\ session \in Sessions
    BY InvParts, TypeParts
  <1>2. Cur.at = "queued" /\ Cur.op \in {"prompt", "config", "restore"} /\ Cur.op \in MainOps
        /\ UNCHANGED <<conns, inbox, present, said, used>>
    BY DEF Connects, MainOps
  <1>3. /\ box.run = Free /\ Crit = {} /\ session.status \notin {"restoring", "closed"}
        /\ session.status \in Active => TurnLive /\ ClientAlive
    BY <1>2, QueuedCommand
  <1>4. ~Gone /\ Cur \in Main \cup {box.run}
    BY <1>1, <1>2, MainDone
  <1>5. Cur.op \in {"prompt", "restore"} => session.status \notin Active
    BY <1>1, <1>3, <1>4 DEF OneHolder, Holds, LanesOK, ReservationOK
  <1>6. CASE Throws(session)
    BY <1>2, <1>3, <1>1, <1>6, ThrowingOK
  <1>7. CASE Cur.op # "restore" /\ ~NeedsRestore /\ box' = Awaits("ready", 0) /\ UNCHANGED <<session, tasks>>
    <2>1. session.status \notin {"disconnected", "unavailable"}
      BY <1>7 DEF NeedsRestore
    <2>2. Cur.op = "prompt" => session.status \in {"idle", "error", "cancelled"}
      BY <1>1, <1>3, <1>5, <2>1 DEF Sessions, Statuses, Active, Waiting
    <2>3. "ready" \in Places /\ 0 \in Conns \cup {0}
      BY DEF Places
    <2> QED BY <1>2, <1>3, <1>7, <2>2, <2>3, AwaitingOK
  <1>8. CASE (Cur.op = "restore" \/ NeedsRestore) /\ box' = Awaits("client", 0) /\ UNCHANGED <<session, tasks>>
    <2>1. session.status \notin Active \cup {"closed"}
      BY <1>3, <1>5, <1>8 DEF NeedsRestore, Active, Waiting
    <2>2. "client" \in Places /\ 0 \in Conns \cup {0}
      BY DEF Places
    <2> QED BY <1>2, <1>3, <1>8, <2>1, <2>2, AwaitingOK
  <1> QED BY <1>2, <1>4, <1>6, <1>7, <1>8 DEF Connects

\* A command at an await is the one that runs.
LEMMA Running ==
  ASSUME TurnInv, Busy
  PROVE  Cur = box.run /\ box.run # Free /\ Cur.at # "queued" /\ Cur.op \in MainOps
PROOF
  <1>1. LanesOK /\ Cur = box.run /\ box.run # Free
    BY InvParts DEF Busy, Cur
  <1> QED BY <1>1 DEF LanesOK, MainOps

LEMMA RestoreStepsOK ==
  ASSUME TurnInv, RefusesMethod \/ Resumes PROVE TurnInv'
PROOF
  <1>1. Busy /\ Cur = box.run /\ Cur.at # "queued" /\ Cur.op \in MainOps /\ session \in Sessions
    BY InvParts, TypeParts, Running DEF RefusesMethod, Resumes
  <1>2. RestoreOK /\ LanesOK /\ box.run # Free
    BY <1>1, InvParts DEF Busy
  <1>3. CASE RefusesMethod
    <2>1. session.status \notin Active \cup {"closed"} /\ Throws(session) /\ Cur.op = "restore" /\ UNCHANGED <<conns, inbox, present, said, used>>
      BY <1>1, <1>2, <1>3 DEF RefusesMethod, RestoreOK
    <2> QED BY <1>1, <2>1, ThrowingOK DEF Active
  <1>4. CASE Resumes
    <2>1. Cur.at = "resume" /\ box' = Awaits("attach", Cur.c) /\ UNCHANGED <<session, conns, tasks, inbox, present, said, used>>
      BY <1>4 DEF Resumes
    <2>2. session.status = "restoring" /\ Cur.c \in Conns /\ Cur.c <= used.conns
      BY <1>1, <1>2, <2>1 DEF RestoreOK
    <2>3. Cur.op \in {"prompt", "config", "restore"}
      BY <1>1, <1>2, <2>1 DEF LanesOK
    <2>4. "attach" \in Places /\ Cur.c \in Conns \cup {0}
      BY <2>2 DEF Places
    <2> QED BY <1>1, <2>1, <2>2, <2>3, <2>4, AwaitingOK
  <1> QED BY <1>3, <1>4

LEMMA RestoreFailsOK ==
  ASSUME TurnInv, RestoreFails PROVE TurnInv'
PROOF
  <1>1. Busy /\ Cur = box.run /\ Cur.at # "queued" /\ Cur.op \in MainOps /\ session \in Sessions /\ conns \in [Conns -> Clients]
    BY InvParts, TypeParts, Running DEF RestoreFails
  <1>2. RestoreOK /\ LanesOK /\ box.run # Free /\ ~Gone /\ session.status # "closed"
    BY <1>1, InvParts, MainDone DEF Busy
  <1>3. /\ Cur.at \in {"client", "resume", "attach"} /\ Throws(Unavailable(session)) /\ UNCHANGED <<inbox, present, said, used>>
        /\ conns' = [c \in Conns |-> IF c = Cur.c /\ session.client # c THEN ClearSession(conns[c]) ELSE conns[c]]
    BY <1>2 DEF RestoreFails
  <1>4. Cur.op \in {"prompt", "config", "restore"}
    BY <1>1, <1>2, <1>3 DEF LanesOK
  <1>5. session.status \notin (Active \ {"restoring"}) \cup {"closed"} /\ session.status \in Statuses
    BY <1>1, <1>2, <1>3 DEF RestoreOK, Active, Waiting, Sessions
  <1>6. Moved(session.status, "restoring") = "restoring" /\ Moved("restoring", "unavailable") = "unavailable"
    <2>1. "restoring" \in Statuses
      BY DEF Statuses
    <2> QED BY <1>5, <2>1, MovedFacts
  <1> DEFINE s == Unavailable(session)
  <1>7. /\ s.here = session.here /\ s.client = session.client /\ s.turn = session.turn /\ s.seal = session.seal
        /\ s.cancelRequested = session.cancelRequested /\ s.reserved = session.reserved /\ s.task = session.task
        /\ s.status = "unavailable" /\ s \in Sessions
    <2>1. \A f \in 0..MaxRestoreFailures : (IF f < MaxRestoreFailures THEN f + 1 ELSE f) \in 0..MaxRestoreFailures
      BY SessionTurnAssumption DEF SessionTurnAssumption
    <2>2. s = [session EXCEPT !.status = "unavailable",
                              !.failures = IF session.failures < MaxRestoreFailures THEN session.failures + 1 ELSE session.failures]
      BY <1>1, <1>6 DEF Unavailable, SetStatus, Sessions
    <2>3. session.failures \in 0..MaxRestoreFailures /\ "unavailable" \in Statuses
      BY <1>1 DEF Sessions, Statuses
    <2> HIDE DEF s
    <2> QED BY <1>1, <2>1, <2>2, <2>3 DEF Sessions
  <1>8. conns' \in [Conns -> Clients] /\ \A c \in Conns : conns'[c] = conns[c] \/ (c # session.client /\ conns'[c] = ClearSession(conns[c]))
    BY <1>1, <1>3, ClearedFields
  <1> HIDE DEF s
  <1>9. Throws(s)
    BY <1>3 DEF s
  <1> QED BY <1>1, <1>3, <1>4, <1>5, <1>7, <1>8, <1>9, ThrowingOK

LEMMA CommandEndsOK ==
  ASSUME TurnInv, AsksWorker \/ Stops \/ StartsNothing PROVE TurnInv'
PROOF
  <1>1. /\ Busy /\ Cur = box.run /\ Cur.at # "queued" /\ Cur.op \in MainOps /\ session \in Sessions /\ box.run # Free
        /\ tasks \in [Turns -> TaskStates]
    BY InvParts, TypeParts, Running DEF AsksWorker, Stops, StartsNothing
  <1>2. /\ Cur.at \in {"ready", "answer"} /\ Cur.op \in {"prompt", "config"} /\ UNCHANGED <<conns, inbox, present, said, used>>
    BY <1>1, InvParts DEF AsksWorker, Stops, StartsNothing, LanesOK
  <1>3. session.status # "restoring" /\ (Cur.op = "prompt" => session.status \in {"idle", "error", "cancelled"})
    BY <1>1, <1>2, InvParts DEF StatusOK
  <1>4. CASE AsksWorker
    <2>1. box' = Awaits("answer", session.client) /\ UNCHANGED <<session, tasks>>
      BY <1>4 DEF AsksWorker
    <2>2. session.client \in Conns \cup {0} /\ "answer" \in Places
      BY <1>1 DEF Sessions, Places
    <2> QED BY <1>1, <1>2, <1>3, <2>1, <2>2, AwaitingOK
  <1>5. CASE Stops /\ Cur.op = "prompt"
    <2>1. Throws(session)
      BY <1>5 DEF Stops
    <2> QED BY <1>1, <1>2, <1>3, <2>1, ThrowingOK
  <1>6. CASE (Stops /\ Cur.op # "prompt") \/ StartsNothing
    <2>1. session' = Released(session, Cur) /\ box' = Done /\ UNCHANGED tasks /\ (Cur.op = "prompt" => tasks[Cur.n] \in Terminal)
      BY <1>6 DEF Stops, StartsNothing, Unsent
    <2>2. Cur.op = "prompt" => tasks[Cur.n] \notin Open
      BY <2>1 DEF Terminal, Open
    <2>3. session.task = Cur.n => Cur.op # "prompt"
      BY <1>1, <2>2, InvParts, TurnsAreNumbers DEF TasksOK, LanesOK
    <2>4. /\ session' \in Sessions /\ session'.here = session.here /\ session'.client = session.client /\ session'.status = session.status
          /\ session'.turn = session.turn /\ session'.seal = session.seal /\ session'.cancelRequested = session.cancelRequested
          /\ session'.reserved = (IF session.reserved = Cur.op /\ Cur.x # "list" THEN "none" ELSE session.reserved)
          /\ session'.task = session.task
      BY <1>1, <2>1, ZenonT(30) DEF Released, Sessions
    <2>5. session'.task = (IF Cur.op = "prompt" /\ session.task = Cur.n THEN 0 ELSE session.task)
      BY <2>3, <2>4
    <2>6. \A n \in Turns : IF Cur.op = "prompt" /\ Cur.n = n
                           THEN tasks'[n] \notin Open /\ (tasks'[n] = "completed" => tasks[n] = "completed")
                           ELSE tasks'[n] = tasks[n]
      BY <2>1, <2>2
    <2>7. tasks' \in [Turns -> TaskStates] /\ Cur.op \in {"prompt", "restore", "config"}
      BY <1>1, <1>2, <2>1
    <2> QED BY <1>1, <1>2, <1>3, <2>1, <2>4, <2>5, <2>6, <2>7, EndingOK
  <1> QED BY <1>4, <1>5, <1>6


LEMMA StartedFields ==
  /\ Started \in Clients /\ Started.alive /\ Started.queued = {} /\ Started.sent = {} /\ Started.held = {}
  /\ Unanswered(Started) = {}
PROOF
  BY DEF Started, Ended, Clients, Unanswered

\* The process a restore takes: the one that lives, or a new one.
LEMMA GetsClientOK ==
  ASSUME TurnInv, NEW c \in Conns, GetsClient(c) PROVE TurnInv'
PROOF
  <1>1. /\ TypeOK /\ LanesOK /\ ClosedTogether /\ ProcessesOK /\ OneOfEach(box)
        /\ OneHolder /\ ReservationOK /\ RestoreOK /\ StatusOK
        /\ NumbersOK /\ AnswersOK /\ TasksOK /\ CancelIsHeard /\ AsksOK /\ RowsOK
    BY InvParts
  <1>2. Busy /\ Cur = box.run /\ box.run # Free /\ Cur.at = "client" /\ Cur.op \in MainOps
    BY Running DEF GetsClient
  <1>3. /\ ~box.closed /\ ~Gone
        /\ Queued(Done.main) \subseteq Main /\ Main \cup {box.run} \subseteq Queued(Done.main) \cup {Cur, Free}
        /\ Holds(Cur) => \A cmd \in Queued(Done.main) : ~Holds(cmd)
    BY <1>1, <1>2, MainDone
  <1>4. box' = Awaits("resume", c) /\ UNCHANGED <<tasks, inbox, present, said>> /\ session' = SetStatus(session, "restoring")
    BY DEF GetsClient
  <1>5. /\ box' \in Boxes /\ OneOfEach(box)' /\ box'.run.op = Cur.op /\ box'.run.n = Cur.n /\ box'.run.x = Cur.x
        /\ box'.run.at = "resume" /\ box'.run.c = c /\ box'.run # Free /\ box'.closed = FALSE
        /\ box'.crit = box.crit /\ box'.main = Done.main
    <2>1. "resume" \in Places /\ c \in Conns \cup {0}
      BY DEF Places
    <2> QED BY ONLY <1>1, <1>2, <1>4, <2>1, MainWaits
  <1>6. Crit' = Crit /\ Main' = Queued(Done.main)
    BY <1>5 DEF Crit, Main
  <1>7. session \in Sessions /\ conns \in [Conns -> Clients] /\ used \in Bounds /\ used.conns \in Int /\ c \in Int
    BY <1>1, TypeParts, TurnsAreNumbers DEF Bounds
  <1>8. session.status \notin Active \cup {"closed"} /\ ~TurnLive
    BY <1>1, <1>2 DEF RestoreOK, StatusOK
  <1>9. /\ session' \in Sessions /\ session'.status = "restoring" /\ session'.here = session.here
        /\ session'.client = session.client /\ session'.turn = session.turn /\ session'.seal = session.seal
        /\ session'.reserved = session.reserved /\ session'.task = session.task
    <2>1. session.status \in Statuses /\ Moved(session.status, "restoring") = "restoring" /\ "restoring" \in Statuses
      BY <1>7, <1>8, MovedFacts DEF Sessions, Active, Statuses
    <2> QED BY <1>4, <1>7, <2>1 DEF SetStatus, Sessions
  <1>10. /\ conns' \in [Conns -> Clients] /\ used' \in Bounds /\ used'.prompts = used.prompts
         /\ used.conns <= used'.conns /\ c <= used'.conns
         /\ \/ UNCHANGED conns /\ used'.conns = used.conns
            \/ /\ \A d \in Conns : ~conns[d].alive
               /\ c = used.conns + 1 /\ used'.conns = c
               /\ \A d \in Conns : conns'[d] = IF d = c THEN Started ELSE conns[d]
    <2>1. CASE conns[c].alive /\ UNCHANGED <<conns, used>>
      <3>1. c <= used.conns
        BY <1>1, <1>7, <2>1 DEF ProcessesOK
      <3> QED BY <1>7, <2>1, <3>1
    <2>2. CASE /\ \A d \in Conns : ~conns[d].alive
               /\ c = used.conns + 1
               /\ conns' = [conns EXCEPT ![c] = Started]
               /\ used' = [used EXCEPT !.conns = c]
      BY <1>7, <2>2, StartedFields DEF Bounds
    <2> QED BY <2>1, <2>2 DEF GetsClient
  <1>11. ~Gone' /\ ~TurnLive' /\ Busy'
    BY <1>3, <1>5, <1>8, <1>9 DEF Gone, TurnLive, Busy
  <1>12. \A d \in Conns : Unanswered(conns'[d]) \subseteq Unanswered(conns[d])
    BY <1>10, StartedFields
  <1>13. TypeOK'
    BY <1>1, <1>4, <1>5, <1>9, <1>10, TypeParts, TypeNext
  <1>14. LanesOK'
    BY <1>1, <1>2, <1>3, <1>5, <1>6 DEF LanesOK
  <1>15. ClosedTogether'
    BY <1>1, <1>3, <1>5, <1>9 DEF ClosedTogether
  <1>16. ProcessesOK'
    <2>1. CASE UNCHANGED conns /\ used'.conns = used.conns
      BY <1>1, <1>9, <2>1 DEF ProcessesOK
    <2>2. CASE /\ \A d \in Conns : ~conns[d].alive
               /\ c = used.conns + 1 /\ used'.conns = c
               /\ \A d \in Conns : conns'[d] = IF d = c THEN Started ELSE conns[d]
      <3>1. session'.client <= used'.conns
        <4>1. session.client \in Int /\ session.client <= used.conns
          BY <1>1, <1>7, TurnsAreNumbers DEF ProcessesOK, Sessions
        <4> QED BY <1>7, <1>9, <2>2, <4>1
      <3> QED BY <1>1, <1>7, <2>2, <3>1, StartedFields DEF ProcessesOK
    <2> QED BY <1>10, <2>1, <2>2
  <1>17. OneHolder'
    <2>1. Holds(box'.run) => Holds(Cur)
      BY <1>5 DEF Holds
    <2> QED BY <1>1, <1>2, <1>3, <1>5, <1>6, <1>9, <2>1 DEF OneHolder
  <1>18. ReservationOK'
    <2>1. ASSUME session.reserved # "none" PROVE \E cmd \in Main' \cup {box'.run} : Holds(cmd) /\ cmd.op = session.reserved
      <3>1. PICK cmd \in Main \cup {box.run} : Holds(cmd) /\ cmd.op = session.reserved
        BY <1>1, <2>1 DEF ReservationOK
      <3>2. cmd \in Queued(Done.main) \/ cmd = Cur
        BY <1>3, <3>1, FreeFields DEF Holds
      <3> QED BY <1>5, <1>6, <3>1, <3>2 DEF Holds
    <2> QED BY <1>9, <2>1 DEF ReservationOK
  <1>19. RestoreOK'
    BY <1>5, <1>9, <1>10 DEF RestoreOK
  <1>20. StatusOK'
    BY <1>5, <1>9, <1>11 DEF StatusOK
  <1>21. NumbersOK'
    <2>1. \A n : Fresh(n) => Fresh(n)'
      BY <1>4, <1>9, <1>12 DEF Fresh
    <2> QED BY <1>1, <1>2, <1>3, <1>5, <1>6, <1>9, <1>10, <2>1 DEF NumbersOK
  <1>22. AnswersOK'
    BY <1>1, <1>4, <1>6, <1>12 DEF AnswersOK
  <1>23. TasksOK'
    <2>1. \A n : Prompting(n) => Prompting(n)'
      BY <1>3, <1>5, <1>6, FreeFields DEF Prompting
    <2> QED BY <1>1, <1>4, <1>8, <1>9, <2>1 DEF TasksOK
  <1>24. CancelIsHeard'
    BY <1>11 DEF CancelIsHeard
  <1>25. AsksOK'
    <2>1. ASSUME NEW cmd \in Crit, cmd.op = "update"
          PROVE  /\ inbox[cmd.x].by \in Conns /\ inbox[cmd.x].by <= used'.conns
                 /\ conns'[inbox[cmd.x].by].alive => cmd.x \in conns'[inbox[cmd.x].by].held
      <3>1. /\ inbox[cmd.x].by \in Conns /\ inbox[cmd.x].by <= used.conns
            /\ conns[inbox[cmd.x].by].alive => cmd.x \in conns[inbox[cmd.x].by].held
        BY <1>1, <1>2, <2>1 DEF AsksOK
      <3>2. inbox[cmd.x].by \in Int /\ used'.conns \in Int
        BY <1>10, <3>1, TurnsAreNumbers DEF Bounds
      <3> QED BY <1>7, <1>10, <3>1, <3>2
    <2> QED BY <1>4, <1>6, <2>1 DEF AsksOK
  <1>26. RowsOK'
    BY <1>5, <1>11 DEF RowsOK
  <1> QED
    BY <1>5, <1>13, <1>14, <1>15, <1>16, <1>17, <1>18, <1>19, <1>20, <1>21, <1>22, <1>23, <1>24, <1>25, <1>26 DEF TurnInv

LEMMA ServedFields ==
  \A client \in Clients :
    LET served == Serve(client)
    IN /\ served \in Clients /\ served.alive = client.alive /\ served.queued = client.queued
       /\ served.sent = client.sent /\ served.told = client.told /\ served.stop = client.stop
       /\ served.held = client.held /\ served.handler = TRUE
       /\ Unanswered(served) = Unanswered(client)
PROOF
  BY DEF Serve, Clients, Unanswered

\* The session back on its worker: the restore ends, or its command goes on.
LEMMA AttachesOK ==
  ASSUME TurnInv, Attaches PROVE TurnInv'
PROOF
  <1>1. /\ TypeOK /\ LanesOK /\ ClosedTogether /\ ProcessesOK /\ OneOfEach(box)
        /\ OneHolder /\ ReservationOK /\ RestoreOK /\ StatusOK
        /\ NumbersOK /\ AnswersOK /\ TasksOK /\ CancelIsHeard /\ AsksOK /\ RowsOK
    BY InvParts
  <1>2. Busy /\ Cur = box.run /\ box.run # Free /\ Cur.at = "attach" /\ Cur.op \in MainOps
    BY Running DEF Attaches
  <1>3. /\ ~box.closed /\ ~Gone /\ session.status # "closed" /\ Done \in Boxes /\ OneOfEach(Done)
        /\ Done.run = Free /\ Done.closed = FALSE /\ Done.crit = box.crit
        /\ Queued(Done.main) \subseteq Main /\ Main \cup {box.run} \subseteq Queued(Done.main) \cup {Cur, Free}
        /\ Holds(Cur) => \A cmd \in Queued(Done.main) : ~Holds(cmd)
    BY <1>1, <1>2, MainDone
  <1>4. session \in Sessions /\ conns \in [Conns -> Clients]
    BY <1>1, TypeParts
  <1>5. session.status = "restoring" /\ Cur.c \in Conns /\ Cur.c <= used.conns /\ ~TurnLive
        /\ Cur.op \in {"prompt", "restore", "config"}
    BY <1>1, <1>2 DEF RestoreOK, StatusOK, LanesOK
  <1> DEFINE back == [SetStatus(session, "idle") EXCEPT !.client = Cur.c, !.failures = 0, !.orphaned = "no"]
  <1>6. /\ UNCHANGED <<tasks, inbox, present, said, used>> /\ conns' = [conns EXCEPT ![Cur.c] = Serve(@)]
        /\ IF Cur.op = "restore" THEN session' = Released(back, Cur) /\ box' = Done
                                 ELSE session' = back /\ box' = Awaits("ready", 0)
    BY <1>3 DEF Attaches
  <1>7. /\ back \in Sessions /\ back.status = "idle" /\ back.here = session.here /\ back.client = Cur.c /\ back.turn = session.turn
        /\ back.seal = session.seal /\ back.reserved = session.reserved /\ back.task = session.task
    <2>1. Moved("restoring", "idle") = "idle" /\ "idle" \in Statuses
      BY MovedFacts DEF Statuses
    <2>2. back = [session EXCEPT !.status = "idle", !.client = Cur.c, !.failures = 0, !.orphaned = "no"]
      BY <1>4, <1>5, <2>1 DEF SetStatus, Sessions
    <2>3. 0 \in 0..MaxRestoreFailures
      BY SessionTurnAssumption DEF SessionTurnAssumption
    <2> HIDE DEF back
    <2> QED BY <1>4, <1>5, <2>1, <2>2, <2>3 DEF Sessions
  <1> HIDE DEF back
  <1>8. /\ session' \in Sessions /\ session'.status = "idle" /\ session'.here = session.here /\ session'.client = Cur.c
        /\ session'.turn = session.turn /\ session'.seal = session.seal /\ session'.task = session.task
        /\ session'.reserved = (IF Cur.op = "restore" THEN "none" ELSE session.reserved)
    <2>1. CASE Cur.op = "restore"
      <3>1. session.reserved = "restore" /\ Cur.x # "list"
        BY <1>1, <1>2, <2>1 DEF OneHolder, Holds, LanesOK
      <3>2. session' = [back EXCEPT !.reserved = "none", !.preparing = back.preparing]
        BY <1>6, <1>7, <2>1, <3>1 DEF Released, Sessions
      <3> QED BY <1>7, <2>1, <3>2 DEF Sessions
    <2>2. CASE Cur.op # "restore"
      BY <1>6, <1>7, <2>2
    <2> QED BY <2>1, <2>2
  <1>9. /\ box' \in Boxes /\ OneOfEach(box)' /\ box'.closed = FALSE /\ box'.crit = box.crit /\ box'.main = Done.main
        /\ IF Cur.op = "restore" THEN box'.run = Free
           ELSE /\ box'.run # Free /\ box'.run.op = Cur.op /\ box'.run.n = Cur.n /\ box'.run.x = Cur.x /\ box'.run.at = "ready"
    <2>1. CASE Cur.op = "restore"
      BY <1>3, <1>6, <2>1 DEF OneOfEach
    <2>2. CASE Cur.op # "restore"
      <3>1. "ready" \in Places /\ 0 \in Conns \cup {0} /\ box' = Awaits("ready", 0)
        BY <1>6, <2>2 DEF Places
      <3>2. box' \in Boxes /\ OneOfEach(box)' /\ box'.run.op = Cur.op /\ box'.run.n = Cur.n /\ box'.run.x = Cur.x
            /\ box'.run.at = "ready" /\ box'.run # Free /\ box'.closed = FALSE
            /\ box'.crit = box.crit /\ box'.main = Done.main
        BY ONLY <1>1, <1>2, <3>1, MainWaits
      <3> QED BY <2>2, <3>2
    <2> QED BY <2>1, <2>2
  <1>10. Crit' = Crit /\ Main' = Queued(Done.main)
    BY <1>9 DEF Crit, Main
  <1>11. /\ conns' \in [Conns -> Clients]
         /\ \A d \in Conns : /\ conns'[d].alive = conns[d].alive /\ conns'[d].queued = conns[d].queued /\ conns'[d].sent = conns[d].sent
                             /\ conns'[d].held = conns[d].held /\ (conns[d].handler => conns'[d].handler)
                             /\ Unanswered(conns'[d]) = Unanswered(conns[d])
    BY <1>4, <1>5, <1>6, ServedFields
  <1>12. ~Gone' /\ ~TurnLive'
    BY <1>3, <1>5, <1>8 DEF Gone, TurnLive
  <1>13. TypeOK'
    BY <1>1, <1>6, <1>8, <1>9, <1>11, TypeParts, TypeNext
  <1>14. LanesOK'
    BY <1>1, <1>2, <1>3, <1>5, <1>9, <1>10, FreeFields DEF LanesOK
  <1>15. ClosedTogether'
    BY <1>1, <1>3, <1>8, <1>9 DEF ClosedTogether
  <1>16. ProcessesOK'
    BY <1>1, <1>5, <1>6, <1>8, <1>11 DEF ProcessesOK
  <1>17. OneHolder'
    <2>1. CASE Cur.op = "restore"
      <3>1. Holds(Cur) /\ ~Holds(Free)
        BY <1>1, <1>2, <2>1, FreeFields DEF Holds, LanesOK
      <3> QED BY <1>3, <1>9, <1>10, <2>1, <3>1 DEF OneHolder
    <2>2. CASE Cur.op # "restore"
      <3>1. Holds(box'.run) => Holds(Cur)
        BY <1>9, <2>2 DEF Holds
      <3> QED BY <1>1, <1>2, <1>3, <1>8, <1>9, <1>10, <2>2, <3>1 DEF OneHolder
    <2> QED BY <2>1, <2>2
  <1>18. ReservationOK'
    <2>1. ASSUME session'.reserved # "none" PROVE \E cmd \in Main' \cup {box'.run} : Holds(cmd) /\ cmd.op = session'.reserved
      <3>1. Cur.op # "restore" /\ session'.reserved = session.reserved
        BY <1>8, <2>1
      <3>2. PICK cmd \in Main \cup {box.run} : Holds(cmd) /\ cmd.op = session.reserved
        BY <1>1, <2>1, <3>1 DEF ReservationOK
      <3>3. cmd \in Queued(Done.main) \/ cmd = Cur
        BY <1>3, <3>2, FreeFields DEF Holds
      <3> QED BY <1>9, <1>10, <3>1, <3>2, <3>3 DEF Holds
    <2> QED BY <1>8, <2>1 DEF ReservationOK, Active, Waiting
  <1>19. RestoreOK'
    BY <1>9, FreeFields DEF RestoreOK
  <1>20. StatusOK'
    BY <1>8, <1>9, <1>12, FreeFields DEF StatusOK, Active, Waiting
  <1>21. NumbersOK'
    <2>1. \A n : Fresh(n) => Fresh(n)'
      BY <1>6, <1>8, <1>11 DEF Fresh
    <2> QED BY <1>1, <1>2, <1>3, <1>6, <1>8, <1>9, <1>10, <2>1, FreeFields DEF NumbersOK
  <1>22. AnswersOK'
    BY <1>1, <1>6, <1>10, <1>11 DEF AnswersOK
  <1>23. TasksOK'
    <2>1. \A n : Prompting(n) => Prompting(n)'
      BY <1>3, <1>9, <1>10, FreeFields DEF Prompting
    <2> QED BY <1>1, <1>5, <1>6, <1>8, <2>1 DEF TasksOK
  <1>24. CancelIsHeard'
    BY <1>12 DEF CancelIsHeard
  <1>25. AsksOK'
    BY <1>1, <1>2, <1>6, <1>10, <1>11 DEF AsksOK
  <1>26. RowsOK'
    BY <1>9, <1>12, FreeFields DEF RowsOK
  <1> QED
    BY <1>9, <1>13, <1>14, <1>15, <1>16, <1>17, <1>18, <1>19, <1>20, <1>21, <1>22, <1>23, <1>24, <1>25, <1>26 DEF TurnInv

\* A turn starts: its prompt is the only one there is.
LEMMA StartsTurnOK ==
  ASSUME TurnInv, StartsTurn PROVE TurnInv'
PROOF
  <1>1. /\ TypeOK /\ LanesOK /\ ClosedTogether /\ ProcessesOK /\ OneOfEach(box)
        /\ OneHolder /\ ReservationOK /\ RestoreOK /\ StatusOK
        /\ NumbersOK /\ AnswersOK /\ TasksOK /\ CancelIsHeard /\ AsksOK /\ RowsOK
    BY InvParts
  <1>2. /\ Busy /\ Cur = box.run /\ box.run # Free /\ Cur.at \in {"ready", "answer"} /\ Cur.op = "prompt" /\ Cur.op \in MainOps
        /\ ClientAlive /\ tasks[Cur.n] \notin Terminal
    BY Running DEF StartsTurn, Unsent
  <1>3. /\ ~box.closed /\ ~Gone /\ session.status # "closed" /\ Done \in Boxes /\ OneOfEach(Done)
        /\ Done.run = Free /\ Done.closed = FALSE /\ Done.crit = box.crit
        /\ Queued(Done.main) \subseteq Main /\ Main \cup {box.run} \subseteq Queued(Done.main) \cup {Cur, Free}
        /\ Holds(Cur) => \A cmd \in Queued(Done.main) : ~Holds(cmd)
    BY <1>1, <1>2, MainDone
  <1> DEFINE num == Cur.n
             worker == session.client
  <1>4. /\ session \in Sessions /\ conns \in [Conns -> Clients] /\ tasks \in [Turns -> TaskStates] /\ used \in Bounds
        /\ worker \in Conns /\ worker # 0 /\ num \in Turns /\ num # 0 /\ conns[worker].alive
    BY <1>1, <1>2, TypeParts, TurnsAreNumbers DEF LanesOK, ClientAlive, Sessions
  <1>5. /\ session.status \in {"idle", "error", "cancelled"} /\ ~TurnLive /\ session.reserved = "prompt"
        /\ Holds(Cur) /\ Cur.x # "list"
    BY <1>1, <1>2 DEF StatusOK, OneHolder, Holds, LanesOK, Active, Waiting
  <1>6. Fresh(num) /\ num <= used.prompts
    BY <1>1, <1>2 DEF NumbersOK
  <1>7. \A m \in Turns : tasks[m] \in Open => m = num /\ session.task = num
    <2>1. \A m \in Turns : Prompting(m) => m = num
      BY <1>3, <1>5, FreeFields, <1>1 DEF Prompting, Holds, LanesOK
    <2> QED BY <1>1, <1>5, <2>1 DEF TasksOK
  <1>8. /\ box' = Done /\ UNCHANGED <<inbox, present, said, used>>
        /\ conns' = [conns EXCEPT ![worker] = Prompt(conns[worker], num)]
        /\ session' = NewTurn(Released(SetStatus(session, "running"), Cur), num)
        /\ tasks' = EndTask(tasks, num, "working")
    BY <1>4 DEF StartsTurn, ShowTask
  <1>28. Cur.n = num /\ session.client = worker
    OBVIOUS
  <1> HIDE DEF num, worker
  <1>9. /\ session' \in Sessions /\ session'.status = "running" /\ session'.here = session.here /\ session'.client = worker
        /\ session'.turn = num /\ session'.seal = 0 /\ session'.reserved = "none" /\ session'.task = session.task
        /\ session'.cancelRequested = FALSE
    <2>1. Moved(session.status, "running") = "running" /\ "running" \in Statuses
      BY <1>5, MovedFacts DEF Statuses
    <2> DEFINE s == SetStatus(session, "running")
    <2>2. s = [session EXCEPT !.status = "running"]
      BY <1>4, <2>1 DEF SetStatus, Sessions
    <2>3. /\ s \in Sessions /\ s.status = "running" /\ s.here = session.here /\ s.client = session.client
          /\ s.reserved = "prompt" /\ s.task = session.task
      BY <1>4, <1>5, <2>1, <2>2 DEF Sessions
    <2> HIDE DEF s
    <2>4. Released(s, Cur) = [s EXCEPT !.reserved = "none", !.preparing = 0]
      BY <1>2, <1>5, <2>3 DEF Released, Sessions
    <2> DEFINE r == Released(s, Cur)
    <2> HIDE DEF r
    <2>5. r \in Sessions /\ r.status = "running" /\ r.here = session.here /\ r.client = session.client /\ r.reserved = "none" /\ r.task = session.task
      BY <2>3, <2>4 DEF r, Sessions
    <2>6. session' = [r EXCEPT !.turn = num, !.seal = 0, !.cancelRequested = FALSE]
      BY <1>8 DEF NewTurn, r, s
    <2> QED BY <1>4, <1>28, <2>5, <2>6 DEF Sessions
  <1>10. /\ box' \in Boxes /\ OneOfEach(box)' /\ box'.closed = FALSE /\ box'.run = Free
         /\ Crit' = Crit /\ Main' = Queued(Done.main)
    BY <1>3, <1>8 DEF OneOfEach, Crit, Main
  <1>11. /\ conns' \in [Conns -> Clients]
         /\ \A d \in Conns : /\ conns'[d].alive = conns[d].alive /\ conns'[d].sent = conns[d].sent
                             /\ conns'[d].held = conns[d].held /\ conns'[d].handler = conns[d].handler
                             /\ conns[d].queued \subseteq conns'[d].queued
                             /\ \A m : m \in conns'[d].queued => m \in conns[d].queued \/ (m = num /\ d = worker)
                             /\ \A m : m \in Unanswered(conns'[d]) => m \in Unanswered(conns[d]) \/ m = num
         /\ num \in Unanswered(conns'[worker])
    <2> DEFINE more == Prompt(conns[worker], num)
    <2>1. conns[worker] \in Clients /\ more = [conns[worker] EXCEPT !.queued = conns[worker].queued \cup {num}]
      BY <1>4 DEF Prompt, Clients
    <2>2. /\ more \in Clients /\ more.alive = conns[worker].alive /\ more.sent = conns[worker].sent /\ more.held = conns[worker].held
          /\ more.handler = conns[worker].handler /\ more.queued = conns[worker].queued \cup {num}
      BY <1>4, <2>1, ZenonT(30) DEF Clients
    <2>3. Unanswered(more) = Unanswered(conns[worker]) \cup {num}
      BY <2>2 DEF Unanswered
    <2>4. conns' = [conns EXCEPT ![worker] = more]
      BY <1>8
    <2> HIDE DEF more
    <2> QED BY <1>4, <2>2, <2>3, <2>4
  <1>12. /\ tasks' \in [Turns -> TaskStates]
         /\ \A m \in Turns : tasks'[m] = IF m = num /\ tasks[m] \in Open THEN "working" ELSE tasks[m]
    <2>1. "working" \in TaskStates
      BY DEF TaskStates, Open
    <2> QED BY <1>4, <1>8, <2>1, EndTaskFacts
  <1>13. ~Gone' /\ TurnLive' /\ ClientAlive' /\ num \in Unanswered(conns'[worker])
    BY <1>3, <1>4, <1>9, <1>11 DEF Gone, TurnLive, ClientAlive
  <1>14. \A cmd \in Main' : ~Holds(cmd) /\ cmd.op # "prompt"
    BY <1>1, <1>3, <1>5, <1>10 DEF Holds, LanesOK
  <1>15. TypeOK'
    BY <1>1, <1>8, <1>9, <1>10, <1>11, <1>12, TypeParts, TypeNext
  <1>16. LanesOK'
    BY <1>1, <1>3, <1>10, FreeFields DEF LanesOK
  <1>17. ClosedTogether'
    BY <1>1, <1>3, <1>9, <1>10 DEF ClosedTogether
  <1>18. ProcessesOK'
    <2>1. \A d \in Conns : conns'[d].queued \cap conns'[d].sent = {}
      BY <1>1, <1>6, <1>11 DEF ProcessesOK, Fresh, Unanswered
    <2> QED BY <1>1, <1>4, <1>8, <1>9, <1>11, <1>28, <2>1 DEF ProcessesOK
  <1>19. OneHolder' /\ ReservationOK'
    BY <1>9, <1>10, <1>14, FreeFields DEF OneHolder, ReservationOK, Holds
  <1>20. RestoreOK'
    BY <1>10, FreeFields DEF RestoreOK
  <1>21. StatusOK'
    BY <1>9, <1>10, <1>13, FreeFields DEF StatusOK, Active
  <1>22. NumbersOK'
    <2>1. ASSUME NEW m \in Turns, m > used.prompts PROVE Fresh(m)'
      <3>1. Fresh(m) /\ m # num
        BY <1>1, <1>4, <1>6, <2>1, TurnsAreNumbers DEF NumbersOK, Bounds
      <3> QED BY <1>8, <1>9, <1>11, <3>1 DEF Fresh
    <2> QED BY <1>6, <1>8, <1>9, <1>10, <1>14, <2>1, FreeFields DEF NumbersOK
  <1>23. AnswersOK'
    BY <1>1, <1>4, <1>6, <1>8, <1>10, <1>11 DEF AnswersOK, Fresh
  <1>24. TasksOK'
    <2>1. \A m \in Turns : tasks'[m] \in Open => m = num /\ session.task = num
      BY <1>7, <1>12
    <2>2. \A m \in Turns : tasks'[m] \in Open <=> tasks[m] \in Open
      BY <1>12 DEF Open
    <2>3. \A m \in Turns : tasks'[m] = "completed" => tasks[m] = "completed"
      BY <1>12
    <2>4. session.task # 0 => session.task \in Turns
      BY <1>4 DEF Sessions
    <2> QED BY <1>1, <1>8, <1>9, <1>13, <2>1, <2>2, <2>3, <2>4 DEF TasksOK
  <1>25. CancelIsHeard'
    BY <1>9 DEF CancelIsHeard
  <1>26. AsksOK'
    BY <1>1, <1>2, <1>8, <1>10, <1>11 DEF AsksOK
  <1>27. RowsOK'
    <2>1. \A r \in Requests : inbox[r].turn # num
      BY <1>6 DEF Fresh
    <2> QED BY <1>8, <1>9, <1>10, <1>13, <2>1, FreeFields DEF RowsOK
  <1> QED
    BY <1>10, <1>15, <1>16, <1>17, <1>18, <1>19, <1>20, <1>21, <1>22, <1>23, <1>24, <1>25, <1>26, <1>27 DEF TurnInv

-----------------------------------------------------------------------------
(* What the worker sent, applied *)

\* A live turn is its task's, and nothing reserves the session.
LEMMA LiveTurn ==
  ASSUME TurnInv, TurnLive
  PROVE  /\ session.status \in Active \ {"restoring"} /\ session.reserved = "none" /\ session.turn \in Turns
         /\ (\A n \in Turns : ~Prompting(n))
         /\ \A n \in Turns : tasks[n] \in Open => n = session.turn /\ session.task = n
         /\ session.task \in {0, session.turn}
PROOF
  <1>1. TypeOK /\ StatusOK /\ ReservationOK /\ OneHolder /\ TasksOK /\ LanesOK /\ session \in Sessions
    BY InvParts, TypeParts
  <1>2. session.status \in Active \ {"restoring"} /\ session.reserved = "none" /\ session.turn \in Turns
    BY <1>1 DEF StatusOK, ReservationOK, TurnLive, Sessions
  <1>3. \A n \in Turns : ~Prompting(n)
    BY <1>1, <1>2 DEF Prompting, OneHolder, Holds, LanesOK
  <1>4. \A n \in Turns : tasks[n] \in Open => n = session.turn /\ session.task = n
    BY <1>1, <1>3 DEF TasksOK
  <1>5. session.task \in {0, session.turn}
    BY <1>1, <1>4 DEF TasksOK, Sessions
  <1> QED BY <1>2, <1>3, <1>4, <1>5

\* The first command of the worker lane done: the record, the tasks and the rows
\* are what the step made of them.
LEMMA CritStepOK ==
  ASSUME TurnInv, Cur.op \in CritOps, box' = Done, session' \in Sessions, session'.seal \in {0, session'.turn},
         session'.here = session.here, session'.turn = session.turn, session'.reserved = session.reserved,
         session'.client \in {0, session.client}, session'.status # "closed",
         session'.status \in Active => session.status \in Active,
         session'.status # "restoring",
         session'.status \in Active => (TurnLive <=> TurnLive'),
         session'.status \notin Active => ~TurnLive',
         session'.status \in Active => session'.client = session.client /\ (Cur.op = "provider_exit" => FALSE),
         session'.status \in Active /\ Cur.op \in {"turn_end", "turn_fail"} /\ TurnLive => session.turn # Cur.n,
         tasks' \in [Turns -> TaskStates], TasksOK',
         inbox' \in [Requests -> Rows], \A r \in Requests : inbox'[r].turn \in {inbox[r].turn, session.turn} /\ inbox'[r].by = inbox[r].by,
         conns' \in [Conns -> Clients],
         \A c \in Conns : /\ conns'[c].alive = conns[c].alive /\ conns'[c].queued = conns[c].queued /\ conns'[c].sent = conns[c].sent
                          /\ conns'[c].told = conns[c].told /\ conns'[c].stop = conns[c].stop
                          /\ conns'[c].held \subseteq conns[c].held /\ conns'[c].handler = conns[c].handler
                          /\ \A r \in conns[c].held \ conns'[c].held : Cur.op = "update" /\ r = Cur.x,
         session'.cancelRequested = session.cancelRequested \/ ~TurnLive',
         UNCHANGED <<present, said, used>>,
         RowsOK'
  PROVE  TurnInv'
PROOF
  <1>1. /\ TypeOK /\ LanesOK /\ ClosedTogether /\ ProcessesOK /\ OneOfEach(box)
        /\ OneHolder /\ ReservationOK /\ RestoreOK /\ StatusOK
        /\ NumbersOK /\ AnswersOK /\ TasksOK /\ CancelIsHeard /\ AsksOK /\ RowsOK
    BY InvParts
  <1>2. /\ box.run = Free /\ ~box.closed /\ session.status # "closed" /\ ~Gone /\ Cur \in Crit
        /\ Done \in Boxes /\ OneOfEach(Done)
        /\ Done.run = Free /\ Done.closed = FALSE /\ Done.main = box.main
        /\ Crit = Queued(Done.crit) \cup {Cur}
        /\ \A cmd \in Queued(Done.crit) : cmd.op = "update" /\ Cur.op = "update" => cmd.x # Cur.x
    BY <1>1, CritDone
  <1>3. /\ box' \in Boxes /\ OneOfEach(box)' /\ box'.run = Free /\ box'.closed = FALSE
        /\ Main' = Main /\ Crit' = Queued(Done.crit)
    BY <1>2 DEF OneOfEach, Crit, Main
  <1>4. session \in Sessions /\ conns \in [Conns -> Clients]
    BY <1>1, TypeParts
  <1>5. \A c \in Conns : Unanswered(conns'[c]) = Unanswered(conns[c])
    BY DEF Unanswered
  <1>6. session.status # "restoring" /\ ~Gone' /\ ~Busy /\ ~Busy'
    BY <1>1, <1>2, <1>3, FreeFields DEF StatusOK, Gone, Busy
  <1>7. TypeOK'
    BY <1>1, <1>3, TypeParts, TypeNext
  <1>8. LanesOK'
    BY <1>1, <1>2, <1>3 DEF LanesOK
  <1>9. ClosedTogether'
    BY <1>1, <1>2, <1>3 DEF ClosedTogether
  <1>10. ProcessesOK'
    <2>1. session'.client <= used.conns
      <3>1. 0 <= used.conns
        BY <1>1, TypeParts, TurnsAreNumbers DEF Bounds
      <3> QED BY <1>1, <3>1 DEF ProcessesOK
    <2> QED BY <1>1, <2>1 DEF ProcessesOK
  <1>11. OneHolder'
    BY <1>1, <1>2, <1>3 DEF OneHolder
  <1>12. ReservationOK'
    BY <1>1, <1>2, <1>3, <1>6 DEF ReservationOK
  <1>13. RestoreOK'
    BY <1>3, FreeFields DEF RestoreOK
  <1>14. StatusOK'
    <2>1. ASSUME session'.status \in Active
          PROVE  ExitQueued' \/ (TurnLive' /\ (EndQueued(session.turn)' \/ (ClientAlive' /\ session.turn \in Unanswered(conns'[session'.client]))))
      <3>1. session.status \in Active \ {"restoring"} /\ Cur.op # "provider_exit" /\ session'.client = session.client
        BY <1>6, <2>1
      <3>2. ExitQueued \/ (TurnLive /\ (EndQueued(session.turn) \/ (ClientAlive /\ session.turn \in Unanswered(conns[session.client]))))
        BY <1>1, <1>2, <3>1, FreeFields DEF StatusOK
      <3>3. CASE ExitQueued
        <4>1. ExitQueued'
          BY <1>2, <1>3, <3>1, <3>3 DEF ExitQueued, Crit
        <4> QED BY <4>1
      <3>4. CASE TurnLive /\ EndQueued(session.turn) /\ ~ExitQueued
        <4>1. EndQueued(session.turn)'
          BY <1>2, <1>3, <2>1, <3>4 DEF ExitQueued, EndQueued, Crit
        <4> QED BY <2>1, <3>4, <4>1
      <3>5. CASE TurnLive /\ ClientAlive /\ session.turn \in Unanswered(conns[session.client])
        <4>1. session.client \in Conns
          BY <1>4, <3>5 DEF ClientAlive, Sessions
        <4>2. ClientAlive' /\ session.turn \in Unanswered(conns'[session'.client])
          BY <1>5, <3>1, <3>5, <4>1 DEF ClientAlive
        <4> QED BY <2>1, <3>5, <4>2
      <3> QED BY <3>2, <3>3, <3>4, <3>5
    <2> QED BY <1>3, <2>1, FreeFields DEF StatusOK
  <1>15. NumbersOK'
    <2>1. \A n : Fresh(n) => Fresh(n)'
      BY <1>5 DEF Fresh
    <2> QED BY <1>1, <1>2, <1>3, <2>1 DEF NumbersOK
  <1>16. AnswersOK'
    BY <1>1, <1>2, <1>3, <1>5 DEF AnswersOK
  <1>17. CancelIsHeard'
    <2>1. ASSUME TurnLive', session'.cancelRequested, ClientAlive'
          PROVE  TurnLive /\ session.cancelRequested /\ ClientAlive /\ session'.client = session.client /\ session.client \in Conns
      <3>1. session'.status \in Active /\ session'.client = session.client
        BY <2>1
      <3> QED BY <1>4, <2>1, <3>1 DEF ClientAlive, Sessions
    <2> QED BY <1>1, <2>1 DEF CancelIsHeard
  <1>18. AsksOK'
    <2>1. ASSUME NEW cmd \in Queued(Done.crit), cmd.op = "update"
          PROVE  /\ inbox[cmd.x].by \in Conns /\ inbox[cmd.x].by <= used.conns /\ cmd.x \in Requests
                 /\ conns'[inbox[cmd.x].by].alive /\ cmd.x \notin conns'[inbox[cmd.x].by].held => session'.status \notin Active
      <3>1. cmd \in Crit /\ cmd.x \in Requests /\ inbox[cmd.x].by \in Conns
        BY <1>1, <1>2, <2>1 DEF AsksOK, LanesOK
      <3> QED BY <1>1, <1>2, <2>1, <3>1 DEF AsksOK
    <2> QED BY <1>3, <1>6, <2>1 DEF AsksOK
  <1> QED
    BY <1>3, <1>7, <1>8, <1>9, <1>10, <1>11, <1>12, <1>13, <1>14, <1>15, <1>16, <1>17, <1>18 DEF TurnInv

LEMMA SetStatusFields ==
  ASSUME NEW s \in Sessions, NEW to \in Statuses
  PROVE  LET after == SetStatus(s, to)
         IN /\ after \in Sessions /\ after.status = Moved(s.status, to) /\ after.here = s.here /\ after.client = s.client
            /\ after.turn = s.turn /\ after.seal = s.seal /\ after.reserved = s.reserved /\ after.task = s.task
            /\ after.cancelRequested = s.cancelRequested
PROOF
  <1>1. Moved(s.status, to) \in Statuses /\ s.status \in Statuses
    <2>1. s.status \in Statuses /\ "cancelled" \in Statuses
      BY DEF Sessions, Statuses
    <2> QED BY <2>1, MovedFacts
  <1> DEFINE after == SetStatus(s, to)
  <1>2. after = [s EXCEPT !.status = Moved(s.status, to)]
    BY DEF SetStatus, Sessions
  <1> HIDE DEF after
  <1>3. /\ after \in Sessions /\ after.status = Moved(s.status, to) /\ after.here = s.here /\ after.client = s.client
        /\ after.turn = s.turn /\ after.seal = s.seal /\ after.reserved = s.reserved /\ after.task = s.task
        /\ after.cancelRequested = s.cancelRequested
    BY <1>1, <1>2 DEF Sessions
  <1> QED BY <1>3 DEF after

\* The outcome of a turn, applied.
LEMMA FinishTurnOK ==
  ASSUME TurnInv, FinishTurn PROVE TurnInv'
PROOF
  <1>1. /\ TypeOK /\ LanesOK /\ ClosedTogether /\ OneOfEach(box) /\ StatusOK /\ AnswersOK /\ TasksOK /\ RowsOK
        /\ session \in Sessions /\ tasks \in [Turns -> TaskStates] /\ session.seal \in {0, session.turn}
        /\ inbox \in [Requests -> Rows] /\ conns \in [Conns -> Clients]
    BY InvParts, TypeParts
  <1>2. Cur.op \in {"turn_end", "turn_fail"} /\ Cur.op \in CritOps
    BY DEF FinishTurn, Runs, CritOps
  <1>3. /\ box.run = Free /\ ~box.closed /\ session.status # "closed" /\ ~Gone /\ Cur \in Crit
        /\ Done.run = Free /\ Done.main = box.main /\ Crit = Queued(Done.crit) \cup {Cur}
    BY <1>1, <1>2, CritDone
  <1>4. box' = Done /\ UNCHANGED <<conns, inbox, present, said, used>>
    BY DEF FinishTurn, Skips
  <1>5. Main' = Main /\ box'.run = Free /\ Crit' = Queued(Done.crit) /\ session.status # "restoring"
    BY <1>1, <1>3, <1>4, FreeFields DEF Main, Crit, StatusOK
  <1>6. \A n : Prompting(n) <=> Prompting(n)'
    BY <1>3, <1>5 DEF Prompting
  <1>7. CASE Finalizes(Cur.n)
    <2>1. TurnLive /\ session.turn = Cur.n
      BY <1>1, <1>7 DEF Finalizes, TurnLive
    <2>2. /\ session.status \in Active \ {"restoring"} /\ session.reserved = "none" /\ session.turn \in Turns
          /\ \A n \in Turns : tasks[n] \in Open => n = session.turn /\ session.task = n
      BY <2>1, LiveTurn
    <2> DEFINE to == CASE Cur.op = "turn_fail" /\ ~ClientAlive -> "disconnected"
                       [] Cur.op = "turn_fail" /\ ClientAlive -> "error"
                       [] OTHER -> IF session.cancelRequested \/ Cur.x = "cancelled" THEN "cancelled" ELSE "idle"
               moved == SetStatus(session, to)
               after == SealTurn(moved)
    <2>3. /\ session' = [after EXCEPT !.task = 0, !.cancelRequested = Cur.op = "turn_fail" /\ after.cancelRequested]
          /\ tasks' = Finished(tasks, after)
      BY <1>7 DEF FinishTurn
    <2>4. to \in {"disconnected", "error", "cancelled", "idle"} /\ (to = "idle" => Cur.op = "turn_end" /\ Cur.x # "cancelled")
      BY <1>2
    <2>5. Moved(session.status, to) \in {"disconnected", "error", "cancelled", "idle"} /\ (Moved(session.status, to) = "idle" => to = "idle")
      BY <1>1, <2>2, <2>4, MovedFacts DEF Sessions, Active, Waiting
    <2>6. to \in Statuses
      BY <2>4 DEF Statuses
    <2> HIDE DEF to
    <2>7. /\ moved \in Sessions /\ moved.status = Moved(session.status, to) /\ moved.here = session.here /\ moved.client = session.client
          /\ moved.turn = session.turn /\ moved.reserved = session.reserved /\ moved.task = session.task
      BY <1>1, <2>6, SetStatusFields
    <2> HIDE DEF moved
    <2>8. /\ after \in Sessions /\ after.status = Moved(session.status, to) /\ after.here = session.here /\ after.client = session.client
          /\ after.turn = session.turn /\ after.seal = session.turn /\ after.reserved = session.reserved /\ after.task = session.task
      BY <2>7 DEF SealTurn, Sessions
    <2> HIDE DEF after
    <2>9. /\ session' \in Sessions /\ session'.status = Moved(session.status, to) /\ session'.here = session.here
          /\ session'.client = session.client /\ session'.turn = session.turn /\ session'.seal = session.turn
          /\ session'.reserved = session.reserved /\ session'.task = 0
      BY <2>3, <2>8 DEF Sessions
    <2>10. session'.status \notin Active \cup {"closed"} /\ session'.status # "restoring" /\ ~TurnLive'
      BY <2>5, <2>9 DEF Active, Waiting, TurnLive
    <2> DEFINE final == CASE after.status = "cancelled" -> "cancelled" [] after.status = "idle" -> "completed" [] OTHER -> "failed"
    <2>11. final \in Terminal /\ final \in TaskStates /\ (final = "completed" => said[Cur.n] = "end")
      <3>1. final = "completed" => Cur.op = "turn_end" /\ Cur.x # "cancelled"
        BY <2>4, <2>5, <2>8
      <3>2. Cur.op = "turn_end" /\ Cur.x # "cancelled" => said[Cur.n] = "end"
        BY <1>1, <1>3 DEF AnswersOK
      <3> QED BY <3>1, <3>2 DEF TaskStates, Terminal
    <2>12. tasks' = EndTask(tasks, session.task, final)
      BY <2>3, <2>8 DEF Finished
    <2> HIDE DEF final
    <2>13. /\ tasks' \in [Turns -> TaskStates]
           /\ \A n \in Turns : tasks'[n] = IF n = session.task /\ tasks[n] \in Open THEN final ELSE tasks[n]
      BY <1>1, <2>11, <2>12, EndTaskFacts
    <2>14. \A n \in Turns : tasks'[n] \notin Open
      BY <2>2, <2>11, <2>13 DEF Open, Terminal
    <2>15. TasksOK'
      <3>1. \A n \in Turns : tasks'[n] = "completed" => said[n] = "end"
        BY <1>1, <2>1, <2>2, <2>11, <2>13 DEF TasksOK
      <3> QED BY <1>4, <2>9, <2>14, <3>1 DEF TasksOK
    <2>16. RowsOK'
      BY <1>3, <1>5, <2>9, <2>10, FreeFields DEF RowsOK, Gone
    <2> QED BY <1>1, <1>2, <1>4, <2>9, <2>10, <2>13, <2>15, <2>16, CritStepOK
  <1>8. CASE ~Finalizes(Cur.n)
    <2>1. UNCHANGED <<session, tasks>>
      BY <1>8 DEF FinishTurn, Skips
    <2>2. TurnLive => session.turn # Cur.n
      BY <1>8 DEF Finalizes, TurnLive
    <2>3. (TurnLive <=> TurnLive') /\ (Gone <=> Gone') /\ Strays' = Strays /\ (TurnLive => session.status \in Active)
      BY <1>1, <1>4, <2>1 DEF TurnLive, Gone, Strays, StatusOK
    <2>4. TasksOK'
      BY <1>1, <1>4, <1>6, <2>1, <2>3 DEF TasksOK
    <2>5. TurnLive => (EndQueued(session.turn) <=> EndQueued(session.turn)')
      BY <1>2, <1>3, <1>5, <2>1, <2>2 DEF EndQueued, ExitQueued, Crit
    <2>6. RowsOK'
      BY <1>1, <1>3, <1>4, <1>5, <2>1, <2>3, <2>5 DEF RowsOK
    <2> QED BY <1>1, <1>2, <1>3, <1>4, <1>5, <2>1, <2>2, <2>3, <2>4, <2>6, CritStepOK
  <1> QED BY <1>7, <1>8


LEMMA InterruptedRows ==
  ASSUME inbox \in [Requests -> Rows]
  PROVE  /\ Interrupted(inbox) \in [Requests -> Rows]
         /\ \A r \in Requests : /\ Interrupted(inbox)[r].status # "pending"
                                /\ Interrupted(inbox)[r].turn = inbox[r].turn /\ Interrupted(inbox)[r].by = inbox[r].by
PROOF
  <1>1. ASSUME NEW r \in Requests
        PROVE  /\ Interrupted(inbox)[r] \in Rows /\ Interrupted(inbox)[r].status # "pending"
               /\ Interrupted(inbox)[r].turn = inbox[r].turn /\ Interrupted(inbox)[r].by = inbox[r].by
    <2>1. inbox[r] \in Rows
      OBVIOUS
    <2>2. Interrupted(inbox)[r] = IF inbox[r].status = "pending" THEN [inbox[r] EXCEPT !.status = "interrupted"] ELSE inbox[r]
      BY DEF Interrupted
    <2> QED BY <2>1, <2>2 DEF Rows
  <1>2. Interrupted(inbox) = [r \in Requests |-> Interrupted(inbox)[r]]
    BY DEF Interrupted
  <1> QED BY <1>1, <1>2

\* The worker's exit, applied.
LEMMA ProviderExitOK ==
  ASSUME TurnInv, ProviderExit PROVE TurnInv'
PROOF
  <1>1. /\ TypeOK /\ LanesOK /\ ClosedTogether /\ OneOfEach(box) /\ StatusOK /\ AnswersOK /\ TasksOK /\ RowsOK
        /\ session \in Sessions /\ tasks \in [Turns -> TaskStates] /\ session.seal \in {0, session.turn}
        /\ inbox \in [Requests -> Rows] /\ conns \in [Conns -> Clients]
    BY InvParts, TypeParts
  <1>2. Cur.op = "provider_exit" /\ Cur.op \in CritOps
    BY DEF ProviderExit, Runs, CritOps
  <1>3. /\ box.run = Free /\ ~box.closed /\ session.status # "closed" /\ ~Gone
        /\ Done.run = Free /\ Done.main = box.main
    BY <1>1, <1>2, CritDone
  <1>4. /\ box' = Done /\ UNCHANGED <<conns, present, said, used>>
        /\ session' = [Exited(session) EXCEPT !.task = IF TurnLive THEN 0 ELSE Exited(session).task]
        /\ tasks' = (IF TurnLive THEN Finished(tasks, Exited(session)) ELSE tasks)
        /\ inbox' = Interrupted(inbox)
    BY <1>3 DEF ProviderExit
  <1>5. Main' = Main /\ box'.run = Free
    BY <1>3, <1>4 DEF Main
  <1>6. \A n : Prompting(n) <=> Prompting(n)'
    BY <1>3, <1>5 DEF Prompting
  <1> DEFINE moved == SetStatus(session, "disconnected")
  <1>7. /\ moved \in Sessions /\ moved.status = "disconnected" /\ moved.here = session.here
        /\ moved.turn = session.turn /\ moved.reserved = session.reserved /\ moved.task = session.task
        /\ moved.cancelRequested = session.cancelRequested
    <2>1. Moved(session.status, "disconnected") = "disconnected" /\ "disconnected" \in Statuses
      BY <1>1, <1>3, MovedFacts DEF Sessions, Statuses
    <2> QED BY <1>1, <2>1, SetStatusFields
  <1> DEFINE after == Exited(session)
  <1> HIDE DEF moved
  <1>8. /\ after \in Sessions /\ after.status = "disconnected" /\ after.here = session.here /\ after.client = 0
        /\ after.turn = session.turn /\ after.seal = session.turn /\ after.reserved = session.reserved /\ after.task = session.task
        /\ after.cancelRequested = session.cancelRequested
    <2>1. after = [SealTurn(moved) EXCEPT !.client = 0]
      BY DEF Exited, moved
    <2>2. SealTurn(moved) = [moved EXCEPT !.seal = moved.turn]
      BY DEF SealTurn
    <2> HIDE DEF after
    <2> QED BY <1>7, <2>1, <2>2 DEF Sessions
  <1>9. session' = [after EXCEPT !.task = IF TurnLive THEN 0 ELSE after.task]
    BY <1>4
  <1>10. tasks' = (IF TurnLive THEN Finished(tasks, after) ELSE tasks)
    BY <1>4
  <1> HIDE DEF after
  <1>11. /\ session' \in Sessions /\ session'.status = "disconnected" /\ session'.here = session.here /\ session'.client = 0
         /\ session'.turn = session.turn /\ session'.seal = session.turn /\ session'.reserved = session.reserved
         /\ session'.task = (IF TurnLive THEN 0 ELSE session.task)
    BY <1>8, <1>9 DEF Sessions
  <1>12. session'.status \notin Active \cup {"closed"} /\ session'.status # "restoring" /\ ~TurnLive'
    BY <1>11 DEF Active, Waiting, TurnLive
  <1>13. tasks' \in [Turns -> TaskStates] /\ TasksOK'
    <2>1. CASE TurnLive
      <3>1. tasks' = EndTask(tasks, session.task, "failed")
        BY <1>8, <1>10, <2>1 DEF Finished
      <3>2. "failed" \in TaskStates /\ "failed" \notin Open
        BY DEF TaskStates, Terminal, Open
      <3>3. /\ tasks' \in [Turns -> TaskStates]
            /\ \A n \in Turns : tasks'[n] = IF n = session.task /\ tasks[n] \in Open THEN "failed" ELSE tasks[n]
        BY <1>1, <3>1, <3>2, EndTaskFacts
      <3>4. \A n \in Turns : tasks'[n] \notin Open
        BY <2>1, <3>2, <3>3, LiveTurn
      <3>5. \A n \in Turns : tasks'[n] = "completed" => said[n] = "end"
        BY <1>1, <3>3 DEF TasksOK
      <3> QED BY <1>4, <1>11, <2>1, <3>3, <3>4, <3>5 DEF TasksOK
    <2>2. CASE ~TurnLive
      BY <1>1, <1>4, <1>6, <1>10, <1>11, <2>2 DEF TasksOK
    <2> QED BY <2>1, <2>2
  <1>14. inbox' \in [Requests -> Rows] /\ \A r \in Requests : inbox'[r].turn = inbox[r].turn /\ inbox'[r].by = inbox[r].by
    BY <1>1, <1>4, InterruptedRows
  <1>15. RowsOK'
    BY <1>3, <1>5, <1>11, <1>12, FreeFields DEF RowsOK, Gone
  <1> QED BY <1>1, <1>2, <1>4, <1>11, <1>12, <1>13, <1>14, <1>15, CritStepOK

\* What syncSessionInputState makes of a record that is not over.
LEMMA SyncInputFields ==
  ASSUME NEW s \in Sessions, NEW client \in Clients, TurnLive => s.status \in Active \ {"restoring"}
  PROVE  LET after == SyncInput(s, client)
         IN /\ after \in Sessions /\ after.here = s.here /\ after.client = s.client
            /\ after.turn = s.turn /\ after.seal = s.seal /\ after.reserved = s.reserved /\ after.task = s.task
            /\ after.cancelRequested = s.cancelRequested
            /\ s.status \in {"running"} \cup Waiting => after.status \in {"running"} \cup Waiting
            /\ s.status \notin {"running"} \cup Waiting => after.status = s.status
            /\ TurnLive /\ after.status = "waiting_permission" => WaitsForPermission(client)
            /\ TurnLive /\ after.status = "waiting_input" => WaitsForInput(client)
PROOF
  <1> DEFINE after == SyncInput(s, client)
  <1>1. /\ s.status \in Statuses /\ "running" \in Statuses /\ "waiting_permission" \in Statuses /\ "waiting_input" \in Statuses
        /\ "waiting_permission" \in Waiting /\ "waiting_input" \in Waiting
    BY DEF Sessions, Statuses, Waiting
  <1>2. CASE WaitsForPermission(client)
    <2>1. after = SetStatus(s, "waiting_permission")
      BY <1>2 DEF SyncInput
    <2>2. /\ s.status \in {"running"} \cup Waiting => Moved(s.status, "waiting_permission") = "waiting_permission"
          /\ s.status \notin {"running"} \cup Waiting => Moved(s.status, "waiting_permission") = s.status
      BY <1>1, MovedFacts
    <2> HIDE DEF after
    <2>3. /\ after \in Sessions /\ after.status = Moved(s.status, "waiting_permission") /\ after.here = s.here /\ after.client = s.client
          /\ after.turn = s.turn /\ after.seal = s.seal /\ after.reserved = s.reserved /\ after.task = s.task
          /\ after.cancelRequested = s.cancelRequested
      BY <1>1, <2>1, SetStatusFields
    <2> QED BY <1>1, <1>2, <2>2, <2>3 DEF after
  <1>3. CASE ~WaitsForPermission(client) /\ WaitsForInput(client)
    <2>1. after = SetStatus(s, "waiting_input")
      BY <1>3 DEF SyncInput
    <2>2. /\ s.status \in {"running"} \cup Waiting => Moved(s.status, "waiting_input") = "waiting_input"
          /\ s.status \notin {"running"} \cup Waiting => Moved(s.status, "waiting_input") = s.status
      BY <1>1, MovedFacts
    <2> HIDE DEF after
    <2>3. /\ after \in Sessions /\ after.status = Moved(s.status, "waiting_input") /\ after.here = s.here /\ after.client = s.client
          /\ after.turn = s.turn /\ after.seal = s.seal /\ after.reserved = s.reserved /\ after.task = s.task
          /\ after.cancelRequested = s.cancelRequested
      BY <1>1, <2>1, SetStatusFields
    <2> QED BY <1>1, <1>3, <2>2, <2>3 DEF after
  <1>4. CASE ~WaitsForPermission(client) /\ ~WaitsForInput(client) /\ TurnLive
    <2>1. after = SetStatus(s, "running")
      BY <1>4 DEF SyncInput
    <2>2. /\ s.status \in {"running"} \cup Waiting => Moved(s.status, "running") = "running"
          /\ s.status \notin {"running"} \cup Waiting => Moved(s.status, "running") = s.status
      BY <1>1, <1>4, MovedFacts DEF Active
    <2> HIDE DEF after
    <2>3. /\ after \in Sessions /\ after.status = Moved(s.status, "running") /\ after.here = s.here /\ after.client = s.client
          /\ after.turn = s.turn /\ after.seal = s.seal /\ after.reserved = s.reserved /\ after.task = s.task
          /\ after.cancelRequested = s.cancelRequested
      BY <1>1, <2>1, SetStatusFields
    <2>4. after.status # "waiting_permission" /\ after.status # "waiting_input"
      BY <1>1, <2>2, <2>3
    <2> QED BY <1>1, <2>2, <2>3, <2>4 DEF after
  <1>5. CASE ~WaitsForPermission(client) /\ ~WaitsForInput(client) /\ ~TurnLive
    BY <1>1, <1>5 DEF SyncInput
  <1> QED BY <1>2, <1>3, <1>4, <1>5

\* A task shown in another state that is not final.
LEMMA ShownTasks ==
  ASSUME TasksOK, tasks \in [Turns -> TaskStates], UNCHANGED said, session'.task = session.task, session'.turn = session.turn,
         TurnLive <=> TurnLive', \A n : Prompting(n) => Prompting(n)',
         UNCHANGED tasks \/ \E st \in Open : tasks' = EndTask(tasks, session.task, st)
  PROVE  tasks' \in [Turns -> TaskStates] /\ TasksOK'
PROOF
  <1>1. tasks' \in [Turns -> TaskStates] /\ \A n \in Turns : tasks'[n] = tasks[n] \/ (tasks[n] \in Open /\ tasks'[n] \in Open)
    <2>1. CASE UNCHANGED tasks
      BY <2>1
    <2>2. CASE \E st \in Open : tasks' = EndTask(tasks, session.task, st)
      <3>1. PICK st \in Open : tasks' = EndTask(tasks, session.task, st)
        BY <2>2
      <3>2. st \in TaskStates
        BY DEF TaskStates
      <3> QED BY <3>1, <3>2, EndTaskFacts
    <2> QED BY <2>1, <2>2
  <1>2. "completed" \notin Open
    BY DEF Open
  <1>3. \A n \in Turns : tasks'[n] \in Open <=> tasks[n] \in Open
    BY <1>1
  <1>4. \A n \in Turns : tasks'[n] = "completed" => tasks[n] = "completed"
    BY <1>1, <1>2
  <1>5. session.task # 0 /\ tasks[session.task] \in Open => tasks'[session.task] \in Open
    <2>1. CASE session.task \in Turns
      BY <1>3, <2>1
    <2>2. CASE session.task \notin Turns
      <3>1. CASE UNCHANGED tasks
        BY <3>1
      <3>2. CASE \E st \in Open : tasks' = EndTask(tasks, session.task, st)
        <4>1. tasks' = tasks
          BY <2>2, <3>2 DEF EndTask
        <4> QED BY <4>1
      <3> QED BY <3>1, <3>2
    <2> QED BY <2>1, <2>2
  <1> QED BY <1>1, <1>3, <1>4, <1>5 DEF TasksOK

LEMMA SyncTaskShown ==
  ASSUME NEW before, NEW after, NEW client
  PROVE  SyncTask(tasks, before, after, client) = tasks
         \/ \E st \in Open : SyncTask(tasks, before, after, client) = EndTask(tasks, before.task, st)
PROOF
  <1>1. "working" \in Open /\ "input_required" \in Open
    BY DEF Open
  <1> QED BY <1>1 DEF SyncTask, ShowTask


\* A request of the worker, applied: an event, a row, or a refusal.
LEMMA UpdateOK ==
  ASSUME TurnInv, Update PROVE TurnInv'
PROOF
  <1> DEFINE req == Cur.x
             to == IF req \in Questions THEN "waiting_input" ELSE "waiting_permission"
             waits == SetStatus(session, to)
             row(status) == [inbox EXCEPT ![req].status = status, ![req].turn = session.turn]
  <1>1. /\ TypeOK /\ LanesOK /\ ClosedTogether /\ OneOfEach(box) /\ StatusOK /\ ProcessesOK /\ TasksOK /\ RowsOK /\ AsksOK
        /\ session \in Sessions /\ tasks \in [Turns -> TaskStates] /\ session.seal \in {0, session.turn}
        /\ inbox \in [Requests -> Rows] /\ conns \in [Conns -> Clients]
    BY InvParts, TypeParts
  <1>2. Cur.op = "update" /\ Cur.op \in CritOps
    BY DEF Update, Runs, CritOps
  <1>3. /\ box.run = Free /\ ~box.closed /\ session.status # "closed" /\ ~Gone /\ Cur \in Crit
        /\ Done.run = Free /\ Done.main = box.main /\ Crit = Queued(Done.crit) \cup {Cur}
    BY <1>1, <1>2, CritDone
  <1>4. box' = Done /\ UNCHANGED <<present, said, used>>
    BY DEF Update
  <1>5. Main' = Main /\ box'.run = Free /\ Crit' = Queued(Done.crit) /\ session.status # "restoring" /\ req \in Requests
    BY <1>1, <1>2, <1>3, <1>4, FreeFields DEF Main, Crit, StatusOK, LanesOK
  <1>6. \A n : Prompting(n) <=> Prompting(n)'
    BY <1>3, <1>5 DEF Prompting
  <1>7. \A n : EndQueued(n) <=> \E cmd \in Crit' : cmd.op = "provider_exit" \/ (cmd.op \in {"turn_end", "turn_fail"} /\ cmd.n = n)
    BY <1>2, <1>3, <1>5 DEF EndQueued, ExitQueued, Crit
  <1>8. to \in Statuses /\ to \in Waiting /\ (to = "waiting_input" <=> req \in Questions) /\ to \in {"waiting_input", "waiting_permission"}
        /\ (to = "waiting_permission" => req \in Permissions \cup Operations)
    BY <1>5 DEF Statuses, Waiting, Requests
  <1>9. TurnLive => session.status \in Active \ {"restoring"}
    BY LiveTurn
  <1>10. \A st \in {"event", "pending", "refused"} :
           /\ row(st) \in [Requests -> Rows] /\ row(st)[req].status = st /\ row(st)[req].turn = session.turn /\ row(st)[req].by = inbox[req].by
           /\ \A r \in Requests \ {req} : row(st)[r] = inbox[r]
    BY <1>1, <1>5 DEF Rows, Sessions
  <1>11. CASE ~Takes(session.status, to) /\ inbox' = row("event") /\ UNCHANGED <<session, conns, tasks>>
    <2>1. (TurnLive <=> TurnLive') /\ (Gone <=> Gone') /\ Strays' = Strays \ {req}
      <3>1. (TurnLive <=> TurnLive') /\ (Gone <=> Gone')
        BY <1>11 DEF TurnLive, Gone
      <3>2. Strays' = Strays \ {req}
        BY <1>10, <1>11 DEF Strays
      <3> QED BY <3>1, <3>2
    <2>2. TasksOK'
      BY <1>1, <1>4, <1>6, <1>11, <2>1 DEF TasksOK
    <2>3. session.status \notin Waiting
      <3>1. session.status \in {"running"} \cup Waiting => Moved(session.status, to) = to
        BY <1>1, <1>8, MovedFacts DEF Sessions
      <3>2. session.status # to /\ Moved(session.status, to) = session.status
        BY <1>11 DEF Takes
      <3> QED BY <3>1, <3>2
    <2>4. RowsOK'
      <3>1. \A r \in Requests : inbox'[r].status = "pending" => r # req /\ inbox'[r] = inbox[r]
        BY <1>10, <1>11
      <3>2. EndQueued(session.turn)' <=> EndQueued(session.turn)
        BY <1>7, <1>11 DEF EndQueued, ExitQueued, Crit
      <3> QED BY <1>1, <1>3, <1>5, <1>11, <2>1, <2>3, <3>1, <3>2, FreeFields DEF RowsOK, Waiting
    <2>5. \A r \in Requests : inbox'[r].turn \in {inbox[r].turn, session.turn} /\ inbox'[r].by = inbox[r].by
      BY <1>10, <1>11
    <2> QED BY <1>1, <1>2, <1>3, <1>4, <1>5, <1>9, <1>10, <1>11, <2>1, <2>2, <2>4, <2>5, CritStepOK
  <1>12. CASE /\ Takes(session.status, to) /\ session' = waits /\ inbox' = row("pending")
              /\ tasks' = ShowTask(tasks, session.task, "input_required") /\ UNCHANGED conns
    <2>1. session.status \in {"running"} \cup Waiting /\ Moved(session.status, to) = to
      <3>1. /\ session.status \in {"running"} \cup Waiting => Moved(session.status, to) = to
            /\ session.status \notin {"running"} \cup Waiting => Moved(session.status, to) = session.status
        BY <1>1, <1>8, MovedFacts DEF Sessions
      <3> QED BY <1>8, <1>12, <3>1 DEF Takes
    <2>2. /\ session' \in Sessions /\ session'.status = to /\ session'.here = session.here /\ session'.client = session.client
          /\ session'.turn = session.turn /\ session'.seal = session.seal /\ session'.reserved = session.reserved
          /\ session'.task = session.task /\ session'.cancelRequested = session.cancelRequested
      BY <1>1, <1>8, <1>12, <2>1, SetStatusFields
    <2>3. session'.status # "closed" /\ session'.status # "restoring" /\ session'.status \in Active /\ session.status \in Active
      BY <1>8, <2>1, <2>2 DEF Active, Waiting
    <2>4. (TurnLive <=> TurnLive') /\ (Gone <=> Gone')
      BY <1>3, <2>2, <2>3 DEF TurnLive, Gone
    <2>5. tasks' \in [Turns -> TaskStates] /\ TasksOK'
      <3>1. \E st \in Open : tasks' = EndTask(tasks, session.task, st)
        BY <1>12 DEF ShowTask, Open
      <3> QED BY <1>1, <1>4, <1>6, <2>2, <2>4, <3>1, ShownTasks
    <2>6. RowsOK'
      <3>1. ASSUME TurnLive', ~EndQueued(session.turn)'
            PROVE  /\ to = "waiting_permission" => WaitsForPermission(conns[session.client]) \/ Strays' \cap (Permissions \cup Operations) # {}
                   /\ to = "waiting_input" => WaitsForInput(conns[session.client]) \/ Strays' \cap Questions # {}
                   /\ \A r \in Requests \ Strays' : inbox'[r].status = "pending" /\ inbox'[r].turn = session.turn => r \in conns[session.client].held
        <4>1. TurnLive /\ ~EndQueued(session.turn)
          BY <1>7, <2>2, <2>4, <3>1 DEF EndQueued, ExitQueued, Crit
        <4>2. session.client \in Conns /\ conns[session.client].alive
          BY <4>1, LiveWorker DEF ClientAlive
        <4>3. inbox[req].by = session.client => req \in conns[session.client].held
          BY <1>1, <1>2, <1>3, <2>3, <4>2 DEF AsksOK
        <4>4. inbox[req].by # session.client => req \in Strays'
          BY <1>5, <1>10, <1>12, <2>2 DEF Strays
        <4>5. \A r \in Requests \ {req} : r \in Strays' <=> r \in Strays
          BY <1>10, <1>12, <2>2 DEF Strays
        <4>6. \A r \in Requests \ Strays' : inbox'[r].status = "pending" /\ inbox'[r].turn = session.turn => r \in conns[session.client].held
          <5>1. ASSUME NEW r \in Requests \ Strays', inbox'[r].status = "pending", inbox'[r].turn = session.turn
                PROVE  r \in conns[session.client].held
            <6>1. CASE r = req
              BY <4>3, <4>4, <5>1, <6>1
            <6>2. CASE r # req
              BY <1>1, <1>3, <1>10, <1>12, <4>1, <4>5, <5>1, <6>2, FreeFields DEF RowsOK
            <6> QED BY <6>1, <6>2
          <5> QED BY <5>1
        <4>7. WaitsForPermission(conns[session.client]) <=> conns[session.client].held \cap (Permissions \cup Operations) # {}
          BY DEF WaitsForPermission
        <4>8. WaitsForInput(conns[session.client]) <=> conns[session.client].held \cap Questions # {}
          BY DEF WaitsForInput
        <4> QED BY <1>8, <4>3, <4>4, <4>6, <4>7, <4>8
      <3>2. ~Gone' /\ box'.run.at = "queued"
        BY <1>3, <1>5, <2>4, FreeFields
      <3> QED BY <1>12, <2>2, <3>1, <3>2 DEF RowsOK
    <2>7. \A r \in Requests : inbox'[r].turn \in {inbox[r].turn, session.turn} /\ inbox'[r].by = inbox[r].by
      BY <1>10, <1>12
    <2>8. inbox' \in [Requests -> Rows]
      BY <1>10, <1>12
    <2> QED BY <1>1, <1>2, <1>4, <1>12, <2>2, <2>3, <2>4, <2>5, <2>6, <2>7, <2>8, CritStepOK
  <1>13. CASE /\ Takes(session.status, to) /\ ClientAlive /\ inbox' = row("refused")
              /\ LET client == Respond(conns[session.client], req)
                 IN /\ conns' = [conns EXCEPT ![session.client] = client]
                    /\ session' = SyncInput(waits, client)
                    /\ tasks' = SyncTask(tasks, session, session', client)
    <2> DEFINE client == Respond(conns[session.client], req)
    <2>1. session.status \in {"running"} \cup Waiting /\ Moved(session.status, to) = to
      <3>1. /\ session.status \in {"running"} \cup Waiting => Moved(session.status, to) = to
            /\ session.status \notin {"running"} \cup Waiting => Moved(session.status, to) = session.status
        BY <1>1, <1>8, MovedFacts DEF Sessions
      <3> QED BY <1>8, <1>13, <3>1 DEF Takes
    <2>2. /\ waits \in Sessions /\ waits.status = to /\ waits.here = session.here /\ waits.client = session.client
          /\ waits.turn = session.turn /\ waits.seal = session.seal /\ waits.reserved = session.reserved
          /\ waits.task = session.task /\ waits.cancelRequested = session.cancelRequested
      BY <1>1, <1>8, <2>1, SetStatusFields
    <2>3. session.client \in Conns /\ conns[session.client] \in Clients
      BY <1>1, <1>13 DEF ClientAlive, Sessions
    <2>4. /\ client \in Clients /\ client.alive = conns[session.client].alive /\ client.queued = conns[session.client].queued
          /\ client.sent = conns[session.client].sent /\ client.told = conns[session.client].told
          /\ client.stop = conns[session.client].stop /\ client.handler = conns[session.client].handler
          /\ client.held = conns[session.client].held \ {req}
      BY <2>3 DEF Respond, Clients
    <2>5. conns' = [conns EXCEPT ![session.client] = client] /\ session' = SyncInput(waits, client)
          /\ tasks' = SyncTask(tasks, session, session', client)
      BY <1>13
    <2>6. to \in Active \ {"restoring"} /\ waits.status \in {"running"} \cup Waiting
      BY <1>8, <2>2 DEF Active, Waiting
    <2> HIDE DEF client, waits
    <2>7. /\ session' \in Sessions /\ session'.here = session.here /\ session'.client = session.client
          /\ session'.turn = session.turn /\ session'.seal = session.seal /\ session'.reserved = session.reserved
          /\ session'.task = session.task /\ session'.cancelRequested = session.cancelRequested
          /\ session'.status \in {"running"} \cup Waiting
          /\ TurnLive /\ session'.status = "waiting_permission" => WaitsForPermission(client)
          /\ TurnLive /\ session'.status = "waiting_input" => WaitsForInput(client)
      BY <2>2, <2>4, <2>5, <2>6, SyncInputFields
    <2>8. session'.status # "closed" /\ session'.status # "restoring" /\ session'.status \in Active /\ session.status \in Active
      BY <2>1, <2>7 DEF Active, Waiting
    <2>9. (TurnLive <=> TurnLive') /\ (Gone <=> Gone')
      BY <1>3, <2>7, <2>8 DEF TurnLive, Gone
    <2>10. tasks' \in [Turns -> TaskStates] /\ TasksOK'
      <3>1. UNCHANGED tasks \/ \E st \in Open : tasks' = EndTask(tasks, session.task, st)
        BY <2>5, SyncTaskShown
      <3> QED BY <1>1, <1>4, <1>6, <2>7, <2>9, <3>1, ShownTasks
    <2>11. /\ conns' \in [Conns -> Clients] /\ conns'[session.client] = client
           /\ \A c \in Conns : c # session.client => conns'[c] = conns[c]
      BY <1>1, <2>3, <2>4, <2>5
    <2>12. \A c \in Conns : /\ conns'[c].alive = conns[c].alive /\ conns'[c].queued = conns[c].queued /\ conns'[c].sent = conns[c].sent
                            /\ conns'[c].told = conns[c].told /\ conns'[c].stop = conns[c].stop
                            /\ conns'[c].held \subseteq conns[c].held /\ conns'[c].handler = conns[c].handler
                            /\ \A r \in conns[c].held \ conns'[c].held : Cur.op = "update" /\ r = Cur.x
      BY <1>2, <2>4, <2>11
    <2>13. RowsOK'
      <3>1. ASSUME TurnLive', ~EndQueued(session.turn)'
            PROVE  /\ session'.status = "waiting_permission" => WaitsForPermission(client)
                   /\ session'.status = "waiting_input" => WaitsForInput(client)
                   /\ \A r \in Requests \ Strays' : inbox'[r].status = "pending" /\ inbox'[r].turn = session.turn => r \in client.held
        <4>1. TurnLive /\ ~EndQueued(session.turn)
          BY <1>7, <2>7, <2>9, <3>1 DEF EndQueued, ExitQueued, Crit
        <4>2. \A r \in Requests \ {req} : r \in Strays' <=> r \in Strays
          BY <1>10, <1>13, <2>7 DEF Strays
        <4>3. \A r \in Requests : inbox'[r].status = "pending" => r # req /\ inbox'[r] = inbox[r]
          BY <1>10, <1>13
        <4>4. \A r \in Requests \ Strays : inbox[r].status = "pending" /\ inbox[r].turn = session.turn => r \in conns[session.client].held
          BY <1>1, <1>3, <4>1, FreeFields DEF RowsOK
        <4> QED BY <2>4, <2>7, <4>1, <4>2, <4>3, <4>4
      <3>2. ~Gone' /\ box'.run.at = "queued"
        BY <1>3, <1>5, <2>9, FreeFields
      <3> QED BY <2>7, <2>11, <3>1, <3>2 DEF RowsOK
    <2>14. \A r \in Requests : inbox'[r].turn \in {inbox[r].turn, session.turn} /\ inbox'[r].by = inbox[r].by
      BY <1>10, <1>13
    <2>15. inbox' \in [Requests -> Rows]
      BY <1>10, <1>13
    <2> QED BY <1>1, <1>2, <1>4, <2>7, <2>8, <2>9, <2>10, <2>11, <2>12, <2>13, <2>14, <2>15, CritStepOK
  <1> QED BY <1>3, <1>11, <1>12, <1>13 DEF Update

-----------------------------------------------------------------------------
(* What Main said, applied *)

Plain == {"answer", "cancel", "orphan"}

\* A command of Main that reserved nothing, done: the turn goes on.
LEMMA PlainStepOK ==
  ASSUME TurnInv, Cur.op \in Plain, box' = Done, session' \in Sessions,
         session'.here = session.here, session'.client = session.client, session'.turn = session.turn,
         session'.seal = session.seal, session'.reserved = session.reserved, session'.cancelRequested = session.cancelRequested,
         session'.status = session.status \/ (session.status \in {"running"} \cup Waiting /\ session'.status \in {"running"} \cup Waiting),
         tasks' \in [Turns -> TaskStates], TasksOK',
         inbox' \in [Requests -> Rows], \A r \in Requests : inbox'[r].turn = inbox[r].turn /\ inbox'[r].by = inbox[r].by,
         conns' \in [Conns -> Clients],
         \A c \in Conns : /\ conns'[c].alive = conns[c].alive /\ conns'[c].queued = conns[c].queued /\ conns'[c].sent = conns[c].sent
                          /\ conns'[c].told = conns[c].told /\ conns'[c].stop = conns[c].stop
                          /\ conns'[c].held \subseteq conns[c].held /\ conns'[c].handler = conns[c].handler,
         UNCHANGED conns \/ Crit = {},
         UNCHANGED <<present, said, used>>,
         RowsOK'
  PROVE  TurnInv'
PROOF
  <1>1. /\ TypeOK /\ LanesOK /\ ClosedTogether /\ ProcessesOK /\ OneOfEach(box)
        /\ OneHolder /\ ReservationOK /\ RestoreOK /\ StatusOK
        /\ NumbersOK /\ AnswersOK /\ TasksOK /\ CancelIsHeard /\ AsksOK /\ RowsOK
        /\ session \in Sessions /\ session.seal \in {0, session.turn} /\ session.client \in Conns \cup {0}
    BY InvParts, TypeParts DEF Sessions
  <1>2. /\ ~box.closed /\ session.status # "closed" /\ ~Gone /\ Cur \in Main \cup {box.run}
        /\ Done \in Boxes /\ OneOfEach(Done)
        /\ Done.run = Free /\ Done.closed = FALSE /\ Done.crit = box.crit
        /\ Queued(Done.main) \subseteq Main /\ Main \cup {box.run} \subseteq Queued(Done.main) \cup {Cur, Free}
        /\ Cur.at = "queued" => box.run = Free /\ Crit = {}
        /\ Cur.at # "queued" => Busy /\ Cur = box.run
    BY <1>1, MainDone DEF MainOps, Plain
  <1>3. /\ box' \in Boxes /\ OneOfEach(box)' /\ box'.run = Free /\ box'.closed = FALSE
        /\ Crit' = Crit /\ Main' = Queued(Done.main)
    BY <1>2 DEF OneOfEach, Crit, Main
  <1>4. box.run.at \notin {"closing", "client", "resume", "attach"} /\ session.status # "restoring"
    BY <1>1, <1>2, FreeFields DEF LanesOK, Plain, StatusOK
  <1>5. \A c \in Conns : Unanswered(conns'[c]) = Unanswered(conns[c])
    BY DEF Unanswered
  <1>6. /\ session'.status # "closed" /\ session'.status # "restoring"
        /\ session'.status \in Active <=> session.status \in Active
        /\ session'.status = session.status \/ session.status \in Active \ {"restoring"}
    BY <1>2, <1>4 DEF Active, Waiting
  <1>7. (Gone <=> Gone') /\ (TurnLive <=> TurnLive') /\ (ClientAlive <=> ClientAlive')
    BY <1>1, <1>2, <1>6 DEF Gone, TurnLive, ClientAlive
  <1>8. (ExitQueued <=> ExitQueued') /\ (EndQueued(session.turn) <=> EndQueued(session.turn)')
    BY <1>2, <1>3 DEF ExitQueued, EndQueued
  <1>9. ~Holds(Cur) /\ ~Holds(Free) /\ Cur.op # "prompt"
    BY FreeFields DEF Holds, Plain
  <1>10. \A n : Prompting(n) <=> Prompting(n)'
    BY <1>2, <1>3, <1>9, FreeFields DEF Prompting
  <1>11. TypeOK'
    BY <1>1, <1>3, TypeParts, TypeNext
  <1>12. LanesOK' /\ ClosedTogether'
    BY <1>1, <1>2, <1>3, <1>6, FreeFields DEF LanesOK, ClosedTogether
  <1>13. ProcessesOK'
    BY <1>1 DEF ProcessesOK
  <1>14. OneHolder'
    BY <1>1, <1>2, <1>3, <1>9 DEF OneHolder
  <1>15. ReservationOK'
    <2>1. session'.reserved # "none" => session'.status \notin Active \ {"restoring"}
      BY <1>1, <1>6 DEF ReservationOK
    <2>2. session'.reserved # "none" => \E cmd \in Main' \cup {box'.run} : Holds(cmd) /\ cmd.op = session'.reserved
      BY <1>1, <1>2, <1>3, <1>9 DEF ReservationOK
    <2> QED BY <2>1, <2>2 DEF ReservationOK
  <1>16. RestoreOK'
    BY <1>3, FreeFields DEF RestoreOK
  <1>17. StatusOK'
    <2>1. ASSUME session'.status \in Active
          PROVE  ExitQueued' \/ (TurnLive' /\ (EndQueued(session.turn)' \/ (ClientAlive' /\ session.turn \in Unanswered(conns'[session.client]))))
      <3>1. session.status \in Active \ {"restoring"}
        BY <1>4, <1>6, <2>1
      <3>2. ClientAlive => session.client \in Conns
        BY <1>1 DEF ClientAlive
      <3> QED BY <1>1, <1>4, <1>5, <1>7, <1>8, <3>1, <3>2 DEF StatusOK
    <2>2. TurnLive' => session'.status \in Active \ {"restoring"}
      BY <1>1, <1>6, <1>7 DEF StatusOK
    <2> QED BY <1>3, <1>6, <2>1, <2>2, FreeFields DEF StatusOK
  <1>18. NumbersOK'
    <2>1. \A n : Fresh(n) => Fresh(n)'
      BY <1>5 DEF Fresh
    <2> QED BY <1>1, <1>2, <1>3, <1>9, <2>1, FreeFields DEF NumbersOK
  <1>19. AnswersOK'
    BY <1>1, <1>3, <1>5 DEF AnswersOK
  <1>20. CancelIsHeard'
    <2>1. ClientAlive => session.client \in Conns
      BY <1>1 DEF ClientAlive
    <2> QED BY <1>1, <1>7, <2>1 DEF CancelIsHeard
  <1>21. AsksOK'
    <2>1. CASE Crit = {}
      BY <1>3, <2>1 DEF AsksOK
    <2>2. CASE UNCHANGED conns
      <3>1. ASSUME NEW cmd \in Crit, cmd.op = "update"
            PROVE  /\ inbox[cmd.x].by \in Conns /\ inbox[cmd.x].by <= used.conns /\ cmd.x \in Requests
                   /\ conns[inbox[cmd.x].by].alive => cmd.x \in conns[inbox[cmd.x].by].held
        <4>1. Busy
          BY <1>2, <3>1
        <4> QED BY <1>1, <3>1, <4>1 DEF AsksOK, LanesOK
      <3> QED BY <1>3, <2>2, <3>1 DEF AsksOK
    <2> QED BY <2>1, <2>2
  <1> QED
    BY <1>3, <1>11, <1>12, <1>13, <1>14, <1>15, <1>16, <1>17, <1>18, <1>19, <1>20, <1>21 DEF TurnInv


LEMMA SkippedOK ==
  ASSUME TurnInv, Cur.op \in Plain, Cur.at = "queued", Skips PROVE TurnInv'
PROOF
  <1>1. /\ TypeOK /\ LanesOK /\ ClosedTogether /\ OneOfEach(box) /\ OneHolder /\ TasksOK /\ RowsOK
        /\ session \in Sessions /\ conns \in [Conns -> Clients] /\ tasks \in [Turns -> TaskStates] /\ inbox \in [Requests -> Rows]
    BY InvParts, TypeParts
  <1>2. /\ box' = Done /\ UNCHANGED <<session, conns, tasks, inbox, present, said, used>>
    BY DEF Skips
  <1>3. /\ Done.run = Free /\ Done.crit = box.crit /\ box.run = Free
        /\ Queued(Done.main) \subseteq Main /\ Main \cup {box.run} \subseteq Queued(Done.main) \cup {Cur, Free}
    BY <1>1, MainDone DEF MainOps, Plain
  <1>4. \A n : Prompting(n) <=> Prompting(n)'
    BY <1>2, <1>3, FreeFields DEF Prompting, Plain, Main
  <1>5. (TurnLive <=> TurnLive') /\ (Gone <=> Gone') /\ Strays' = Strays /\ (EndQueued(session.turn) <=> EndQueued(session.turn)')
    BY <1>2, <1>3 DEF TurnLive, Gone, Strays, EndQueued, ExitQueued
  <1>6. TasksOK'
    BY <1>1, <1>2, <1>4, <1>5 DEF TasksOK
  <1>7. RowsOK'
    BY <1>1, <1>2, <1>3, <1>5 DEF RowsOK
  <1> QED BY <1>1, <1>2, <1>6, <1>7, PlainStepOK

\* The worker has its answer.
LEMMA AnswerDoneOK ==
  ASSUME TurnInv, Cur.op = "answer", box' = Done, session.client \in Conns, NEW client \in Clients, AnswerDone(client),
         client.alive = conns[session.client].alive, client.queued = conns[session.client].queued,
         client.sent = conns[session.client].sent, client.told = conns[session.client].told,
         client.stop = conns[session.client].stop, client.handler = conns[session.client].handler,
         conns' = [conns EXCEPT ![session.client] = client],
         \/ client = conns[session.client] /\ Cur.at = "operate"
         \/ client.held = conns[session.client].held \ {Cur.x} /\ Cur.at = "queued",
         UNCHANGED <<present, said, used>>
  PROVE  TurnInv'
PROOF
  <1>1. /\ TypeOK /\ LanesOK /\ ClosedTogether /\ OneOfEach(box) /\ OneHolder /\ TasksOK /\ RowsOK
        /\ session \in Sessions /\ conns \in [Conns -> Clients] /\ tasks \in [Turns -> TaskStates] /\ inbox \in [Requests -> Rows]
    BY InvParts, TypeParts
  <1>2. /\ inbox' = [inbox EXCEPT ![Cur.x].status = IF @ = "pending" /\ inbox[Cur.x].turn = session.turn THEN "answered" ELSE @]
        /\ session' = SyncInput(session, client) /\ tasks' = SyncTask(tasks, session, session', client)
    BY DEF AnswerDone
  <1>3. /\ Done.run = Free /\ Done.crit = box.crit /\ ~Gone /\ Cur \in Main \cup {box.run}
        /\ Queued(Done.main) \subseteq Main /\ Main \cup {box.run} \subseteq Queued(Done.main) \cup {Cur, Free}
        /\ Cur.at = "queued" => box.run = Free /\ Crit = {}
        /\ Cur.at # "queued" => Cur = box.run
    BY <1>1, MainDone DEF MainOps
  <1>4. Cur.x \in Requests
    BY <1>1, <1>3 DEF LanesOK
  <1>5. \A n : Prompting(n) <=> Prompting(n)'
    BY <1>3, FreeFields DEF Prompting, Main
  <1>6. TurnLive => session.status \in Active \ {"restoring"}
    BY LiveTurn
  <1>7. /\ session' \in Sessions /\ session'.here = session.here /\ session'.client = session.client
        /\ session'.turn = session.turn /\ session'.seal = session.seal /\ session'.reserved = session.reserved
        /\ session'.task = session.task /\ session'.cancelRequested = session.cancelRequested
        /\ session.status \in {"running"} \cup Waiting => session'.status \in {"running"} \cup Waiting
        /\ session.status \notin {"running"} \cup Waiting => session'.status = session.status
        /\ TurnLive /\ session'.status = "waiting_permission" => WaitsForPermission(client)
        /\ TurnLive /\ session'.status = "waiting_input" => WaitsForInput(client)
    BY <1>1, <1>2, <1>6, SyncInputFields
  <1>8. (TurnLive <=> TurnLive') /\ ~Gone'
    <2>1. session'.status # "closed"
      BY <1>3, <1>7 DEF Gone, Waiting
    <2> QED BY <1>3, <1>7, <2>1 DEF Gone, TurnLive
  <1>9. tasks' \in [Turns -> TaskStates] /\ TasksOK'
    <2>1. UNCHANGED tasks \/ \E st \in Open : tasks' = EndTask(tasks, session.task, st)
      BY <1>2, SyncTaskShown
    <2> QED BY <1>1, <1>5, <1>7, <1>8, <2>1, ShownTasks
  <1>10. /\ inbox' \in [Requests -> Rows]
         /\ \A r \in Requests : inbox'[r].turn = inbox[r].turn /\ inbox'[r].by = inbox[r].by
                                /\ (inbox'[r].status = "pending" => inbox[r].status = "pending")
         /\ \A r \in Requests : r # Cur.x => inbox'[r] = inbox[r]
         /\ inbox'[Cur.x].status = "pending" => inbox[Cur.x].turn # session.turn
    <2>1. inbox[Cur.x] \in Rows
      BY <1>1, <1>4
    <2>2. inbox' = [inbox EXCEPT ![Cur.x] = [inbox[Cur.x] EXCEPT !.status =
                      IF inbox[Cur.x].status = "pending" /\ inbox[Cur.x].turn = session.turn THEN "answered" ELSE inbox[Cur.x].status]]
      BY <1>1, <1>2, <1>4
    <2> DEFINE row == [inbox[Cur.x] EXCEPT !.status =
                      IF inbox[Cur.x].status = "pending" /\ inbox[Cur.x].turn = session.turn THEN "answered" ELSE inbox[Cur.x].status]
    <2>3. /\ row \in Rows /\ row.turn = inbox[Cur.x].turn /\ row.by = inbox[Cur.x].by
          /\ row.status = "pending" => inbox[Cur.x].status = "pending" /\ inbox[Cur.x].turn # session.turn
      BY <2>1 DEF Rows
    <2> HIDE DEF row
    <2>4. inbox' = [inbox EXCEPT ![Cur.x] = row]
      BY <2>2 DEF row
    <2> QED BY <1>1, <1>4, <2>3, <2>4
  <1>11. /\ conns' \in [Conns -> Clients] /\ conns'[session.client] = client
         /\ \A c \in Conns : /\ conns'[c].alive = conns[c].alive /\ conns'[c].queued = conns[c].queued /\ conns'[c].sent = conns[c].sent
                             /\ conns'[c].told = conns[c].told /\ conns'[c].stop = conns[c].stop
                             /\ conns'[c].held \subseteq conns[c].held /\ conns'[c].handler = conns[c].handler
    <2>1. client.held \subseteq conns[session.client].held
      OBVIOUS
    <2>2. conns' \in [Conns -> Clients] /\ conns'[session.client] = client /\ \A c \in Conns : c # session.client => conns'[c] = conns[c]
      BY <1>1
    <2> QED BY <2>1, <2>2
  <1>12. UNCHANGED conns \/ Crit = {}
    <2>1. CASE client = conns[session.client]
      <3>1. conns' = conns
        BY <1>1, <2>1
      <3> QED BY <3>1
    <2>2. CASE Cur.at = "queued"
      BY <1>3, <2>2
    <2> QED BY <2>1, <2>2
  <1>13. RowsOK'
    <2>1. ASSUME TurnLive', ~EndQueued(session.turn)'
          PROVE  /\ session'.status = "waiting_permission" => WaitsForPermission(client)
                 /\ session'.status = "waiting_input" => WaitsForInput(client)
                 /\ \A r \in Requests \ Strays' : inbox'[r].status = "pending" /\ inbox'[r].turn = session.turn => r \in client.held
      <3>1. TurnLive /\ ~EndQueued(session.turn)
        BY <1>3, <1>7, <1>8, <2>1 DEF EndQueued, ExitQueued
      <3>2. \A r \in Requests \ {Cur.x} : r \in Strays' <=> r \in Strays
        BY <1>7, <1>10 DEF Strays
      <3>3. \A r \in Requests \ Strays : inbox[r].status = "pending" /\ inbox[r].turn = session.turn =>
              r \in conns[session.client].held \/ (box.run.at = "operate" /\ box.run.x = r)
        BY <1>1, <3>1 DEF RowsOK
      <3>4. ASSUME NEW r \in Requests \ Strays', inbox'[r].status = "pending", inbox'[r].turn = session.turn PROVE r \in client.held
        <4>1. r # Cur.x
          BY <1>10, <3>4
        <4>2. r \in Requests \ Strays /\ inbox[r].status = "pending" /\ inbox[r].turn = session.turn
          BY <1>10, <3>2, <3>4, <4>1
        <4>3. box.run.at = "operate" => box.run.x = Cur.x
          BY <1>3, FreeFields
        <4> QED BY <3>3, <4>1, <4>2, <4>3
      <3> QED BY <1>7, <3>1, <3>4
    <2> QED BY <1>3, <1>7, <1>8, <1>11, <2>1, FreeFields DEF RowsOK
  <1> QED BY <1>1, <1>7, <1>9, <1>10, <1>11, <1>12, <1>13, PlainStepOK DEF Plain

\* Main's answer to a request the worker holds, the operation it allows running.
LEMMA OperatesOK ==
  ASSUME TurnInv, Cur.op = "answer", Cur.at = "queued", session.client \in Conns, Cur.x \in conns[session.client].held,
         conns' = [conns EXCEPT ![session.client] = Respond(@, Cur.x)], box' = Awaits("operate", session.client),
         UNCHANGED <<session, tasks, inbox, present, said, used>>
  PROVE  TurnInv'
PROOF
  <1>1. /\ TypeOK /\ LanesOK /\ ClosedTogether /\ ProcessesOK /\ OneOfEach(box)
        /\ OneHolder /\ ReservationOK /\ RestoreOK /\ StatusOK
        /\ NumbersOK /\ AnswersOK /\ TasksOK /\ CancelIsHeard /\ AsksOK /\ RowsOK
        /\ session \in Sessions /\ conns \in [Conns -> Clients] /\ Cur.op \in MainOps
    BY InvParts, TypeParts DEF MainOps
  <1>2. /\ ~box.closed /\ session.status # "closed" /\ ~Gone /\ Cur \in Main \cup {box.run}
        /\ Queued(Done.main) \subseteq Main /\ Main \cup {box.run} \subseteq Queued(Done.main) \cup {Cur, Free}
        /\ box.run = Free /\ Crit = {}
    BY <1>1, MainDone
  <1>3. /\ box' \in Boxes /\ OneOfEach(box)' /\ box'.run.op = "answer" /\ box'.run.n = Cur.n /\ box'.run.x = Cur.x
        /\ box'.run.at = "operate" /\ box'.run.c = session.client /\ box'.run # Free /\ box'.closed = FALSE
        /\ box'.crit = box.crit /\ box'.main = Done.main
    <2>1. "operate" \in Places /\ session.client \in Conns \cup {0}
      BY DEF Places
    <2>2. box' \in Boxes /\ OneOfEach(box)' /\ box'.run.op = Cur.op /\ box'.run.n = Cur.n /\ box'.run.x = Cur.x
          /\ box'.run.at = "operate" /\ box'.run.c = session.client /\ box'.run # Free /\ box'.closed = FALSE
          /\ box'.crit = box.crit /\ box'.main = Done.main
      BY ONLY <1>1, <2>1, MainWaits, box' = Awaits("operate", session.client)
    <2> QED BY <2>2
  <1>4. Crit' = {} /\ Main' = Queued(Done.main) /\ Busy'
    BY <1>2, <1>3 DEF Crit, Main, Busy
  <1>5. /\ conns' \in [Conns -> Clients]
        /\ \A c \in Conns : /\ conns'[c].alive = conns[c].alive /\ conns'[c].queued = conns[c].queued /\ conns'[c].sent = conns[c].sent
                            /\ conns'[c].told = conns[c].told /\ conns'[c].stop = conns[c].stop /\ conns'[c].handler = conns[c].handler
                            /\ conns'[c].held \subseteq conns[c].held
                            /\ Unanswered(conns'[c]) = Unanswered(conns[c])
        /\ conns'[session.client].held = conns[session.client].held \ {Cur.x}
    <2> DEFINE client == Respond(conns[session.client], Cur.x)
    <2>1. conns[session.client] \in Clients
      BY <1>1
    <2>2. /\ client \in Clients /\ client.alive = conns[session.client].alive /\ client.queued = conns[session.client].queued
          /\ client.sent = conns[session.client].sent /\ client.told = conns[session.client].told
          /\ client.stop = conns[session.client].stop /\ client.handler = conns[session.client].handler
          /\ client.held = conns[session.client].held \ {Cur.x}
      BY <2>1 DEF Respond, Clients
    <2>3. conns' = [conns EXCEPT ![session.client] = client]
      OBVIOUS
    <2>4. Unanswered(client) = Unanswered(conns[session.client])
      BY <2>2 DEF Unanswered
    <2> HIDE DEF client
    <2>5. conns' \in [Conns -> Clients] /\ conns'[session.client] = client /\ \A c \in Conns : c # session.client => conns'[c] = conns[c]
      BY <1>1, <2>2, <2>3
    <2> QED BY <2>2, <2>4, <2>5
  <1>6. ~Gone' /\ (TurnLive <=> TurnLive') /\ (ClientAlive <=> ClientAlive') /\ Strays' = Strays
    BY <1>2, <1>5 DEF Gone, TurnLive, ClientAlive, Strays
  <1>7. ~ExitQueued /\ ~EndQueued(session.turn)
    BY <1>2 DEF ExitQueued, EndQueued, Crit
  <1>8. \A n : Prompting(n) <=> Prompting(n)'
    BY <1>2, <1>3, <1>4, FreeFields DEF Prompting
  <1>9. ~Holds(box'.run) /\ ~Holds(Cur) /\ ~Holds(Free)
    BY <1>3, FreeFields DEF Holds
  <1>10. TypeOK'
    BY <1>1, <1>3, <1>5, TypeParts, TypeNext
  <1>11. LanesOK' /\ ClosedTogether'
    BY <1>1, <1>2, <1>3, <1>4 DEF LanesOK, ClosedTogether
  <1>12. ProcessesOK'
    BY <1>1, <1>5 DEF ProcessesOK
  <1>13. OneHolder'
    BY <1>1, <1>2, <1>4, <1>9 DEF OneHolder
  <1>14. ReservationOK'
    BY <1>1, <1>2, <1>4, <1>9 DEF ReservationOK
  <1>15. RestoreOK'
    BY <1>3 DEF RestoreOK
  <1>16. StatusOK'
    BY <1>1, <1>2, <1>3, <1>5, <1>6, <1>7, FreeFields DEF StatusOK
  <1>17. NumbersOK'
    <2>1. \A n : Fresh(n) => Fresh(n)'
      BY <1>5 DEF Fresh
    <2> QED BY <1>1, <1>2, <1>3, <1>4, <2>1 DEF NumbersOK
  <1>18. AnswersOK' /\ AsksOK'
    BY <1>1, <1>4, <1>5 DEF AnswersOK, AsksOK
  <1>19. TasksOK'
    BY <1>1, <1>6, <1>8 DEF TasksOK
  <1>20. CancelIsHeard'
    BY <1>1, <1>5, <1>6 DEF CancelIsHeard
  <1>21. RowsOK'
    <2>1. session.client # 0
      BY TurnsAreNumbers
    <2>2. TurnLive => \A r \in Requests \ Strays : inbox[r].status = "pending" /\ inbox[r].turn = session.turn => r \in conns[session.client].held
      BY <1>1, <1>2, <1>7, FreeFields DEF RowsOK
    <2> QED BY <1>3, <1>5, <1>6, <2>1, <2>2 DEF RowsOK
  <1> QED
    BY <1>3, <1>10, <1>11, <1>12, <1>13, <1>14, <1>15, <1>16, <1>17, <1>18, <1>19, <1>20, <1>21 DEF TurnInv

-----------------------------------------------------------------------------
(* The end of a process *)

LEMMA EndedFields ==
  /\ Ended \in Clients /\ ~Ended.alive /\ Ended.queued = {} /\ Ended.sent = {} /\ Ended.held = {}
  /\ Unanswered(Ended) = {}
PROOF
  BY DEF Ended, Clients, Unanswered

LEMMA ReportsAre ==
  ASSUME TypeOK, NEW c \in Conns
  PROVE  /\ \A cmd \in Reports(c) : /\ cmd.at = "queued" /\ cmd.op \in {"turn_fail", "provider_exit"}
                                    /\ cmd.op = "turn_fail" => cmd.n \in Unanswered(conns[c])
         /\ \A n \in Unanswered(conns[c]) : \E cmd \in Reports(c) : cmd.op = "turn_fail" /\ cmd.n = n
         /\ session.here /\ session.client = c => \E cmd \in Reports(c) : cmd.op = "provider_exit"
PROOF
  <1>1. Unanswered(conns[c]) \in SUBSET Turns
    BY ClientFields
  <1>2. \A n \in Turns : /\ Cmd("turn_fail", n, None).op = "turn_fail" /\ Cmd("turn_fail", n, None).n = n
                         /\ Cmd("turn_fail", n, None).at = "queued"
    BY CmdType DEF CritOps
  <1>3. Cmd("provider_exit", 0, None).op = "provider_exit" /\ Cmd("provider_exit", 0, None).at = "queued"
    BY BareCmd DEF CritOps
  <1> QED BY <1>1, <1>2, <1>3 DEF Reports

\* A process ends: its exit goes to the session that is on it, and each of its
\* prompts fails.
LEMMA WorkerEndsOK ==
  ASSUME TurnInv, NEW c \in Conns, conns[c].alive, conns' = [conns EXCEPT ![c] = Ended],
         box' \in Boxes, OneOfEach(box)', box'.closed = box.closed,
         Crit' = Crit \cup (IF box.closed THEN {} ELSE Reports(c)),
         \/ box'.run = box.run /\ Main' = Main
         \/ /\ box'.run = Free /\ session.client = c /\ Cur.op \in {"answer", "close"}
            /\ Main' \subseteq Main /\ Main \cup {box.run} \subseteq Main' \cup {Cur, Free},
         UNCHANGED <<session, tasks, inbox, present, said, used>>
  PROVE  TurnInv'
PROOF
  <1>1. /\ TypeOK /\ LanesOK /\ ClosedTogether /\ ProcessesOK /\ OneOfEach(box)
        /\ OneHolder /\ ReservationOK /\ RestoreOK /\ StatusOK
        /\ NumbersOK /\ AnswersOK /\ TasksOK /\ CancelIsHeard /\ AsksOK /\ RowsOK
        /\ session \in Sessions /\ conns \in [Conns -> Clients] /\ session.client \in Conns \cup {0} /\ 0 \notin Conns
    BY InvParts, TypeParts, TurnsAreNumbers DEF Sessions
  <1>2. /\ \A cmd \in Reports(c) : /\ cmd.at = "queued" /\ cmd.op \in {"turn_fail", "provider_exit"}
                                   /\ cmd.op = "turn_fail" => cmd.n \in Unanswered(conns[c])
        /\ \A n \in Unanswered(conns[c]) : \E cmd \in Reports(c) : cmd.op = "turn_fail" /\ cmd.n = n
        /\ session.here /\ session.client = c => \E cmd \in Reports(c) : cmd.op = "provider_exit"
    BY <1>1, ReportsAre
  <1>3. /\ conns' \in [Conns -> Clients] /\ conns'[c] = Ended /\ \A d \in Conns : d # c => conns'[d] = conns[d]
    BY <1>1, EndedFields
  <1>4. (Gone <=> Gone') /\ (TurnLive <=> TurnLive') /\ Strays' = Strays /\ (box.closed => Gone) /\ (ClientAlive' => ClientAlive /\ session.client # c)
    BY <1>1, <1>3, EndedFields DEF Gone, TurnLive, Strays, ClientAlive, ClosedTogether
  <1>5. /\ ~box.closed /\ session.here /\ session.client = c => ExitQueued'
        /\ ExitQueued => ExitQueued'
        /\ EndQueued(session.turn) => EndQueued(session.turn)'
        /\ ~box.closed /\ session.turn \in Unanswered(conns[c]) => EndQueued(session.turn)'
    BY <1>2 DEF ExitQueued, EndQueued, Crit
  <1>6. box'.run # box.run => ~Gone /\ ~box.closed /\ ExitQueued' /\ session.status # "restoring"
    <2>1. ASSUME Cur.op \in {"answer", "close"}, session.client = c PROVE ~Gone /\ ~box.closed /\ ExitQueued' /\ session.status # "restoring"
      <3>1. ~Gone /\ ~box.closed /\ (Cur.at # "queued" => Cur = box.run) /\ (Cur.at = "queued" => box.run = Free)
        BY <1>1, <2>1, MainDone DEF MainOps
      <3>2. session.status # "restoring"
        BY <1>1, <2>1, <3>1, FreeFields DEF StatusOK, LanesOK
      <3> QED BY <1>5, <2>1, <3>1, <3>2 DEF Gone
    <2> QED BY <2>1
  <1>7. \A cmd \in Main' \cup {box'.run} : cmd \in Main \cup {box.run, Free}
    OBVIOUS
  <1>8. \A cmd \in Main \cup {box.run} : cmd.op \in {"prompt", "restore", "config"} => cmd \in Main' \cup {box'.run}
    BY FreeFields
  <1>9. /\ \A d \in Conns : /\ Unanswered(conns'[d]) \subseteq Unanswered(conns[d])
                            /\ conns'[d].queued \subseteq conns[d].queued /\ conns'[d].sent \subseteq conns[d].sent
                            /\ conns'[d].alive => conns[d].alive /\ conns'[d] = conns[d]
                            /\ conns'[d].held # {} => conns'[d] = conns[d]
                            /\ ~conns'[d].alive => conns'[d].queued = {} /\ conns'[d].sent = {} /\ conns'[d].held = {}
    BY <1>1, <1>3, EndedFields DEF ProcessesOK
  <1>10. \A n \in Turns : Prompting(n) => Prompting(n)'
    BY <1>8 DEF Prompting
  <1>11. TypeOK'
    BY <1>1, <1>3, TypeParts, TypeNext
  <1>12. LanesOK'
    <2>1. \A cmd \in Crit' : cmd \in Crit \/ cmd \in Reports(c)
      OBVIOUS
    <2>2. \A cmd \in Crit' : cmd.at = "queued" /\ cmd.op \in {"turn_end", "turn_fail", "provider_exit", "update"}
      BY <1>1, <1>2, <2>1 DEF LanesOK
    <2>3. \A cmd \in Crit' : cmd.op = "update" => cmd.x \in Requests /\ cmd = Cmd("update", 0, cmd.x)
      BY <1>1, <1>2, <2>1 DEF LanesOK
    <2>4. box'.run = box.run \/ box'.run = Free
      OBVIOUS
    <2> QED BY <1>1, <1>7, <2>2, <2>3, <2>4, FreeFields DEF LanesOK
  <1>13. ClosedTogether'
    BY <1>1, <1>6 DEF ClosedTogether
  <1>14. ProcessesOK'
    BY <1>1, <1>9 DEF ProcessesOK
  <1>15. OneHolder'
    BY <1>1, <1>7, FreeFields DEF OneHolder, Holds
  <1>16. ReservationOK'
    BY <1>1, <1>8 DEF ReservationOK, Holds
  <1>17. RestoreOK'
    BY <1>1, FreeFields DEF RestoreOK
  <1>18. StatusOK'
    <2>1. ASSUME session.status \in Active \ {"restoring"}
          PROVE  \/ box'.run.at = "closing" \/ ExitQueued'
                 \/ TurnLive' /\ (EndQueued(session.turn)' \/ (ClientAlive' /\ session.turn \in Unanswered(conns'[session.client])))
      <3>1. session.status # "closed" /\ ~box.closed /\ session.here
        BY <1>1, <2>1 DEF ClosedTogether, Active, Waiting
      <3>2. \/ box.run.at = "closing" \/ ExitQueued
            \/ TurnLive /\ (EndQueued(session.turn) \/ (ClientAlive /\ session.turn \in Unanswered(conns[session.client])))
        BY <1>1, <2>1 DEF StatusOK
      <3>3. CASE session.client = c
        BY <1>5, <3>1, <3>3
      <3>4. CASE session.client # c
        <4>1. box'.run = box.run
          BY <3>4
        <4>2. ClientAlive => ClientAlive' /\ conns'[session.client] = conns[session.client]
          BY <1>1, <1>3, <3>4 DEF ClientAlive
        <4> QED BY <1>4, <1>5, <3>2, <4>1, <4>2
      <3> QED BY <3>3, <3>4
    <2>2. session.status = "restoring" => box'.run.at \in {"resume", "attach"}
      BY <1>1, <1>6 DEF StatusOK
    <2>3. box'.run = box.run \/ box'.run = Free
      OBVIOUS
    <2> QED BY <1>1, <1>4, <2>1, <2>2, <2>3, FreeFields DEF StatusOK
  <1>19. NumbersOK'
    <2>1. \A n : Fresh(n) => Fresh(n)'
      BY <1>9 DEF Fresh
    <2> QED BY <1>1, <1>7, <2>1, FreeFields DEF NumbersOK
  <1>20. AnswersOK'
    BY <1>1, <1>2, <1>9 DEF AnswersOK
  <1>21. TasksOK'
    BY <1>1, <1>4, <1>10 DEF TasksOK
  <1>22. CancelIsHeard'
    BY <1>1, <1>3, <1>4 DEF CancelIsHeard, ClientAlive
  <1>23. AsksOK'
    <2>1. ASSUME NEW cmd \in Crit', cmd.op = "update"
          PROVE  LET by == inbox[cmd.x].by
                 IN /\ by \in Conns /\ by <= used.conns
                    /\ conns'[by].alive /\ cmd.x \notin conns'[by].held => ~Busy' /\ session.status \notin Active
      <3>1. cmd \in Crit
        BY <1>2, <2>1
      <3>2. ~Busy => ~Busy'
        BY DEF Busy
      <3> QED BY <1>1, <1>9, <2>1, <3>1, <3>2 DEF AsksOK
    <2> QED BY <2>1 DEF AsksOK
  <1>24. RowsOK'
    <2>1. ASSUME TurnLive', ~EndQueued(session.turn)' PROVE TurnLive /\ ~EndQueued(session.turn) /\ box'.run = box.run /\ conns'[session.client] = conns[session.client]
      <3>1. TurnLive /\ ~EndQueued(session.turn) /\ ~ExitQueued' /\ ~box.closed /\ session.here
        BY <1>4, <1>5, <2>1 DEF EndQueued, Gone, TurnLive
      <3>2. session.client # c
        BY <1>5, <3>1
      <3>3. session.client \in Conns
        BY <3>1, LiveWorker
      <3> QED BY <1>3, <3>1, <3>2, <3>3
    <2>2. Gone' \/ box'.run.at = "closing" => Gone \/ box.run.at = "closing"
      BY <1>4, FreeFields
    <2>3. box'.run.at = "operate" => session.client # 0
      BY <1>1, FreeFields DEF RowsOK
    <2> QED BY <1>1, <1>4, <2>1, <2>2, <2>3 DEF RowsOK
  <1> QED
    BY <1>11, <1>12, <1>13, <1>14, <1>15, <1>16, <1>17, <1>18, <1>19, <1>20, <1>21, <1>22, <1>23, <1>24 DEF TurnInv

\* A channel that fails while Main's answer goes out, or a close waits for it.
LEMMA FailsOK ==
  ASSUME TurnInv, Cur.op \in {"answer", "close"}, session.client \in Conns, conns[session.client].alive,
         Fails(session.client, Done), UNCHANGED <<session, tasks, inbox, present, said, used>>
  PROVE  TurnInv'
PROOF
  <1> DEFINE c == session.client
  <1>1. TypeOK /\ LanesOK /\ ClosedTogether /\ OneOfEach(box) /\ OneHolder /\ Cur.op \in MainOps
    BY InvParts DEF MainOps
  <1>2. /\ ~box.closed /\ Done \in Boxes /\ OneOfEach(Done) /\ Done.run = Free /\ Done.closed = FALSE /\ Done.crit = box.crit
        /\ Queued(Done.main) \subseteq Main /\ Main \cup {box.run} \subseteq Queued(Done.main) \cup {Cur, Free}
    BY <1>1, MainDone
  <1>3. conns' = [conns EXCEPT ![c] = Ended] /\ box' = Posted(Done, ExitReports(c))
    BY DEF Fails
  <1> DEFINE after == Posted(Done, ExitReports(c))
  <1>4. /\ after \in Boxes /\ OneOfEach(after) /\ after.run = Done.run /\ after.main = Done.main /\ after.closed = Done.closed
        /\ Queued(after.crit) = Queued(Done.crit) \cup (IF Done.closed THEN {} ELSE Reports(c))
    BY <1>1, <1>2, ExitPosted
  <1>5. box' = after
    BY <1>3
  <1> HIDE DEF after
  <1>6. /\ box' \in Boxes /\ OneOfEach(box)' /\ box'.closed = box.closed /\ box'.run = Free
        /\ Crit' = Crit \cup (IF box.closed THEN {} ELSE Reports(c)) /\ Main' = Queued(Done.main)
    BY <1>1, <1>2, <1>4, <1>5, TypeParts DEF OneOfEach, Crit, Main, Boxes
  <1> QED BY <1>2, <1>3, <1>6, WorkerEndsOK

\* The process exits.
LEMMA DiesOK ==
  ASSUME TurnInv, NEW c \in Conns, Dies(c) PROVE TurnInv'
PROOF
  <1>1. TypeOK /\ OneOfEach(box) /\ box \in Boxes
    BY InvParts, TypeParts
  <1>2. conns[c].alive /\ conns' = [conns EXCEPT ![c] = Ended] /\ box' = Posted(box, ExitReports(c))
        /\ UNCHANGED <<session, tasks, inbox, present, said, used>>
    BY DEF Dies, Fails
  <1> DEFINE after == Posted(box, ExitReports(c))
  <1>3. /\ after \in Boxes /\ OneOfEach(after) /\ after.run = box.run /\ after.main = box.main /\ after.closed = box.closed
        /\ Queued(after.crit) = Queued(box.crit) \cup (IF box.closed THEN {} ELSE Reports(c))
    BY <1>1, ExitPosted
  <1>4. box' = after
    BY <1>2
  <1> HIDE DEF after
  <1>5. /\ box' \in Boxes /\ OneOfEach(box)' /\ box'.closed = box.closed /\ box'.run = box.run
        /\ Crit' = Crit \cup (IF box.closed THEN {} ELSE Reports(c)) /\ Main' = Main
    BY <1>3, <1>4 DEF OneOfEach, Crit, Main
  <1> QED BY <1>2, <1>5, WorkerEndsOK

\* A process nobody is on is stopped.
LEMMA ReclaimsOK ==
  ASSUME TurnInv, NEW c \in Conns, Reclaims(c) PROVE TurnInv'
PROOF
  <1>1. TypeOK /\ OneOfEach(box) /\ box \in Boxes
    BY InvParts, TypeParts
  <1>2. /\ conns[c].alive /\ session.client # c /\ conns' = [conns EXCEPT ![c] = Ended]
        /\ box' = Posted(box, Outcomes(Unanswered(conns[c]), "turn_fail", None))
        /\ UNCHANGED <<session, tasks, inbox, present, said, used>>
    BY DEF Reclaims, StopsProcess
  <1> DEFINE after == Posted(box, Outcomes(Unanswered(conns[c]), "turn_fail", None))
  <1>3. Unanswered(conns[c]) \in SUBSET Turns
    BY <1>1, ClientFields
  <1>5. /\ after \in Boxes /\ OneOfEach(after) /\ after.run = box.run /\ after.main = box.main /\ after.closed = box.closed
        /\ Queued(after.crit) = Queued(box.crit) \cup (IF box.closed THEN {} ELSE {Cmd("turn_fail", n, None) : n \in Unanswered(conns[c])})
    BY ONLY <1>1, <1>3, FailuresPosted
  <1>6. Reports(c) = {Cmd("turn_fail", n, None) : n \in Unanswered(conns[c])}
    BY <1>2 DEF Reports
  <1>7. box' = after
    BY <1>2
  <1> HIDE DEF after
  <1>8. /\ box' \in Boxes /\ OneOfEach(box)' /\ box'.closed = box.closed /\ box'.run = box.run
        /\ Crit' = Crit \cup (IF box.closed THEN {} ELSE Reports(c)) /\ Main' = Main
    BY <1>5, <1>6, <1>7 DEF OneOfEach, Crit, Main
  <1> QED BY <1>2, <1>8, WorkerEndsOK

\* Main's answer.
LEMMA AnswerOK ==
  ASSUME TurnInv, Answer PROVE TurnInv'
PROOF
  <1> DEFINE c == session.client
  <1>1. /\ TypeOK /\ LanesOK /\ ClosedTogether /\ OneOfEach(box) /\ OneHolder /\ ProcessesOK
        /\ session \in Sessions /\ conns \in [Conns -> Clients] /\ c \in Conns \cup {0} /\ 0 \notin Conns
    BY InvParts, TypeParts, TurnsAreNumbers DEF Sessions
  <1>2. Cur.op = "answer" /\ Cur.at = "queued" /\ Cur.op \in Plain /\ Cur.op \in MainOps
    BY DEF Answer, Runs, Plain, MainOps
  <1>3. CASE Skips
    BY <1>2, <1>3, SkippedOK
  <1>4. CASE ~Skips
    <2>1. /\ c \in Conns /\ Cur.x \in conns[c].held
          /\ UNCHANGED <<present, said, used>>
          /\ \/ /\ conns' = [conns EXCEPT ![c] = Respond(@, Cur.x)] /\ box' = Awaits("operate", c)
                /\ UNCHANGED <<session, tasks, inbox>>
             \/ /\ conns' = [conns EXCEPT ![c] = Respond(@, Cur.x)] /\ box' = Done /\ AnswerDone(Respond(conns[c], Cur.x))
             \/ Fails(c, Done) /\ UNCHANGED <<session, tasks, inbox>>
      BY <1>1, <1>4 DEF Answer
    <2>2. CASE /\ conns' = [conns EXCEPT ![c] = Respond(@, Cur.x)] /\ box' = Awaits("operate", c)
               /\ UNCHANGED <<session, tasks, inbox>>
      BY <1>2, <2>1, <2>2, OperatesOK
    <2>3. CASE conns' = [conns EXCEPT ![c] = Respond(@, Cur.x)] /\ box' = Done /\ AnswerDone(Respond(conns[c], Cur.x))
      <3> DEFINE client == Respond(conns[c], Cur.x)
      <3>1. conns[c] \in Clients
        BY <1>1, <2>1
      <3>2. /\ client \in Clients /\ client.alive = conns[c].alive /\ client.queued = conns[c].queued
            /\ client.sent = conns[c].sent /\ client.told = conns[c].told
            /\ client.stop = conns[c].stop /\ client.handler = conns[c].handler
            /\ client.held = conns[c].held \ {Cur.x}
        BY <3>1 DEF Respond, Clients
      <3>3. conns' = [conns EXCEPT ![c] = client] /\ AnswerDone(client) /\ box' = Done
        BY <2>3
      <3> HIDE DEF client
      <3> QED BY <1>2, <2>1, <3>2, <3>3, AnswerDoneOK
    <2>4. CASE Fails(c, Done) /\ UNCHANGED <<session, tasks, inbox>>
      <3>1. conns[c].alive
        BY <1>1, <2>1 DEF ProcessesOK
      <3> QED BY <1>2, <2>1, <2>4, <3>1, FailsOK
    <2> QED BY <2>1, <2>2, <2>3, <2>4
  <1> QED BY <1>3, <1>4

\* The operation Main allowed has run.
LEMMA OperatedOK ==
  ASSUME TurnInv, Operated PROVE TurnInv'
PROOF
  <1> DEFINE c == session.client
  <1>1. /\ TypeOK /\ LanesOK /\ RowsOK
        /\ session \in Sessions /\ conns \in [Conns -> Clients] /\ c \in Conns \cup {0}
    BY InvParts, TypeParts DEF Sessions
  <1>2. Cur = box.run /\ Cur.at = "operate" /\ Cur.op = "answer" /\ c \in Conns
    BY <1>1, FreeFields DEF Operated, Cur, Busy, LanesOK, RowsOK
  <1>3. /\ box' = Done /\ AnswerDone(conns[c]) /\ conns' = conns
        /\ UNCHANGED <<present, said, used>>
    BY DEF Operated
  <1>4. conns' = [conns EXCEPT ![c] = conns[c]] /\ conns[c] \in Clients
    BY <1>1, <1>2, <1>3
  <1> QED BY <1>2, <1>3, <1>4, AnswerDoneOK

-----------------------------------------------------------------------------
(* Telling the worker to stop *)

LEMMA CancelledFields ==
  \A client \in Clients :
    LET told == CancelSession(client)
    IN /\ told \in Clients /\ told.alive = client.alive /\ told.handler = client.handler /\ told.queued = {}
       /\ told.sent = client.sent /\ told.told = client.told /\ told.held = {}
       /\ (client.sent # {} => told.stop)
       /\ Unanswered(told) = client.sent
PROOF
  <1>1. ASSUME NEW client \in Clients
        PROVE  LET told == CancelSession(client)
               IN /\ told \in Clients /\ told.alive = client.alive /\ told.handler = client.handler /\ told.queued = {}
                  /\ told.sent = client.sent /\ told.told = client.told /\ told.held = {}
                  /\ (client.sent # {} => told.stop)
                  /\ Unanswered(told) = client.sent
    <2> DEFINE stop == client.stop \/ client.queued = {} \/ client.sent # {}
               told == CancelSession(client)
    <2>1. told = [client EXCEPT !.held = {}, !.queued = {}, !.stop = stop]
      BY DEF CancelSession
    <2>2. stop \in BOOLEAN /\ (client.sent # {} => stop)
      BY DEF Clients
    <2> HIDE DEF stop, told
    <2>3. /\ told \in Clients /\ told.alive = client.alive /\ told.handler = client.handler /\ told.queued = {}
          /\ told.sent = client.sent /\ told.told = client.told /\ told.held = {} /\ told.stop = stop
      BY <2>1, <2>2 DEF Clients
    <2> QED BY <2>2, <2>3 DEF Unanswered, told
  <1> QED BY <1>1

\* What a cancel leaves of the worker and of the mailbox: its prompts were sent
\* and it will be told, or they have an outcome.
LEMMA ToldFacts ==
  ASSUME TurnInv, ClientAlive, Crit = {}, NEW b \in Boxes, OneOfEach(b), b.closed = FALSE, b.crit = box.crit, TellWorker(b)
  PROVE  LET c == session.client
         IN /\ c \in Conns /\ conns' \in [Conns -> Clients] /\ \A d \in Conns : d # c => conns'[d] = conns[d]
            /\ conns'[c].queued = {} /\ conns'[c].sent \subseteq conns[c].sent /\ conns'[c].held = {}
            /\ Unanswered(conns'[c]) \subseteq Unanswered(conns[c])
            /\ ~conns'[c].alive => conns'[c].sent = {}
            /\ conns'[c].sent # {} => conns'[c].stop
            /\ box' \in Boxes /\ OneOfEach(box)' /\ box'.run = b.run /\ box'.main = b.main /\ box'.closed = FALSE
            /\ \A cmd \in Crit' : /\ cmd.at = "queued" /\ cmd.op \in {"turn_end", "turn_fail", "provider_exit"}
                                  /\ cmd.op = "turn_end" => cmd.n \in Turns /\ cmd.x = "cancelled"
            /\ (session.here /\ ~conns'[c].alive) => ExitQueued'
            /\ \A n \in Unanswered(conns[c]) : n \in conns'[c].sent \/ \E cmd \in Crit' : cmd.op \in {"turn_end", "turn_fail"} /\ cmd.n = n
PROOF
  <1> DEFINE c == session.client
  <1>1. TypeOK /\ ProcessesOK /\ session \in Sessions /\ conns \in [Conns -> Clients] /\ c \in Conns
    BY InvParts, TypeParts DEF ClientAlive, Sessions
  <1>2. conns[c] \in Clients /\ Unanswered(conns[c]) \in SUBSET Turns /\ Retracted(conns[c]) \in SUBSET Turns
        /\ conns[c].queued \subseteq Unanswered(conns[c])
    BY <1>1, ClientFields DEF Unanswered
  <1>3. Queued(b.crit) = {}
    BY DEF Crit
  <1>4. CASE conns' = [conns EXCEPT ![c] = CancelSession(conns[c])]
             /\ box' = Posted(b, Outcomes(Retracted(conns[c]), "turn_end", "cancelled"))
    <2> DEFINE client == CancelSession(conns[c])
               ends == {Cmd("turn_end", n, "cancelled") : n \in Retracted(conns[c])}
    <2>1. /\ client \in Clients /\ client.alive = conns[c].alive /\ client.queued = {}
          /\ client.sent = conns[c].sent /\ client.held = {} /\ (client.sent # {} => client.stop)
          /\ Unanswered(client) = conns[c].sent
      BY <1>2, CancelledFields
    <2>2. /\ box' \in Boxes /\ OneOfEach(box') /\ box'.run = b.run /\ box'.main = b.main /\ box'.closed = b.closed
          /\ Queued(box'.crit) = Queued(b.crit) \cup (IF b.closed THEN {} ELSE ends)
      BY <1>2, <1>4, CancelledPosted
    <2>3. \A n \in Turns : /\ Cmd("turn_end", n, "cancelled").op = "turn_end" /\ Cmd("turn_end", n, "cancelled").n = n
                           /\ Cmd("turn_end", n, "cancelled").at = "queued" /\ Cmd("turn_end", n, "cancelled").x = "cancelled"
      BY CmdType DEF CritOps
    <2>4. /\ \A cmd \in ends : cmd.at = "queued" /\ cmd.op = "turn_end" /\ cmd.n \in Turns /\ cmd.x = "cancelled"
          /\ \A n \in Retracted(conns[c]) : \E cmd \in ends : cmd.op = "turn_end" /\ cmd.n = n
      BY <1>2, <2>3
    <2>5. \A n \in Unanswered(conns[c]) : n \in conns[c].sent \/ n \in Retracted(conns[c])
      BY DEF Unanswered, Retracted
    <2> HIDE DEF ends, client
    <2>6. Crit' = ends
      BY <1>3, <2>2 DEF Crit
    <2>7. conns' \in [Conns -> Clients] /\ conns'[c] = client /\ \A d \in Conns : d # c => conns'[d] = conns[d]
      BY <1>1, <1>4, <2>1 DEF client
    <2>8. client.alive /\ client.sent \subseteq Unanswered(conns[c])
      BY <2>1 DEF ClientAlive, Unanswered
    <2>9. OneOfEach(box)'
      BY <2>2 DEF OneOfEach
    <2> QED BY <1>1, <2>1, <2>2, <2>4, <2>5, <2>6, <2>7, <2>8, <2>9
  <1>5. CASE Fails(c, b)
    <2>1. box' = Posted(b, ExitReports(c)) /\ conns' = [conns EXCEPT ![c] = Ended]
      BY <1>5 DEF Fails
    <2>2. /\ box' \in Boxes /\ OneOfEach(box') /\ box'.run = b.run /\ box'.main = b.main /\ box'.closed = b.closed
          /\ Queued(box'.crit) = Queued(b.crit) \cup (IF b.closed THEN {} ELSE Reports(c))
      BY <1>1, <2>1, ExitPosted
    <2>3. Crit' = Reports(c)
      BY <1>3, <2>2 DEF Crit
    <2>4. /\ \A cmd \in Reports(c) : /\ cmd.at = "queued" /\ cmd.op \in {"turn_fail", "provider_exit"}
                                     /\ cmd.op = "turn_fail" => cmd.n \in Unanswered(conns[c])
          /\ \A n \in Unanswered(conns[c]) : \E cmd \in Reports(c) : cmd.op = "turn_fail" /\ cmd.n = n
          /\ session.here /\ session.client = c => \E cmd \in Reports(c) : cmd.op = "provider_exit"
      BY <1>1, ReportsAre
    <2>5. conns' \in [Conns -> Clients] /\ conns'[c] = Ended /\ \A d \in Conns : d # c => conns'[d] = conns[d]
      BY <1>1, <2>1, EndedFields
    <2>6. session.here => ExitQueued'
      BY <2>3, <2>4 DEF ExitQueued, Crit
    <2>7. OneOfEach(box)'
      BY <2>2 DEF OneOfEach
    <2> QED BY <1>1, <2>2, <2>3, <2>4, <2>5, <2>6, <2>7, EndedFields
  <1> QED BY <1>4, <1>5 DEF TellWorker

\* A cancel, a close or an orphan's cancel of a turn that is live.
LEMMA TellingOK ==
  ASSUME TurnInv, Cur.op \in {"cancel", "close", "orphan"}, Cur.at = "queued", session.status \in Active,
         NEW b \in Boxes, OneOfEach(b), b.closed = FALSE, b.crit = box.crit, b.main = Done.main, TellWorker(b),
         session' \in Sessions, session'.seal \in {0, session'.turn},
         session'.here = session.here, session'.client = session.client, session'.turn = session.turn,
         session'.reserved = session.reserved,
         \/ session'.seal = session.seal /\ session'.status = "cancelling" /\ b.run = Free
         \/ session'.seal = session.turn /\ session'.status = "cancelled" /\ b.run = Free
         \/ session'.seal = session.turn /\ session'.status = session.status /\ b.run.at = "closing" /\ b.run.op = "close",
         tasks' \in [Turns -> TaskStates], TasksOK', inbox' = Interrupted(inbox),
         UNCHANGED <<present, said, used>>
  PROVE  TurnInv'
PROOF
  <1> DEFINE c == session.client
  <1>1. /\ TypeOK /\ LanesOK /\ ClosedTogether /\ ProcessesOK /\ OneOfEach(box)
        /\ OneHolder /\ ReservationOK /\ RestoreOK /\ StatusOK
        /\ NumbersOK /\ AnswersOK /\ TasksOK /\ CancelIsHeard /\ AsksOK /\ RowsOK
        /\ session \in Sessions /\ conns \in [Conns -> Clients] /\ Cur.op \in MainOps
        /\ inbox \in [Requests -> Rows]
    BY InvParts, TypeParts DEF MainOps
  <1>2. /\ box.run = Free /\ Crit = {} /\ session.status \in Active \ {"restoring"} /\ TurnLive /\ ClientAlive
    BY <1>1, QueuedCommand
  <1>3. /\ ~Gone /\ session.here /\ ~box.closed /\ Cur \in Main \cup {box.run}
        /\ Queued(Done.main) \subseteq Main /\ Main \cup {box.run} \subseteq Queued(Done.main) \cup {Cur, Free}
    BY <1>1, MainDone DEF Gone
  <1>4. session.turn \in Unanswered(conns[c]) /\ session.turn \in Turns /\ session.reserved = "none"
    <2>1. ~EndQueued(session.turn)
      BY <1>2 DEF EndQueued, ExitQueued, Crit
    <2> QED BY <1>2, <2>1, LiveWorker, LiveTurn
  <1>5. /\ c \in Conns /\ conns' \in [Conns -> Clients] /\ \A d \in Conns : d # c => conns'[d] = conns[d]
        /\ conns'[c].queued = {} /\ conns'[c].sent \subseteq conns[c].sent /\ conns'[c].held = {}
        /\ Unanswered(conns'[c]) \subseteq Unanswered(conns[c])
        /\ ~conns'[c].alive => conns'[c].sent = {}
        /\ conns'[c].sent # {} => conns'[c].stop
    BY <1>2, ToldFacts
  <1>6. /\ box' \in Boxes /\ OneOfEach(box)' /\ box'.run = b.run /\ box'.main = b.main /\ box'.closed = FALSE
        /\ \A cmd \in Crit' : /\ cmd.at = "queued" /\ cmd.op \in {"turn_end", "turn_fail", "provider_exit"}
                              /\ cmd.op = "turn_end" => cmd.n \in Turns /\ cmd.x = "cancelled"
        /\ (session.here /\ ~conns'[c].alive) => ExitQueued'
        /\ \A n \in Unanswered(conns[c]) : n \in conns'[c].sent \/ \E cmd \in Crit' : cmd.op \in {"turn_end", "turn_fail"} /\ cmd.n = n
    BY <1>2, ToldFacts
  <1>7. Main' = Queued(Done.main)
    BY <1>6 DEF Main
  <1>8. /\ b.run.op \in {"free", "close"} /\ b.run.at \in {"queued", "closing"}
        /\ ~Holds(b.run) /\ ~Holds(Cur) /\ ~Holds(Free) /\ Cur.op # "prompt" /\ b.run.op # "prompt"
    BY FreeFields DEF Holds
  <1>9. /\ \A d \in Conns : /\ Unanswered(conns'[d]) \subseteq Unanswered(conns[d])
                            /\ conns'[d].alive => conns[d].alive
                            /\ conns'[d].held # {} => conns'[d] = conns[d]
                            /\ conns'[d].queued \cap conns'[d].sent = {}
                            /\ ~conns'[d].alive => conns'[d].queued = {} /\ conns'[d].sent = {} /\ conns'[d].held = {}
    <2>1. conns[c].alive
      BY <1>2 DEF ClientAlive
    <2> QED BY <1>1, <1>5, <2>1, ZenonT(30) DEF ProcessesOK
  <1>10. /\ inbox' \in [Requests -> Rows]
         /\ \A r \in Requests : inbox'[r].status # "pending" /\ inbox'[r].turn = inbox[r].turn
    BY <1>1, InterruptedRows
  <1>11. session'.status \notin {"closed", "restoring"} /\ ~Gone'
    BY <1>2, <1>3 DEF Gone, Active, Waiting
  <1>12. /\ TurnLive' => session'.status = "cancelling" /\ b.run = Free
         /\ session'.status = "cancelling" /\ b.run = Free => TurnLive'
    <2>1. session.turn # 0 /\ session.seal # session.turn /\ "cancelled" # "cancelling"
      BY <1>2 DEF TurnLive
    <2>2. b.run.at = "closing" => b.run # Free
      BY FreeFields
    <2> QED BY <1>2, <1>11, <2>1, <2>2 DEF TurnLive
  <1>13. TypeOK'
    BY <1>1, <1>5, <1>6, <1>10, TypeParts, TypeNext
  <1>14. LanesOK'
    <2>1. /\ \A cmd \in Crit' : cmd.at = "queued" /\ cmd.op \in {"turn_end", "turn_fail", "provider_exit", "update"}
          /\ \A cmd \in Crit' : cmd.op # "update"
      BY <1>6
    <2>2. \A cmd \in Main' : cmd \in Main
      BY <1>3, <1>7
    <2>3. b.run = Free \/ (b.run.at = "closing" /\ b.run.op = "close")
      OBVIOUS
    <2> QED BY <1>1, <1>6, <2>1, <2>2, <2>3, FreeFields DEF LanesOK
  <1>15. ClosedTogether'
    BY <1>3, <1>6, <1>11 DEF ClosedTogether
  <1>16. ProcessesOK'
    BY <1>1, <1>9 DEF ProcessesOK
  <1>17. OneHolder'
    BY <1>1, <1>3, <1>6, <1>7, <1>8 DEF OneHolder
  <1>18. ReservationOK' /\ RestoreOK'
    BY <1>4, <1>6, <1>8 DEF ReservationOK, RestoreOK
  <1>19. StatusOK'
    <2>1. ExitQueued' \/ (conns'[c].alive /\ ClientAlive')
      BY <1>3, <1>5, <1>6, TurnsAreNumbers DEF ClientAlive
    <2>2. EndQueued(session.turn)' \/ session.turn \in Unanswered(conns'[c])
      BY <1>4, <1>6 DEF EndQueued, Unanswered, Crit
    <2>3. session'.status \in Active => b.run.at = "closing" \/ TurnLive'
      <3>1. "cancelled" \notin Active
        BY DEF Active, Waiting
      <3> QED BY <1>12, <3>1
    <2>4. TurnLive' => session'.status \in Active \ {"restoring"}
      BY <1>12 DEF Active
    <2>5. b.run.at = "closing" => ~TurnLive'
      BY <1>12, FreeFields
    <2> QED BY <1>6, <1>8, <1>11, <2>1, <2>2, <2>3, <2>4, <2>5 DEF StatusOK
  <1>20. NumbersOK'
    <2>1. \A n : Fresh(n) => Fresh(n)'
      BY <1>9, <1>10 DEF Fresh
    <2> QED BY <1>1, <1>3, <1>6, <1>7, <1>8, <2>1 DEF NumbersOK
  <1>21. AnswersOK'
    <2>1. \A cmd \in Crit' : cmd.op = "turn_end" => cmd.n \in Turns /\ cmd.x \in {"end", "cancelled"} /\ cmd.x # "end"
      BY <1>6
    <2> QED BY <1>1, <1>9, <2>1 DEF AnswersOK
  <1>22. CancelIsHeard'
    BY <1>5 DEF CancelIsHeard
  <1>23. AsksOK'
    <2>1. \A cmd \in Crit' : cmd.op # "update"
      BY <1>6
    <2> QED BY <2>1 DEF AsksOK
  <1>24. RowsOK'
    <2>1. session'.status = "cancelling" => session'.status # "waiting_permission" /\ session'.status # "waiting_input"
      OBVIOUS
    <2> QED BY <1>6, <1>8, <1>10, <1>12, <2>1 DEF RowsOK
  <1> QED
    BY <1>6, <1>13, <1>14, <1>15, <1>16, <1>17, <1>18, <1>19, <1>20, <1>21, <1>22, <1>23, <1>24 DEF TurnInv

LEMMA TurnTaskCancelled ==
  ASSUME TurnInv, TurnLive, tasks' = EndTask(tasks, session.task, "cancelled"), session'.task = 0, UNCHANGED said
  PROVE  tasks' \in [Turns -> TaskStates] /\ TasksOK'
PROOF
  <1>1. TasksOK /\ tasks \in [Turns -> TaskStates]
    BY InvParts, TypeParts
  <1>2. "cancelled" \in TaskStates /\ "cancelled" \notin Open
    BY DEF TaskStates, Terminal, Open
  <1>3. /\ tasks' \in [Turns -> TaskStates]
        /\ \A n \in Turns : tasks'[n] = IF n = session.task /\ tasks[n] \in Open THEN "cancelled" ELSE tasks[n]
    BY <1>1, <1>2, EndTaskFacts
  <1>4. \A n \in Turns : tasks'[n] \notin Open
    BY <1>2, <1>3, LiveTurn
  <1>5. \A n \in Turns : tasks'[n] = "completed" => said[n] = "end"
    BY <1>1, <1>3 DEF TasksOK
  <1> QED BY <1>3, <1>4, <1>5 DEF TasksOK

LEMMA NamedTaskCancelled ==
  ASSUME TasksOK, tasks \in [Turns -> TaskStates], NEW k \in Turns \cup {0}, tasks' = EndTask(tasks, k, "cancelled"),
         session'.task = (IF session.task = k THEN 0 ELSE session.task), session.task \in Turns \cup {0}, session'.turn = session.turn,
         TurnLive <=> TurnLive', \A n : Prompting(n) => Prompting(n)', UNCHANGED said
  PROVE  tasks' \in [Turns -> TaskStates] /\ TasksOK'
PROOF
  <1>1. "cancelled" \in TaskStates /\ "cancelled" \notin Open
    BY DEF TaskStates, Terminal, Open
  <1>2. /\ tasks' \in [Turns -> TaskStates]
        /\ \A n \in Turns : tasks'[n] = IF n = k /\ tasks[n] \in Open THEN "cancelled" ELSE tasks[n]
    BY <1>1, EndTaskFacts
  <1>3. \A n \in Turns : tasks'[n] \in Open => n # k /\ tasks[n] \in Open
    BY <1>1, <1>2
  <1>4. session'.task # 0 => session.task \in Turns /\ session.task # k /\ session'.task = session.task
    OBVIOUS
  <1> QED BY <1>2, <1>3, <1>4, TurnsAreNumbers DEF TasksOK

\* sessionCancel and taskCancel.
LEMMA CancelOK ==
  ASSUME TurnInv, Cancel PROVE TurnInv'
PROOF
  <1>1. /\ TypeOK /\ LanesOK /\ ClosedTogether /\ OneOfEach(box) /\ OneHolder /\ TasksOK /\ RowsOK
        /\ session \in Sessions /\ conns \in [Conns -> Clients] /\ tasks \in [Turns -> TaskStates] /\ inbox \in [Requests -> Rows]
        /\ session.seal \in {0, session.turn} /\ session.task \in Turns \cup {0}
    BY InvParts, TypeParts DEF Sessions
  <1>2. Cur.op = "cancel" /\ Cur.at = "queued" /\ Cur.op \in Plain /\ Cur.op \in MainOps
    BY DEF Cancel, Runs, Plain, MainOps
  <1>3. UNCHANGED <<present, said, used>>
    BY DEF Cancel
  <1>4. /\ Done \in Boxes /\ OneOfEach(Done) /\ Done.run = Free /\ Done.crit = box.crit /\ Done.closed = FALSE
        /\ Cur \in Commands /\ ~Gone /\ box.run = Free
        /\ Queued(Done.main) \subseteq Main /\ Main \cup {box.run} \subseteq Queued(Done.main) \cup {Cur, Free}
    BY <1>1, <1>2, MainDone
  <1> DEFINE k == Cur.n
  <1>5. k \in Turns \cup {0}
    BY <1>4 DEF Commands
  <1>6. CASE TurnLive /\ session.status \in Active /\ ClientAlive
    <2>1. /\ TellWorker(Done) /\ inbox' = Interrupted(inbox)
          /\ tasks' = IF k = 0 THEN ShowTask(tasks, session.task, "working") ELSE EndTask(tasks, k, "cancelled")
      BY <1>6 DEF Cancel
    <2> DEFINE moved == SetStatus(session, "cancelling")
               heard == [moved EXCEPT !.cancelRequested = TRUE]
    <2>2. session' = [heard EXCEPT !.task = IF heard.task = k THEN 0 ELSE heard.task]
      BY <1>6 DEF Cancel
    <2>3. /\ moved \in Sessions /\ moved.status = "cancelling" /\ moved.here = session.here /\ moved.client = session.client
          /\ moved.turn = session.turn /\ moved.seal = session.seal /\ moved.reserved = session.reserved /\ moved.task = session.task
      <3>1. Moved(session.status, "cancelling") = "cancelling" /\ "cancelling" \in Statuses
        BY <1>1, <1>6, LiveTurn, MovedFacts DEF Sessions, Statuses
      <3> QED BY <1>1, <3>1, SetStatusFields
    <2> HIDE DEF moved
    <2>4. /\ heard \in Sessions /\ heard.status = "cancelling" /\ heard.here = session.here /\ heard.client = session.client
          /\ heard.turn = session.turn /\ heard.seal = session.seal /\ heard.reserved = session.reserved /\ heard.task = session.task
      BY <2>3 DEF Sessions
    <2> HIDE DEF heard
    <2>5. /\ session' \in Sessions /\ session'.status = "cancelling" /\ session'.here = session.here /\ session'.client = session.client
          /\ session'.turn = session.turn /\ session'.seal = session.seal /\ session'.reserved = session.reserved
          /\ session'.task = (IF session.task = k THEN 0 ELSE session.task)
      BY <2>2, <2>4 DEF Sessions
    <2>6. TurnLive'
      BY <1>6, <2>5 DEF TurnLive, Gone
    <2>7. /\ box'.run = Free /\ box'.main = Done.main
      BY <1>4, <1>6, <2>1, QueuedCommand, <1>2, ToldFacts
    <2>8. \A n : Prompting(n) => Prompting(n)'
      BY <1>2, <1>4, <2>7, FreeFields DEF Prompting, Main
    <2>9. tasks' \in [Turns -> TaskStates] /\ TasksOK'
      <3>1. CASE k = 0
        <4>1. \E st \in Open : tasks' = EndTask(tasks, session.task, st)
          BY <2>1, <3>1 DEF ShowTask, Open
        <4>2. session'.task = session.task
          BY <2>5, <3>1
        <4> QED BY <1>1, <1>3, <1>6, <2>5, <2>6, <2>8, <4>1, <4>2, ShownTasks
      <3>2. CASE k # 0
        <4>1. tasks' = EndTask(tasks, k, "cancelled")
          BY <2>1, <3>2
        <4> QED BY <1>1, <1>3, <1>5, <1>6, <2>5, <2>6, <2>8, <4>1, NamedTaskCancelled
      <3> QED BY <3>1, <3>2
    <2> QED BY <1>1, <1>2, <1>3, <1>4, <1>6, <2>1, <2>5, <2>9, TellingOK
  <1>7. CASE ~(TurnLive /\ session.status \in Active /\ ClientAlive)
    <2>1. /\ box' = Done /\ session' = [session EXCEPT !.task = IF session.task = k THEN 0 ELSE session.task]
          /\ tasks' = EndTask(tasks, k, "cancelled") /\ UNCHANGED <<conns, inbox>>
      BY <1>7 DEF Cancel
    <2>2. /\ session' \in Sessions /\ session'.status = session.status /\ session'.here = session.here /\ session'.client = session.client
          /\ session'.turn = session.turn /\ session'.seal = session.seal /\ session'.reserved = session.reserved
          /\ session'.cancelRequested = session.cancelRequested
          /\ session'.task = (IF session.task = k THEN 0 ELSE session.task)
      BY <1>1, <2>1 DEF Sessions
    <2>3. (TurnLive <=> TurnLive') /\ (Gone <=> Gone') /\ Strays' = Strays /\ (EndQueued(session.turn) <=> EndQueued(session.turn)')
      BY <1>4, <2>1, <2>2 DEF TurnLive, Gone, Strays, EndQueued, ExitQueued
    <2>4. \A n : Prompting(n) => Prompting(n)'
      BY <1>2, <1>4, <2>1, FreeFields DEF Prompting, Main
    <2>5. tasks' \in [Turns -> TaskStates] /\ TasksOK'
      BY <1>1, <1>3, <1>5, <2>1, <2>2, <2>3, <2>4, NamedTaskCancelled
    <2>6. RowsOK'
      BY <1>1, <1>4, <2>1, <2>2, <2>3 DEF RowsOK
    <2> QED BY <1>1, <1>2, <1>3, <2>1, <2>2, <2>5, <2>6, PlainStepOK
  <1> QED BY <1>6, <1>7

\* #orphanCancelLocked.
LEMMA OrphanCancelOK ==
  ASSUME TurnInv, OrphanCancel PROVE TurnInv'
PROOF
  <1>1. /\ TypeOK /\ LanesOK /\ ClosedTogether /\ OneOfEach(box) /\ OneHolder
        /\ session \in Sessions /\ inbox \in [Requests -> Rows]
    BY InvParts, TypeParts
  <1>2. Cur.op = "orphan" /\ Cur.at = "queued" /\ Cur.op \in Plain /\ Cur.op \in MainOps
    BY DEF OrphanCancel, Runs, Plain, MainOps
  <1>3. CASE Skips
    BY <1>2, <1>3, SkippedOK
  <1>4. CASE ~Skips
    <2>1. /\ session.status \in Active \ {"restoring"} /\ TellWorker(Done) /\ session' = Orphaned(session)
          /\ tasks' = EndTask(tasks, session.task, "cancelled") /\ inbox' = Interrupted(inbox)
          /\ UNCHANGED <<present, said, used>>
      BY <1>4 DEF OrphanCancel
    <2>2. /\ Done \in Boxes /\ OneOfEach(Done) /\ Done.run = Free /\ Done.crit = box.crit /\ Done.closed = FALSE
      BY <1>1, <1>2, MainDone
    <2>3. TurnLive
      BY <1>2, <2>1, QueuedCommand
    <2> DEFINE moved == SetStatus(session, "cancelled")
               sealed == SealTurn(moved)
    <2>4. session' = [sealed EXCEPT !.orphanCancel = TRUE, !.cancelRequested = TRUE, !.task = 0]
      BY <2>1 DEF Orphaned
    <2>5. /\ moved \in Sessions /\ moved.status = "cancelled" /\ moved.here = session.here /\ moved.client = session.client
          /\ moved.turn = session.turn /\ moved.reserved = session.reserved
      <3>1. Moved(session.status, "cancelled") = "cancelled" /\ "cancelled" \in Statuses
        BY <1>1, <2>1, MovedFacts DEF Sessions, Statuses
      <3> QED BY <1>1, <3>1, SetStatusFields
    <2>6. sealed = [moved EXCEPT !.seal = moved.turn]
      BY DEF SealTurn
    <2> HIDE DEF moved, sealed
    <2>7. /\ sealed \in Sessions /\ sealed.status = "cancelled" /\ sealed.here = session.here /\ sealed.client = session.client
          /\ sealed.turn = session.turn /\ sealed.reserved = session.reserved /\ sealed.seal = session.turn
      BY <2>5, <2>6 DEF Sessions
    <2>8. /\ session' \in Sessions /\ session'.status = "cancelled" /\ session'.here = session.here /\ session'.client = session.client
          /\ session'.turn = session.turn /\ session'.reserved = session.reserved /\ session'.seal = session.turn
          /\ session'.task = 0
      BY <2>4, <2>7, TurnsAreNumbers DEF Sessions
    <2>9. tasks' \in [Turns -> TaskStates] /\ TasksOK'
      BY <2>1, <2>3, <2>8, TurnTaskCancelled
    <2> QED BY <1>2, <2>1, <2>2, <2>8, <2>9, TellingOK
  <1> QED BY <1>3, <1>4

-----------------------------------------------------------------------------
(* The end of the session *)

\* A close of a session whose worker has no turn.
LEMMA ClosingOK ==
  ASSUME TurnInv, Cur.op = "close", Cur.at = "queued", session.status \notin Active,
         box' = Awaits("closing", session.client), inbox' = Interrupted(inbox),
         UNCHANGED <<session, conns, tasks, present, said, used>>
  PROVE  TurnInv'
PROOF
  <1>1. /\ TypeOK /\ LanesOK /\ ClosedTogether /\ ProcessesOK /\ OneOfEach(box)
        /\ OneHolder /\ ReservationOK /\ RestoreOK /\ StatusOK
        /\ NumbersOK /\ AnswersOK /\ TasksOK /\ CancelIsHeard /\ AsksOK /\ RowsOK
        /\ session \in Sessions /\ session.client \in Conns \cup {0} /\ Cur.op \in MainOps /\ inbox \in [Requests -> Rows]
    BY InvParts, TypeParts DEF MainOps, Sessions
  <1>2. /\ ~box.closed /\ session.status # "closed" /\ ~Gone /\ Cur \in Main \cup {box.run}
        /\ Queued(Done.main) \subseteq Main /\ Main \cup {box.run} \subseteq Queued(Done.main) \cup {Cur, Free}
        /\ box.run = Free /\ Crit = {}
    BY <1>1, MainDone
  <1>3. "closing" \in Places
    BY DEF Places
  <1>4. /\ box' \in Boxes /\ OneOfEach(box)' /\ box'.run.op = Cur.op /\ box'.run.n = Cur.n /\ box'.run.x = Cur.x
        /\ box'.run.at = "closing" /\ box'.run.c = session.client /\ box'.run # Free /\ box'.closed = FALSE
        /\ box'.crit = box.crit /\ box'.main = Done.main
    BY ONLY <1>1, <1>3, MainWaits, box' = Awaits("closing", session.client)
  <1>5. Crit' = {} /\ Main' = Queued(Done.main) /\ box'.run.op = "close"
    BY <1>2, <1>4 DEF Crit, Main
  <1>6. ~TurnLive /\ ~TurnLive' /\ ~Gone' /\ (ClientAlive <=> ClientAlive')
    <2>1. ~TurnLive
      BY <1>1 DEF StatusOK
    <2> QED BY <1>2, <2>1 DEF Gone, TurnLive, ClientAlive
  <1>7. /\ inbox' \in [Requests -> Rows]
        /\ \A r \in Requests : inbox'[r].status # "pending" /\ inbox'[r].turn = inbox[r].turn
    BY <1>1, InterruptedRows
  <1>8. ~Holds(box'.run) /\ ~Holds(Cur) /\ ~Holds(Free) /\ Cur.op # "prompt"
    BY <1>5, FreeFields DEF Holds
  <1>9. \A n : Prompting(n) <=> Prompting(n)'
    BY <1>2, <1>5, <1>8, FreeFields DEF Prompting
  <1>10. TypeOK'
    BY <1>1, <1>4, <1>7, TypeParts, TypeNext
  <1>11. LanesOK' /\ ClosedTogether'
    BY <1>1, <1>2, <1>4, <1>5 DEF LanesOK, ClosedTogether
  <1>12. ProcessesOK'
    BY <1>1 DEF ProcessesOK
  <1>13. OneHolder' /\ ReservationOK'
    BY <1>1, <1>2, <1>5, <1>8 DEF OneHolder, ReservationOK
  <1>14. RestoreOK'
    BY <1>4 DEF RestoreOK
  <1>15. StatusOK'
    <2>1. session.status \notin Active /\ session.status # "restoring"
      BY DEF Active
    <2> QED BY <1>4, <1>5, <1>6, <2>1 DEF StatusOK
  <1>16. NumbersOK'
    <2>1. \A n : Fresh(n) => Fresh(n)'
      BY <1>7 DEF Fresh
    <2> QED BY <1>1, <1>2, <1>5, <1>8, <2>1 DEF NumbersOK
  <1>17. AnswersOK' /\ AsksOK'
    BY <1>1, <1>5 DEF AnswersOK, AsksOK
  <1>18. TasksOK'
    BY <1>1, <1>6, <1>9 DEF TasksOK
  <1>19. CancelIsHeard'
    BY <1>6 DEF CancelIsHeard
  <1>20. RowsOK'
    BY <1>4, <1>6, <1>7 DEF RowsOK
  <1> QED
    BY <1>4, <1>10, <1>11, <1>12, <1>13, <1>14, <1>15, <1>16, <1>17, <1>18, <1>19, <1>20 DEF TurnInv

\* #closeLocked up to its await.
LEMMA CloseOK ==
  ASSUME TurnInv, Close PROVE TurnInv'
PROOF
  <1>1. /\ TypeOK /\ LanesOK /\ ClosedTogether /\ OneOfEach(box) /\ OneHolder /\ StatusOK
        /\ session \in Sessions /\ session.client \in Conns \cup {0}
    BY InvParts, TypeParts DEF Sessions
  <1>2. Cur.op = "close" /\ Cur.at = "queued" /\ Cur.op \in MainOps
    BY DEF Close, Runs, MainOps
  <1>3. ~Gone
    BY <1>1, <1>2, MainDone
  <1>4. /\ session' = IF TurnLive THEN [SealTurn(session) EXCEPT !.task = 0] ELSE session
        /\ tasks' = IF TurnLive THEN EndTask(tasks, session.task, "cancelled") ELSE tasks
        /\ inbox' = Interrupted(inbox)
        /\ UNCHANGED <<present, said, used>>
    BY <1>3 DEF Close
  <1>5. CASE session.status \in Active
    <2> DEFINE b == Awaits("closing", session.client)
    <2>1. TellWorker(b)
      BY <1>3, <1>5 DEF Close
    <2>2. TurnLive
      BY <1>2, <1>5, QueuedCommand
    <2>3. "closing" \in Places
      BY DEF Places
    <2>4. /\ b \in Boxes /\ OneOfEach(b) /\ b.run.op = Cur.op /\ b.run.at = "closing" /\ b.closed = FALSE /\ b.crit = box.crit
          /\ b.main = Done.main
      BY ONLY <1>1, <1>2, <2>3, MainAwaits
    <2> HIDE DEF b
    <2> DEFINE sealed == SealTurn(session)
    <2>5. session' = [sealed EXCEPT !.task = 0] /\ sealed = [session EXCEPT !.seal = session.turn]
      BY <1>4, <2>2 DEF SealTurn
    <2> HIDE DEF sealed
    <2>6. /\ session' \in Sessions /\ session'.status = session.status /\ session'.here = session.here /\ session'.client = session.client
          /\ session'.turn = session.turn /\ session'.reserved = session.reserved /\ session'.seal = session.turn
          /\ session'.task = 0
      BY <1>1, <2>5, TurnsAreNumbers DEF Sessions
    <2>7. tasks' \in [Turns -> TaskStates] /\ TasksOK'
      BY <1>4, <2>2, <2>6, TurnTaskCancelled
    <2> QED BY <1>2, <1>4, <1>5, <2>1, <2>4, <2>6, <2>7, TellingOK
  <1>6. CASE session.status \notin Active
    <2>1. ~TurnLive
      BY <1>1, <1>6 DEF StatusOK
    <2>2. UNCHANGED <<session, tasks, conns>> /\ box' = Awaits("closing", session.client)
      BY <1>3, <1>4, <1>6, <2>1 DEF Close
    <2> QED BY <1>2, <1>4, <1>6, <2>2, ClosingOK
  <1> QED BY <1>5, <1>6

\* A record that becomes closed, its mailbox with it.
LEMMA RecordClosedOK ==
  ASSUME TurnInv, box' = ClosedBox, session' \in Sessions, session'.seal \in {0, session'.turn},
         session'.status = "closed", session'.client = 0, session'.turn = session.turn, session'.reserved = "none", session'.task = 0,
         conns' = [c \in Conns |-> IF c = session.client THEN ClearSession(conns[c]) ELSE conns[c]],
         tasks' \in [Turns -> TaskStates],
         \A n \in Turns : tasks'[n] \notin Open /\ (tasks'[n] = "completed" => tasks[n] = "completed"),
         inbox' \in [Requests -> Rows],
         \A r \in Requests : inbox'[r].status # "pending" /\ inbox'[r].turn \in {0, inbox[r].turn},
         UNCHANGED <<present, said, used>>
  PROVE  TurnInv'
PROOF
  <1>1. /\ TypeOK /\ ProcessesOK /\ NumbersOK /\ AnswersOK /\ TasksOK
        /\ session \in Sessions /\ conns \in [Conns -> Clients] /\ used \in Bounds
    BY InvParts, TypeParts
  <1>2. /\ box' \in Boxes /\ box'.run = Free /\ box'.closed = TRUE /\ box'.crit = <<>> /\ box'.main = <<>>
    BY FreeFields DEF ClosedBox, Boxes
  <1>3. Crit' = {} /\ Main' = {} /\ OneOfEach(box)'
    BY <1>2, QueuedEmpty DEF Crit, Main, OneOfEach
  <1>4. Gone' /\ ~TurnLive' /\ ~ClientAlive'
    BY DEF Gone, TurnLive, ClientAlive
  <1>5. /\ conns' \in [Conns -> Clients]
        /\ \A c \in Conns : /\ conns'[c].alive = conns[c].alive /\ conns'[c].queued = conns[c].queued /\ conns'[c].sent = conns[c].sent
                            /\ conns'[c].held \in {{}, conns[c].held} /\ (conns'[c].held # {} => conns'[c].handler = conns[c].handler)
                            /\ Unanswered(conns'[c]) = Unanswered(conns[c])
    <2>1. ASSUME NEW c \in Conns
          PROVE  /\ conns'[c] \in Clients
                 /\ conns'[c].alive = conns[c].alive /\ conns'[c].queued = conns[c].queued /\ conns'[c].sent = conns[c].sent
                 /\ conns'[c].held \in {{}, conns[c].held} /\ (conns'[c].held # {} => conns'[c].handler = conns[c].handler)
                 /\ Unanswered(conns'[c]) = Unanswered(conns[c])
      <3>1. conns[c] \in Clients /\ (conns'[c] = conns[c] \/ conns'[c] = ClearSession(conns[c]))
        BY <1>1
      <3> QED BY <3>1, ClearedFields
    <2>2. conns' = [c \in Conns |-> conns'[c]]
      OBVIOUS
    <2> QED BY <2>1, <2>2
  <1>6. TypeOK'
    BY <1>1, <1>2, <1>5, TypeParts, TypeNext
  <1>7. LanesOK' /\ ClosedTogether'
    BY <1>2, <1>3, FreeFields DEF LanesOK, ClosedTogether
  <1>8. ProcessesOK'
    <2>1. 0 <= used.conns
      BY <1>1, TurnsAreNumbers DEF Bounds
    <2> QED BY <1>1, <1>5, <2>1 DEF ProcessesOK
  <1>9. OneHolder' /\ ReservationOK' /\ RestoreOK'
    BY <1>2, <1>3, FreeFields DEF OneHolder, ReservationOK, RestoreOK, Holds
  <1>10. StatusOK'
    BY <1>2, <1>4, FreeFields DEF StatusOK, Active, Waiting
  <1>11. NumbersOK'
    <2>1. \A n \in Turns : Fresh(n) => Fresh(n)'
      BY <1>5, TurnsAreNumbers DEF Fresh
    <2> QED BY <1>1, <1>2, <1>3, <2>1, FreeFields DEF NumbersOK
  <1>12. AnswersOK'
    BY <1>1, <1>3, <1>5 DEF AnswersOK
  <1>13. TasksOK'
    BY <1>1 DEF TasksOK
  <1>14. CancelIsHeard' /\ AsksOK' /\ RowsOK'
    BY <1>2, <1>3, <1>4, FreeFields DEF CancelIsHeard, AsksOK, RowsOK
  <1> QED
    BY <1>3, <1>6, <1>7, <1>8, <1>9, <1>10, <1>11, <1>12, <1>13, <1>14 DEF TurnInv

\* ... and after it.
LEMMA ClosedOK ==
  ASSUME TurnInv, Closed PROVE TurnInv'
PROOF
  <1>1. /\ TypeOK /\ LanesOK /\ StatusOK /\ TasksOK /\ RowsOK
        /\ session \in Sessions /\ session.seal \in {0, session.turn} /\ tasks \in [Turns -> TaskStates]
        /\ inbox \in [Requests -> Rows] /\ session.client \in Conns \cup {0} /\ session.status \in Statuses
        /\ session.task \in Turns \cup {0}
    BY InvParts, TypeParts DEF Sessions
  <1>2. Cur = box.run /\ Cur.at = "closing" /\ Cur.op = "close" /\ ~TurnLive
    BY <1>1, FreeFields DEF Closed, Cur, Busy, LanesOK, StatusOK
  <1>3. UNCHANGED <<inbox, present, said, used>>
    BY DEF Closed
  <1>4. CASE /\ \E kept \in BOOLEAN :
                  session' = [Rejected(SetStatus(session, "closed")) EXCEPT !.client = 0, !.here = kept]
             /\ tasks' = RejectedTasks(tasks)
             /\ conns' = [c \in Conns |-> IF c = session.client THEN ClearSession(conns[c]) ELSE conns[c]]
             /\ box' = ClosedBox
    <2> DEFINE moved == SetStatus(session, "closed")
               waits == \E i \in DOMAIN box.main : box.main[i].op = "prompt"
               refused == Rejected(moved)
    <2>1. PICK kept \in BOOLEAN : session' = [refused EXCEPT !.client = 0, !.here = kept]
      BY <1>4
    <2>2. /\ moved \in Sessions /\ moved.status = "closed" /\ moved.turn = session.turn /\ moved.seal = session.seal
          /\ moved.task = session.task
      <3>1. Moved(session.status, "closed") = "closed" /\ "closed" \in Statuses
        BY <1>1, MovedFacts DEF Statuses
      <3> QED BY <1>1, <3>1, SetStatusFields
    <2>3. refused = [moved EXCEPT !.reserved = "none", !.preparing = 0, !.task = IF waits THEN 0 ELSE moved.task]
      BY DEF Rejected
    <2> HIDE DEF moved, refused
    <2>4. /\ refused \in Sessions /\ refused.status = "closed" /\ refused.turn = session.turn /\ refused.seal = session.seal
          /\ refused.reserved = "none" /\ refused.task = (IF waits THEN 0 ELSE session.task)
      BY <2>2, <2>3 DEF Sessions
    <2>5. /\ session' \in Sessions /\ session'.status = "closed" /\ session'.turn = session.turn /\ session'.seal = session.seal
          /\ session'.reserved = "none" /\ session'.task = (IF waits THEN 0 ELSE session.task) /\ session'.client = 0
      BY <2>1, <2>4 DEF Sessions
    <2>6. \A n \in Turns : tasks[n] \in Open => \E i \in DOMAIN box.main : box.main[i].op = "prompt" /\ box.main[i].n = n
      <3>1. \A n \in Turns : tasks[n] \in Open => \E cmd \in Main \cup {box.run} : cmd.op = "prompt" /\ cmd.n = n
        BY <1>1, <1>2 DEF TasksOK, Prompting
      <3>2. box.run.op # "prompt"
        BY <1>2
      <3> QED BY <3>1, <3>2 DEF Main, Queued
    <2>7. session'.task = 0
      <3>1. session.task # 0 => waits
        BY <1>1, <2>6 DEF TasksOK
      <3> QED BY <2>5, <3>1
    <2>8. \A n \in Turns :
            tasks'[n] = IF \E i \in DOMAIN box.main : box.main[i].op = "prompt" /\ box.main[i].n = n /\ tasks[n] \in Open
                        THEN IF session.preparing = n THEN "failed" ELSE "removed"
                        ELSE tasks[n]
      BY <1>4 DEF RejectedTasks
    <2>9. "failed" \in TaskStates /\ "removed" \in TaskStates /\ "failed" \notin Open /\ "removed" \notin Open
      BY DEF TaskStates, Terminal, Open
    <2>10. tasks' \in [Turns -> TaskStates]
      <3>1. tasks' = [n \in Turns |-> tasks'[n]]
        BY <1>4 DEF RejectedTasks
      <3>2. \A n \in Turns : tasks'[n] \in TaskStates
        BY <1>1, <2>8, <2>9
      <3> QED BY <3>1, <3>2
    <2>11. \A n \in Turns : tasks'[n] \notin Open /\ (tasks'[n] = "completed" => tasks[n] = "completed")
      BY <2>6, <2>8, <2>9
    <2>12. \A r \in Requests : inbox'[r].status # "pending" /\ inbox'[r].turn \in {0, inbox[r].turn}
      BY <1>1, <1>2, <1>3 DEF RowsOK
    <2>13. inbox' \in [Requests -> Rows] /\ session'.seal \in {0, session'.turn}
      BY <1>1, <1>3, <2>5
    <2> HIDE DEF waits
    <2> QED BY <1>3, <1>4, <2>5, <2>7, <2>10, <2>11, <2>12, <2>13, RecordClosedOK
  <1>5. CASE /\ ClientAlive /\ conns[session.client].held # {}
             /\ Fails(session.client, Done)
             /\ UNCHANGED <<session, tasks>>
    <2>1. session.client \in Conns /\ conns[session.client].alive
      BY <1>1, <1>5 DEF ClientAlive
    <2> QED BY <1>2, <1>3, <1>5, <2>1, FailsOK
  <1> QED BY <1>4, <1>5 DEF Closed

\* Retention.
LEMMA RetiresOK ==
  ASSUME TurnInv, Retires PROVE TurnInv'
PROOF
  <1>1. /\ TypeOK /\ StatusOK /\ TasksOK
        /\ session \in Sessions /\ session.seal \in {0, session.turn} /\ tasks \in [Turns -> TaskStates]
        /\ inbox \in [Requests -> Rows] /\ session.status \in Statuses
        /\ session.task \in Turns \cup {0}
    BY InvParts, TypeParts DEF Sessions
  <1>2. UNCHANGED <<tasks, present, said, used>> /\ Quiet
    BY DEF Retires
  <1>3. CASE /\ session.status = "closed"
             /\ session' = [session EXCEPT !.here = FALSE]
             /\ UNCHANGED <<box, conns, inbox>>
    BY <1>2, <1>3, DroppedOK
  <1>4. CASE /\ session.status \notin Active \cup {"closed"}
             /\ \E kept \in BOOLEAN :
                  session' = [SetStatus(session, "closed") EXCEPT !.client = 0, !.here = kept]
             /\ conns' = [c \in Conns |-> IF c = session.client THEN ClearSession(conns[c]) ELSE conns[c]]
             /\ inbox' = [r \in Requests |-> [inbox[r] EXCEPT !.status = IF @ = "none" THEN "none" ELSE "removed", !.turn = 0]]
             /\ box' = ClosedBox
    <2> DEFINE moved == SetStatus(session, "closed")
    <2>1. PICK kept \in BOOLEAN : session' = [moved EXCEPT !.client = 0, !.here = kept]
      BY <1>4
    <2>2. /\ moved \in Sessions /\ moved.status = "closed" /\ moved.turn = session.turn /\ moved.seal = session.seal
          /\ moved.task = session.task /\ moved.reserved = session.reserved
      <3>1. Moved(session.status, "closed") = "closed" /\ "closed" \in Statuses
        BY <1>1, MovedFacts DEF Statuses
      <3> QED BY <1>1, <3>1, SetStatusFields
    <2> HIDE DEF moved
    <2>3. /\ session' \in Sessions /\ session'.status = "closed" /\ session'.turn = session.turn /\ session'.seal = session.seal
          /\ session'.reserved = session.reserved /\ session'.task = session.task /\ session'.client = 0
      BY <2>1, <2>2 DEF Sessions
    <2>4. box.run = Free /\ Main = {} /\ session.reserved = "none"
      BY <1>2, QueuedEmpty DEF Quiet, Idle, Busy, Main
    <2>5. ~TurnLive /\ \A n : ~Prompting(n)
      BY <1>1, <1>4, <2>4, FreeFields DEF StatusOK, Prompting
    <2>6. \A n \in Turns : tasks[n] \notin Open
      BY <1>1, <2>5 DEF TasksOK
    <2>7. session.task = 0
      BY <1>1, <2>6 DEF TasksOK
    <2>8. \A r \in Requests : inbox'[r] \in Rows /\ inbox'[r].status # "pending" /\ inbox'[r].turn = 0
      <3>1. ASSUME NEW r \in Requests PROVE inbox'[r] \in Rows /\ inbox'[r].status # "pending" /\ inbox'[r].turn = 0
        <4>1. inbox[r] \in Rows
          BY <1>1
        <4>2. inbox'[r] = [inbox[r] EXCEPT !.status = IF inbox[r].status = "none" THEN "none" ELSE "removed", !.turn = 0]
          BY <1>4
        <4> QED BY <4>1, <4>2 DEF Rows
      <3> QED BY <3>1
    <2>9. inbox' \in [Requests -> Rows]
      <3>1. inbox' = [r \in Requests |-> inbox'[r]]
        BY <1>4
      <3> QED BY <2>8, <3>1
    <2>10. session'.seal \in {0, session'.turn} /\ session'.reserved = "none" /\ session'.task = 0
      BY <1>1, <2>3, <2>4, <2>7
    <2>11. tasks' \in [Turns -> TaskStates] /\ \A n \in Turns : tasks'[n] \notin Open /\ (tasks'[n] = "completed" => tasks[n] = "completed")
      BY <1>1, <1>2, <2>6
    <2> QED BY <1>2, <1>4, <2>3, <2>8, <2>9, <2>10, <2>11, RecordClosedOK
  <1> QED BY <1>3, <1>4 DEF Retires

\* An idle session that is unloaded.
LEMMA UnloadedOK ==
  ASSUME TurnInv, session.here, ClientAlive, session.status \notin Active, Quiet,
         session' = [SetStatus(session, "disconnected") EXCEPT !.client = 0],
         box' \in Boxes, OneOfEach(box)', box'.run = box.run, box'.closed = box.closed, Main' = Main,
         \A cmd \in Crit' : cmd.at = "queued" /\ cmd.op = "turn_fail", box.closed => Crit' = {},
         conns' = [conns EXCEPT ![session.client] = Ended] \/ conns' = [conns EXCEPT ![session.client] = ClearSession(@)],
         UNCHANGED <<tasks, inbox, present, said, used>>
  PROVE  TurnInv'
PROOF
  <1> DEFINE c == session.client
  <1>1. /\ TypeOK /\ LanesOK /\ ClosedTogether /\ ProcessesOK /\ NumbersOK /\ AnswersOK /\ TasksOK /\ StatusOK /\ RowsOK
        /\ session \in Sessions /\ session.seal \in {0, session.turn} /\ conns \in [Conns -> Clients] /\ used \in Bounds
        /\ session.status \in Statuses /\ c \in Conns
    BY InvParts, TypeParts DEF Sessions, ClientAlive
  <1>2. box.run = Free /\ Main = {} /\ session.reserved = "none"
    BY QueuedEmpty DEF Quiet, Idle, Busy, Main
  <1> DEFINE moved == SetStatus(session, "disconnected")
  <1>3. /\ moved \in Sessions /\ moved.status = (IF session.status = "closed" THEN "closed" ELSE "disconnected")
        /\ moved.turn = session.turn /\ moved.seal = session.seal /\ moved.here = session.here
        /\ moved.task = session.task /\ moved.reserved = session.reserved
    <2>1. /\ "disconnected" \in Statuses
          /\ Moved(session.status, "disconnected") = (IF session.status = "closed" THEN "closed" ELSE "disconnected")
      BY <1>1, MovedFacts DEF Statuses
    <2> QED BY <1>1, <2>1, SetStatusFields
  <1> HIDE DEF moved
  <1>4. session' = [moved EXCEPT !.client = 0]
    BY DEF moved
  <1>5. /\ session' \in Sessions /\ session'.status = (IF session.status = "closed" THEN "closed" ELSE "disconnected")
        /\ session'.turn = session.turn /\ session'.seal = session.seal /\ session'.here = session.here
        /\ session'.task = session.task /\ session'.reserved = "none" /\ session'.client = 0
    BY <1>2, <1>3, <1>4 DEF Sessions
  <1>6. /\ conns' \in [Conns -> Clients]
        /\ \A d \in Conns : /\ Unanswered(conns'[d]) \subseteq Unanswered(conns[d])
                            /\ conns'[d].queued \subseteq conns[d].queued /\ conns'[d].sent \subseteq conns[d].sent
                            /\ conns'[d].alive => conns[d].alive
                            /\ conns'[d].held # {} => conns'[d] = conns[d]
                            /\ ~conns'[d].alive => conns'[d].queued = {} /\ conns'[d].sent = {} /\ conns'[d].held = {}
    <2>1. PICK client \in {Ended, ClearSession(conns[c])} : conns' = [conns EXCEPT ![c] = client]
      OBVIOUS
    <2>2. conns[c] \in Clients /\ conns[c].alive
      BY <1>1 DEF ClientAlive
    <2>3. /\ client \in Clients /\ Unanswered(client) \subseteq Unanswered(conns[c])
          /\ client.queued \subseteq conns[c].queued /\ client.sent \subseteq conns[c].sent /\ client.held = {}
          /\ ~client.alive => client.queued = {} /\ client.sent = {}
      BY <2>2, EndedFields, ClearedFields
    <2>4. conns' \in [Conns -> Clients] /\ conns'[c] = client /\ \A d \in Conns : d # c => conns'[d] = conns[d]
      BY <1>1, <2>1, <2>3
    <2> QED BY <1>1, <2>2, <2>3, <2>4 DEF ProcessesOK
  <1>7. ~TurnLive /\ ~TurnLive' /\ (Gone <=> Gone') /\ ~ClientAlive' /\ (session'.status = "closed" <=> session.status = "closed")
    <2>1. ~TurnLive
      BY <1>1 DEF StatusOK
    <2>2. session'.status = "closed" <=> session.status = "closed"
      BY <1>5
    <2>3. Gone <=> Gone'
      BY <1>5, <2>2 DEF Gone
    <2>4. ~ClientAlive'
      BY <1>5 DEF ClientAlive
    <2>5. ~TurnLive'
      BY <1>5, <2>1, <2>3 DEF TurnLive
    <2> QED BY <2>1, <2>2, <2>3, <2>4, <2>5
  <1>8. TypeOK'
    BY <1>1, <1>5, <1>6, TypeParts, TypeNext
  <1>9. LanesOK'
    BY <1>1, <1>2, FreeFields DEF LanesOK
  <1>10. ClosedTogether'
    <2>1. /\ box'.closed <=> session'.status = "closed"
          /\ ~session'.here => box'.closed
      BY <1>1, <1>5, <1>7 DEF ClosedTogether
    <2>2. box'.closed => box'.run = Free /\ Crit' = {} /\ Main' = {}
      BY <1>2
    <2> QED BY <2>1, <2>2 DEF ClosedTogether
  <1>11. ProcessesOK'
    <2>1. 0 <= used.conns
      BY <1>1, TurnsAreNumbers DEF Bounds
    <2> QED BY <1>1, <1>5, <1>6, <2>1 DEF ProcessesOK
  <1>12. OneHolder' /\ ReservationOK' /\ RestoreOK'
    BY <1>2, <1>5, FreeFields DEF OneHolder, ReservationOK, RestoreOK, Holds
  <1>13. StatusOK'
    BY <1>2, <1>5, <1>7, FreeFields DEF StatusOK, Active, Waiting
  <1>14. NumbersOK'
    <2>1. \A n : Fresh(n) => Fresh(n)'
      BY <1>5, <1>6 DEF Fresh
    <2> QED BY <1>1, <1>2, <1>5, <2>1, FreeFields DEF NumbersOK
  <1>15. AnswersOK'
    BY <1>1, <1>6 DEF AnswersOK
  <1>16. TasksOK'
    BY <1>1, <1>2, <1>5, <1>7 DEF TasksOK, Prompting
  <1>17. CancelIsHeard' /\ AsksOK'
    BY <1>7 DEF CancelIsHeard, AsksOK
  <1>18. RowsOK'
    BY <1>1, <1>2, <1>7, FreeFields DEF RowsOK
  <1> QED
    BY <1>8, <1>9, <1>10, <1>11, <1>12, <1>13, <1>14, <1>15, <1>16, <1>17, <1>18 DEF TurnInv

LEMMA UnloadsOK ==
  ASSUME TurnInv, Unloads PROVE TurnInv'
PROOF
  <1> DEFINE c == session.client
  <1>1. TypeOK /\ OneOfEach(box) /\ ClosedTogether /\ session \in Sessions /\ box \in Boxes /\ c \in Conns
    BY InvParts, TypeParts DEF Unloads, ClientAlive, Sessions
  <1>2. /\ session.here /\ ClientAlive /\ session.status \notin Active /\ Quiet
        /\ session' = [SetStatus(session, "disconnected") EXCEPT !.client = 0]
        /\ UNCHANGED <<tasks, inbox, present, said, used>>
        /\ StopsProcess(c, box) \/ (conns' = [conns EXCEPT ![c] = ClearSession(@)] /\ UNCHANGED box)
    BY DEF Unloads
  <1>3. Crit = {}
    BY <1>2, QueuedEmpty DEF Quiet, Idle, Crit
  <1>4. CASE conns' = [conns EXCEPT ![c] = ClearSession(@)] /\ UNCHANGED box
    <2>1. /\ box' \in Boxes /\ OneOfEach(box)' /\ box'.run = box.run /\ box'.closed = box.closed /\ Main' = Main /\ Crit' = {}
      BY <1>1, <1>3, <1>4 DEF OneOfEach, Main, Crit
    <2> QED BY <1>2, <1>4, <2>1, UnloadedOK
  <1>5. CASE StopsProcess(c, box)
    <2> DEFINE failed == {Cmd("turn_fail", n, None) : n \in Unanswered(conns[c])}
    <2>1. conns' = [conns EXCEPT ![c] = Ended] /\ box' = Posted(box, Outcomes(Unanswered(conns[c]), "turn_fail", None))
      BY <1>5 DEF StopsProcess
    <2>2. Unanswered(conns[c]) \in SUBSET Turns
      BY <1>1, ClientFields
    <2>3. /\ box' \in Boxes /\ OneOfEach(box') /\ box'.run = box.run /\ box'.main = box.main /\ box'.closed = box.closed
          /\ Queued(box'.crit) = Queued(box.crit) \cup (IF box.closed THEN {} ELSE failed)
      BY <1>1, <2>1, <2>2, FailuresPosted
    <2>4. \A cmd \in failed : cmd.at = "queued" /\ cmd.op = "turn_fail"
      <3>1. \A n \in Turns : Cmd("turn_fail", n, None).at = "queued" /\ Cmd("turn_fail", n, None).op = "turn_fail"
        BY CmdType DEF CritOps
      <3> QED BY <2>2, <3>1
    <2> HIDE DEF failed
    <2>5. Crit' = (IF box.closed THEN {} ELSE failed) /\ Main' = Main
      BY <1>3, <2>3 DEF Crit, Main
    <2>6. OneOfEach(box)'
      BY <2>3 DEF OneOfEach
    <2> QED BY <1>2, <2>1, <2>3, <2>4, <2>5, <2>6, UnloadedOK
  <1> QED BY <1>2, <1>4, <1>5

-----------------------------------------------------------------------------
(* The worker *)

\* The channel drains.
LEMMA DrainsOK ==
  ASSUME TurnInv, NEW c \in Conns, Drains(c) PROVE TurnInv'
PROOF
  <1>1. /\ TypeOK /\ LanesOK /\ ClosedTogether /\ ProcessesOK /\ OneOfEach(box)
        /\ OneHolder /\ ReservationOK /\ RestoreOK /\ StatusOK
        /\ NumbersOK /\ AnswersOK /\ TasksOK /\ CancelIsHeard /\ AsksOK /\ RowsOK
        /\ session \in Sessions /\ conns \in [Conns -> Clients]
    BY InvParts, TypeParts
  <1>2. /\ conns' = [conns EXCEPT ![c] = Flush(conns[c])] /\ conns[c].alive
        /\ UNCHANGED <<session, box, tasks, inbox, present, said, used>>
    BY DEF Drains, CanFlush
  <1> DEFINE client == conns[c]
             after == Flush(conns[c])
  <1>3. client \in Clients
    BY <1>1
  <1>4. /\ after \in Clients /\ after.alive = client.alive /\ after.handler = client.handler /\ after.held = client.held
        /\ Unanswered(after) = Unanswered(client)
        /\ client.queued \cap client.sent = {} => after.queued \cap after.sent = {}
        /\ after.queued \subseteq client.queued
        /\ client.stop => after.told = after.sent
        /\ ~client.stop => after.sent = client.sent \cup client.queued /\ after.told = client.told
    <2>1. CASE client.stop
      <3>1. after = [client EXCEPT !.stop = FALSE, !.told = client.sent]
        BY <2>1 DEF Flush
      <3> HIDE DEF after, client
      <3>2. /\ after \in Clients /\ after.alive = client.alive /\ after.handler = client.handler /\ after.held = client.held
            /\ after.queued = client.queued /\ after.sent = client.sent /\ after.told = client.sent
        BY <1>3, <3>1 DEF Clients
      <3> QED BY <2>1, <3>2 DEF Unanswered
    <2>2. CASE ~client.stop
      <3>1. after = [client EXCEPT !.queued = {}, !.sent = client.sent \cup client.queued]
        BY <2>2 DEF Flush
      <3> HIDE DEF after, client
      <3>2. /\ after \in Clients /\ after.alive = client.alive /\ after.handler = client.handler /\ after.held = client.held
            /\ after.queued = {} /\ after.sent = client.sent \cup client.queued /\ after.told = client.told
        BY <1>3, <3>1 DEF Clients
      <3> QED BY <2>2, <3>2 DEF Unanswered
    <2> QED BY <2>1, <2>2
  <1> HIDE DEF after
  <1>5. conns' \in [Conns -> Clients] /\ conns'[c] = after /\ \A d \in Conns : d # c => conns'[d] = conns[d]
    BY <1>1, <1>2, <1>4 DEF after
  <1>6. \A d \in Conns : /\ conns'[d].alive = conns[d].alive /\ conns'[d].handler = conns[d].handler /\ conns'[d].held = conns[d].held
                         /\ Unanswered(conns'[d]) = Unanswered(conns[d])
                         /\ conns'[d].queued \cap conns'[d].sent = {}
                         /\ ~conns'[d].alive => conns'[d] = conns[d]
    BY <1>1, <1>2, <1>4, <1>5 DEF ProcessesOK
  <1>7. (Gone <=> Gone') /\ (TurnLive <=> TurnLive') /\ (ClientAlive <=> ClientAlive') /\ Strays' = Strays
    <2>1. session.client # 0 => session.client \in Conns
      BY <1>1 DEF Sessions
    <2> QED BY <1>2, <1>6, <2>1 DEF Gone, TurnLive, ClientAlive, Strays
  <1>8. (ExitQueued <=> ExitQueued') /\ (EndQueued(session.turn) <=> EndQueued(session.turn)') /\ (Busy <=> Busy')
        /\ OneOfEach(box)' /\ Crit' = Crit /\ Main' = Main
    BY <1>1, <1>2 DEF ExitQueued, EndQueued, Busy, OneOfEach, Crit, Main
  <1>9. ClientAlive => session.client \in Conns
    BY <1>1 DEF ClientAlive, Sessions
  <1>10. TypeOK'
    BY <1>1, <1>2, <1>5, TypeParts, TypeNext
  <1>11. LanesOK' /\ ClosedTogether' /\ OneHolder' /\ ReservationOK' /\ RestoreOK'
    BY <1>1, <1>2, <1>8 DEF LanesOK, ClosedTogether, OneHolder, ReservationOK, RestoreOK
  <1>12. ProcessesOK'
    BY <1>1, <1>2, <1>6 DEF ProcessesOK
  <1>13. StatusOK'
    BY <1>1, <1>2, <1>6, <1>7, <1>8, <1>9 DEF StatusOK
  <1>14. NumbersOK'
    <2>1. \A n : Fresh(n) => Fresh(n)'
      BY <1>2, <1>6 DEF Fresh
    <2> QED BY <1>1, <1>2, <1>8, <2>1 DEF NumbersOK
  <1>15. AnswersOK'
    BY <1>1, <1>2, <1>6, <1>8 DEF AnswersOK
  <1>16. TasksOK'
    BY <1>1, <1>2, <1>7, <1>8 DEF TasksOK, Prompting
  <1>17. CancelIsHeard'
    <2>1. ASSUME TurnLive', session'.cancelRequested, ClientAlive'
          PROVE  LET w == conns'[session'.client]
                 IN session'.turn \notin w.queued /\ (session'.turn \in w.sent => w.stop \/ session'.turn \in w.told)
      <3>1. /\ session.turn \notin conns[session.client].queued
            /\ session.turn \in conns[session.client].sent =>
                 conns[session.client].stop \/ session.turn \in conns[session.client].told
        BY <1>1, <1>2, <1>7, <2>1 DEF CancelIsHeard
      <3>2. CASE session.client = c
        BY <1>2, <1>4, <1>5, <3>1, <3>2
      <3>3. CASE session.client # c
        BY <1>2, <1>5, <1>7, <1>9, <2>1, <3>1, <3>3
      <3> QED BY <3>2, <3>3
    <2> QED BY <2>1 DEF CancelIsHeard
  <1>18. AsksOK'
    BY <1>1, <1>2, <1>6, <1>8 DEF AsksOK
  <1>19. RowsOK'
    <2>1. TurnLive /\ ~EndQueued(session.turn) => session.client \in Conns
      BY LiveWorker
    <2> QED BY <1>1, <1>2, <1>6, <1>7, <1>8, <2>1 DEF RowsOK, WaitsForPermission, WaitsForInput
  <1> QED
    BY <1>8, <1>10, <1>11, <1>12, <1>13, <1>14, <1>15, <1>16, <1>17, <1>18, <1>19 DEF TurnInv

\* The worker answers a prompt.
LEMMA RepliesOK ==
  ASSUME TurnInv, NEW c \in Conns, NEW num \in Turns, NEW x \in {"end", "cancelled", "error"}, Replies(c, num, x) PROVE TurnInv'
PROOF
  <1> DEFINE cmd == Cmd(IF x = "error" THEN "turn_fail" ELSE "turn_end", num, x)
             after == Answered(conns[c], num)
  <1>1. /\ TypeOK /\ LanesOK /\ ClosedTogether /\ ProcessesOK /\ OneOfEach(box)
        /\ OneHolder /\ ReservationOK /\ RestoreOK /\ StatusOK
        /\ NumbersOK /\ AnswersOK /\ TasksOK /\ CancelIsHeard /\ AsksOK /\ RowsOK
        /\ session \in Sessions /\ conns \in [Conns -> Clients] /\ box \in Boxes /\ said \in [Turns -> Sayings]
        /\ session.client \in Conns \cup {0} /\ 0 \notin Conns
    BY InvParts, TypeParts, TurnsAreNumbers DEF Sessions
  <1>2. /\ num \in conns[c].sent /\ conns' = [conns EXCEPT ![c] = after] /\ said' = [said EXCEPT ![num] = x]
        /\ box' = Posted(box, <<cmd>>)
        /\ UNCHANGED <<session, tasks, inbox, present, used>>
    BY DEF Replies
  <1>3. /\ conns[c].alive /\ num \in Unanswered(conns[c]) /\ said[num] = "none" /\ num \notin conns[c].queued
        /\ \A d \in Conns : d # c => num \notin Unanswered(conns[d])
    <2>1. conns[c].alive /\ num \in Unanswered(conns[c])
      BY <1>1, <1>2 DEF ProcessesOK, Unanswered
    <2>2. \A d \in Conns : d # c => conns[d].queued = {} /\ conns[d].sent = {}
      BY <1>1, <2>1 DEF ProcessesOK
    <2> QED BY <1>1, <1>2, <2>1, <2>2 DEF AnswersOK, ProcessesOK, Unanswered
  <1>4. /\ cmd \in Commands /\ cmd.op = (IF x = "error" THEN "turn_fail" ELSE "turn_end") /\ cmd.n = num /\ cmd.x = x
        /\ cmd.at = "queued"
    BY CmdType DEF CritOps
  <1>5. /\ after \in Clients /\ after.alive = conns[c].alive /\ after.handler = conns[c].handler /\ after.held = conns[c].held
        /\ after.queued = conns[c].queued /\ after.sent = conns[c].sent \ {num} /\ after.told = conns[c].told \ {num}
        /\ after.stop = conns[c].stop /\ Unanswered(after) = Unanswered(conns[c]) \ {num}
    <2>1. conns[c] \in Clients
      BY <1>1
    <2>2. /\ after \in Clients /\ after.alive = conns[c].alive /\ after.handler = conns[c].handler /\ after.held = conns[c].held
          /\ after.queued = conns[c].queued /\ after.sent = conns[c].sent \ {num} /\ after.told = conns[c].told \ {num}
          /\ after.stop = conns[c].stop
      BY <2>1 DEF Answered, Clients
    <2> HIDE DEF after
    <2>3. Unanswered(after) = Unanswered(conns[c]) \ {num}
      BY <1>3, <2>2 DEF Unanswered
    <2> QED BY <2>2, <2>3
  <1> HIDE DEF after, cmd
  <1>6. conns' \in [Conns -> Clients] /\ conns'[c] = after /\ \A d \in Conns : d # c => conns'[d] = conns[d]
    BY <1>1, <1>2, <1>5
  <1>7. /\ said' \in [Turns -> Sayings] /\ said'[num] = x /\ \A n \in Turns : n # num => said'[n] = said[n]
    BY <1>1, <1>2 DEF Sayings
  <1>8. \A d \in Conns : /\ conns'[d].alive = conns[d].alive /\ conns'[d].handler = conns[d].handler /\ conns'[d].held = conns[d].held
                         /\ conns'[d].queued = conns[d].queued /\ conns'[d].sent \subseteq conns[d].sent
                         /\ conns'[d].stop = conns[d].stop
                         /\ Unanswered(conns'[d]) = Unanswered(conns[d]) \ {num}
    BY <1>3, <1>5, <1>6
  <1>9. cmd.op # "update"
    BY <1>4
  <1>10. /\ box' \in Boxes /\ OneOfEach(box)' /\ box'.run = box.run /\ box'.closed = box.closed /\ Main' = Main
         /\ Crit' = Crit \cup (IF box.closed THEN {} ELSE {cmd})
    <2>1. CASE box.closed
      <3>1. box' = box
        BY <1>2, <2>1 DEF Posted
      <3> QED BY <1>1, <2>1, <3>1 DEF OneOfEach, Main, Crit
    <2>2. CASE ~box.closed
      <3>1. /\ box' \in Boxes /\ OneOfEach(box') /\ box'.run = box.run /\ box'.main = box.main /\ box'.closed = FALSE
            /\ Queued(box'.crit) = Queued(box.crit) \cup {cmd}
        BY <1>1, <1>2, <1>4, <1>9, <2>2, CmdPosted
      <3>2. OneOfEach(box)'
        BY <3>1 DEF OneOfEach
      <3> QED BY <1>1, <2>2, <3>1, <3>2 DEF Main, Crit, Boxes
    <2> QED BY <2>1, <2>2
  <1>11. (Gone <=> Gone') /\ (TurnLive <=> TurnLive') /\ (ClientAlive <=> ClientAlive') /\ Strays' = Strays /\ (Busy <=> Busy')
    BY <1>1, <1>2, <1>8, <1>10 DEF Gone, TurnLive, ClientAlive, Strays, Busy
  <1>12. /\ ExitQueued => ExitQueued'
         /\ EndQueued(session.turn) => EndQueued(session.turn)'
         /\ ~box.closed /\ session.turn = num => EndQueued(session.turn)'
    BY <1>2, <1>4, <1>10 DEF ExitQueued, EndQueued, Crit
  <1>13. TypeOK'
    BY <1>1, <1>2, <1>6, <1>7, <1>10, TypeParts, TypeNext
  <1>14. LanesOK'
    BY <1>1, <1>4, <1>9, <1>10 DEF LanesOK
  <1>15. ClosedTogether' /\ OneHolder' /\ ReservationOK' /\ RestoreOK'
    BY <1>1, <1>2, <1>10 DEF ClosedTogether, OneHolder, ReservationOK, RestoreOK
  <1>16. ProcessesOK'
    BY <1>1, <1>2, <1>8 DEF ProcessesOK
  <1>17. StatusOK'
    <2>1. ASSUME session.status \in Active \ {"restoring"}
          PROVE  \/ box'.run.at = "closing" \/ ExitQueued'
                 \/ TurnLive' /\ (EndQueued(session.turn)' \/ (ClientAlive' /\ session.turn \in Unanswered(conns'[session.client])))
      <3>1. ~box.closed
        BY <1>1, <2>1 DEF ClosedTogether, Active, Waiting
      <3>2. \/ box.run.at = "closing" \/ ExitQueued
            \/ TurnLive /\ (EndQueued(session.turn) \/ (ClientAlive /\ session.turn \in Unanswered(conns[session.client])))
        BY <1>1, <2>1 DEF StatusOK
      <3>3. ClientAlive => session.client \in Conns
        BY <1>1 DEF ClientAlive
      <3> QED BY <1>8, <1>10, <1>11, <1>12, <3>1, <3>2, <3>3
    <2> QED BY <1>1, <1>2, <1>10, <1>11, <2>1 DEF StatusOK
  <1>18. NumbersOK'
    <2>1. \A n \in Turns : Fresh(n) => Fresh(n)'
      BY <1>2, <1>3, <1>7, <1>8 DEF Fresh
    <2>2. \A any \in Main \cup {box.run} : any.op = "prompt" => any.n \in Turns
      BY <1>1 DEF LanesOK
    <2> QED BY <1>1, <1>2, <1>10, <2>1, <2>2 DEF NumbersOK
  <1>19. AnswersOK'
    <2>1. ASSUME NEW d \in Conns, NEW n \in Unanswered(conns'[d]) PROVE said'[n] = "none"
      <3>1. n \in Unanswered(conns[d]) /\ n # num /\ n \in Turns
        BY <1>1, <1>8, <2>1, ClientFields
      <3> QED BY <1>1, <1>7, <3>1 DEF AnswersOK
    <2>2. ASSUME NEW any \in Crit', any.op = "turn_end"
          PROVE  any.n \in Turns /\ any.x \in {"end", "cancelled"} /\ (any.x = "end" => said'[any.n] = "end")
      <3>1. CASE any \in Crit
        <4>1. any.n \in Turns /\ any.x \in {"end", "cancelled"} /\ (any.x = "end" => said[any.n] = "end")
          BY <1>1, <2>2, <3>1 DEF AnswersOK
        <4> QED BY <1>3, <1>7, <4>1
      <3>2. CASE any = cmd
        <4>1. x # "error"
          BY <1>4, <2>2, <3>2
        <4> QED BY <1>4, <1>7, <3>2, <4>1
      <3> QED BY <1>10, <3>1, <3>2
    <2> QED BY <2>1, <2>2 DEF AnswersOK
  <1>20. TasksOK'
    <2>1. \A n \in Turns : tasks[n] = "completed" => said'[n] = "end"
      BY <1>1, <1>3, <1>7 DEF TasksOK
    <2> QED BY <1>1, <1>2, <1>10, <1>11, <2>1 DEF TasksOK, Prompting
  <1>21. CancelIsHeard'
    <2>1. ASSUME TurnLive', session'.cancelRequested, ClientAlive'
          PROVE  LET w == conns'[session'.client]
                 IN session'.turn \notin w.queued /\ (session'.turn \in w.sent => w.stop \/ session'.turn \in w.told)
      <3>1. /\ session.turn \notin conns[session.client].queued
            /\ session.turn \in conns[session.client].sent =>
                 conns[session.client].stop \/ session.turn \in conns[session.client].told
        BY <1>1, <1>2, <1>11, <2>1 DEF CancelIsHeard
      <3>2. CASE session.client = c
        BY <1>2, <1>5, <1>6, <3>1, <3>2
      <3>3. CASE session.client # c
        <4>1. session.client \in Conns
          BY <1>1, <1>11, <2>1 DEF ClientAlive
        <4> QED BY <1>2, <1>6, <3>1, <3>3, <4>1
      <3> QED BY <3>2, <3>3
    <2> QED BY <2>1 DEF CancelIsHeard
  <1>22. AsksOK'
    <2>1. \A any \in Crit' : any.op = "update" => any \in Crit
      BY <1>9, <1>10
    <2> QED BY <1>1, <1>2, <1>8, <1>11, <2>1 DEF AsksOK
  <1>23. RowsOK'
    <2>1. TurnLive /\ ~EndQueued(session.turn) => session.client \in Conns
      BY LiveWorker
    <2> QED BY <1>1, <1>2, <1>8, <1>10, <1>11, <1>12, <2>1 DEF RowsOK, WaitsForPermission, WaitsForInput
  <1> QED
    BY <1>10, <1>13, <1>14, <1>15, <1>16, <1>17, <1>18, <1>19, <1>20, <1>21, <1>22, <1>23 DEF TurnInv

\* The worker asks.
LEMMA AsksStepOK ==
  ASSUME TurnInv, NEW c \in Conns, NEW req \in Requests, Asks(c, req) PROVE TurnInv'
PROOF
  <1> DEFINE cmd == Cmd("update", 0, req)
             after == Hold(conns[c], req)
             row == [inbox[req] EXCEPT !.by = c]
  <1>1. /\ TypeOK /\ LanesOK /\ ClosedTogether /\ ProcessesOK /\ OneOfEach(box)
        /\ OneHolder /\ ReservationOK /\ RestoreOK /\ StatusOK
        /\ NumbersOK /\ AnswersOK /\ TasksOK /\ CancelIsHeard /\ AsksOK /\ RowsOK
        /\ session \in Sessions /\ conns \in [Conns -> Clients] /\ box \in Boxes /\ inbox \in [Requests -> Rows]
        /\ session.client \in Conns \cup {0} /\ 0 \notin Conns /\ used \in Bounds
    BY InvParts, TypeParts, TurnsAreNumbers DEF Sessions
  <1>2. /\ conns[c].alive /\ conns[c].handler /\ inbox[req].status = "none" /\ cmd \notin Crit /\ ~box.closed
        /\ conns' = [conns EXCEPT ![c] = after] /\ box' = Posted(box, <<cmd>>)
        /\ inbox' = [inbox EXCEPT ![req] = row]
        /\ UNCHANGED <<session, tasks, present, said, used>>
    BY DEF Asks, CanHold, Crit, Queued
  <1>3. cmd \in Commands /\ cmd.op = "update" /\ cmd.at = "queued" /\ cmd.x = req /\ cmd = Cmd("update", 0, cmd.x)
    BY DEF Cmd, Commands
  <1>4. /\ after \in Clients /\ after.alive = conns[c].alive /\ after.handler = conns[c].handler /\ after.held = conns[c].held \cup {req}
        /\ after.queued = conns[c].queued /\ after.sent = conns[c].sent /\ after.told = conns[c].told
        /\ after.stop = conns[c].stop /\ Unanswered(after) = Unanswered(conns[c])
    <2>1. conns[c] \in Clients
      BY <1>1
    <2> QED BY <2>1 DEF Hold, Clients, Unanswered
  <1>5. row \in Rows /\ row.status = "none" /\ row.turn = inbox[req].turn /\ row.by = c
    <2>1. inbox[req] \in Rows
      BY <1>1
    <2> QED BY <1>2, <2>1 DEF Rows
  <1> HIDE DEF after, cmd, row
  <1>6. conns' \in [Conns -> Clients] /\ conns'[c] = after /\ \A d \in Conns : d # c => conns'[d] = conns[d]
    BY <1>1, <1>2, <1>4
  <1>7. /\ inbox' \in [Requests -> Rows] /\ inbox'[req].by = c
        /\ \A r \in Requests : /\ inbox'[r].status = inbox[r].status /\ inbox'[r].turn = inbox[r].turn
                               /\ r # req => inbox'[r] = inbox[r]
    BY <1>1, <1>2, <1>5
  <1>8. \A d \in Conns : /\ conns'[d].alive = conns[d].alive /\ conns'[d].handler = conns[d].handler
                         /\ conns[d].held \subseteq conns'[d].held
                         /\ conns'[d].held # {} => conns'[d].handler \/ conns'[d] = conns[d]
                         /\ conns'[d].queued = conns[d].queued /\ conns'[d].sent = conns[d].sent
                         /\ conns'[d].stop = conns[d].stop /\ conns'[d].told = conns[d].told
                         /\ Unanswered(conns'[d]) = Unanswered(conns[d])
                         /\ ~conns'[d].alive => conns'[d] = conns[d]
    BY <1>2, <1>4, <1>6
  <1>9. \A other \in Crit : other.op = "update" => other.x # req
    BY <1>1, <1>2 DEF LanesOK, cmd
  <1>10. /\ box' \in Boxes /\ OneOfEach(box)' /\ box'.run = box.run /\ box'.closed = box.closed /\ Main' = Main
         /\ Crit' = Crit \cup {cmd}
    <2>1. \A other \in Queued(box.crit) : cmd.op = "update" /\ other.op = "update" => other.x # cmd.x
      BY <1>3, <1>9 DEF Crit
    <2>2. /\ box' \in Boxes /\ OneOfEach(box') /\ box'.run = box.run /\ box'.main = box.main /\ box'.closed = FALSE
          /\ Queued(box'.crit) = Queued(box.crit) \cup {cmd}
      BY <1>1, <1>2, <1>3, <2>1, CmdPosted
    <2>3. OneOfEach(box)'
      BY <2>2 DEF OneOfEach
    <2> QED BY <1>1, <1>2, <2>2, <2>3 DEF Main, Crit, Boxes
  <1>11. (Gone <=> Gone') /\ (TurnLive <=> TurnLive') /\ (ClientAlive <=> ClientAlive') /\ (Busy <=> Busy')
    BY <1>1, <1>2, <1>8, <1>10 DEF Gone, TurnLive, ClientAlive, Busy
  <1>12. Strays' = Strays
    BY <1>2, <1>7 DEF Strays
  <1>13. (ExitQueued <=> ExitQueued') /\ (EndQueued(session.turn) <=> EndQueued(session.turn)')
    BY <1>2, <1>3, <1>10 DEF ExitQueued, EndQueued, Crit
  <1>14. TypeOK'
    BY <1>1, <1>2, <1>6, <1>7, <1>10, TypeParts, TypeNext
  <1>15. LanesOK'
    BY <1>1, <1>3, <1>10 DEF LanesOK
  <1>16. ClosedTogether' /\ OneHolder' /\ ReservationOK' /\ RestoreOK'
    BY <1>1, <1>2, <1>10 DEF ClosedTogether, OneHolder, ReservationOK, RestoreOK
  <1>17. ProcessesOK'
    BY <1>1, <1>2, <1>8 DEF ProcessesOK
  <1>18. StatusOK'
    <2>1. ClientAlive => session.client \in Conns
      BY <1>1 DEF ClientAlive
    <2> QED BY <1>1, <1>2, <1>8, <1>10, <1>11, <1>13, <2>1 DEF StatusOK
  <1>19. NumbersOK'
    <2>1. \A n : Fresh(n) => Fresh(n)'
      BY <1>2, <1>7, <1>8 DEF Fresh
    <2> QED BY <1>1, <1>2, <1>10, <2>1 DEF NumbersOK
  <1>20. AnswersOK'
    BY <1>1, <1>2, <1>3, <1>8, <1>10 DEF AnswersOK
  <1>21. TasksOK'
    BY <1>1, <1>2, <1>10, <1>11 DEF TasksOK, Prompting
  <1>22. CancelIsHeard'
    <2>1. ClientAlive => session.client \in Conns
      BY <1>1 DEF ClientAlive
    <2> QED BY <1>1, <1>2, <1>8, <1>11, <2>1 DEF CancelIsHeard
  <1>23. AsksOK'
    <2>1. ASSUME NEW any \in Crit, any.op = "update"
          PROVE  LET by == inbox'[any.x].by
                 IN /\ by \in Conns /\ by <= used'.conns
                    /\ conns'[by].alive /\ any.x \notin conns'[by].held => ~Busy' /\ session'.status \notin Active
      <3>1. any.x \in Requests /\ inbox'[any.x] = inbox[any.x]
        BY <1>1, <1>7, <1>9, <2>1 DEF LanesOK
      <3> QED BY <1>1, <1>2, <1>8, <1>11, <2>1, <3>1 DEF AsksOK
    <2>2. c <= used.conns
      <3>1. c \in Nat /\ used.conns \in Nat
        BY <1>1, TurnsAreNumbers DEF Bounds
      <3> QED BY <1>1, <1>2, <3>1 DEF ProcessesOK
    <2>3. req \in conns'[c].held
      BY <1>4, <1>6
    <2> QED BY <1>2, <1>3, <1>7, <1>10, <2>1, <2>2, <2>3 DEF AsksOK
  <1>24. RowsOK'
    <2>1. TurnLive /\ ~EndQueued(session.turn) => session.client \in Conns
      BY LiveWorker
    <2> QED BY <1>1, <1>2, <1>7, <1>8, <1>10, <1>11, <1>12, <1>13, <2>1 DEF RowsOK, WaitsForPermission, WaitsForInput
  <1> QED
    BY <1>10, <1>14, <1>15, <1>16, <1>17, <1>18, <1>19, <1>20, <1>21, <1>22, <1>23, <1>24 DEF TurnInv

-----------------------------------------------------------------------------
(* The invariant and what it gives *)

LEMMA InitOK == Init => TurnInv
PROOF
  <1> SUFFICES ASSUME Init PROVE TurnInv
    OBVIOUS
  <1>1. /\ session = [status |-> "idle", here |-> TRUE, client |-> 1, turn |-> 0, seal |-> 0,
                      reserved |-> "none", failures |-> 0, cancelRequested |-> FALSE,
                      orphaned |-> "no", orphanCancel |-> FALSE, task |-> 0, preparing |-> 0]
        /\ box = [run |-> Free, crit |-> <<>>, main |-> <<>>, closed |-> FALSE]
        /\ conns = [c \in Conns |-> IF c = 1 THEN Serve(Started) ELSE Ended]
        /\ tasks = [n \in Turns |-> "none"]
        /\ inbox = [r \in Requests |-> [status |-> "none", turn |-> 0, by |-> 0]]
        /\ present = TRUE
        /\ said = [n \in Turns |-> "none"]
        /\ used = [prompts |-> 0, conns |-> 1, commands |-> 0]
    BY DEF Init
  <1>2. 1 \in Conns /\ MaxCommands \in Nat /\ MaxRestoreFailures \in Nat /\ \A c \in Conns : c \in Nat
    BY TurnsAreNumbers, SessionTurnAssumption DEF SessionTurnAssumption
  <1>3. 0 \in 0..MaxRestoreFailures /\ 0 \in 0..MaxCommands
    BY <1>2
  <1>4. session \in Sessions /\ session.seal \in {0, session.turn}
    BY <1>1, <1>2, <1>3 DEF Sessions, Statuses
  <1>5. box \in Boxes /\ box.run = Free /\ box.crit = <<>> /\ box.main = <<>> /\ box.closed = FALSE
    BY <1>1, FreeFields DEF Boxes
  <1>6. Crit = {} /\ Main = {}
    BY <1>5, QueuedEmpty DEF Crit, Main
  <1>7. /\ conns \in [Conns -> Clients]
        /\ \A c \in Conns : /\ conns[c].queued = {} /\ conns[c].sent = {} /\ conns[c].held = {} /\ (conns[c].alive <=> c = 1)
    <2>1. Started \in Clients /\ Started.alive /\ Started.queued = {} /\ Started.sent = {} /\ Started.held = {}
      BY DEF Started, Ended, Clients
    <2>2. /\ Serve(Started) \in Clients /\ Serve(Started).alive
          /\ Serve(Started).queued = {} /\ Serve(Started).sent = {} /\ Serve(Started).held = {}
      BY <2>1 DEF Serve, Clients
    <2> QED BY <1>1, <2>2, EndedFields
  <1>8. \A c \in Conns : Unanswered(conns[c]) = {}
    BY <1>7 DEF Unanswered
  <1>9. /\ tasks \in [Turns -> TaskStates] /\ \A n \in Turns : tasks[n] \notin Open /\ tasks[n] # "completed"
    BY <1>1 DEF TaskStates, Open
  <1>10. inbox \in [Requests -> Rows] /\ \A r \in Requests : inbox[r].status = "none" /\ inbox[r].turn = 0
    BY <1>1 DEF Rows
  <1>11. said \in [Turns -> Sayings] /\ \A n \in Turns : said[n] = "none"
    BY <1>1 DEF Sayings
  <1>12. used \in Bounds /\ used.prompts = 0 /\ used.conns = 1
    BY <1>1, <1>2, <1>3 DEF Bounds
  <1>13. TypeOK
    BY <1>1, <1>4, <1>5, <1>7, <1>9, <1>10, <1>11, <1>12, TypeParts
  <1>14. /\ session.status = "idle" /\ session.here /\ session.client = 1 /\ session.turn = 0 /\ session.task = 0
         /\ session.reserved = "none"
    BY <1>1
  <1>15. ~TurnLive /\ ~Gone
    BY <1>14 DEF TurnLive, Gone
  <1>16. LanesOK /\ ClosedTogether /\ OneOfEach(box) /\ OneHolder /\ ReservationOK /\ RestoreOK
    BY <1>5, <1>6, <1>14, FreeFields DEF LanesOK, ClosedTogether, OneOfEach, OneHolder, ReservationOK, RestoreOK, Holds
  <1>17. ProcessesOK
    <2>1. \A c, d \in Conns : conns[c].alive /\ conns[d].alive => c = d
      BY <1>7
    <2>2. \A c \in Conns : c > used.conns => ~conns[c].alive
      BY <1>2, <1>7, <1>12
    <2>3. session.client <= used.conns
      BY <1>12, <1>14
    <2> QED BY <1>7, <2>1, <2>2, <2>3 DEF ProcessesOK
  <1>18. StatusOK
    BY <1>5, <1>14, <1>15, FreeFields DEF StatusOK, Active, Waiting
  <1>19. NumbersOK
    <2>1. \A n \in Turns : Fresh(n)
      BY <1>8, <1>10, <1>11, <1>14, TurnsAreNumbers DEF Fresh
    <2> QED BY <1>5, <1>6, <1>12, <1>14, <2>1, FreeFields DEF NumbersOK
  <1>20. AnswersOK /\ AsksOK
    BY <1>6, <1>8 DEF AnswersOK, AsksOK
  <1>21. TasksOK
    BY <1>9, <1>14 DEF TasksOK
  <1>22. CancelIsHeard /\ RowsOK
    BY <1>5, <1>10, <1>15, FreeFields DEF CancelIsHeard, RowsOK
  <1> QED BY <1>13, <1>16, <1>17, <1>18, <1>19, <1>20, <1>21, <1>22 DEF TurnInv

LEMMA CommandStepOK ==
  ASSUME TurnInv, CommandStep PROVE TurnInv'
PROOF
  <1>1. CASE Connects
    BY <1>1, ConnectsOK
  <1>2. ASSUME NEW c \in Conns, GetsClient(c) PROVE TurnInv'
    BY <1>2, GetsClientOK
  <1>3. CASE RefusesMethod \/ Resumes
    BY <1>3, RestoreStepsOK
  <1>4. CASE RestoreFails
    BY <1>4, RestoreFailsOK
  <1>5. CASE Attaches
    BY <1>5, AttachesOK
  <1>6. CASE AsksWorker \/ Stops \/ StartsNothing
    BY <1>6, CommandEndsOK
  <1>7. CASE StartsTurn
    BY <1>7, StartsTurnOK
  <1>8. CASE FinishTurn \/ ProviderExit \/ Update
    BY <1>8, FinishTurnOK, ProviderExitOK, UpdateOK
  <1>9. CASE Answer \/ Operated
    BY <1>9, AnswerOK, OperatedOK
  <1>10. CASE Cancel \/ OrphanCancel
    BY <1>10, CancelOK, OrphanCancelOK
  <1>11. CASE Close \/ Closed
    BY <1>11, CloseOK, ClosedOK
  <1> QED BY <1>1, <1>2, <1>3, <1>4, <1>5, <1>6, <1>7, <1>8, <1>9, <1>10, <1>11 DEF CommandStep

LEMMA EnvironmentOK ==
  ASSUME TurnInv, Environment PROVE TurnInv'
PROOF
  <1>1. ASSUME NEW c \in Conns, Drains(c) \/ Dies(c) \/ Reclaims(c) PROVE TurnInv'
    BY <1>1, DrainsOK, DiesOK, ReclaimsOK
  <1>2. ASSUME NEW c \in Conns, NEW n \in Turns, NEW x \in {"end", "cancelled", "error"}, Replies(c, n, x) PROVE TurnInv'
    BY <1>2, RepliesOK
  <1>3. ASSUME NEW c \in Conns, NEW r \in Requests, Asks(c, r) PROVE TurnInv'
    BY <1>3, AsksStepOK
  <1>4. CASE SweepsOrphan
    BY <1>4, MainAsksOK
  <1>5. CASE Unloads \/ Retires
    BY <1>5, UnloadsOK, RetiresOK
  <1> QED BY <1>1, <1>2, <1>3, <1>4, <1>5 DEF Environment

LEMMA StutterOK ==
  ASSUME TurnInv, UNCHANGED vars PROVE TurnInv'
PROOF
  <1>1. /\ TypeOK /\ OneOfEach(box) /\ session' = session /\ box' = box
    BY InvParts DEF vars
  <1>2. UNCHANGED <<session, box, conns, tasks, inbox, present, said, used>>
    BY DEF vars
  <1>3. TypeOK'
    BY <1>1, <1>2, TypeParts, TypeNext
  <1>4. CoreKept /\ OneOfEach(box)' /\ Crit' = Crit /\ Main' = Main /\ session'.task = session.task
    BY <1>1, <1>2 DEF CoreKept, OneOfEach, Crit, Main
  <1>5. Main \subseteq Main' /\ (Main' # Main => ~box.closed) /\ Main' \ Main = {}
    BY <1>4
  <1> QED BY <1>2, <1>3, <1>4, <1>5, Asking

\* Every reachable state has the invariant: each of Main's calls, each step of a
\* command and each move of the worker or the maintenance keeps it.
THEOREM SessionTurnInvariant == Spec => []TurnInv
PROOF
  <1>1. Init => TurnInv
    BY InitOK
  <1>2. TurnInv /\ [Next]_vars => TurnInv'
    BY MainCallsOK, CommandStepOK, EnvironmentOK, StutterOK DEF Next
  <1> QED BY <1>1, <1>2, PTL DEF Spec

\* Every variable has its type, whatever the order of the calls, of the worker's
\* answers and of its exits.
THEOREM SessionTurnTypes == Spec => []TypeOK
PROOF
  <1>1. TurnInv => TypeOK
    BY InvParts
  <1> QED BY <1>1, SessionTurnInvariant, PTL

\* No session is ever left in a status nothing will move, and no reservation is
\* left behind (#setStatus, #finishTurn, #providerExitLocked, #release): for any
\* number of prompts, requests and worker processes.
THEOREM NoSessionIsStranded == Spec => []NeverStranded
PROOF
  <1>1. TurnInv => NeverStranded
    <2> SUFFICES ASSUME TurnInv PROVE NeverStranded
      OBVIOUS
    <2>1. TypeOK /\ LanesOK /\ ReservationOK /\ StatusOK
      BY InvParts
    <2>2. box.run.at # "queued" => Busy /\ Cur = box.run
      BY FreeFields DEF Busy, Cur
    <2>3. box.run.at = "closing" => Busy /\ Cur.at = "closing"
      BY <2>2
    <2>4. box.run.at \in {"resume", "attach"} => Busy /\ Cur.at \in {"resume", "attach"}
      BY <2>2
    <2>5. session.status \in Active \ {"restoring"} =>
            \/ Busy /\ Cur.at = "closing"
            \/ ExitQueued
            \/ TurnLive /\ (EndQueued(session.turn) \/ (ClientAlive /\ session.turn \in Unanswered(conns[session.client])))
      BY <2>1, <2>3 DEF StatusOK
    <2>6. session.status = "restoring" => Busy /\ Cur.at \in {"resume", "attach"}
      BY <2>1, <2>4 DEF StatusOK
    <2>7. TurnLive => session.status \in Active
      BY <2>1 DEF StatusOK
    <2>8. session.reserved # "none" =>
            \E cmd \in Queued(box.main) \cup {box.run} : cmd.op = session.reserved /\ cmd.x # "list"
      BY <2>1 DEF ReservationOK, Holds, Main
    <2> QED BY <2>1, <2>5, <2>6, <2>7, <2>8 DEF NeverStranded
  <1> QED BY <1>1, SessionTurnInvariant, PTL

\* A task that has not ended is the session's, with its prompt in the mailbox or
\* its turn live, and only the worker's own end of its prompt completes it
\* (taskPrompt, #finishTurn, updateTaskForSession).
THEOREM TasksFollowTheirTurns == Spec => []TaskFollowsItsTurn
PROOF
  <1>1. TurnInv => TaskFollowsItsTurn
    <2> SUFFICES ASSUME TurnInv PROVE TaskFollowsItsTurn
      OBVIOUS
    <2>1. TasksOK
      BY InvParts
    <2> QED BY <2>1 DEF TasksOK, TaskFollowsItsTurn, Prompting, Main
  <1> QED BY <1>1, SessionTurnInvariant, PTL

\* A cancel never overtakes the prompt it cancels: once a turn is cancelled its
\* prompt is not queued, and if it is out its worker was told or will be
\* (cancelSession, #retractQueuedPrompt).
THEOREM CancelsAreHeard == Spec => []CancelIsHeard
PROOF
  <1>1. TurnInv => CancelIsHeard
    BY InvParts
  <1> QED BY <1>1, SessionTurnInvariant, PTL

\* While a turn runs, whatever Main is shown to wait for is held by the worker,
\* except the requests a late exit took the session off; a process that holds
\* requests has a handler, and nothing asks for an answer once the session is
\* over (#syncInput, clearSession, #closeLocked, retention).
THEOREM WaitsHaveAnswers == Spec => []WaitsAreAnswerable
PROOF
  <1>1. TurnInv => WaitsAreAnswerable
    <2> SUFFICES ASSUME TurnInv PROVE WaitsAreAnswerable
      OBVIOUS
    <2>1. TypeOK /\ LanesOK /\ ProcessesOK /\ RowsOK
      BY InvParts
    <2>2. box.run.at = "operate" => Busy /\ Cur.at = "operate"
      BY FreeFields DEF Busy, Cur
    <2>3. ASSUME TurnLive, ~(Busy /\ Cur.at = "operate"), ~EndQueued(session.turn)
          PROVE  LET client == conns[session.client]
                 IN /\ session.status = "waiting_permission" =>
                         WaitsForPermission(client) \/ Strays \cap (Permissions \cup Operations) # {}
                    /\ session.status = "waiting_input" => WaitsForInput(client) \/ Strays \cap Questions # {}
                    /\ \A r \in Requests \ Strays :
                         inbox[r].status = "pending" /\ inbox[r].turn = session.turn => r \in client.held
      <3>1. box.run.at # "operate"
        BY <2>2, <2>3
      <3> QED BY <2>1, <2>3, <3>1 DEF RowsOK
    <2>4. \A c \in Conns : conns[c].held # {} => conns[c].alive /\ conns[c].handler
      BY <2>1 DEF ProcessesOK
    <2>5. Gone => \A r \in Requests : inbox[r].status # "pending"
      BY <2>1 DEF RowsOK
    <2> QED BY <2>3, <2>4, <2>5 DEF WaitsAreAnswerable
  <1> QED BY <1>1, SessionTurnInvariant, PTL
=============================================================================
