-------------------------- MODULE FrontDoorProofs --------------------------
(***************************************************************************)
(* Where a Main is shown to stand, what its waits sleep on, what counts as *)
(* seen, what a drain may find, and what a follower says of its task: for  *)
(* any number of calls, tasks and connections lost, and any limits.        *)
(***************************************************************************)
EXTENDS FrontDoor, SequenceTheorems, FiniteSetTheorems, WellFoundedInduction, TLAPS

Mains ==
  [conns : SUBSET Roles, waits : SUBSET [call : Calls, tasks : SUBSET Tasks],
   grace : [on : BOOLEAN, tasks : SUBSET Tasks],
   shown : [status : {"gone", "active", "waiting_tasks"}, tasks : SUBSET Tasks]]
Stages == {"idle", "checking", "blocked", "woken", "working", "replied"}
Kinds == {"none", "wait", "run", "ack", "subscribe", "task_get"}
Called ==
  [at : Stages, kind : Kinds, live : BOOLEAN, kept : BOOLEAN, aborted : BOOLEAN,
   watched : SUBSET Tasks, running : SUBSET Tasks, pending : SUBSET Tasks, late : BOOLEAN]
TaskRecords == [Tasks -> [status : Statuses, seen : BOOLEAN]]

\* What a request's place depends on, of all the rest.
World == [conns |-> main.conns, links |-> links, tasks |-> tasks, mine |-> mine, daemon |-> daemon]
Worlds ==
  [conns : SUBSET Roles, links : [Roles -> {"down", "up", "ended"}], tasks : TaskRecords,
   mine : BOOLEAN, daemon : {"up", "idle", "forced", "down"}]

----------------------------------------------------------------------------
(* The inductive invariant *)

\* What a wait that sleeps finds: nothing that needs the Main, nothing that is news
\* to it, and something that works, all of it what it registered on.
Quiet(call, w) ==
  /\ w.mine
  /\ \A t \in call.watched : /\ w.tasks[t].status # "input_required"
                             /\ w.tasks[t].status = "completed" => t \notin call.running /\ w.tasks[t].seen
                             /\ w.tasks[t].status = "working" => t \in call.pending
  /\ \E t \in call.watched : w.tasks[t].status = "working"

Sleeps(call) == call.at \in {"blocked", "woken"}

\* A request is where its kind may be.
KindFits(c, call) ==
  /\ call.kind \in {"wait", "run", "ack"} => c \in Calls
  /\ Sleeps(call) => call.kind = "wait"
  /\ call.at \in {"working", "replied"} => call.kind = "run"

\* The connection it came on is there, and speaks for the Main once it is served; no
\* request is with a daemon that is down, and no task is admitted by one that drains
\* because it was idle.
ServiceFits(c, call, w) ==
  /\ call.live => w.links[Role(c)] # "down"
  /\ (Sleeps(call) \/ call.at = "working") /\ call.live => Role(c) \in w.conns
  /\ w.daemon = "down" => call.at = "idle"
  /\ w.daemon = "idle" => call.at # "working"

\* A wait that lost its connection is aborted, and one that is aborted is awake.
WaitFits(call, w) ==
  /\ Sleeps(call) => (call.aborted \/ call.live) /\ \A t \in call.watched : w.tasks[t].status # "none"
  /\ call.at = "blocked" => ~call.aborted /\ Quiet(call, w)

Fits(c, call, w) == KindFits(c, call) /\ ServiceFits(c, call, w) /\ WaitFits(call, w)

\* The waits the registry should hold
WaitsOf(cs) == {[call |-> c, tasks |-> cs[c].pending] : c \in {d \in Calls : Sleeps(cs[d])}}

Types ==
  /\ tasks \in TaskRecords /\ sent \subseteq Tasks
  /\ daemon \in {"up", "idle", "forced", "down"} /\ mine \in BOOLEAN /\ subbed \in BOOLEAN /\ host \in BOOLEAN
  /\ links \in [Roles -> {"down", "up", "ended"}]
  /\ main \in Mains /\ calls \in [Requests -> Called]

\* A connection that named the Main is open, and none is without a daemon.
Connected ==
  /\ \A r \in main.conns : links[r] # "down"
  /\ daemon = "down" => \A r \in Roles : links[r] = "down"

\* The registry was settled after its last change, and holds the waits that have not ended.
RegistryFits == Settle(main) = main /\ main.waits = WaitsOf(calls)

NothingOpens == daemon = "idle" => \A t \in Tasks : ~Open(tasks[t].status)

DoorInv ==
  /\ Types /\ (\A c \in Requests : Fits(c, calls[c], World))
  /\ Connected /\ RegistryFits /\ SeenWasSent /\ NothingOpens

----------------------------------------------------------------------------
(* The registry *)

LEMMA SettleDoes ==
  ASSUME NEW m \in Mains
  PROVE  /\ Settle(m) \in Mains
         /\ Settle(m).conns = m.conns /\ Settle(m).waits = m.waits
         /\ Settle(Settle(m)) = Settle(m)
<1> DEFINE s == Settle(m)
<1> DEFINE grace == IF m.conns = {} THEN NoGrace ELSE m.grace
<1> DEFINE status == CASE m.waits # {} \/ grace.on -> "waiting_tasks"
                  [] m.waits = {} /\ ~grace.on /\ m.conns # {} -> "active"
                  [] OTHER -> "gone"
<1> DEFINE ids == IF status = "waiting_tasks" THEN (UNION {w.tasks : w \in m.waits}) \cup grace.tasks ELSE {}
<1>1. s = [m EXCEPT !.grace = grace, !.shown = [status |-> status, tasks |-> ids]] BY DEF Settle
<1>2. grace \in [on : BOOLEAN, tasks : SUBSET Tasks] BY DEF Mains, NoGrace
<1>3. \A w \in m.waits : w.tasks \subseteq Tasks BY DEF Mains
<1>4. ids \in SUBSET Tasks BY <1>2, <1>3
<1>5. status \in {"gone", "active", "waiting_tasks"} BY <1>2
<1> HIDE DEF grace, status, ids
<1> DEFINE shown == [status |-> status, tasks |-> ids]
<1>8. shown \in [status : {"gone", "active", "waiting_tasks"}, tasks : SUBSET Tasks] BY <1>4, <1>5
<1>9. s = [m EXCEPT !.grace = grace, !.shown = shown] BY <1>1
<1> HIDE DEF shown, s
<1>6. s.conns = m.conns /\ s.waits = m.waits /\ s.grace = grace /\ s.shown = shown /\ s \in Mains
  BY <1>9, <1>2, <1>8 DEF Mains
<1>7. Settle(s) = s
  <2>1. (IF s.conns = {} THEN NoGrace ELSE s.grace) = grace BY <1>6 DEF grace
  <2>2. Settle(s) = [s EXCEPT !.grace = grace, !.shown = shown]
    BY <1>6, <2>1 DEF Settle, status, ids, shown
  <2> QED BY <1>6, <2>2 DEF Mains
<1> QED BY <1>6, <1>7 DEF s

\* What an entry that is settled says
LEMMA SettledSays ==
  ASSUME NEW m \in Mains, Settle(m) = m
  PROVE  /\ Listed(m) <=> m.conns # {} \/ m.waits # {}
         /\ m.waits # {} => /\ m.shown.status = "waiting_tasks"
                            /\ m.shown.tasks = (UNION {w.tasks : w \in m.waits}) \cup m.grace.tasks
<1>1. m.grace = IF m.conns = {} THEN NoGrace ELSE m.grace BY DEF Settle, Mains
<1>2. m.conns = {} => ~m.grace.on BY <1>1 DEF NoGrace
<1> DEFINE status == CASE m.waits # {} \/ m.grace.on -> "waiting_tasks"
                  [] m.waits = {} /\ ~m.grace.on /\ m.conns # {} -> "active"
                  [] OTHER -> "gone"
<1> DEFINE ids == IF status = "waiting_tasks" THEN (UNION {w.tasks : w \in m.waits}) \cup m.grace.tasks ELSE {}
<1>5. m = [m EXCEPT !.grace = m.grace, !.shown = [status |-> status, tasks |-> ids]] BY <1>1 DEF Settle
<1> HIDE DEF status, ids
<1>6. m.shown = [status |-> status, tasks |-> ids] BY <1>5 DEF Mains
<1>3. m.shown.status = status BY <1>6
<1>4. m.waits # {} => m.shown.tasks = (UNION {w.tasks : w \in m.waits}) \cup m.grace.tasks
  BY <1>6 DEF ids, status
<1> QED BY <1>2, <1>3, <1>4 DEF Listed, status

LEMMA AttachDoes ==
  ASSUME NEW m \in Mains, Settle(m) = m, NEW r \in Roles
  PROVE  LET n == Attach(m, r) IN
         /\ n \in Mains /\ Settle(n) = n
         /\ n.conns = m.conns \cup {r} /\ n.waits = m.waits
<1> DEFINE x == [m EXCEPT !.conns = @ \cup {r}]
<1>1. x \in Mains /\ x.conns = m.conns \cup {r} /\ x.waits = m.waits BY DEF Mains
<1> HIDE DEF x
<1> QED BY <1>1, SettleDoes DEF Attach, x

LEMMA DetachDoes ==
  ASSUME NEW m \in Mains, Settle(m) = m, NEW r \in Roles
  PROVE  LET n == Detach(m, r) IN
         /\ n \in Mains /\ Settle(n) = n
         /\ n.conns = m.conns \ {r} /\ n.waits = m.waits
<1> DEFINE x == [m EXCEPT !.conns = @ \ {r}]
<1>1. x \in Mains /\ x.conns = m.conns \ {r} /\ x.waits = m.waits BY DEF Mains
<1>2. Detach(m, r) = IF r \in m.conns THEN Settle(x) ELSE m BY DEF Detach
<1> HIDE DEF x
<1>3. CASE r \in m.conns BY <1>1, <1>2, <1>3, SettleDoes
<1>4. CASE r \notin m.conns BY <1>2, <1>4
<1> QED BY <1>3, <1>4

LEMMA BlockWaitDoes ==
  ASSUME NEW m \in Mains, Settle(m) = m, NEW c \in Calls, NEW ids \in SUBSET Tasks
  PROVE  LET n == BlockWait(m, c, ids) IN
         /\ n \in Mains /\ Settle(n) = n /\ n.conns = m.conns
         /\ n.waits = {w \in m.waits : w.call # c} \cup {[call |-> c, tasks |-> ids]}
<1> DEFINE x == [m EXCEPT !.waits = {w \in @ : w.call # c} \cup {[call |-> c, tasks |-> ids]}, !.grace = NoGrace]
<1>1. NoGrace \in [on : BOOLEAN, tasks : SUBSET Tasks] BY DEF NoGrace
<1>2. {w \in m.waits : w.call # c} \cup {[call |-> c, tasks |-> ids]} \in SUBSET [call : Calls, tasks : SUBSET Tasks]
  BY DEF Mains
<1>3. x \in Mains /\ x.conns = m.conns /\ x.waits = {w \in m.waits : w.call # c} \cup {[call |-> c, tasks |-> ids]}
  BY <1>1, <1>2 DEF Mains
<1> HIDE DEF x
<1> QED BY <1>3, SettleDoes DEF BlockWait, x

LEMMA CloseWaitDoes ==
  ASSUME NEW m \in Mains, Settle(m) = m, NEW c \in Calls, NEW reason
  PROVE  LET n == CloseWait(m, c, reason) IN
         /\ n \in Mains /\ Settle(n) = n /\ n.conns = m.conns
         /\ n.waits = {w \in m.waits : w.call # c}
<1> DEFINE its == {w \in m.waits : w.call = c}
<1> DEFINE kept == IF its # {} THEN [on |-> TRUE, tasks |-> UNION {w.tasks : w \in its}] ELSE m.grace
<1> DEFINE grace == IF reason = "heartbeat" THEN kept ELSE NoGrace
<1> DEFINE x == [m EXCEPT !.waits = @ \ its, !.grace = grace]
<1>1. CloseWait(m, c, reason) = IF ~Listed(m) THEN m ELSE Settle(x) BY DEF CloseWait
<1>2. UNION {w.tasks : w \in its} \subseteq Tasks BY DEF Mains
<1>3. grace \in [on : BOOLEAN, tasks : SUBSET Tasks] BY <1>2 DEF NoGrace, Mains
<1> HIDE DEF grace
<1>4. x \in Mains /\ x.conns = m.conns /\ x.waits = m.waits \ its BY <1>3 DEF Mains
<1>5. m.waits \ its = {w \in m.waits : w.call # c} OBVIOUS
<1> HIDE DEF x, its
<1>6. CASE Listed(m) BY <1>1, <1>4, <1>5, <1>6, SettleDoes
<1>7. CASE ~Listed(m)
  <2>1. m.waits = {} BY <1>7, SettledSays
  <2> QED BY <1>1, <1>7, <2>1
<1> QED BY <1>6, <1>7

LEMMA GraceEndsDoes ==
  ASSUME NEW m \in Mains, Settle(m) = m
  PROVE  LET n == GraceEnds(m) IN
         /\ n \in Mains /\ Settle(n) = n /\ n.conns = m.conns /\ n.waits = m.waits
<1> DEFINE x == [m EXCEPT !.grace = NoGrace]
<1>1. x \in Mains /\ x.conns = m.conns /\ x.waits = m.waits BY DEF Mains, NoGrace
<1>2. GraceEnds(m) = IF m.grace.on THEN Settle(x) ELSE m BY DEF GraceEnds
<1> HIDE DEF x
<1> QED BY <1>1, <1>2, SettleDoes

----------------------------------------------------------------------------
(* Requests *)

LEMMA RequestFacts ==
  /\ "subscribe" \notin Calls /\ "task_get" \notin Calls /\ Calls \subseteq Requests
  /\ \A c : Role(c) \in Roles
  /\ Idle \in Called /\ NoMain \in Mains /\ Settle(NoMain) = NoMain
<1>1. "subscribe" \notin Calls /\ "task_get" \notin Calls BY FrontDoorAssumption DEF FrontDoorAssumption
<1>2. \A c : Role(c) \in Roles BY DEF Role, Roles
<1>3. Idle \in Called BY DEF Idle, Called, Stages, Kinds
<1>4. NoMain \in Mains BY DEF NoMain, Mains, NoGrace
<1>5. Settle(NoMain) = NoMain
  <2>1. NoMain.conns = {} /\ NoMain.waits = {} /\ NoMain.grace = NoGrace /\ ~NoGrace.on BY DEF NoMain, NoGrace
  <2>2. Settle(NoMain) = [NoMain EXCEPT !.grace = NoGrace, !.shown = [status |-> "gone", tasks |-> {}]]
    BY <2>1 DEF Settle
  <2> QED BY <2>2 DEF NoMain
<1> QED BY <1>1, <1>2, <1>3, <1>4, <1>5 DEF Requests

LEMMA WaitsSame ==
  ASSUME NEW cs, NEW ds,
         \A c \in Calls : /\ Sleeps(ds[c]) <=> Sleeps(cs[c])
                          /\ Sleeps(cs[c]) => ds[c].pending = cs[c].pending
  PROVE  WaitsOf(ds) = WaitsOf(cs)
<1>1. {d \in Calls : Sleeps(ds[d])} = {d \in Calls : Sleeps(cs[d])} OBVIOUS
<1>2. \A c \in {d \in Calls : Sleeps(cs[d])} : ds[c].pending = cs[c].pending OBVIOUS
<1> HIDE DEF Sleeps
<1> QED BY <1>1, <1>2 DEF WaitsOf

LEMMA WaitsUntouched ==
  ASSUME NEW cs \in [Requests -> Called], NEW c \in Requests, NEW x \in Called,
         Sleeps(x) <=> Sleeps(cs[c]), Sleeps(x) => x.pending = cs[c].pending
  PROVE  WaitsOf([cs EXCEPT ![c] = x]) = WaitsOf(cs)
<1> DEFINE ds == [cs EXCEPT ![c] = x]
<1>1. \A d \in Calls : ds[d] = IF d = c THEN x ELSE cs[d] BY RequestFacts
<1> HIDE DEF ds
<1>2. \A d \in Calls : /\ Sleeps(ds[d]) <=> Sleeps(cs[d])
                       /\ Sleeps(cs[d]) => ds[d].pending = cs[d].pending
  BY <1>1
<1>3. WaitsOf(ds) = WaitsOf(cs) BY <1>2, WaitsSame
<1> QED BY <1>3 DEF ds

LEMMA WaitsWithout ==
  ASSUME NEW cs \in [Requests -> Called], NEW c \in Calls, NEW x \in Called, ~Sleeps(x)
  PROVE  WaitsOf([cs EXCEPT ![c] = x]) = {w \in WaitsOf(cs) : w.call # c}
BY RequestFacts DEF WaitsOf

LEMMA WaitsWith ==
  ASSUME NEW cs \in [Requests -> Called], NEW c \in Calls, NEW x \in Called, Sleeps(x)
  PROVE  WaitsOf([cs EXCEPT ![c] = x]) = {w \in WaitsOf(cs) : w.call # c} \cup {[call |-> c, tasks |-> x.pending]}
BY RequestFacts DEF WaitsOf

\* More connections speak for the Main, more are there, more results are seen.
Grows(w, v) ==
  /\ w.conns \subseteq v.conns /\ \A r \in Roles : w.links[r] # "down" => v.links[r] # "down"
  /\ v.mine = w.mine /\ v.daemon = w.daemon
  /\ \A t \in Tasks : v.tasks[t].status = w.tasks[t].status /\ (w.tasks[t].seen => v.tasks[t].seen)

\* A request that is left alone keeps its place meanwhile.
LEMMA StillFits ==
  ASSUME NEW c \in Requests, NEW call \in Called, NEW w \in Worlds, NEW v \in Worlds, Fits(c, call, w), Grows(w, v)
  PROVE  Fits(c, call, v)
<1>1. KindFits(c, call) BY DEF Fits
<1>2. ServiceFits(c, call, v) BY RequestFacts DEF Fits, ServiceFits, Grows
<1>3. WaitFits(call, v) BY DEF Fits, WaitFits, Quiet, Called, Grows
<1> QED BY <1>1, <1>2, <1>3 DEF Fits

LEMMA TypesMakeAWorld ==
  ASSUME Types, Types'
  PROVE  World \in Worlds /\ World' \in Worlds
BY DEF Types, World, Worlds, Mains

LEMMA OneRequestMoves ==
  ASSUME DoorInv, Types', NEW c \in Requests, NEW x \in Called, calls' = [calls EXCEPT ![c] = x],
         Grows(World, World'), Fits(c, x, World')
  PROVE  \A d \in Requests : Fits(d, calls'[d], World')
<1>1. World \in Worlds /\ World' \in Worlds BY TypesMakeAWorld DEF DoorInv
<1>2. SUFFICES ASSUME NEW d \in Requests, d # c PROVE Fits(d, calls'[d], World')
  BY DEF DoorInv, Types
<1>3. calls'[d] = calls[d] /\ calls[d] \in Called BY <1>2 DEF DoorInv, Types
<1>4. Fits(d, calls[d], World) BY DEF DoorInv
<1> QED BY <1>1, <1>3, <1>4, StillFits

LEMMA NothingGrows ==
  ASSUME main'.conns = main.conns, links' = links, tasks' = tasks, mine' = mine, daemon' = daemon
  PROVE  Grows(World, World')
BY DEF World, Grows

----------------------------------------------------------------------------
(* Steps of one request *)

LEMMA TimesOutKeeps ==
  ASSUME DoorInv, NEW c \in Calls, TimesOut(c)
  PROVE  DoorInv'
<1> DEFINE x == [calls[c] EXCEPT !.at = "woken", !.late = TRUE]
<1>1. c \in Requests /\ calls[c] \in Called /\ Fits(c, calls[c], World) BY RequestFacts DEF DoorInv, Types
<1>2. x \in Called BY <1>1 DEF Called, Stages
<1>3. calls' = [calls EXCEPT ![c] = x] BY DEF TimesOut
<1>4. Types' BY <1>2, <1>3 DEF TimesOut, DoorInv, Types
<1>5. World' = World BY DEF TimesOut, World
<1>6. Fits(c, x, World') BY <1>1, <1>5 DEF TimesOut, Fits, KindFits, ServiceFits, WaitFits, Sleeps, Called
<1>7. Grows(World, World') BY NothingGrows DEF TimesOut
<1>8. \A d \in Requests : Fits(d, calls'[d], World')
  <2> HIDE DEF x
  <2> QED BY <1>1, <1>2, <1>3, <1>4, <1>6, <1>7, OneRequestMoves
<1>9. WaitsOf(calls') = WaitsOf(calls)
  <2>1. Sleeps(x) /\ Sleeps(calls[c]) /\ x.pending = calls[c].pending BY <1>1 DEF TimesOut, Sleeps, Called
  <2> HIDE DEF x
  <2> QED BY <2>1, <1>1, <1>2, <1>3, WaitsUntouched DEF DoorInv, Types
<1> QED BY <1>4, <1>8, <1>9 DEF TimesOut, DoorInv, Connected, RegistryFits, SeenWasSent, NothingOpens
LEMMA GivesUpKeeps ==
  ASSUME DoorInv, NEW c \in Calls, GivesUp(c)
  PROVE  DoorInv'
<1> DEFINE x == [calls[c] EXCEPT !.kept = FALSE]
<1>1. c \in Requests /\ calls[c] \in Called /\ Fits(c, calls[c], World) BY RequestFacts DEF DoorInv, Types
<1>2. x \in Called BY <1>1 DEF Called
<1>3. calls' = [calls EXCEPT ![c] = x] BY DEF GivesUp
<1>4. Types' BY <1>2, <1>3 DEF GivesUp, DoorInv, Types
<1>5. World' = World BY DEF GivesUp, World
<1>6. Fits(c, x, World') BY <1>1, <1>5 DEF Fits, KindFits, ServiceFits, WaitFits, Sleeps, Quiet, Called
<1>7. Grows(World, World') BY NothingGrows DEF GivesUp
<1>9. (Sleeps(x) <=> Sleeps(calls[c])) /\ x.pending = calls[c].pending BY <1>1 DEF Sleeps, Called
<1> HIDE DEF x
<1>8. \A d \in Requests : Fits(d, calls'[d], World')
  BY <1>1, <1>2, <1>3, <1>4, <1>6, <1>7, OneRequestMoves
<1>10. WaitsOf(calls') = WaitsOf(calls) BY <1>1, <1>2, <1>3, <1>9, WaitsUntouched DEF DoorInv, Types
<1> QED BY <1>4, <1>8, <1>10 DEF GivesUp, DoorInv, Connected, RegistryFits, SeenWasSent, NothingOpens

LEMMA CancelArrivesKeeps ==
  ASSUME DoorInv, NEW c \in Calls, CancelArrives(c)
  PROVE  DoorInv'
<1> DEFINE x == Abort(calls[c])
<1>1. c \in Requests /\ calls[c] \in Called /\ Fits(c, calls[c], World) BY RequestFacts DEF DoorInv, Types
<1>2. x \in Called BY <1>1 DEF Called, Abort, Stages
<1>3. calls' = [calls EXCEPT ![c] = x] BY DEF CancelArrives
<1>4. Types' BY <1>2, <1>3 DEF CancelArrives, DoorInv, Types
<1>5. World' = World BY DEF CancelArrives, World
<1>6. x.at = "woken" /\ x.aborted /\ x.kind = calls[c].kind /\ x.live = calls[c].live /\ x.watched = calls[c].watched
      /\ x.pending = calls[c].pending
  BY <1>1 DEF CancelArrives, Abort, Called
<1> HIDE DEF x
<1>7. Fits(c, x, World') BY <1>1, <1>5, <1>6 DEF CancelArrives, Fits, KindFits, ServiceFits, WaitFits, Sleeps
<1>8. Grows(World, World') BY NothingGrows DEF CancelArrives
<1>9. \A d \in Requests : Fits(d, calls'[d], World')
  BY <1>1, <1>2, <1>3, <1>4, <1>7, <1>8, OneRequestMoves
<1>10. WaitsOf(calls') = WaitsOf(calls)
  <2>1. Sleeps(x) /\ Sleeps(calls[c]) BY <1>6 DEF CancelArrives, Sleeps
  <2> QED BY <1>1, <1>2, <1>3, <1>6, <2>1, WaitsUntouched DEF DoorInv, Types
<1> QED BY <1>4, <1>9, <1>10 DEF CancelArrives, DoorInv, Connected, RegistryFits, SeenWasSent, NothingOpens

\* A request that ends, or that is new, sleeps nowhere.
LEMMA PlainFits ==
  ASSUME NEW c \in Requests, NEW kind \in Kinds, kind \in {"wait", "run", "ack"} => c \in Calls,
         NEW w, w.daemon # "down", w.links[Role(c)] # "down"
  PROVE  LET x == [Idle EXCEPT !.at = "checking", !.kind = kind, !.live = TRUE, !.kept = TRUE]
         IN  x \in Called /\ ~Sleeps(x) /\ Fits(c, x, w)
BY DEF Idle, Called, Stages, Kinds, Sleeps, Fits, KindFits, ServiceFits, WaitFits

LEMMA IdleFits ==
  ASSUME NEW c, NEW w
  PROVE  ~Sleeps(Idle) /\ Fits(c, Idle, w)
BY DEF Idle, Sleeps, Fits, KindFits, ServiceFits, WaitFits

LEMMA ArrivesKeeps ==
  ASSUME DoorInv, NEW c \in Requests, NEW kind \in Kinds, kind \in {"wait", "run", "ack"} => c \in Calls, Arrives(c, kind)
  PROVE  DoorInv'
<1> DEFINE x == [Idle EXCEPT !.at = "checking", !.kind = kind, !.live = TRUE, !.kept = TRUE]
<1>1. calls[c] \in Called /\ calls[c].at = "idle" /\ ~Sleeps(calls[c]) BY DEF Arrives, DoorInv, Types, Sleeps
<1>2. links'[Role(c)] # "down" /\ daemon' # "down"
  BY RequestFacts DEF Arrives, DoorInv, Connected
<1>3. calls' = [calls EXCEPT ![c] = x] BY DEF Arrives
<1>4. World'.links[Role(c)] # "down" /\ World'.daemon # "down" BY <1>2 DEF World
<1>5. x \in Called /\ ~Sleeps(x) /\ Fits(c, x, World') BY <1>4, PlainFits
<1> HIDE DEF x
<1>6. Types' BY <1>3, <1>5 DEF Arrives, DoorInv, Types
<1>7. Grows(World, World') BY NothingGrows DEF Arrives
<1>8. \A d \in Requests : Fits(d, calls'[d], World') BY <1>3, <1>5, <1>6, <1>7, OneRequestMoves
<1>9. WaitsOf(calls') = WaitsOf(calls) BY <1>1, <1>3, <1>5, WaitsUntouched DEF DoorInv, Types
<1> QED BY <1>6, <1>8, <1>9 DEF Arrives, DoorInv, Connected, RegistryFits, SeenWasSent, NothingOpens

LEMMA CreatedKeeps ==
  ASSUME DoorInv, NEW c \in Calls, Created(c)
  PROVE  DoorInv'
<1>1. c \in Requests /\ calls[c] \in Called /\ ~Sleeps(calls[c]) /\ Idle \in Called
  BY RequestFacts DEF Created, DoorInv, Types, Sleeps
<1>2. calls' = [calls EXCEPT ![c] = Idle] BY DEF Created
<1>3. Types' BY <1>1, <1>2 DEF Created, DoorInv, Types
<1>4. Grows(World, World') BY NothingGrows DEF Created
<1>5. \A d \in Requests : Fits(d, calls'[d], World') BY <1>1, <1>2, <1>3, <1>4, IdleFits, OneRequestMoves
<1>6. WaitsOf(calls') = WaitsOf(calls) BY <1>1, <1>2, IdleFits, WaitsUntouched DEF DoorInv, Types
<1> QED BY <1>3, <1>5, <1>6 DEF Created, DoorInv, Connected, RegistryFits, SeenWasSent, NothingOpens

\* A task is admitted: no wait that sleeps watches one that was not there.
LEMMA AdmitsKeeps ==
  ASSUME DoorInv, NEW c \in Calls, Admits(c)
  PROVE  DoorInv'
<1>1. c \in Requests /\ calls[c] \in Called /\ ~Sleeps(calls[c]) /\ Idle \in Called /\ Fits(c, calls[c], World)
  BY RequestFacts DEF Admits, DoorInv, Types, Sleeps
<1>2. daemon # "idle" BY <1>1 DEF Admits, World, Fits, ServiceFits
<1>3. PICK x \in Called : calls' = [calls EXCEPT ![c] = x] /\ ~Sleeps(x) /\ (x = Idle \/ (x.at = "replied" /\ x.kind = "run" /\ x.live /\ calls[c].live))
  <2>1. CASE calls' = [calls EXCEPT ![c] = Idle] BY <2>1, <1>1, IdleFits
  <2>2. ASSUME NEW t \in Tasks, calls' = [calls EXCEPT ![c] = IF @.live /\ @.kept THEN [@ EXCEPT !.at = "replied", !.watched = {t}] ELSE Idle]
        PROVE  \E x \in Called : calls' = [calls EXCEPT ![c] = x] /\ ~Sleeps(x) /\ (x = Idle \/ (x.at = "replied" /\ x.kind = "run" /\ x.live /\ calls[c].live))
    <3> DEFINE x == IF calls[c].live /\ calls[c].kept THEN [calls[c] EXCEPT !.at = "replied", !.watched = {t}] ELSE Idle
    <3>1. calls[c].kind = "run" BY <1>1 DEF Admits, Fits, KindFits
    <3>2. x \in Called BY <1>1 DEF Called, Stages
    <3>3. x = Idle \/ (x.at = "replied" /\ x.kind = "run" /\ x.live /\ calls[c].live) BY <1>1, <3>1 DEF Called
    <3>4. calls' = [calls EXCEPT ![c] = x] BY <2>2, <1>1 DEF DoorInv, Types
    <3> HIDE DEF x
    <3>5. ~Sleeps(x) BY <3>3, IdleFits DEF Sleeps
    <3> QED BY <3>2, <3>3, <3>4, <3>5
  <2> QED BY <2>1, <2>2 DEF Admits
<1>5. \A t \in Tasks : \/ tasks'[t] = tasks[t]
                       \/ tasks[t].status = "none" /\ tasks'[t] = [tasks[t] EXCEPT !.status = "working"]
  BY DEF Admits, DoorInv, Types, TaskRecords
<1>6. tasks' \in TaskRecords BY ZenonT(30) DEF Admits, DoorInv, Types, TaskRecords, Statuses
<1>7. Types' BY <1>3, <1>6 DEF Admits, DoorInv, Types
<1>8. \A d \in Requests : Fits(d, calls'[d], World')
  <2> SUFFICES ASSUME NEW d \in Requests PROVE Fits(d, calls'[d], World') OBVIOUS
  <2>1. World'.conns = World.conns /\ World'.links = World.links /\ World'.mine = World.mine /\ World'.daemon = World.daemon
        /\ World.tasks = tasks /\ World'.tasks = tasks'
    BY DEF Admits, World
  <2>2. CASE d = c
    <3>1. calls'[d] = x BY <1>3, <2>2 DEF DoorInv, Types
    <3> QED BY <3>1, <1>1, <1>3, <2>1, <2>2, IdleFits DEF Admits, Fits, KindFits, ServiceFits, WaitFits, Sleeps
  <2>3. CASE d # c
    <3>1. calls'[d] = calls[d] /\ calls[d] \in Called /\ Fits(d, calls[d], World) BY <1>3, <2>3 DEF DoorInv, Types
    <3>2. WaitFits(calls[d], World')
      <4>1. Sleeps(calls[d]) => \A t \in calls[d].watched : tasks'[t] = tasks[t]
        BY <3>1, <1>5, <2>1 DEF Fits, WaitFits, Called
      <4> QED BY <4>1, <3>1, <2>1 DEF Fits, WaitFits, Quiet, Sleeps
    <3> QED BY <3>1, <3>2, <2>1 DEF Fits, ServiceFits
  <2> QED BY <2>2, <2>3
<1>9. WaitsOf(calls') = WaitsOf(calls) BY <1>1, <1>3, WaitsUntouched DEF DoorInv, Types
<1>10. SeenWasSent' BY <1>5, ZenonT(30) DEF Admits, DoorInv, Types, TaskRecords, SeenWasSent
<1> QED BY <1>2, <1>7, <1>8, <1>9, <1>10 DEF Admits, DoorInv, Connected, RegistryFits, NothingOpens
----------------------------------------------------------------------------
(* A round of a wait *)

\* A view without news is a quiet one.
LEMMA QuietIsNoReason ==
  ASSUME Types, NEW call \in Called
  PROVE  Quiet(call, World) <=> /\ mine
                                /\ Reason(View(call.watched, call.running)) = "none"
                                /\ View(call.watched, call.running).working \subseteq call.pending
<1> DEFINE view == View(call.watched, call.running)
<1>1. view.finished = {t \in call.watched : mine /\ tasks[t].status = "completed" /\ (t \in call.running \/ ~tasks[t].seen)}
  BY DEF View, Awaited, There
<1>2. view.needsInput = {t \in call.watched : mine /\ tasks[t].status = "input_required"} BY DEF View, There
<1>3. view.working = {t \in call.watched : mine /\ tasks[t].status = "working"} BY DEF View, There
<1>4. Reason(view) = "none" <=> view.needsInput = {} /\ view.finished = {} /\ view.working # {}
  <2> HIDE DEF view
  <2> QED BY DEF Reason
<1>5. World.mine = mine /\ World.tasks = tasks BY DEF World
<1> HIDE DEF view
<1> QED BY <1>1, <1>2, <1>3, <1>4, <1>5 DEF Quiet, view

\* Marks of what was seen leave every place as it is.
LEMMA DeliveredDoes ==
  ASSUME Types, NEW ts \in SUBSET Tasks, Delivered(ts)
  PROVE  /\ tasks' \in TaskRecords
         /\ \A t \in Tasks : /\ tasks'[t].status = tasks[t].status
                             /\ tasks'[t].seen <=> tasks[t].seen \/ t \in ts
BY DEF Types, TaskRecords, Delivered

\* The registry's entry m, with which the wait c goes on, and the call as it looks then
LEMMA RoundKeeps ==
  ASSUME DoorInv, NEW c \in Calls, NEW call \in Called, NEW m \in Mains, Settle(m) = m,
         m.waits = main.waits, main.conns \subseteq m.conns, \A r \in m.conns : links[r] # "down",
         call.kind = "wait", call.aborted \/ (call.live /\ Role(c) \in m.conns), call.live => links[Role(c)] # "down" /\ Role(c) \in m.conns,
         \A t \in call.watched : tasks[t].status # "none",
         daemon # "down",
         Round(c, call, m), UNCHANGED <<daemon, mine, links, subbed, host>>
  PROVE  DoorInv'
<1> DEFINE view == View(call.watched, call.running)
<1>1. c \in Requests /\ Idle \in Called BY RequestFacts
<1>2. view.finished \subseteq Tasks /\ view.working \in SUBSET Tasks BY DEF View, Called
<1>3. PICK delivered \in SUBSET Tasks : /\ Delivered(delivered) \/ (delivered = {} /\ tasks' = tasks)
                                        /\ sent' = sent \cup delivered
  <2>1. \A reason : Answer(c, call, m, view, reason) =>
           \E delivered \in SUBSET Tasks : /\ Delivered(delivered) \/ (delivered = {} /\ tasks' = tasks)
                                           /\ sent' = sent \cup delivered
    <3> HIDE DEF view
    <3>1. SUFFICES ASSUME NEW reason, Answer(c, call, m, view, reason)
                   PROVE  \E delivered \in SUBSET Tasks : /\ Delivered(delivered) \/ (delivered = {} /\ tasks' = tasks)
                                                          /\ sent' = sent \cup delivered
      OBVIOUS
    <3>2. CASE call.aborted
      <4>1. tasks' = tasks /\ sent' = sent \cup {} /\ {} \in SUBSET Tasks BY <3>1, <3>2 DEF Answer
      <4> QED BY <4>1
    <3>3. CASE ~call.aborted
      <4>1. PICK delivered \in IF reason = "task_finished" THEN (SUBSET view.finished) \ {{}} ELSE {{}} :
              Delivered(delivered) /\ Sends(call, delivered)
        BY <3>1, <3>3 DEF Answer
      <4>2. delivered \in SUBSET Tasks BY <1>2
      <4>3. call.live BY <3>3
      <4> QED BY <4>1, <4>2, <4>3 DEF Sends
    <3> QED BY <3>2, <3>3
  <2>2. UNCHANGED <<tasks, sent>> => {} \in SUBSET Tasks /\ tasks' = tasks /\ sent' = sent \cup {} OBVIOUS
  <2> HIDE DEF view
  <2> QED BY <2>1, <2>2 DEF Round, view
<1>4. /\ tasks' \in TaskRecords /\ sent' \subseteq Tasks
      /\ \A t \in Tasks : /\ tasks'[t].status = tasks[t].status
                          /\ tasks'[t].seen <=> tasks[t].seen \/ t \in delivered
  <2>1. CASE Delivered(delivered) BY <1>3, <2>1, DeliveredDoes DEF DoorInv, Types
  <2>2. CASE delivered = {} /\ tasks' = tasks BY <1>3, <2>2 DEF DoorInv, Types
  <2> QED BY <1>3, <2>1, <2>2
<1>5. PICK x \in Called :
        /\ calls' = [calls EXCEPT ![c] = x]
        /\ main' \in Mains /\ Settle(main') = main' /\ main'.conns = m.conns
        /\ \/ x = Idle /\ main'.waits = {w \in m.waits : w.call # c}
           \/ /\ x = [call EXCEPT !.at = "blocked", !.pending = view.working]
              /\ ~call.aborted /\ Reason(view) = "none"
              /\ main'.waits = {w \in m.waits : w.call # c} \cup {[call |-> c, tasks |-> x.pending]}
  <2> DEFINE n == BlockWait(m, c, view.working)
  <2>1. /\ n \in Mains /\ Settle(n) = n /\ n.conns = m.conns
        /\ n.waits = {w \in m.waits : w.call # c} \cup {[call |-> c, tasks |-> view.working]}
    <3> HIDE DEF view
    <3> QED BY <1>2, BlockWaitDoes
  <2>2. {w \in n.waits : w.call # c} = {w \in m.waits : w.call # c} BY <2>1
  <2> DEFINE Done == calls' = [calls EXCEPT ![c] = Idle] /\ main' \in Mains /\ Settle(main') = main' /\ main'.conns = m.conns
                     /\ main'.waits = {w \in m.waits : w.call # c}
  <2>3. \A reason : Ends(c, m, reason) => Done BY CloseWaitDoes DEF Ends
  <2> HIDE DEF n
  <2>4. \A reason : Ends(c, n, reason) => Done BY <2>1, <2>2, CloseWaitDoes DEF Ends
  <2>5. \A reason : Answer(c, call, m, view, reason) => Done
    <3> HIDE DEF view, Done
    <3> QED BY <2>3 DEF Answer
  <2>6. \/ Done
        \/ /\ main' = n /\ calls' = [calls EXCEPT ![c] = [call EXCEPT !.at = "blocked", !.pending = view.working]]
           /\ ~call.aborted /\ Reason(view) = "none"
    <3> HIDE DEF view, Done
    <3> QED BY <2>3, <2>4, <2>5 DEF Round, view, n
  <2>7. CASE Done BY <2>7, <1>1
  <2>8. CASE /\ main' = n /\ calls' = [calls EXCEPT ![c] = [call EXCEPT !.at = "blocked", !.pending = view.working]]
             /\ ~call.aborted /\ Reason(view) = "none"
    <3> DEFINE x == [call EXCEPT !.at = "blocked", !.pending = view.working]
    <3> HIDE DEF view
    <3>1. x \in Called /\ x.pending = view.working BY <1>2 DEF Called, Stages
    <3> QED BY <2>1, <2>8, <3>1
  <2> QED BY <2>6, <2>7, <2>8
<1>6. Types' BY <1>1, <1>4, <1>5 DEF DoorInv, Types
<1>7. Grows(World, World') BY <1>4, <1>5 DEF World, Grows
<1>8. Fits(c, x, World')
  <2>1. CASE x = Idle BY <2>1, IdleFits
  <2>2. CASE x = [call EXCEPT !.at = "blocked", !.pending = view.working] /\ ~call.aborted /\ Reason(view) = "none"
    <3> HIDE DEF view
    <3>1. /\ x.at = "blocked" /\ x.kind = "wait" /\ x.live /\ ~x.aborted
          /\ x.watched = call.watched /\ x.running = call.running /\ x.pending = view.working
      BY <2>2 DEF Called
    <3>2. view.working # {} /\ view = View(x.watched, x.running) BY <2>2, <3>1 DEF Reason, view
    <3>3. mine BY <3>1, <3>2 DEF View
    <3>4. Quiet(x, World) BY <2>2, <3>1, <3>2, <3>3, QuietIsNoReason DEF DoorInv
    <3>5. Quiet(x, World') BY <3>4, <1>4, <3>1 DEF Quiet, World, Called
    <3> QED BY <3>1, <3>5, <1>4, <1>5, <2>2 DEF Fits, KindFits, ServiceFits, WaitFits, Sleeps, World, Called
  <2> HIDE DEF view
  <2> QED BY <1>5, <2>1, <2>2
<1>9. \A d \in Requests : Fits(d, calls'[d], World')
  BY <1>1, <1>5, <1>6, <1>7, <1>8, OneRequestMoves
<1>10. main'.waits = WaitsOf(calls')
  <2>1. m.waits = WaitsOf(calls) /\ calls \in [Requests -> Called] BY DEF DoorInv, RegistryFits, Types
  <2>2. CASE x = Idle /\ main'.waits = {w \in m.waits : w.call # c}
    <3>1. WaitsOf([calls EXCEPT ![c] = x]) = {w \in WaitsOf(calls) : w.call # c}
      BY <2>1, <2>2, IdleFits, WaitsWithout
    <3> QED BY <1>5, <2>1, <2>2, <3>1
  <2>3. CASE /\ x = [call EXCEPT !.at = "blocked", !.pending = view.working]
             /\ main'.waits = {w \in m.waits : w.call # c} \cup {[call |-> c, tasks |-> x.pending]}
    <3> HIDE DEF view
    <3>1. Sleeps(x) BY <2>3 DEF Called, Sleeps
    <3>2. WaitsOf([calls EXCEPT ![c] = x]) = {w \in WaitsOf(calls) : w.call # c} \cup {[call |-> c, tasks |-> x.pending]}
      BY ONLY <2>1, <3>1, <1>5, c \in Calls, WaitsWith, ZenonT(30)
    <3> QED BY <1>5, <2>1, <2>3, <3>2
  <2> HIDE DEF view
  <2> QED BY <1>5, <2>2, <2>3
<1>11. Connected' BY <1>5 DEF DoorInv, Connected
<1>12. SeenWasSent' BY <1>3, <1>4 DEF DoorInv, SeenWasSent
<1>13. NothingOpens' BY <1>4 DEF DoorInv, NothingOpens
<1> QED BY <1>5, <1>6, <1>9, <1>10, <1>11, <1>12, <1>13 DEF DoorInv, RegistryFits
LEMMA LooksAgainKeeps ==
  ASSUME DoorInv, NEW c \in Calls, LooksAgain(c)
  PROVE  DoorInv'
<1>1. c \in Requests /\ calls[c] \in Called /\ Fits(c, calls[c], World) BY RequestFacts DEF DoorInv, Types
<1>2. Sleeps(calls[c]) /\ calls[c].at = "woken" BY DEF LooksAgain, Sleeps
<1>3. main \in Mains /\ Settle(main) = main /\ \A r \in main.conns : links[r] # "down"
  BY DEF DoorInv, Types, RegistryFits, Connected
<1>4. World.links = links /\ World.conns = main.conns /\ World.tasks = tasks /\ World.daemon = daemon BY DEF World
<1>5. /\ calls[c].kind = "wait" /\ daemon # "down"
      /\ calls[c].aborted \/ (calls[c].live /\ Role(c) \in main.conns)
      /\ calls[c].live => links[Role(c)] # "down" /\ Role(c) \in main.conns
      /\ \A t \in calls[c].watched : tasks[t].status # "none"
  BY <1>1, <1>2, <1>4 DEF Fits, KindFits, ServiceFits, WaitFits
<1>6. Round(c, calls[c], main) /\ UNCHANGED <<daemon, mine, links, subbed, host>> BY DEF LooksAgain
<1> QED BY ONLY DoorInv, c \in Calls, <1>1, <1>3, <1>5, <1>6, main.conns \subseteq main.conns, main.waits = main.waits, RoundKeeps

\* A request is over in one step.
LEMMA EndsAtOnce ==
  ASSUME DoorInv, Types', NEW c \in Requests, ~Sleeps(calls[c]), calls' = [calls EXCEPT ![c] = Idle],
         Settle(main') = main', main'.waits = main.waits, Grows(World, World'),
         Connected', SeenWasSent', NothingOpens'
  PROVE  DoorInv'
<1>1. Idle \in Called BY RequestFacts
<1>2. Fits(c, Idle, World') /\ ~Sleeps(Idle) BY IdleFits
<1>3. \A d \in Requests : Fits(d, calls'[d], World') BY <1>1, <1>2, OneRequestMoves
<1>4. WaitsOf(calls') = WaitsOf(calls) BY <1>1, <1>2, WaitsUntouched DEF DoorInv, Types
<1> QED BY <1>3, <1>4 DEF DoorInv, RegistryFits

\* No request moves.
LEMMA CallsStay ==
  ASSUME DoorInv, Types', calls' = calls,
         Settle(main') = main', main'.waits = main.waits, Grows(World, World'),
         Connected', SeenWasSent', NothingOpens'
  PROVE  DoorInv'
<1>1. \A d \in Requests : Fits(d, calls'[d], World')
  BY StillFits, TypesMakeAWorld DEF DoorInv, Types
<1> QED BY <1>1 DEF DoorInv, RegistryFits

LEMMA WaitKeeps ==
  ASSUME DoorInv, NEW c \in Calls, calls[c].at = "checking", calls[c].kind = "wait", calls[c].live,
         Wait(c, Attach(main, Role(c))), UNCHANGED <<daemon, mine, links, subbed, host>>
  PROVE  DoorInv'
<1> DEFINE m == Attach(main, Role(c))
<1>1. c \in Requests /\ calls[c] \in Called /\ Fits(c, calls[c], World) /\ Role(c) \in Roles BY RequestFacts DEF DoorInv, Types
<1>2. /\ m \in Mains /\ Settle(m) = m /\ m.conns = main.conns \cup {Role(c)} /\ m.waits = main.waits
  BY <1>1, AttachDoes DEF DoorInv, Types, RegistryFits
<1>3. links[Role(c)] # "down" /\ daemon # "down" BY <1>1 DEF Fits, ServiceFits, World
<1>4. \A r \in m.conns : links[r] # "down" BY <1>2, <1>3 DEF DoorInv, Connected
<1> HIDE DEF m
<1>5. PICK named \in BOOLEAN, watched \in SUBSET Tasks, late \in BOOLEAN :
        /\ ~named => watched = Default
        /\ IF named /\ \E t \in watched : ~(mine /\ There(t))
           THEN Ends(c, m, "error") /\ UNCHANGED <<tasks, sent>>
           ELSE Round(c, [calls[c] EXCEPT !.watched = watched, !.late = late,
                            !.running = {t \in watched : Open(tasks[t].status)}], m)
  BY DEF Wait, m
<1>6. CASE Ends(c, m, "error") /\ UNCHANGED <<tasks, sent>>
  <2> DEFINE n == CloseWait(m, c, "error")
  <2>1. n \in Mains /\ Settle(n) = n /\ n.conns = m.conns /\ n.waits = {w \in m.waits : w.call # c}
    BY <1>2, CloseWaitDoes
  <2>2. main' = n /\ calls' = [calls EXCEPT ![c] = Idle] BY <1>6 DEF Ends
  <2> HIDE DEF n
  <2>3. ~Sleeps(calls[c]) BY DEF Sleeps
  <2>4. n.waits = main.waits
    <3>1. \A w \in main.waits : w.call # c BY <2>3 DEF DoorInv, RegistryFits, WaitsOf
    <3> QED BY <1>2, <2>1, <3>1
  <2>5. Types' BY <1>6, <2>1, <2>2, RequestFacts DEF DoorInv, Types
  <2>6. Grows(World, World') BY <1>2, <1>6, <2>1, <2>2 DEF World, Grows
  <2>7. Connected' BY <1>4, <2>1, <2>2 DEF DoorInv, Connected
  <2>8. SeenWasSent' /\ NothingOpens' BY <1>6 DEF DoorInv, SeenWasSent, NothingOpens
  <2> QED BY <1>1, <2>1, <2>2, <2>3, <2>4, <2>5, <2>6, <2>7, <2>8, EndsAtOnce
<1>7. CASE /\ ~(named /\ \E t \in watched : ~(mine /\ There(t)))
           /\ Round(c, [calls[c] EXCEPT !.watched = watched, !.late = late,
                          !.running = {t \in watched : Open(tasks[t].status)}], m)
  <2> DEFINE call == [calls[c] EXCEPT !.watched = watched, !.late = late,
                          !.running = {t \in watched : Open(tasks[t].status)}]
  <2>1. call \in Called /\ call.kind = "wait" /\ call.live /\ call.watched = watched
    BY <1>1 DEF Called
  <2>2. \A t \in watched : tasks[t].status # "none" BY <1>5, <1>7 DEF Default, There
  <2>3. Round(c, call, m) BY <1>7
  <2>4. Role(c) \in m.conns /\ main.conns \subseteq m.conns /\ \A t \in call.watched : tasks[t].status # "none"
    BY <1>2, <2>1, <2>2
  <2> HIDE DEF call
  <2> QED BY <1>2, <1>3, <1>4, <2>1, <2>3, <2>4, RoundKeeps
<1> QED BY <1>5, <1>6, <1>7

LEMMA ServesKeeps ==
  ASSUME DoorInv, NEW c \in Requests, Serves(c)
  PROVE  DoorInv'
<1> DEFINE m == Attach(main, Role(c))
<1> DEFINE n == GraceEnds(m)
<1>1. calls[c] \in Called /\ Fits(c, calls[c], World) /\ Role(c) \in Roles /\ Idle \in Called
  BY RequestFacts DEF DoorInv, Types
<1>2. /\ m \in Mains /\ Settle(m) = m /\ m.conns = main.conns \cup {Role(c)} /\ m.waits = main.waits
  BY <1>1, AttachDoes DEF DoorInv, Types, RegistryFits
<1>3. n \in Mains /\ Settle(n) = n /\ n.conns = main.conns \cup {Role(c)} /\ n.waits = main.waits
  BY <1>2, GraceEndsDoes
<1> HIDE DEF m, n
<1>4. /\ ~Sleeps(calls[c]) /\ calls[c].at = "checking" /\ daemon # "down"
      /\ UNCHANGED <<daemon, mine, links, fol, host, used>>
  BY DEF Serves, Sleeps
<1>5. calls[c].live => \A r \in main.conns \cup {Role(c)} : links[r] # "down"
  BY <1>1 DEF Fits, ServiceFits, World, DoorInv, Connected
<1>6. CASE Drops(c) /\ calls' = [calls EXCEPT ![c] = Idle] /\ UNCHANGED <<main, tasks, sent, subbed, wire>>
  <2>1. Types' BY <1>1, <1>4, <1>6 DEF DoorInv, Types
  <2>2. Grows(World, World') BY <1>4, <1>6 DEF World, Grows
  <2>3. Connected' /\ SeenWasSent' /\ NothingOpens' BY <1>4, <1>6 DEF DoorInv, Connected, SeenWasSent, NothingOpens
  <2>4. Settle(main') = main' /\ main'.waits = main.waits BY <1>6 DEF DoorInv, RegistryFits
  <2> QED BY <1>4, <1>6, <2>1, <2>2, <2>3, <2>4, EndsAtOnce
<1>7. CASE ~Drops(c) /\ calls[c].kind = "wait" /\ Wait(c, m) /\ UNCHANGED <<subbed, wire>>
  <2>1. c \in Calls BY <1>1, <1>7 DEF Fits, KindFits
  <2> QED BY <1>4, <1>7, <2>1, WaitKeeps DEF Drops, m
<1>8. CASE /\ ~Drops(c) /\ calls[c].kind = "run" /\ MayMutate
           /\ main' = n /\ calls' = [calls EXCEPT ![c].at = "working"] /\ UNCHANGED <<tasks, sent, subbed, wire>>
  <2> DEFINE x == [calls[c] EXCEPT !.at = "working"]
  <2>1. x \in Called /\ x.at = "working" /\ x.kind = "run" /\ x.live BY <1>1, <1>8 DEF Called, Stages, Drops
  <2>2. calls' = [calls EXCEPT ![c] = x] BY <1>8 DEF DoorInv, Types
  <2> HIDE DEF x
  <2>3. ~Sleeps(x) BY <2>1 DEF Sleeps
  <2>4. Types' BY <1>3, <1>4, <1>8, <2>1, <2>2 DEF DoorInv, Types
  <2>5. Grows(World, World') BY <1>3, <1>4, <1>8 DEF World, Grows
  <2>6. /\ World'.links = links /\ World'.conns = main.conns \cup {Role(c)} /\ World'.daemon = "up"
        /\ links[Role(c)] # "down"
    BY <1>3, <1>4, <1>5, <1>8 DEF World, MayMutate, Drops
  <2>7. Fits(c, x, World')
    <3>1. c \in Calls BY <1>1, <1>8 DEF Fits, KindFits
    <3> QED BY <2>1, <2>3, <2>6, <3>1 DEF Fits, KindFits, ServiceFits, WaitFits
  <2>8. \A d \in Requests : Fits(d, calls'[d], World') BY <2>1, <2>2, <2>4, <2>5, <2>7, OneRequestMoves
  <2>9. WaitsOf(calls') = WaitsOf(calls) BY <1>4, <2>1, <2>2, <2>3, WaitsUntouched DEF DoorInv, Types
  <2>10. Connected' BY <1>3, <1>4, <1>5, <1>8 DEF DoorInv, Connected, Drops
  <2>11. SeenWasSent' /\ NothingOpens' BY <1>4, <1>8 DEF DoorInv, SeenWasSent, NothingOpens
  <2> QED BY <1>3, <1>8, <2>4, <2>8, <2>9, <2>10, <2>11 DEF DoorInv, RegistryFits
<1>9. CASE /\ ~Drops(c) /\ main' \in {m, n} /\ calls' = [calls EXCEPT ![c] = Idle]
           /\ \/ UNCHANGED <<tasks, sent>>
              \/ Acks(calls[c])
           /\ subbed' \in BOOLEAN
  <2>1. /\ main' \in Mains /\ Settle(main') = main' /\ main'.waits = main.waits
        /\ main'.conns = main.conns \cup {Role(c)}
    BY <1>2, <1>3, <1>9
  <2>2. /\ tasks' \in TaskRecords /\ sent' \subseteq Tasks /\ SeenWasSent'
        /\ \A t \in Tasks : tasks'[t].status = tasks[t].status /\ (tasks[t].seen => tasks'[t].seen)
    <3>1. CASE UNCHANGED <<tasks, sent>> BY <3>1 DEF DoorInv, Types, SeenWasSent
    <3>2. CASE Acks(calls[c])
      <4>1. PICK acked \in SUBSET Tasks : Delivered(acked) /\ sent' = sent \cup acked
        BY <1>9, <3>2 DEF Acks, Sends, Drops
      <4>2. tasks' \in TaskRecords /\ \A t \in Tasks : /\ tasks'[t].status = tasks[t].status
                                                       /\ tasks'[t].seen <=> tasks[t].seen \/ t \in acked
        BY <4>1, DeliveredDoes DEF DoorInv
      <4> QED BY <4>1, <4>2 DEF DoorInv, Types, SeenWasSent
    <3> QED BY <1>9, <3>1, <3>2
  <2>3. Types' BY <1>1, <1>4, <1>9, <2>1, <2>2 DEF DoorInv, Types
  <2>4. Grows(World, World') BY <1>4, <2>1, <2>2 DEF World, Grows
  <2>5. Connected' BY <1>4, <1>5, <1>9, <2>1 DEF DoorInv, Connected, Drops
  <2>6. NothingOpens' BY <1>4, <2>2 DEF DoorInv, NothingOpens
  <2> QED BY <1>4, <1>9, <2>1, <2>2, <2>3, <2>4, <2>5, <2>6, EndsAtOnce
<1>10. subbed \in BOOLEAN BY DEF DoorInv, Types
<1>11. CASE /\ ~Drops(c) /\ calls[c].kind \in {"subscribe", "task_get"}
            /\ main' = m /\ calls' = [calls EXCEPT ![c] = Idle]
            /\ subbed' = (subbed \/ (calls[c].kind = "subscribe" /\ Readable(Followed)))
            /\ UNCHANGED <<tasks, sent>>
  <2>1. subbed' \in BOOLEAN BY <1>10, <1>11
  <2> QED BY <1>9, <1>11, <2>1
<1> QED BY <1>6, <1>7, <1>8, <1>9, <1>10, <1>11 DEF Serves, m, n
----------------------------------------------------------------------------
(* Tasks, connections, and the daemon *)

\* A wait that sleeps is woken by every status but "working", and what it sleeps on
\* while it works it is registered on.
LEMMA ChangesKeeps ==
  ASSUME DoorInv, NEW t \in Tasks, NEW status \in Statuses, Changes(t, status)
  PROVE  DoorInv'
<1> DEFINE Woken(c) == c \in Asleep(calls) /\ t \in calls[c].pending /\ Wakes(t, status)
<1>1. /\ calls' = [c \in Requests |-> IF Woken(c) THEN [calls[c] EXCEPT !.at = "woken"] ELSE calls[c]]
      /\ tasks' = [tasks EXCEPT ![t].status = status]
      /\ UNCHANGED <<daemon, mine, main, links, subbed, fol, host, sent>> /\ daemon # "down"
      /\ status # "none" /\ status # tasks[t].status /\ tasks[t].status \notin {"none", "gone"}
      /\ tasks[t].status = "completed" => status = "gone"
  BY DEF Changes, There, Terminal
<1>2. /\ tasks' \in TaskRecords
      /\ tasks'[t].status = status /\ tasks'[t].seen = tasks[t].seen
      /\ \A u \in Tasks : u # t => tasks'[u] = tasks[u]
  BY <1>1 DEF DoorInv, Types, TaskRecords
<1>3. \A c \in Requests : /\ calls[c] \in Called /\ calls'[c] \in Called
                          /\ calls'[c] = IF Woken(c) THEN [calls[c] EXCEPT !.at = "woken"] ELSE calls[c]
  BY <1>1 DEF DoorInv, Types, Called, Stages
<1>4. Types' BY <1>1, <1>2, <1>3 DEF DoorInv, Types
<1>5. /\ World'.conns = World.conns /\ World'.links = World.links /\ World'.mine = World.mine /\ World'.daemon = World.daemon
      /\ World.tasks = tasks /\ World'.tasks = tasks'
  BY <1>1 DEF World
<1>6. \A c \in Requests : Fits(c, calls'[c], World')
  <2> SUFFICES ASSUME NEW c \in Requests PROVE Fits(c, calls'[c], World') OBVIOUS
  <2>1. Fits(c, calls[c], World) BY DEF DoorInv
  <2>2. CASE Woken(c)
    <3> DEFINE x == [calls[c] EXCEPT !.at = "woken"]
    <3>1. calls[c].at = "blocked" BY <2>2 DEF Asleep
    <3>2. /\ x.at = "woken" /\ x.kind = calls[c].kind /\ x.live = calls[c].live
          /\ x.aborted = calls[c].aborted /\ x.watched = calls[c].watched
      BY <1>3 DEF Called
    <3>3. \A u \in Tasks : tasks[u].status # "none" => tasks'[u].status # "none" BY <1>1, <1>2
    <3>4. calls[c].watched \subseteq Tasks BY <1>3 DEF Called
    <3>5. calls'[c] = x BY <1>3, <2>2
    <3> HIDE DEF x, Woken
    <3> QED BY <1>5, <2>1, <3>1, <3>2, <3>3, <3>4, <3>5 DEF Fits, KindFits, ServiceFits, WaitFits, Sleeps
  <2>3. CASE ~Woken(c)
    <3>1. calls'[c] = calls[c] /\ calls[c].watched \subseteq Tasks BY <1>3, <2>3 DEF Called
    <3>2. \A u \in Tasks : tasks[u].status # "none" => tasks'[u].status # "none" BY <1>1, <1>2
    <3>3. ASSUME calls[c].at = "blocked" PROVE Quiet(calls[c], World')
      <4>1. Quiet(calls[c], World) /\ c \in Calls BY <2>1, <3>3 DEF Fits, KindFits, WaitFits, Sleeps
      <4>2. CASE t \in calls[c].watched
        <5>1. tasks[t].status # "input_required" BY <4>1, <4>2, <1>5 DEF Quiet
        <5>2. CASE tasks[t].status = "working"
          <6>1. t \in calls[c].pending BY <4>1, <4>2, <5>2, <1>5 DEF Quiet
          <6>2. Wakes(t, status) BY <1>1, <5>2 DEF Statuses, Wakes
          <6> QED BY <2>3, <3>3, <4>1, <6>1, <6>2 DEF Asleep
        <5>3. CASE tasks[t].status = "completed"
          <6>1. status = "gone" BY <1>1, <5>3
          <6> QED BY <1>2, <1>5, <3>1, <4>1, <5>3, <6>1 DEF Quiet
        <5>4. tasks[t].status \in Statuses BY DEF DoorInv, Types, TaskRecords
        <5> QED BY <1>1, <5>1, <5>2, <5>3, <5>4 DEF Statuses
      <4>3. CASE t \notin calls[c].watched BY <1>2, <1>5, <3>1, <4>1, <4>3 DEF Quiet
      <4> QED BY <4>2, <4>3
    <3> QED BY <1>5, <2>1, <3>1, <3>2, <3>3 DEF Fits, ServiceFits, WaitFits
  <2> QED BY <2>2, <2>3
<1>7. WaitsOf(calls') = WaitsOf(calls)
  <2>1. \A c \in Calls : /\ Sleeps(calls'[c]) <=> Sleeps(calls[c])
                         /\ Sleeps(calls[c]) => calls'[c].pending = calls[c].pending
    <3> SUFFICES ASSUME NEW c \in Calls
                 PROVE  /\ Sleeps(calls'[c]) <=> Sleeps(calls[c])
                        /\ Sleeps(calls[c]) => calls'[c].pending = calls[c].pending
      OBVIOUS
    <3>1. c \in Requests BY RequestFacts
    <3>2. CASE Woken(c)
      <4>1. calls[c].at = "blocked" BY <3>2 DEF Asleep
      <4>2. calls'[c] = [calls[c] EXCEPT !.at = "woken"] BY <1>3, <3>1, <3>2
      <4> QED BY <1>3, <3>1, <4>1, <4>2 DEF Sleeps, Called
    <3>3. CASE ~Woken(c) BY <1>3, <3>1, <3>3
    <3> QED BY <3>2, <3>3
  <2> QED BY <2>1, WaitsSame
<1>8. SeenWasSent' BY <1>1, <1>2 DEF DoorInv, SeenWasSent
<1>9. NothingOpens'
  <2>1. tasks[t].status \in Statuses BY DEF DoorInv, Types, TaskRecords
  <2>2. daemon = "idle" => status = "gone" BY <1>1, <2>1 DEF DoorInv, NothingOpens, Open, Statuses
  <2> QED BY <1>1, <1>2, <2>2 DEF DoorInv, NothingOpens, Open
<1> QED BY <1>1, <1>4, <1>6, <1>7, <1>8, <1>9 DEF DoorInv, Connected, RegistryFits

LEMMA GraceRunsOutKeeps ==
  ASSUME DoorInv, GraceRunsOut
  PROVE  DoorInv'
<1>1. main' \in Mains /\ Settle(main') = main' /\ main'.conns = main.conns /\ main'.waits = main.waits
  BY GraceEndsDoes DEF GraceRunsOut, DoorInv, Types, RegistryFits
<1>2. Types' BY <1>1 DEF GraceRunsOut, DoorInv, Types
<1>3. Grows(World, World') BY <1>1, NothingGrows DEF GraceRunsOut
<1>4. Connected' /\ SeenWasSent' /\ NothingOpens'
  BY <1>1 DEF GraceRunsOut, DoorInv, Connected, SeenWasSent, NothingOpens
<1> QED BY <1>1, <1>2, <1>3, <1>4, CallsStay DEF GraceRunsOut

LEMMA FollowerKeeps ==
  ASSUME DoorInv, NEW f, Follower(f), calls' = calls
  PROVE  DoorInv'
<1>1. links' = links \/ (links["follower"] = "up" /\ links' = [links EXCEPT !["follower"] = "ended"]) BY DEF Follower
<1>2. links' \in [Roles -> {"down", "up", "ended"}] /\ \A r \in Roles : links'[r] = "down" <=> links[r] = "down"
  BY <1>1 DEF DoorInv, Types
<1>3. Types' BY <1>2 DEF Follower, DoorInv, Types
<1>4. Grows(World, World') BY <1>2 DEF Follower, World, Grows
<1>5. Connected' /\ SeenWasSent' /\ NothingOpens'
  BY <1>2 DEF Follower, DoorInv, Types, Mains, Connected, SeenWasSent, NothingOpens
<1>6. Settle(main') = main' /\ main'.waits = main.waits BY DEF Follower, DoorInv, RegistryFits
<1> QED BY <1>3, <1>4, <1>5, <1>6, CallsStay

LEMMA ConnectsKeeps ==
  ASSUME DoorInv, NEW r \in Roles, Connects(r)
  PROVE  DoorInv'
<1>1. /\ links[r] = "down" /\ links' = [links EXCEPT ![r] = "up"] /\ daemon # "down"
      /\ UNCHANGED <<daemon, tasks, mine, main, subbed, host, sent>>
  BY DEF Connects
<1>2. /\ links' \in [Roles -> {"down", "up", "ended"}] /\ links'[r] = "up"
      /\ \A s \in Roles : links[s] # "down" => links'[s] # "down"
  BY <1>1 DEF DoorInv, Types
<1>3. Grows(World, World') BY <1>1, <1>2 DEF World, Grows
<1>4. Connected' /\ SeenWasSent' /\ NothingOpens'
  BY <1>1, <1>2 DEF DoorInv, Types, Mains, Connected, SeenWasSent, NothingOpens
<1>5. Settle(main') = main' /\ main'.waits = main.waits /\ main' = main BY <1>1 DEF DoorInv, RegistryFits
<1>6. CASE calls' = calls
  <2>1. Types' BY <1>1, <1>2, <1>6 DEF DoorInv, Types
  <2> QED BY <1>3, <1>4, <1>5, <1>6, <2>1, CallsStay
<1>7. CASE /\ r = "follower" /\ calls["subscribe"].at = "idle"
           /\ calls' = [calls EXCEPT !["subscribe"] = [Idle EXCEPT !.at = "checking", !.kind = "subscribe", !.live = TRUE, !.kept = TRUE]]
  <2> DEFINE x == [Idle EXCEPT !.at = "checking", !.kind = "subscribe", !.live = TRUE, !.kept = TRUE]
  <2>1. "subscribe" \in Requests /\ Role("subscribe") = "follower" /\ "subscribe" \in Kinds
    BY RequestFacts DEF Requests, Role, Kinds
  <2>2. World'.daemon # "down" /\ World'.links[Role("subscribe")] # "down" BY <1>1, <1>2, <1>7, <2>1 DEF World
  <2>3. x \in Called /\ ~Sleeps(x) /\ Fits("subscribe", x, World') BY <2>1, <2>2, PlainFits
  <2>4. calls' = [calls EXCEPT !["subscribe"] = x] BY <1>7
  <2> HIDE DEF x
  <2>5. Types' BY <1>1, <1>2, <2>3, <2>4 DEF DoorInv, Types
  <2>6. \A d \in Requests : Fits(d, calls'[d], World') BY <1>3, <2>1, <2>3, <2>4, <2>5, OneRequestMoves
  <2>7. ~Sleeps(calls["subscribe"]) BY <1>7 DEF Sleeps
  <2>8. WaitsOf(calls') = WaitsOf(calls) BY <2>1, <2>3, <2>4, <2>7, WaitsUntouched DEF DoorInv, Types
  <2> QED BY <1>4, <1>5, <2>5, <2>6, <2>8 DEF DoorInv, RegistryFits
<1> QED BY <1>6, <1>7 DEF Connects

LEMMA ClosesKeeps ==
  ASSUME DoorInv, NEW r \in Roles, Closes(r)
  PROVE  DoorInv'
<1>1. /\ daemon # "down" /\ links' = [links EXCEPT ![r] = "down"] /\ main' = Detach(main, r)
      /\ calls' = [c \in Requests |->
           IF Role(c) # r \/ ~calls[c].live THEN calls[c]
           ELSE IF calls[c].at = "replied" THEN Idle
           ELSE [Abort(calls[c]) EXCEPT !.live = FALSE, !.kept = FALSE]]
      /\ UNCHANGED <<daemon, tasks, mine, host, sent>> /\ subbed' \in BOOLEAN
  BY DEF Closes, DoorInv, Types
<1>2. main' \in Mains /\ Settle(main') = main' /\ main'.conns = main.conns \ {r} /\ main'.waits = main.waits
  BY <1>1, DetachDoes DEF DoorInv, Types, RegistryFits
<1>3. /\ links' \in [Roles -> {"down", "up", "ended"}]
      /\ \A s \in Roles : s # r => links'[s] = links[s]
  BY <1>1 DEF DoorInv, Types
<1> DEFINE Cut(c) == [Abort(calls[c]) EXCEPT !.live = FALSE, !.kept = FALSE]
<1>4. \A c \in Requests :
        /\ Cut(c) \in Called /\ ~Cut(c).live /\ Cut(c).aborted /\ Cut(c).kind = calls[c].kind
        /\ Cut(c).at = IF calls[c].at = "blocked" THEN "woken" ELSE calls[c].at
        /\ Cut(c).watched = calls[c].watched /\ Cut(c).pending = calls[c].pending
  BY ZenonT(30) DEF DoorInv, Types, Called, Stages, Abort
<1>5. \A c \in Requests : \/ calls'[c] = calls[c] /\ (Role(c) # r \/ ~calls[c].live)
                          \/ calls[c].at = "replied" /\ calls'[c] = Idle
                          \/ calls[c].at # "replied" /\ calls'[c] = Cut(c)
  BY <1>1
<1> HIDE DEF Cut
<1>6. Types'
  <2>1. \A c \in Requests : calls'[c] \in Called BY <1>4, <1>5, RequestFacts DEF DoorInv, Types
  <2> QED BY <1>1, <1>2, <1>3, <2>1 DEF DoorInv, Types
<1>7. /\ World'.conns = World.conns \ {r} /\ World'.mine = World.mine /\ World'.daemon = World.daemon
      /\ World'.tasks = World.tasks /\ \A s \in Roles : s # r => World'.links[s] = World.links[s]
  BY <1>1, <1>2, <1>3 DEF World
<1>8. \A c \in Requests : Fits(c, calls'[c], World')
  <2> SUFFICES ASSUME NEW c \in Requests PROVE Fits(c, calls'[c], World') OBVIOUS
  <2>1. Fits(c, calls[c], World) /\ Role(c) \in Roles BY RequestFacts DEF DoorInv
  <2>2. CASE calls'[c] = calls[c] /\ (Role(c) # r \/ ~calls[c].live)
    <3>1. ServiceFits(c, calls[c], World') BY <1>7, <2>1, <2>2 DEF Fits, ServiceFits
    <3>2. WaitFits(calls[c], World') BY <1>7, <2>1 DEF Fits, WaitFits, Quiet
    <3> QED BY <2>1, <2>2, <3>1, <3>2 DEF Fits
  <2>3. CASE calls'[c] = Idle BY <2>3, IdleFits
  <2>4. CASE calls'[c] = Cut(c) BY <1>4, <1>7, <2>1, <2>4 DEF Fits, KindFits, ServiceFits, WaitFits, Sleeps
  <2> QED BY <1>5, <2>2, <2>3, <2>4
<1>9. WaitsOf(calls') = WaitsOf(calls)
  <2>1. \A c \in Calls : /\ Sleeps(calls'[c]) <=> Sleeps(calls[c])
                         /\ Sleeps(calls[c]) => calls'[c].pending = calls[c].pending
    BY <1>4, <1>5, RequestFacts, IdleFits DEF Sleeps
  <2> QED BY <2>1, WaitsSame
<1>10. Connected' /\ SeenWasSent' /\ NothingOpens'
  BY <1>1, <1>2, <1>3 DEF DoorInv, Types, Mains, Connected, SeenWasSent, NothingOpens
<1> QED BY <1>2, <1>6, <1>8, <1>9, <1>10 DEF DoorInv, RegistryFits

LEMMA HostLeavesKeeps ==
  ASSUME DoorInv, HostLeaves
  PROVE  DoorInv'
<1>1. /\ links' = [s \in Roles |-> IF links[s] = "up" THEN "ended" ELSE links[s]]
      /\ calls' = [c \in Requests |-> IF calls[c].at = "replied" THEN Idle ELSE [calls[c] EXCEPT !.kept = FALSE]]
      /\ UNCHANGED <<daemon, tasks, mine, main, subbed, sent>> /\ host' = FALSE
  BY DEF HostLeaves
<1>2. links' \in [Roles -> {"down", "up", "ended"}] /\ \A s \in Roles : links'[s] = "down" <=> links[s] = "down"
  BY <1>1 DEF DoorInv, Types
<1> DEFINE Left(c) == [calls[c] EXCEPT !.kept = FALSE]
<1>3. \A c \in Requests :
        /\ Left(c) \in Called /\ Left(c).at = calls[c].at /\ Left(c).kind = calls[c].kind /\ Left(c).live = calls[c].live
        /\ Left(c).aborted = calls[c].aborted /\ Left(c).watched = calls[c].watched
        /\ Left(c).running = calls[c].running /\ Left(c).pending = calls[c].pending
  BY DEF DoorInv, Types, Called
<1>4. \A c \in Requests : (calls[c].at = "replied" /\ calls'[c] = Idle) \/ calls'[c] = Left(c) BY <1>1
<1> HIDE DEF Left
<1>5. Types'
  <2>1. \A c \in Requests : calls'[c] \in Called BY <1>3, <1>4, RequestFacts
  <2> QED BY <1>1, <1>2, <2>1 DEF DoorInv, Types
<1>6. /\ World'.conns = World.conns /\ World'.mine = World.mine /\ World'.daemon = World.daemon
      /\ World'.tasks = World.tasks /\ \A s \in Roles : World'.links[s] = "down" <=> World.links[s] = "down"
  BY <1>1, <1>2 DEF World
<1>7. \A c \in Requests : Fits(c, calls'[c], World')
  <2> SUFFICES ASSUME NEW c \in Requests PROVE Fits(c, calls'[c], World') OBVIOUS
  <2>1. Fits(c, calls[c], World) /\ Role(c) \in Roles BY RequestFacts DEF DoorInv
  <2>2. CASE calls'[c] = Left(c)
    <3>1. KindFits(c, Left(c)) BY <1>3, <2>1 DEF Fits, KindFits, Sleeps
    <3>2. ServiceFits(c, Left(c), World') BY <1>3, <1>6, <2>1 DEF Fits, ServiceFits, Sleeps
    <3>3. WaitFits(Left(c), World') BY <1>3, <1>6, <2>1 DEF Fits, WaitFits, Quiet, Sleeps
    <3> QED BY <2>2, <3>1, <3>2, <3>3 DEF Fits
  <2> QED BY <1>4, <2>2, IdleFits
<1>8. WaitsOf(calls') = WaitsOf(calls)
  <2>1. \A c \in Calls : /\ Sleeps(calls'[c]) <=> Sleeps(calls[c])
                         /\ Sleeps(calls[c]) => calls'[c].pending = calls[c].pending
    BY <1>3, <1>4, RequestFacts, IdleFits DEF Sleeps
  <2> QED BY <2>1, WaitsSame
<1>9. Connected' /\ SeenWasSent' /\ NothingOpens'
  BY <1>1, <1>2 DEF DoorInv, Types, Mains, Connected, SeenWasSent, NothingOpens
<1> QED BY <1>1, <1>5, <1>7, <1>8, <1>9 DEF DoorInv, RegistryFits

\* A session whose Main is not live has no wait asleep: one that lost its connection
\* was aborted, and one that has it keeps the Main live.
LEMMA AdoptsKeeps ==
  ASSUME DoorInv, Adopts
  PROVE  DoorInv'
<1>1. /\ main.conns = {} /\ mine' = FALSE
      /\ UNCHANGED <<daemon, tasks, main, links, calls, subbed, host, sent>>
  BY DEF Adopts, IsLive
<1>2. Types' BY <1>1 DEF DoorInv, Types
<1>3. /\ World'.conns = {} /\ World.conns = {} /\ World'.links = World.links /\ World'.daemon = World.daemon
      /\ World'.tasks = World.tasks
  BY <1>1 DEF World
<1>4. \A c \in Requests : Fits(c, calls'[c], World')
  <2> SUFFICES ASSUME NEW c \in Requests PROVE Fits(c, calls[c], World') BY <1>1
  <2>1. Fits(c, calls[c], World) BY DEF DoorInv
  <2>2. calls[c].at # "blocked" BY <1>3, <2>1 DEF Fits, ServiceFits, WaitFits, Sleeps
  <2> QED BY <1>3, <2>1, <2>2 DEF Fits, ServiceFits, WaitFits
<1> QED BY <1>1, <1>2, <1>4 DEF DoorInv, Connected, RegistryFits, SeenWasSent, NothingOpens

LEMMA DrainsKeeps ==
  ASSUME DoorInv, NEW force \in BOOLEAN, Drains(force)
  PROVE  DoorInv'
<1>1. /\ daemon = "up" /\ daemon' \in {"idle", "forced"}
      /\ daemon' = "idle" => ~Blocked
      /\ UNCHANGED <<tasks, mine, main, links, calls, subbed, host, sent>>
  BY DEF Drains
<1>2. Types' BY <1>1 DEF DoorInv, Types
<1>3. /\ World'.conns = World.conns /\ World'.links = World.links /\ World'.mine = World.mine
      /\ World'.tasks = World.tasks /\ World'.daemon = daemon'
  BY <1>1 DEF World
<1>4. \A c \in Requests : Fits(c, calls'[c], World')
  <2> SUFFICES ASSUME NEW c \in Requests PROVE Fits(c, calls[c], World') BY <1>1
  <2>1. Fits(c, calls[c], World) BY DEF DoorInv
  <2>2. daemon' = "idle" => calls[c].at # "working" BY <1>1, <2>1 DEF Fits, KindFits, Blocked
  <2> QED BY <1>1, <1>3, <2>1, <2>2 DEF Fits, ServiceFits, WaitFits, Quiet
<1>5. NothingOpens' BY <1>1 DEF NothingOpens, Blocked
<1> QED BY <1>1, <1>2, <1>4, <1>5 DEF DoorInv, Connected, RegistryFits, SeenWasSent

\* Nothing is left of what the process had.
LEMMA GoneKeeps ==
  ASSUME DoorInv, Gone, tasks' \in TaskRecords, mine' \in BOOLEAN,
         \A t \in Tasks : tasks'[t].seen => tasks[t].seen
  PROVE  DoorInv'
<1>1. Types' BY RequestFacts DEF Gone, DoorInv, Types
<1>2. \A c \in Requests : Fits(c, calls'[c], World') BY IdleFits DEF Gone
<1>3. WaitsOf(calls') = {} BY RequestFacts, IdleFits DEF Gone, WaitsOf
<1>4. Connected' /\ NothingOpens' BY DEF Gone, NoMain, Connected, NothingOpens
<1>5. SeenWasSent' BY DEF Gone, DoorInv, SeenWasSent
<1>6. RegistryFits' BY <1>3, RequestFacts DEF Gone, RegistryFits, NoMain
<1> QED BY <1>1, <1>2, <1>4, <1>5, <1>6 DEF DoorInv

LEMMA StartsKeeps ==
  ASSUME DoorInv, Starts
  PROVE  DoorInv'
<1>1. /\ daemon = "down" /\ daemon' = "up" /\ UNCHANGED <<mine, main, links, calls, subbed, host, sent>>
      /\ tasks' \in TaskRecords /\ \A t \in Tasks : tasks'[t].seen = tasks[t].seen
  BY DEF Starts, DoorInv, Types, TaskRecords, Statuses
<1>2. Types' BY <1>1 DEF DoorInv, Types
<1>3. World'.links = World.links /\ World'.daemon = "up" /\ World.daemon = "down" BY <1>1 DEF World
<1>4. \A c \in Requests : Fits(c, calls'[c], World')
  BY <1>1, <1>3 DEF DoorInv, Fits, KindFits, ServiceFits, WaitFits, Sleeps
<1> QED BY <1>1, <1>2, <1>4 DEF DoorInv, Connected, RegistryFits, SeenWasSent, NothingOpens

----------------------------------------------------------------------------
(* The theorems *)

LEMMA DoorInvInit ==
  ASSUME Init
  PROVE  DoorInv
<1>1. Types
  <2>1. tasks \in TaskRecords BY DEF Init, TaskRecords, Statuses
  <2> QED BY <2>1, RequestFacts DEF Init, Types
<1>2. \A c \in Requests : Fits(c, calls[c], World) BY IdleFits DEF Init
<1>3. WaitsOf(calls) = {} BY RequestFacts, IdleFits DEF Init, WaitsOf
<1>4. RegistryFits BY <1>3, RequestFacts DEF Init, RegistryFits, NoMain
<1>5. Connected /\ SeenWasSent /\ NothingOpens BY DEF Init, NoMain, Connected, SeenWasSent, NothingOpens
<1> QED BY <1>1, <1>2, <1>4, <1>5 DEF DoorInv

LEMMA DoorInvNext ==
  ASSUME DoorInv, [Next]_vars
  PROVE  DoorInv'
<1>1. ASSUME NEW t \in Tasks, NEW status \in {"working", "input_required", "completed", "gone"}, Changes(t, status)
      PROVE  DoorInv'
  BY <1>1, ChangesKeeps DEF Statuses
<1>2. ASSUME NEW c \in Calls,
             \/ LooksAgain(c) \/ TimesOut(c) \/ Admits(c) \/ Created(c) \/ GivesUp(c) \/ CancelArrives(c)
             \/ \E kind \in {"wait", "run", "ack"} : CallsTool(c, kind)
      PROVE  DoorInv'
  <2>1. ASSUME NEW kind \in {"wait", "run", "ack"}, CallsTool(c, kind) PROVE DoorInv'
    <3>1. c \in Requests /\ kind \in Kinds /\ Arrives(c, kind) BY <2>1, RequestFacts DEF CallsTool, Kinds
    <3> QED BY <3>1, ArrivesKeeps
  <2> QED BY <1>2, <2>1, LooksAgainKeeps, TimesOutKeeps, AdmitsKeeps, CreatedKeeps, GivesUpKeeps, CancelArrivesKeeps
<1>3. ASSUME NEW c \in Requests, Serves(c) PROVE DoorInv' BY <1>3, ServesKeeps
<1>4. ASSUME NEW r \in Roles, Connects(r) \/ Closes(r) PROVE DoorInv' BY <1>4, ConnectsKeeps, ClosesKeeps
<1>5. "subscribe" \in Requests /\ "task_get" \in Requests /\ "subscribe" \in Kinds /\ "task_get" \in Kinds
  BY DEF Requests, Kinds
<1>6. CASE Subscribes
  <2>1. CASE Arrives("subscribe", "subscribe") BY <2>1, <1>5, ArrivesKeeps
  <2>2. CASE Follower([fol EXCEPT !.sub = "lost"]) /\ UNCHANGED <<calls, wire>> BY <2>2, FollowerKeeps
  <2> QED BY <1>6, <2>1, <2>2 DEF Subscribes
<1>7. CASE Beats BY <1>5, <1>7, ArrivesKeeps DEF Beats
<1>8. CASE ReadsFrame
  <2>1. PICK f : Follower(f) /\ calls' = calls BY <1>8 DEF ReadsFrame
  <2> QED BY <2>1, FollowerKeeps
<1>9. ASSUME NEW frame \in fol.got, GoesOn(frame) PROVE DoorInv'
  <2>1. PICK f : Follower(f) /\ calls' = calls BY <1>9 DEF GoesOn
  <2> QED BY <2>1, FollowerKeeps
<1>10. CASE Exits BY <1>10, GoneKeeps DEF Exits, DoorInv, Types
<1>11. CASE Dies
  <2>1. tasks' \in TaskRecords /\ (\A t \in Tasks : tasks'[t].seen => tasks[t].seen) /\ mine' \in BOOLEAN
    <3>1. PICK lost \in SUBSET Tasks : tasks' = [t \in Tasks |-> IF t \in lost THEN [tasks[t] EXCEPT !.seen = FALSE] ELSE tasks[t]]
      BY <1>11 DEF Dies
    <3>2. \A t \in Tasks : tasks[t] \in [status : Statuses, seen : BOOLEAN] BY DEF DoorInv, Types, TaskRecords
    <3>3. \A t \in Tasks : [tasks[t] EXCEPT !.seen = FALSE] \in [status : Statuses, seen : BOOLEAN] BY <3>2
    <3>4. \A t \in Tasks : [tasks[t] EXCEPT !.seen = FALSE].seen = FALSE BY <3>2
    <3>5. mine' \in BOOLEAN BY <1>11 DEF Dies, DoorInv, Types
    <3> QED BY <3>1, <3>2, <3>3, <3>4, <3>5 DEF TaskRecords
  <2> QED BY <1>11, <2>1, GoneKeeps DEF Dies
<1>12. ASSUME NEW force \in BOOLEAN, Drains(force) PROVE DoorInv' BY <1>12, DrainsKeeps
<1>13. CASE UNCHANGED vars
  <2>1. World' = World BY <1>13 DEF vars, World
  <2> QED BY <1>13, <2>1 DEF vars, DoorInv, Types, Connected, RegistryFits, SeenWasSent, NothingOpens
<1> QED
  BY <1>1, <1>2, <1>3, <1>4, <1>6, <1>7, <1>8, <1>9, <1>10, <1>11, <1>12, <1>13,
     GraceRunsOutKeeps, HostLeavesKeeps, AdoptsKeeps, StartsKeeps DEF Next

\* The invariant everything below follows from.
THEOREM DoorInvariant == Spec => []DoorInv
BY DoorInvInit, DoorInvNext, PTL DEF Spec

\* A Main is listed exactly while a connection speaks for it or a wait of its has not
\* ended, and is shown asleep on what these watch: the registry is settled after each
\* change, and holds the waits that sleep and no other.
THEOREM TheMainIsShown == Spec => []MainIsShownAsItIs
<1>1. DoorInv => MainIsShownAsItIs
  <2> SUFFICES ASSUME DoorInv PROVE MainIsShownAsItIs OBVIOUS
  <2> DEFINE asleep == {c \in Calls : calls[c].at \in {"blocked", "woken"}}
  <2>1. TypeOK
    <3>1. \A c \in Requests : calls[c].at \in {"idle", "checking", "blocked", "woken", "working", "replied"}
      BY DEF DoorInv, Types, Called, Stages
    <3>2. \A c \in Requests : calls[c].at \in {"blocked", "woken"} => calls[c].kind = "wait"
      BY DEF DoorInv, Fits, KindFits, Sleeps
    <3> QED BY <3>1, <3>2 DEF DoorInv, Types, TypeOK, TaskRecords
  <2>2. main.conns \subseteq {r \in Roles : links[r] # "down"} BY DEF DoorInv, Connected, Types, Mains
  <2>3. \A c \in asleep \cup {d \in Calls : calls[d].at = "working"} : calls[c].live => Role(c) \in main.conns
    BY RequestFacts DEF DoorInv, Fits, ServiceFits, Sleeps, World
  <2>4. main.waits = {[call |-> c, tasks |-> calls[c].pending] : c \in asleep}
    BY DEF DoorInv, RegistryFits, WaitsOf, Sleeps
  <2>5. main \in Mains /\ Settle(main) = main BY DEF DoorInv, Types, RegistryFits
  <2> HIDE DEF asleep
  <2>11. \A c \in asleep : \E w \in main.waits : w.call = c /\ w.tasks = calls[c].pending
    <3> SUFFICES ASSUME NEW c \in asleep PROVE \E w \in main.waits : w.call = c /\ w.tasks = calls[c].pending OBVIOUS
    <3> DEFINE w == [call |-> c, tasks |-> calls[c].pending]
    <3>1. w \in main.waits BY <2>4
    <3>2. w.call = c /\ w.tasks = calls[c].pending OBVIOUS
    <3> HIDE DEF w
    <3> QED BY <3>1, <3>2
  <2>12. \A w \in main.waits : \E c \in asleep : w.call = c /\ w.tasks = calls[c].pending BY <2>4
  <2>6. {w.call : w \in main.waits} = asleep BY <2>11, <2>12
  <2>7. main.waits # {} <=> asleep # {} BY <2>4
  <2>8. UNION {w.tasks : w \in main.waits} = UNION {calls[c].pending : c \in asleep}
    <3>1. {w.tasks : w \in main.waits} = {calls[c].pending : c \in asleep} BY <2>11, <2>12
    <3> QED BY <3>1
  <2>9. Listed(main) <=> main.conns # {} \/ asleep # {} BY <2>5, <2>7, SettledSays
  <2>10. asleep # {} => /\ main.shown.status = "waiting_tasks"
                        /\ main.shown.tasks = (UNION {calls[c].pending : c \in asleep}) \cup main.grace.tasks
    BY <2>5, <2>7, <2>8, SettledSays
  <2> QED BY <2>1, <2>2, <2>3, <2>6, <2>9, <2>10 DEF MainIsShownAsItIs, asleep
<1> QED BY <1>1, DoorInvariant, PTL

\* A wait sleeps only on what still works, and while nothing it watches is news: what
\* it looked at is still so, or it was woken.
THEOREM NoWaitSleepsOnNews == Spec => []NeverSleepsOnNews
<1>1. DoorInv => NeverSleepsOnNews
  <2> SUFFICES ASSUME DoorInv, NEW c \in Calls, calls[c].at = "blocked"
               PROVE  /\ Reason(View(calls[c].watched, calls[c].running)) = "none"
                      /\ View(calls[c].watched, calls[c].running).working \subseteq calls[c].pending
    BY DEF NeverSleepsOnNews
  <2>1. c \in Requests /\ calls[c] \in Called /\ Types BY RequestFacts DEF DoorInv, Types
  <2>2. Quiet(calls[c], World) BY <2>1 DEF DoorInv, Fits, WaitFits
  <2> QED BY <2>1, <2>2, QuietIsNoReason
<1> QED BY <1>1, DoorInvariant, PTL

\* What counts as seen was put on a connection that was there, or acknowledged.
THEOREM OnlyTheSentIsSeen == Spec => []SeenWasSent
<1>1. DoorInv => SeenWasSent BY DEF DoorInv
<1> QED BY <1>1, DoorInvariant, PTL

\* Once a Gateway drains because it was idle, nothing runs or is admitted in it.
THEOREM TheIdleStayIdle == Spec => []IdleStaysIdle
<1>1. DoorInv => IdleStaysIdle
  BY RequestFacts DEF DoorInv, NothingOpens, IdleStaysIdle, Fits, ServiceFits, World
<1> QED BY <1>1, DoorInvariant, PTL

----------------------------------------------------------------------------
(* Sequences, and the least counterexample of an induction *)

LEMMA LeastOf ==
  ASSUME NEW N \in Nat, NEW B \in SUBSET (0..N), B # {}
  PROVE  \E m \in B : m = 0 \/ m - 1 \notin B
<1> DEFINE S == 0..N
<1> DEFINE Bad == {0..m : m \in B}
<1>1. IsFiniteSet(S) BY FS_Interval
<1>2. Bad \in SUBSET (SUBSET S) /\ Bad # {}
  <2>1. \A m \in B : 0..m \subseteq 0..N OBVIOUS
  <2> QED BY <2>1
<1>3. IsWellFoundedOn(StrictSubsetOrdering(S), SUBSET S)
  BY <1>1, FS_StrictSubsetOrderingWellFounded, FS_FiniteSubsetsOfFinite
<1> HIDE DEF S, Bad
<1>4. PICK T \in Bad : \A U \in Bad : ~(<<U, T>> \in StrictSubsetOrdering(S))
  BY <1>2, <1>3, WFMin
<1>5. PICK m \in B : T = 0..m BY DEF Bad
<1>6. ASSUME m # 0, m - 1 \in B PROVE FALSE
  <2>1. 0..(m - 1) \in Bad BY <1>6 DEF Bad
  <2>2. m \in Nat /\ m \in 0..m /\ m \notin 0..(m - 1) /\ 0..(m - 1) \subseteq 0..m BY <1>6
  <2>3. <<0..(m - 1), T>> \in StrictSubsetOrdering(S)
    BY <1>2, <1>5, <2>1, <2>2 DEF StrictSubsetOrdering
  <2> QED BY <1>4, <2>1, <2>3
<1> QED BY <1>6

LEMMA InsertDoes ==
  ASSUME NEW S, NEW w \in Seq(S), NEW n \in 0..Len(w), NEW x \in S
  PROVE  LET v == InsertAt(w, n + 1, x) IN
         /\ v \in Seq(S) /\ Len(v) = Len(w) + 1
         /\ \A i \in 1..Len(v) : v[i] = IF i <= n THEN w[i] ELSE IF i = n + 1 THEN x ELSE w[i - 1]
<1> DEFINE a == SubSeq(w, 1, n)
<1> DEFINE b == <<x>>
<1> DEFINE c == SubSeq(w, n + 1, Len(w))
<1>1. Len(w) \in Nat /\ n \in Nat /\ n <= Len(w) OBVIOUS
<1>2. a \in Seq(S) /\ Len(a) = n /\ \A i \in 1..n : a[i] = w[i]
  <2>1. \A i \in 1..n : w[i] \in S BY <1>1
  <2> QED BY <1>1, <2>1, SubSeqProperties
<1>3. b \in Seq(S) /\ Len(b) = 1 /\ b[1] = x OBVIOUS
<1>4. c \in Seq(S) /\ Len(c) = Len(w) - n /\ \A i \in 1..(Len(w) - n) : c[i] = w[i + n]
  <2>1. \A i \in (n + 1)..Len(w) : w[i] \in S BY <1>1
  <2>2. /\ c \in Seq(S) /\ Len(c) = IF n + 1 <= Len(w) THEN Len(w) - (n + 1) + 1 ELSE 0
        /\ \A i \in 1..(Len(w) - (n + 1) + 1) : c[i] = w[(n + 1) + i - 1]
    BY <1>1, <2>1, SubSeqProperties
  <2> HIDE DEF c
  <2> QED BY <1>1, <2>2
<1>5. InsertAt(w, n + 1, x) = (a \o b) \o c
  <2>1. (n + 1) - 1 = n BY <1>1
  <2> QED BY <2>1 DEF InsertAt
<1> HIDE DEF a, b, c
<1> DEFINE ab == a \o b
<1>6. ab \in Seq(S) /\ Len(ab) = n + 1 /\ \A i \in 1..(n + 1) : ab[i] = IF i <= n THEN w[i] ELSE x
  <2>1. /\ ab \in Seq(S) /\ Len(ab) = Len(a) + Len(b)
        /\ \A i \in 1..(Len(a) + Len(b)) : ab[i] = IF i <= Len(a) THEN a[i] ELSE b[i - Len(a)]
    BY <1>2, <1>3, ConcatProperties
  <2> HIDE DEF ab
  <2>2. \A i \in 1..(n + 1) : i > n => i - n = 1 BY <1>1
  <2>3. \A i \in 1..(n + 1) : ab[i] = IF i <= n THEN a[i] ELSE b[i - n] BY <1>2, <1>3, <2>1
  <2> QED BY <1>1, <1>2, <1>3, <2>1, <2>2, <2>3
<1> HIDE DEF ab
<1> DEFINE abc == ab \o c
<1>7. abc \in Seq(S) /\ Len(abc) = Len(w) + 1
      /\ \A i \in 1..(Len(w) + 1) : abc[i] = IF i <= n + 1 THEN ab[i] ELSE c[i - (n + 1)]
  BY <1>1, <1>4, <1>6, ConcatProperties
<1>8. InsertAt(w, n + 1, x) = abc BY <1>5 DEF ab
<1> HIDE DEF abc
<1>9. \A i \in 1..(Len(w) + 1) : abc[i] = IF i <= n THEN w[i] ELSE IF i = n + 1 THEN x ELSE w[i - 1]
  <2> SUFFICES ASSUME NEW i \in 1..(Len(w) + 1)
               PROVE  abc[i] = IF i <= n THEN w[i] ELSE IF i = n + 1 THEN x ELSE w[i - 1]
    OBVIOUS
  <2>1. CASE i <= n + 1 BY <1>1, <1>6, <1>7, <2>1
  <2>2. CASE i > n + 1
    <3>1. i - (n + 1) \in 1..(Len(w) - n) /\ (i - (n + 1)) + n = i - 1 BY <1>1, <2>2
    <3>2. c[i - (n + 1)] = w[i - 1] BY <1>4, <3>1
    <3>3. abc[i] = c[i - (n + 1)] /\ ~(i <= n) /\ i # n + 1 BY <1>1, <1>7, <2>2
    <3> QED BY <3>2, <3>3
  <2> QED BY <1>1, <2>1, <2>2
<1> QED BY <1>7, <1>8, <1>9

----------------------------------------------------------------------------
(* What the follower makes of what it hears *)

Words == {"event", "subscribe", "task_get", "gone"}
Frames == [kind : Words, status : Statuses]
Reports == {x \in Frames : x.kind # "event"}
Asked == {"subscribe", "task_get"}
Subs == {"none", "asking", "live", "restoring", "lost"}
Followers ==
  [on : BOOLEAN, status : Statuses, sub : Subs, asked : SUBSET Asked, quiet : SUBSET Asked,
   early : Seq(Statuses), got : SUBSET Reports, told : Seq(Statuses)]

\* A follower that stopped has nothing left.
Rests(f) == ~f.on => f.sub = "none" /\ f.quiet = {} /\ f.early = <<>> /\ f.got = {}

\* That the task ended is said last, and only of one that is over.
Said(f, over) == \A n \in 1..Len(f.told) : f.told[n] = "completed" => n = Len(f.told) /\ ~f.on /\ over

\* Hearing leaves what is on its way as it is, or stops the follower.
Hears(f, r) == r.on => f.on /\ r.sub = f.sub /\ r.early = f.early /\ r.got = f.got /\ r.asked = f.asked

Sound(f, over) == f \in Followers /\ Rests(f) /\ Said(f, over)

LEMMA StopDoes ==
  ASSUME NEW f \in Followers
  PROVE  /\ Stop(f) \in Followers /\ ~Stop(f).on /\ Rests(Stop(f)) /\ Stop(f).told = f.told
         /\ Stop(f).early = <<>> /\ Stop(f).got = {}
<1> DEFINE none == <<>>
<1> DEFINE still == [on |-> FALSE, status |-> f.status, sub |-> "none", asked |-> {}, quiet |-> {},
                     early |-> none, got |-> {}, told |-> f.told]
<1> DEFINE start == [on |-> FALSE, status |-> "none", sub |-> "none", asked |-> {}, quiet |-> {},
                     early |-> none, got |-> {}, told |-> none]
<1>5. NotFollowing = start BY DEF NotFollowing
<1>2. none \in Seq(Statuses) /\ f.told \in Seq(Statuses) /\ f.status \in Statuses BY DEF Followers
<1>3. none = <<>> OBVIOUS
<1> HIDE DEF none
<1>6. Stop(f) = [start EXCEPT !.status = f.status, !.told = f.told] BY <1>5 DEF Stop
<1>1. Stop(f) = still BY <1>6
<1>4. still \in Followers BY <1>2 DEF Followers, Subs
<1> QED BY <1>1, <1>3, <1>4 DEF Rests

LEMMA ObserveDoes ==
  ASSUME NEW f, NEW status \in Statuses, NEW over \in BOOLEAN, Sound(f, over), status = "completed" => over
  PROVE  LET r == Observe(f, status) IN
         /\ Sound(r, over) /\ Hears(f, r)
         /\ r.on => r.status = status /\ r.quiet = f.quiet
<1> DEFINE r == Observe(f, status)
<1> DEFINE told == Append(f.told, status)
<1> DEFINE g == [f EXCEPT !.status = status, !.told = told]
<1> SUFFICES /\ Sound(r, over) /\ Hears(f, r)
             /\ r.on => r.status = status /\ r.quiet = f.quiet
  OBVIOUS
<1>1. f \in Followers /\ Rests(f) /\ Said(f, over) BY DEF Sound
<1>2. CASE ~f.on \/ status = f.status
  <2>1. r = f BY <1>2 DEF Observe
  <2> HIDE DEF r
  <2> QED BY <1>1, <1>2, <2>1 DEF Sound, Hears
<1>3. CASE f.on /\ status # f.status
  <2>1. /\ told \in Seq(Statuses) /\ Len(told) = Len(f.told) + 1 /\ told[Len(f.told) + 1] = status
        /\ \A i \in 1..Len(f.told) : told[i] = f.told[i]
    BY <1>1, AppendProperties DEF Followers
  <2>2. r = IF status = "completed" THEN Stop(g) ELSE g BY <1>3 DEF Observe, Terminal
  <2>3. f.told \in Seq(Statuses) /\ Len(f.told) \in Nat BY <1>1 DEF Followers
  <2>4. \A i \in 1..Len(f.told) : f.told[i] # "completed" BY <1>1, <1>3 DEF Said
  <2> HIDE DEF told, r
  <2>5. /\ g \in Followers /\ g.on /\ g.told = told /\ g.status = status /\ g.sub = f.sub /\ g.early = f.early
        /\ g.got = f.got /\ g.asked = f.asked /\ g.quiet = f.quiet
    BY <1>1, <1>3, <2>1 DEF Followers
  <2> HIDE DEF g
  <2>6. CASE status = "completed"
    <3>1. r = Stop(g) BY <2>2, <2>6
    <3>2. r \in Followers /\ ~r.on /\ Rests(r) /\ r.told = told BY <2>5, <3>1, StopDoes
    <3>3. Said(r, over) BY <2>1, <2>3, <2>4, <2>6, <3>2 DEF Said
    <3> QED BY <3>2, <3>3 DEF Sound, Hears
  <2>7. CASE status # "completed"
    <3>1. r = g BY <2>2, <2>7
    <3>2. Said(r, over) BY <2>1, <2>3, <2>4, <2>5, <2>7, <3>1 DEF Said
    <3> QED BY <1>3, <2>5, <3>1, <3>2 DEF Sound, Hears, Rests
  <2> QED BY <2>6, <2>7
<1> QED BY <1>2, <1>3

LEMMA OnEventDoes ==
  ASSUME NEW f, NEW status \in Statuses, NEW over \in BOOLEAN, Sound(f, over), status = "completed" => over
  PROVE  LET r == OnEvent(f, status) IN
         /\ Sound(r, over) /\ Hears(f, r) /\ r.quiet = {}
         /\ r.on => r.status = status
<1> DEFINE g == [f EXCEPT !.quiet = {}]
<1>1. /\ g \in Followers /\ g.quiet = {} /\ g.on = f.on /\ g.sub = f.sub /\ g.early = f.early /\ g.got = f.got
      /\ g.asked = f.asked /\ g.told = f.told
  BY DEF Sound, Followers
<1>2. OnEvent(f, status) = Observe(g, status) BY DEF OnEvent
<1> HIDE DEF g
<1>3. Sound(g, over) BY <1>1 DEF Sound, Rests, Said
<1> DEFINE r == Observe(g, status)
<1>4. Sound(r, over) /\ Hears(g, r) /\ (r.on => r.status = status /\ r.quiet = g.quiet) BY <1>3, ObserveDoes
<1> HIDE DEF r
<1>5. r.quiet = {} BY <1>1, <1>4 DEF Sound, Rests
<1>6. Hears(f, r) BY <1>1, <1>4 DEF Hears
<1> QED BY <1>2, <1>4, <1>5, <1>6 DEF r

\* The events are heard one after the other: the function that OnEvents picks is there.
LEMMA OnEventsUnfolds ==
  ASSUME NEW f, NEW s, Len(s) \in Nat
  PROVE  \E g : /\ g[0] = f /\ \A n \in 1..Len(s) : g[n] = OnEvent(g[n - 1], s[n])
                /\ OnEvents(f, s) = g[Len(s)]
<1> DEFINE UpTo(g, n) == g = [k \in 0..n |-> IF k = 0 THEN f ELSE OnEvent(g[k - 1], s[k])]
<1> DEFINE B == {n \in 0..Len(s) : ~\E g : UpTo(g, n)}
<1>1. B = {}
  <2> SUFFICES ASSUME B # {} PROVE FALSE OBVIOUS
  <2>1. B \in SUBSET (0..Len(s)) OBVIOUS
  <2>2. PICK m \in B : m = 0 \/ m - 1 \notin B
    <3> HIDE DEF B
    <3> QED BY <2>1, LeastOf
  <2>3. m \in 0..Len(s) /\ ~\E g : UpTo(g, m) OBVIOUS
  <2>4. CASE m = 0
    <3> DEFINE g == [k \in 0..0 |-> f]
    <3>1. \A k \in 0..0 : k = 0 OBVIOUS
    <3>2. UpTo(g, 0) BY <3>1
    <3> QED BY <2>3, <2>4, <3>2
  <2>5. CASE m # 0
    <3>1. m - 1 \in 0..Len(s) /\ m \in Nat BY <2>3, <2>5
    <3>2. PICK g : UpTo(g, m - 1) BY <2>2, <2>5, <3>1
    <3> DEFINE h == [k \in 0..m |-> IF k = m THEN OnEvent(g[m - 1], s[m]) ELSE g[k]]
    <3>3. \A k \in 0..m : h[k] = IF k = m THEN OnEvent(g[m - 1], s[m]) ELSE g[k] OBVIOUS
    <3>4. \A k \in 0..(m - 1) : g[k] = IF k = 0 THEN f ELSE OnEvent(g[k - 1], s[k]) BY <3>2
    <3>5. DOMAIN h = 0..m /\ h = [k \in 0..m |-> h[k]] OBVIOUS
    <3> HIDE DEF h, UpTo
    <3>6. \A k \in 0..m : h[k] = IF k = 0 THEN f ELSE OnEvent(h[k - 1], s[k])
      <4> SUFFICES ASSUME NEW k \in 0..m PROVE h[k] = IF k = 0 THEN f ELSE OnEvent(h[k - 1], s[k]) OBVIOUS
      <4>1. k # 0 => k - 1 \in 0..m /\ k - 1 # m BY <3>1
      <4>2. k # m => k \in 0..(m - 1) BY <3>1
      <4> QED BY <2>5, <3>3, <3>4, <4>1, <4>2
    <3>7. h = [k \in 0..m |-> IF k = 0 THEN f ELSE OnEvent(h[k - 1], s[k])] BY <3>5, <3>6
    <3> QED BY <2>3, <3>7 DEF UpTo
  <2> QED BY <2>4, <2>5
<1>2. \E g : UpTo(g, Len(s)) BY <1>1
<1> DEFINE after == CHOOSE g : UpTo(g, Len(s))
<1>3. UpTo(after, Len(s)) BY <1>2
<1>4. OnEvents(f, s) = after[Len(s)] BY DEF OnEvents
<1>5. \A k \in 0..Len(s) : after[k] = IF k = 0 THEN f ELSE OnEvent(after[k - 1], s[k]) BY <1>3
<1> HIDE DEF after
<1>6. after[0] = f /\ \A n \in 1..Len(s) : after[n] = OnEvent(after[n - 1], s[n]) BY <1>5
<1> QED BY <1>4, <1>6

LEMMA OnEventsDoes ==
  ASSUME NEW f, NEW s \in Seq(Statuses), NEW over \in BOOLEAN, Sound(f, over),
         \A i \in 1..Len(s) : s[i] = "completed" => over
  PROVE  LET r == OnEvents(f, s) IN
         /\ Sound(r, over) /\ Hears(f, r)
         /\ s = <<>> => r = f
         /\ s # <<>> => r.quiet = {} /\ (r.on => r.status = s[Len(s)])
<1>1. Len(s) \in Nat OBVIOUS
<1>2. PICK g : /\ g[0] = f /\ \A n \in 1..Len(s) : g[n] = OnEvent(g[n - 1], s[n])
               /\ OnEvents(f, s) = g[Len(s)]
  BY <1>1, OnEventsUnfolds
<1> DEFINE Good(n) == /\ Sound(g[n], over) /\ Hears(f, g[n])
                      /\ n # 0 => g[n].quiet = {} /\ (g[n].on => g[n].status = s[n])
<1> DEFINE B == {n \in 0..Len(s) : ~Good(n)}
<1>3. B = {}
  <2> SUFFICES ASSUME B # {} PROVE FALSE OBVIOUS
  <2>1. B \in SUBSET (0..Len(s)) OBVIOUS
  <2>2. PICK m \in B : m = 0 \/ m - 1 \notin B
    <3> HIDE DEF B
    <3> QED BY <1>1, <2>1, LeastOf
  <2>3. m \in 0..Len(s) /\ ~Good(m) OBVIOUS
  <2>4. CASE m = 0 BY <1>2, <2>3, <2>4 DEF Hears
  <2>5. CASE m # 0
    <3>1. m - 1 \in 0..Len(s) /\ m \in 1..Len(s) BY <1>1, <2>3, <2>5
    <3>2. Good(m - 1) BY <2>2, <2>5, <3>1
    <3>3. g[m] = OnEvent(g[m - 1], s[m]) BY <1>2, <3>1
    <3>4. s[m] \in Statuses /\ (s[m] = "completed" => over) BY <3>1
    <3> DEFINE a == g[m - 1]
    <3>5. Sound(a, over) /\ Hears(f, a) BY <3>2
    <3> HIDE DEF a
    <3> DEFINE b == OnEvent(a, s[m])
    <3>6. Sound(b, over) /\ Hears(a, b) /\ b.quiet = {} /\ (b.on => b.status = s[m]) BY <3>4, <3>5, OnEventDoes
    <3>7. b = g[m] BY <3>3 DEF a
    <3> HIDE DEF b
    <3>8. Hears(f, b) BY <3>5, <3>6 DEF Hears
    <3> QED BY <2>3, <3>6, <3>7, <3>8
  <2> QED BY <2>4, <2>5
<1>4. Good(Len(s)) BY <1>1, <1>3
<1>5. s = <<>> <=> Len(s) = 0 OBVIOUS
<1> QED BY <1>2, <1>4, <1>5

----------------------------------------------------------------------------
(* What the follower knows, and what is on its way to it *)

Over == {"completed", "gone"}

Pushed(w) == \E x \in ToSet(w) : x.kind = "event"

\* The replies of a kind that are on their way, or whose await has not gone on
Due(f, w, kind) == {x \in f.got \cup ToSet(w) : x.kind = kind}

\* The last push on its way says where the task stands.
LastPush(w, cur) ==
  \A i \in 1..Len(w) : w[i].kind = "event" /\ (\A j \in 1..Len(w) : j > i => w[j].kind # "event") => w[i].status = cur

Single(w) == \A i, j \in 1..Len(w) : w[i].kind = "task_get" /\ w[j].kind = "task_get" => i = j

\* The connection is there while a task is followed, and ends with it; without one
\* nothing is on its way.
LinkFits(f, w, link, live) ==
  /\ link = "up" => f.on
  /\ link = "ended" => ~f.on
  /\ link = "down" => /\ w = <<>> /\ ~live /\ f.early = <<>> /\ f.got = {} /\ f.quiet = {}
                      /\ f.sub \in {"none", "live", "lost"}

\* The daemon's end of a subscription against the follower's
SubFits(f, w, live, asks) ==
  /\ ~live => ~Pushed(w) /\ f.early = <<>> /\ Due(f, w, "subscribe") = {}
  /\ f.sub \in {"none", "lost"} => ~live
  /\ f.sub = "live" => live /\ f.early = <<>> /\ "subscribe" \notin f.quiet
  /\ f.sub = "asking" => "subscribe" \in f.quiet
  /\ asks => f.sub \in {"asking", "restoring"} /\ ~live

\* One read is out at a time.
ReadFits(f, w, reads) ==
  /\ reads => "task_get" \in f.asked /\ Due(f, w, "task_get") = {}
  /\ Due(f, w, "task_get") # {} => "task_get" \in f.asked
  /\ \A x \in f.got, y \in ToSet(w) : x.kind = "task_get" => y.kind # "task_get"
  /\ \A x, y \in f.got : x.kind = "task_get" /\ y.kind = "task_get" => x = y
  /\ Single(w)

\* Without a push on its way, what was heard says where the task stands, or a reply
\* that will be heard does, and no reply that counts is older.
Heard(f, w, cur) ==
  /\ f.sub \in {"asking", "restoring"} =>
       IF f.early # <<>> THEN f.early[Len(f.early)] = cur
       ELSE \A x \in Due(f, w, "subscribe") : x.status = cur
  /\ f.sub = "live" =>
       /\ f.status = cur
       /\ "task_get" \in f.quiet => \A x \in Due(f, w, "task_get") : x.status = cur

LastWord(f, w, cur) == LastPush(w, cur) /\ (~Pushed(w) => Heard(f, w, cur))

\* Nothing on its way says that a task ended which is not over.
Honest(f, w, over) ==
  /\ \A x \in f.got \cup ToSet(w) : x.status = "completed" => over
  /\ \A i \in 1..Len(f.early) : f.early[i] = "completed" => over

Fit(f, w, link, live, asks, reads, cur) ==
  /\ Sound(f, cur \in Over) /\ w \in Seq(Frames)
  /\ LinkFits(f, w, link, live) /\ Honest(f, w, cur \in Over)
  /\ link = "up" => SubFits(f, w, live, asks) /\ ReadFits(f, w, reads)
  /\ link = "up" /\ live /\ cur \notin {"none", "gone"} => LastWord(f, w, cur)

\* The tool's call c created the task, and its result is on its way.
Creates(call) == call.at = "replied" /\ Followed \in call.watched
Out(c) == calls[c].at = "checking" /\ calls[c].live
Cur == tasks[Followed].status

Follows ==
  /\ links["follower"] \in {"down", "up", "ended"} /\ subbed \in BOOLEAN /\ Cur \in Statuses
  /\ Fit(fol, wire, links["follower"], subbed, Out("subscribe"), Out("task_get"), Cur)

\* Nothing was ever followed.
Untouched == fol = NotFollowing /\ wire = <<>> /\ links["follower"] = "down" /\ ~subbed

\* A request says what it is.
Named == \A c \in Requests : calls[c].at = "checking" => IF c \in Calls THEN calls[c].kind \in {"wait", "run", "ack"} ELSE calls[c].kind = c

FolInv ==
  /\ Follows /\ Named /\ (subbed => mine)
  /\ Cur = "none" => Untouched /\ \A c \in Calls : ~Creates(calls[c])
  /\ \A c \in Calls : Creates(calls[c]) => Untouched
  /\ \A c, d \in Calls : Creates(calls[c]) /\ Creates(calls[d]) => c = d

----------------------------------------------------------------------------
(* One frame more *)

\* w is v with the frame x in place p.
Adds(v, w, p, x) ==
  /\ v \in Seq(Frames) /\ w \in Seq(Frames) /\ x \in Frames
  /\ Len(w) = Len(v) + 1 /\ p \in 1..Len(w) /\ w[p] = x
  /\ \A i \in 1..Len(v) : IF i < p THEN w[i] = v[i] ELSE w[i + 1] = v[i]

LEMMA ToSetIs ==
  ASSUME NEW w \in Seq(Frames)
  PROVE  /\ ToSet(w) \subseteq Frames /\ (w = <<>> => ToSet(w) = {})
         /\ \A y : y \in ToSet(w) <=> \E i \in 1..Len(w) : w[i] = y
<1>1. DOMAIN w = 1..Len(w) /\ \A i \in 1..Len(w) : w[i] \in Frames OBVIOUS
<1>2. \A y : y \in ToSet(w) <=> \E i \in 1..Len(w) : w[i] = y BY <1>1 DEF ToSet
<1> QED BY <1>1, <1>2

LEMMA AddsSays ==
  ASSUME NEW v, NEW w, NEW p, NEW x, Adds(v, w, p, x)
  PROVE  /\ ToSet(w) = ToSet(v) \cup {x}
         /\ \A i \in 1..Len(w) : i # p => \E k \in 1..Len(v) : v[k] = w[i] /\ k = IF i < p THEN i ELSE i - 1
         /\ \A k \in 1..Len(v) : \E i \in 1..Len(w) : v[k] = w[i] /\ i = IF k < p THEN k ELSE k + 1
<1>1. /\ v \in Seq(Frames) /\ w \in Seq(Frames) /\ Len(v) \in Nat /\ Len(w) = Len(v) + 1 /\ p \in 1..Len(w) /\ w[p] = x
      /\ \A i \in 1..Len(v) : IF i < p THEN w[i] = v[i] ELSE w[i + 1] = v[i]
  BY DEF Adds
<1>2. \A i \in 1..Len(w) : i # p => \E k \in 1..Len(v) : v[k] = w[i] /\ k = IF i < p THEN i ELSE i - 1
  <2> SUFFICES ASSUME NEW i \in 1..Len(w), i # p
               PROVE  \E k \in 1..Len(v) : v[k] = w[i] /\ k = IF i < p THEN i ELSE i - 1
    OBVIOUS
  <2>1. CASE i < p BY <1>1, <2>1
  <2>2. CASE i > p
    <3>1. i - 1 \in 1..Len(v) /\ ~(i - 1 < p) /\ (i - 1) + 1 = i BY <1>1, <2>2
    <3>2. w[(i - 1) + 1] = v[i - 1] BY <1>1, <3>1
    <3>3. v[i - 1] = w[i] BY <3>1, <3>2
    <3>4. i - 1 = IF i < p THEN i ELSE i - 1 BY <3>1, <1>1, <2>2
    <3> QED BY <3>1, <3>3, <3>4
  <2> QED BY <1>1, <2>1, <2>2
<1>3. \A k \in 1..Len(v) : \E i \in 1..Len(w) : v[k] = w[i] /\ i = IF k < p THEN k ELSE k + 1
  BY <1>1
<1>4. ToSet(w) = ToSet(v) \cup {x}
  <2>1. \A y \in ToSet(w) : y \in ToSet(v) \/ y = x BY <1>1, <1>2, ToSetIs, ZenonT(30)
  <2>2. \A y \in ToSet(v) : y \in ToSet(w) BY <1>1, <1>3, ToSetIs
  <2>3. x \in ToSet(w) BY <1>1, ToSetIs
  <2> QED BY <2>1, <2>2, <2>3
<1> QED BY <1>2, <1>3, <1>4

LEMMA AddsPushed ==
  ASSUME NEW v, NEW w, NEW p, NEW x, Adds(v, w, p, x)
  PROVE  /\ Pushed(w) <=> x.kind = "event" \/ Pushed(v)
         /\ \A f, kind : Due(f, w, kind) = Due(f, v, kind) \cup {y \in {x} : y.kind = kind}
BY AddsSays DEF Pushed, Due

LEMMA AddsSingle ==
  ASSUME NEW v, NEW w, NEW p, NEW x, Adds(v, w, p, x)
  PROVE  /\ Single(w) => Single(v) /\ (x.kind = "task_get" => \A y \in ToSet(v) : y.kind # "task_get")
         /\ Single(v) /\ (x.kind = "task_get" => \A y \in ToSet(v) : y.kind # "task_get") => Single(w)
<1>1. /\ v \in Seq(Frames) /\ w \in Seq(Frames) /\ Len(v) \in Nat /\ Len(w) = Len(v) + 1 /\ p \in 1..Len(w) /\ w[p] = x
  BY DEF Adds
<1>2. \A i \in 1..Len(w) : i # p => \E k \in 1..Len(v) : v[k] = w[i] /\ k = IF i < p THEN i ELSE i - 1 BY AddsSays
<1>3. \A k \in 1..Len(v) : \E i \in 1..Len(w) : v[k] = w[i] /\ i = IF k < p THEN k ELSE k + 1 BY AddsSays
<1>4. ASSUME Single(w) PROVE Single(v)
  <2> SUFFICES ASSUME NEW k \in 1..Len(v), NEW l \in 1..Len(v), v[k].kind = "task_get", v[l].kind = "task_get" PROVE k = l
    BY DEF Single
  <2>1. PICK i \in 1..Len(w) : v[k] = w[i] /\ i = IF k < p THEN k ELSE k + 1 BY <1>3
  <2>2. PICK j \in 1..Len(w) : v[l] = w[j] /\ j = IF l < p THEN l ELSE l + 1 BY <1>3
  <2>3. i = j BY <1>4, <2>1, <2>2 DEF Single
  <2> QED BY <1>1, <2>1, <2>2, <2>3
<1>5. ASSUME Single(w), x.kind = "task_get", NEW y \in ToSet(v) PROVE y.kind # "task_get"
  <2>1. PICK k \in 1..Len(v) : v[k] = y BY <1>1, ToSetIs
  <2>2. PICK i \in 1..Len(w) : v[k] = w[i] /\ i = IF k < p THEN k ELSE k + 1 BY <1>3
  <2>3. i # p BY <1>1, <2>2
  <2> QED BY <1>1, <1>5, <2>1, <2>2, <2>3 DEF Single
<1>6. ASSUME Single(v), x.kind = "task_get" => \A y \in ToSet(v) : y.kind # "task_get" PROVE Single(w)
  <2> SUFFICES ASSUME NEW i \in 1..Len(w), NEW j \in 1..Len(w), w[i].kind = "task_get", w[j].kind = "task_get" PROVE i = j
    BY DEF Single
  <2>1. ASSUME NEW k \in 1..Len(w), k # p, w[k].kind = "task_get" PROVE x.kind # "task_get"
    <3>1. PICK m \in 1..Len(v) : v[m] = w[k] BY <1>2, <2>1
    <3>2. w[k] \in ToSet(v) BY <1>1, <3>1, ToSetIs
    <3> QED BY <1>6, <2>1, <3>2
  <2>2. CASE i = p BY <1>1, <2>1, <2>2
  <2>3. CASE j = p BY <1>1, <2>1, <2>3
  <2>4. CASE i # p /\ j # p
    <3>1. PICK k \in 1..Len(v) : v[k] = w[i] /\ k = IF i < p THEN i ELSE i - 1 BY <1>2, <2>4
    <3>2. PICK l \in 1..Len(v) : v[l] = w[j] /\ l = IF j < p THEN j ELSE j - 1 BY <1>2, <2>4
    <3>3. k = l BY <1>6, <3>1, <3>2 DEF Single
    <3> QED BY <1>1, <2>4, <3>1, <3>2, <3>3
  <2> QED BY <2>2, <2>3, <2>4
<1> QED BY <1>4, <1>5, <1>6

\* A reply moves no push; a push read first leaves the last one.
LEMMA AddsLast ==
  ASSUME NEW v, NEW w, NEW p, NEW x, Adds(v, w, p, x), NEW cur
  PROVE  /\ x.kind # "event" \/ p = 1 => (LastPush(w, cur) => LastPush(v, cur))
         /\ x.kind # "event" => (LastPush(v, cur) => LastPush(w, cur))
         /\ x.kind = "event" /\ p = Len(w) => (LastPush(w, cur) <=> x.status = cur)
         /\ x.kind = "event" /\ ~Pushed(v) => (LastPush(w, cur) => x.status = cur)
<1>1. /\ v \in Seq(Frames) /\ w \in Seq(Frames) /\ Len(v) \in Nat /\ Len(w) = Len(v) + 1 /\ p \in 1..Len(w) /\ w[p] = x
  BY DEF Adds
<1>2. \A i \in 1..Len(w) : i # p => \E k \in 1..Len(v) : v[k] = w[i] /\ k = IF i < p THEN i ELSE i - 1 BY AddsSays
<1>3. \A k \in 1..Len(v) : \E i \in 1..Len(w) : v[k] = w[i] /\ i = IF k < p THEN k ELSE k + 1 BY AddsSays
<1>4. ASSUME x.kind # "event" \/ p = 1, LastPush(w, cur) PROVE LastPush(v, cur)
  <2> SUFFICES ASSUME NEW k \in 1..Len(v), v[k].kind = "event", \A l \in 1..Len(v) : l > k => v[l].kind # "event"
               PROVE  v[k].status = cur
    BY DEF LastPush
  <2>1. PICK i \in 1..Len(w) : v[k] = w[i] /\ i = IF k < p THEN k ELSE k + 1 BY <1>3
  <2>2. ASSUME NEW j \in 1..Len(w), j > i PROVE w[j].kind # "event"
    <3>1. CASE j = p BY <1>1, <1>4, <2>1, <2>2, <3>1
    <3>2. CASE j # p
      <4>1. PICK l \in 1..Len(v) : v[l] = w[j] /\ l = IF j < p THEN j ELSE j - 1 BY <1>2, <3>2
      <4>2. l > k BY <1>1, <2>1, <2>2, <3>2, <4>1
      <4> QED BY <4>1, <4>2
    <3> QED BY <3>1, <3>2
  <2> QED BY <1>4, <2>1, <2>2 DEF LastPush
<1>5. ASSUME x.kind # "event", LastPush(v, cur) PROVE LastPush(w, cur)
  <2> SUFFICES ASSUME NEW i \in 1..Len(w), w[i].kind = "event", \A j \in 1..Len(w) : j > i => w[j].kind # "event"
               PROVE  w[i].status = cur
    BY DEF LastPush
  <2>1. i # p BY <1>1, <1>5
  <2>2. PICK k \in 1..Len(v) : v[k] = w[i] /\ k = IF i < p THEN i ELSE i - 1 BY <1>2, <2>1
  <2>3. ASSUME NEW l \in 1..Len(v), l > k PROVE v[l].kind # "event"
    <3>1. PICK j \in 1..Len(w) : v[l] = w[j] /\ j = IF l < p THEN l ELSE l + 1 BY <1>3
    <3>2. j > i BY <1>1, <2>1, <2>2, <2>3, <3>1
    <3> QED BY <3>1, <3>2
  <2> QED BY <1>5, <2>2, <2>3 DEF LastPush
<1>6. ASSUME x.kind = "event", p = Len(w) PROVE LastPush(w, cur) <=> x.status = cur
  <2>1. \A j \in 1..Len(w) : ~(j > p) BY <1>1, <1>6
  <2>2. \A i \in 1..Len(w) : i # p => p > i BY <1>1, <1>6
  <2> QED BY <1>1, <1>6, <2>1, <2>2 DEF LastPush
<1>7. ASSUME x.kind = "event", ~Pushed(v), LastPush(w, cur) PROVE x.status = cur
  <2>1. \A l \in 1..Len(v) : v[l].kind # "event" BY <1>1, <1>7, ToSetIs DEF Pushed
  <2>2. \A j \in 1..Len(w) : j > p => w[j].kind # "event" BY <1>1, <1>2, <2>1
  <2> QED BY <1>1, <1>7, <2>2 DEF LastPush
<1> QED BY <1>4, <1>5, <1>6, <1>7

LEMMA AddsAppend ==
  ASSUME NEW w \in Seq(Frames), NEW x \in Frames
  PROVE  Adds(w, Append(w, x), Len(Append(w, x)), x)
<1> DEFINE v == Append(w, x)
<1>1. v \in Seq(Frames) /\ Len(v) = Len(w) + 1 /\ v[Len(w) + 1] = x /\ \A i \in 1..Len(w) : v[i] = w[i]
  BY AppendProperties
<1>2. Len(w) \in Nat OBVIOUS
<1> HIDE DEF v
<1>3. Adds(w, v, Len(v), x) BY <1>1, <1>2 DEF Adds
<1> QED BY <1>3 DEF v

LEMMA AddsInsert ==
  ASSUME NEW w \in Seq(Frames), NEW x \in Frames, NEW n \in 0..Len(w)
  PROVE  Adds(w, InsertAt(w, n + 1, x), n + 1, x)
<1> DEFINE v == InsertAt(w, n + 1, x)
<1>1. /\ v \in Seq(Frames) /\ Len(v) = Len(w) + 1
      /\ \A i \in 1..Len(v) : v[i] = IF i <= n THEN w[i] ELSE IF i = n + 1 THEN x ELSE w[i - 1]
  BY InsertDoes
<1>2. Len(w) \in Nat /\ n \in Nat /\ n <= Len(w) OBVIOUS
<1> HIDE DEF v
<1>3. n + 1 \in 1..Len(v) /\ v[n + 1] = x BY <1>1, <1>2
<1>4. \A i \in 1..Len(w) : IF i < n + 1 THEN v[i] = w[i] ELSE v[i + 1] = w[i]
  <2> SUFFICES ASSUME NEW i \in 1..Len(w) PROVE IF i < n + 1 THEN v[i] = w[i] ELSE v[i + 1] = w[i] OBVIOUS
  <2>1. CASE i < n + 1 BY <1>1, <1>2, <2>1
  <2>2. CASE ~(i < n + 1)
    <3>1. i + 1 \in 1..Len(v) /\ ~(i + 1 <= n) /\ i + 1 # n + 1 /\ (i + 1) - 1 = i BY <1>1, <1>2, <2>2
    <3>2. v[i + 1] = w[(i + 1) - 1] BY <1>1, <3>1
    <3> QED BY <2>2, <3>1, <3>2
  <2> QED BY <2>1, <2>2
<1>5. Adds(w, v, n + 1, x) BY <1>1, <1>3, <1>4 DEF Adds
<1> QED BY <1>5 DEF v

LEMMA AddsTail ==
  ASSUME NEW w \in Seq(Frames), w # <<>>
  PROVE  Head(w) \in Frames /\ Adds(Tail(w), w, 1, Head(w))
<1> DEFINE v == Tail(w)
<1>1. /\ v \in Seq(Frames) /\ Len(v) = Len(w) - 1 /\ \A i \in 1..Len(v) : v[i] = w[i + 1]
      /\ Head(w) \in Frames
  BY HeadTailProperties
<1>2. Len(w) \in Nat /\ Len(w) # 0 /\ Head(w) = w[1] OBVIOUS
<1> HIDE DEF v
<1>3. 1 \in 1..Len(w) /\ Len(w) = Len(v) + 1 BY <1>1, <1>2
<1>4. \A i \in 1..Len(v) : ~(i < 1) BY <1>1
<1>5. Adds(v, w, 1, Head(w)) BY <1>1, <1>2, <1>3, <1>4 DEF Adds
<1> QED BY <1>1, <1>5 DEF v

----------------------------------------------------------------------------
(* What the daemon does to what is on its way *)

\* The task moves on, and no subscription that matters speaks of it.
LEMMA FitMoves ==
  ASSUME NEW f, NEW w, NEW link, NEW live, NEW asks, NEW reads, NEW asks2, NEW reads2, NEW old, NEW new,
         Fit(f, w, link, live, asks, reads, old), asks2 => asks, reads2 => reads,
         old \in Over => new \in Over,
         new = old \/ ~live \/ link # "up" \/ new \in {"none", "gone"}
  PROVE  Fit(f, w, link, live, asks2, reads2, new)
<1>1. Sound(f, new \in Over) BY DEF Fit, Sound, Said
<1>2. Honest(f, w, new \in Over) BY DEF Fit, Honest
<1>3. link = "up" => SubFits(f, w, live, asks2) /\ ReadFits(f, w, reads2) BY DEF Fit, SubFits, ReadFits
<1> QED BY <1>1, <1>2, <1>3 DEF Fit

\* A push of where it stands now
LEMMA FitPush ==
  ASSUME NEW f, NEW w, NEW link, NEW live, NEW asks, NEW reads, NEW asks2, NEW reads2, NEW old, NEW new \in Statuses,
         Fit(f, w, link, live, asks, reads, old), asks2 => asks, reads2 => reads,
         old \notin Over, live
  PROVE  Fit(f, Append(w, [kind |-> "event", status |-> new]), link, live, asks2, reads2, new)
<1> DEFINE x == [kind |-> "event", status |-> new]
<1> DEFINE v == Append(w, x)
<1>1. x \in Frames /\ x.kind = "event" /\ x.status = new BY DEF Frames, Words
<1>2. w \in Seq(Frames) BY DEF Fit
<1> HIDE DEF x
<1>3. Adds(w, v, Len(v), x) BY <1>1, <1>2, AddsAppend
<1> HIDE DEF v
<1>4. v \in Seq(Frames) BY <1>3 DEF Adds
<1>5. ToSet(v) = ToSet(w) \cup {x} BY <1>3, AddsSays
<1>6. Pushed(v) /\ \A kind : Due(f, v, kind) = Due(f, w, kind) \cup {y \in {x} : y.kind = kind} BY <1>1, <1>3, AddsPushed
<1>7. Single(w) => Single(v) BY <1>1, <1>3, AddsSingle
<1>8. LastPush(v, new) BY <1>1, <1>3, AddsLast
<1>9. old \notin Over /\ Sound(f, old \in Over) /\ Honest(f, w, old \in Over) /\ LinkFits(f, w, link, live) BY DEF Fit
<1>10. Sound(f, new \in Over) BY <1>9 DEF Sound, Said
<1>11. Honest(f, v, new \in Over) BY <1>1, <1>5, <1>9 DEF Honest, Over
<1>12. LinkFits(f, v, link, live) BY <1>9 DEF LinkFits
<1>13. Due(f, v, "subscribe") = Due(f, w, "subscribe") /\ Due(f, v, "task_get") = Due(f, w, "task_get") BY <1>1, <1>6
<1>14. ASSUME link = "up" PROVE SubFits(f, v, live, asks2) /\ ReadFits(f, v, reads2)
  <2>1. SubFits(f, w, live, asks) /\ ReadFits(f, w, reads) BY <1>14 DEF Fit
  <2>2. SubFits(f, v, live, asks2) BY <2>1 DEF SubFits
  <2>3. ReadFits(f, v, reads2) BY <2>1, <1>1, <1>5, <1>7, <1>13 DEF ReadFits
  <2> QED BY <2>2, <2>3
<1>15. LastWord(f, v, new) BY <1>6, <1>8 DEF LastWord
<1>16. Fit(f, v, link, live, asks2, reads2, new) BY <1>4, <1>10, <1>11, <1>12, <1>14, <1>15 DEF Fit
<1> QED BY <1>16 DEF v, x

LEMMA NoPushIsLast ==
  ASSUME NEW w \in Seq(Frames), ~Pushed(w), NEW cur
  PROVE  LastPush(w, cur)
BY ToSetIs DEF Pushed, LastPush

\* A reply that says where the task stands, or that it is gone
LEMMA FitReply ==
  ASSUME NEW f, NEW w, NEW live, NEW live2, NEW asks, NEW reads, NEW asks2, NEW reads2, NEW cur,
         NEW n \in 0..Len(w), NEW x \in Frames, x.status = cur,
         Fit(f, w, "up", live, asks, reads, cur),
         \/ /\ asks /\ ~asks2 /\ (reads2 => reads) /\ x.kind \in {"subscribe", "gone"}
            /\ live2 <=> live \/ x.kind = "subscribe"
         \/ /\ reads /\ ~reads2 /\ (asks2 => asks) /\ x.kind \in {"task_get", "gone"}
            /\ live2 <=> live
  PROVE  Fit(f, InsertAt(w, n + 1, x), "up", live2, asks2, reads2, cur)
<1> DEFINE v == InsertAt(w, n + 1, x)
<1>1. /\ w \in Seq(Frames) /\ Sound(f, cur \in Over) /\ Honest(f, w, cur \in Over) /\ LinkFits(f, w, "up", live)
      /\ SubFits(f, w, live, asks) /\ ReadFits(f, w, reads)
      /\ live /\ cur \notin {"none", "gone"} => LastWord(f, w, cur)
  BY DEF Fit
<1>2. x.kind # "event" OBVIOUS
<1>3. Adds(w, v, n + 1, x) BY <1>1, AddsInsert
<1> HIDE DEF v
<1>4. v \in Seq(Frames) BY <1>3 DEF Adds
<1>5. ToSet(v) = ToSet(w) \cup {x} BY <1>3, AddsSays
<1>6. (Pushed(v) <=> Pushed(w)) /\ \A kind : Due(f, v, kind) = Due(f, w, kind) \cup {y \in {x} : y.kind = kind}
  BY <1>2, <1>3, AddsPushed
<1>7. Single(w) /\ (x.kind = "task_get" => \A y \in ToSet(w) : y.kind # "task_get") => Single(v)
  BY <1>3, AddsSingle
<1>8. LastPush(w, cur) => LastPush(v, cur) BY <1>2, <1>3, AddsLast
<1>9. Honest(f, v, cur \in Over)
  <2>1. cur = "completed" => cur \in Over BY DEF Over
  <2> QED BY <1>1, <1>5, <2>1 DEF Honest
<1>10. LinkFits(f, v, "up", live2) BY <1>1 DEF LinkFits
<1>11. CASE /\ asks /\ ~asks2 /\ (reads2 => reads) /\ x.kind \in {"subscribe", "gone"}
            /\ live2 <=> live \/ x.kind = "subscribe"
  <2>1. Due(f, v, "task_get") = Due(f, w, "task_get") BY <1>6, <1>11
  <2>2. /\ ~live /\ f.sub \in {"asking", "restoring"} /\ ~Pushed(w) /\ f.early = <<>> /\ Due(f, w, "subscribe") = {}
        /\ f.sub = "asking" => "subscribe" \in f.quiet
    BY <1>1, <1>11 DEF SubFits
  <2>3. \A y \in Due(f, v, "subscribe") : y = x /\ x.kind = "subscribe" BY <1>6, <2>2
  <2>4. ReadFits(f, v, reads2) BY <1>1, <1>5, <1>7, <1>11, <2>1 DEF ReadFits
  <2>5. SubFits(f, v, live2, asks2) BY <1>6, <1>11, <2>2, <2>3 DEF SubFits
  <2>6. LastPush(v, cur) BY <1>1, <1>8, <2>2, NoPushIsLast
  <2>7. Heard(f, v, cur) BY <2>2, <2>3 DEF Heard
  <2> QED BY <1>1, <1>4, <1>9, <1>10, <2>4, <2>5, <2>6, <2>7 DEF Fit, LastWord, v
<1>12. CASE /\ reads /\ ~reads2 /\ (asks2 => asks) /\ x.kind \in {"task_get", "gone"}
            /\ live2 <=> live
  <2>1. Due(f, v, "subscribe") = Due(f, w, "subscribe") BY <1>6, <1>12
  <2>2. "task_get" \in f.asked /\ Due(f, w, "task_get") = {} BY <1>1, <1>12 DEF ReadFits
  <2>3. \A y \in f.got \cup ToSet(w) : y.kind # "task_get" BY <2>2 DEF Due
  <2>4. \A y \in Due(f, v, "task_get") : y = x BY <1>6, <2>2
  <2>5. ReadFits(f, v, reads2) BY <1>1, <1>5, <1>7, <1>12, <2>2, <2>3 DEF ReadFits
  <2>6. SubFits(f, v, live2, asks2) BY <1>1, <1>6, <1>12, <2>1 DEF SubFits
  <2>7. LastWord(f, w, cur) => LastWord(f, v, cur) BY <1>6, <1>8, <2>1, <2>4 DEF LastWord, Heard
  <2> QED BY <1>1, <1>4, <1>9, <1>10, <1>12, <2>5, <2>6, <2>7 DEF Fit, v
<1> QED BY <1>11, <1>12

----------------------------------------------------------------------------
(* What the follower does *)

\* A follower that stopped, with its connection ended or down
LEMMA FitStopped ==
  ASSUME NEW r, NEW link, NEW live, NEW asks, NEW reads, NEW cur,
         Sound(r, cur \in Over), ~r.on, link = "ended" \/ (link = "down" /\ ~live)
  PROVE  Fit(r, <<>>, link, live, asks, reads, cur)
<1> DEFINE w == <<>>
<1>1. w \in Seq(Frames) /\ w = <<>> OBVIOUS
<1>2. ToSet(w) = {} BY <1>1, ToSetIs
<1> HIDE DEF w
<1>3. Rests(r) BY DEF Sound
<1>4. Honest(r, w, cur \in Over) BY <1>2, <1>3 DEF Honest, Rests
<1>5. LinkFits(r, w, link, live) BY <1>1, <1>3 DEF LinkFits, Rests
<1>6. Fit(r, w, link, live, asks, reads, cur) BY <1>1, <1>4, <1>5 DEF Fit
<1> QED BY <1>6 DEF w

\* A request leaves.
LEMMA FitAsks ==
  ASSUME NEW f, NEW w, NEW live, NEW asks, NEW reads, NEW cur, Fit(f, w, "up", live, asks, reads, cur),
         NEW asks2, NEW reads2, NEW r
  PROVE  /\ f.sub = "none" /\ r = Asks([f EXCEPT !.sub = "asking"], "subscribe") /\ (reads2 => reads)
              => Fit(r, w, "up", live, asks2, reads2, cur)
         /\ "task_get" \notin f.asked /\ f.sub # "restoring" /\ r = Asks(f, "task_get") /\ (asks2 => asks)
              => Fit(r, w, "up", live, asks2, reads2, cur)
<1>1. /\ w \in Seq(Frames) /\ Sound(f, cur \in Over) /\ Honest(f, w, cur \in Over) /\ LinkFits(f, w, "up", live)
      /\ SubFits(f, w, live, asks) /\ ReadFits(f, w, reads)
      /\ live /\ cur \notin {"none", "gone"} => LastWord(f, w, cur)
      /\ f \in Followers
  BY DEF Fit, Sound
<1>2. ASSUME f.sub = "none", r = Asks([f EXCEPT !.sub = "asking"], "subscribe"), reads2 => reads
      PROVE  Fit(r, w, "up", live, asks2, reads2, cur)
  <2>1. /\ r \in Followers /\ r.on = f.on /\ r.sub = "asking" /\ r.early = f.early /\ r.got = f.got /\ r.told = f.told
        /\ r.asked = f.asked \cup {"subscribe"} /\ r.quiet = f.quiet \cup {"subscribe"}
    BY <1>1, <1>2 DEF Asks, Followers, Subs, Asked
  <2>2. ~live /\ f.on BY <1>1, <1>2 DEF SubFits, LinkFits
  <2>3. Sound(r, cur \in Over) BY <1>1, <2>1, <2>2 DEF Sound, Rests, Said
  <2>4. Honest(r, w, cur \in Over) /\ LinkFits(r, w, "up", live) BY <1>1, <2>1 DEF Honest, LinkFits
  <2>5. \A kind : Due(r, w, kind) = Due(f, w, kind) BY <2>1 DEF Due
  <2>6. SubFits(r, w, live, asks2) BY <1>1, <2>1, <2>2, <2>5 DEF SubFits
  <2>7. ReadFits(r, w, reads2) BY <1>1, <1>2, <2>1, <2>5 DEF ReadFits
  <2> QED BY <1>1, <2>2, <2>3, <2>4, <2>6, <2>7 DEF Fit
<1>3. ASSUME "task_get" \notin f.asked, f.sub # "restoring", r = Asks(f, "task_get"), asks2 => asks
      PROVE  Fit(r, w, "up", live, asks2, reads2, cur)
  <2>1. /\ r \in Followers /\ r.on = f.on /\ r.sub = f.sub /\ r.early = f.early /\ r.got = f.got /\ r.told = f.told
        /\ r.asked = f.asked \cup {"task_get"} /\ r.quiet = f.quiet \cup {"task_get"} /\ r.status = f.status
    BY <1>1, <1>3 DEF Asks, Followers, Asked
  <2>2. f.on /\ Due(f, w, "task_get") = {} BY <1>1, <1>3 DEF LinkFits, ReadFits
  <2>3. Sound(r, cur \in Over) BY <1>1, <2>1, <2>2 DEF Sound, Rests, Said
  <2>4. Honest(r, w, cur \in Over) /\ LinkFits(r, w, "up", live) BY <1>1, <2>1 DEF Honest, LinkFits
  <2>5. \A kind : Due(r, w, kind) = Due(f, w, kind) BY <2>1 DEF Due
  <2>6. SubFits(r, w, live, asks2) BY <1>1, <1>3, <2>1, <2>5 DEF SubFits
  <2>7. ReadFits(r, w, reads2) BY <1>1, <2>1, <2>2, <2>5 DEF ReadFits
  <2>8. LastWord(f, w, cur) => LastWord(r, w, cur) BY <2>1, <2>2, <2>5 DEF LastWord, Heard
  <2> QED BY <1>1, <2>3, <2>4, <2>6, <2>7, <2>8 DEF Fit
<1> QED BY <1>2, <1>3

\* Its connection is made.
LEMMA FitConnects ==
  ASSUME NEW f, NEW w, NEW live, NEW asks, NEW reads, NEW cur, Fit(f, w, "down", live, asks, reads, cur), f.on,
         NEW asks2, NEW reads2, ~reads2, NEW r,
         IF f.sub = "live" THEN r = Asks([f EXCEPT !.sub = "restoring"], "subscribe") ELSE r = f /\ ~asks2
  PROVE  Fit(r, w, "up", live, asks2, reads2, cur)
<1>1. /\ w \in Seq(Frames) /\ Sound(f, cur \in Over) /\ Honest(f, w, cur \in Over) /\ f \in Followers
      /\ w = <<>> /\ ~live /\ f.early = <<>> /\ f.got = {} /\ f.quiet = {} /\ f.sub \in {"none", "live", "lost"}
  BY DEF Fit, Sound, LinkFits
<1>2. /\ r \in Followers /\ r.on = f.on /\ r.early = f.early /\ r.got = f.got /\ r.told = f.told
      /\ IF f.sub = "live" THEN r.sub = "restoring" ELSE r = f /\ ~asks2
  <2>1. CASE f.sub = "live"
    <3>1. r = Asks([f EXCEPT !.sub = "restoring"], "subscribe") BY <2>1
    <3>2. /\ r \in Followers /\ r.on = f.on /\ r.early = f.early /\ r.got = f.got /\ r.told = f.told
          /\ r.sub = "restoring"
      BY ONLY <1>1, <3>1 DEF Asks, Followers, Subs, Asked
    <3> QED BY <2>1, <3>2
  <2>2. CASE f.sub # "live" BY <1>1, <2>2
  <2> QED BY <2>1, <2>2
<1>3. ToSet(w) = {} BY <1>1, ToSetIs
<1>4. ~Pushed(w) /\ \A kind : Due(r, w, kind) = {} BY <1>1, <1>2, <1>3 DEF Pushed, Due
<1>5. Sound(r, cur \in Over) BY <1>1, <1>2 DEF Sound, Rests, Said
<1>6. Honest(r, w, cur \in Over) /\ LinkFits(r, w, "up", live) BY <1>1, <1>2 DEF Honest, LinkFits
<1>7. SubFits(r, w, live, asks2) BY <1>1, <1>2, <1>4 DEF SubFits
<1>8. Single(w) BY <1>1 DEF Single
<1>9. ReadFits(r, w, reads2) BY <1>1, <1>2, <1>3, <1>4, <1>8 DEF ReadFits
<1> QED BY <1>1, <1>5, <1>6, <1>7, <1>9 DEF Fit

\* Its connection is lost.
LEMMA FitDisconnects ==
  ASSUME NEW f, NEW w, NEW link, NEW live, NEW asks, NEW reads, NEW cur, Fit(f, w, link, live, asks, reads, cur),
         f.got = {}, NEW live2, NEW asks2, NEW reads2, ~live2
  PROVE  Fit(Disconnected(f), <<>>, "down", live2, asks2, reads2, cur)
<1> DEFINE none == <<>>
<1> DEFINE sub == CASE f.sub = "asking" -> "lost" [] f.sub = "restoring" -> "live" [] OTHER -> f.sub
<1> DEFINE r == [f EXCEPT !.asked = {}, !.quiet = {}, !.early = none, !.sub = sub]
<1>1. Disconnected(f) = r BY DEF Disconnected
<1>2. /\ Sound(f, cur \in Over) /\ f \in Followers BY DEF Fit, Sound
<1>3. f.sub \in Subs BY <1>2 DEF Followers
<1>4. sub \in {"none", "live", "lost"} /\ sub \in Subs /\ (f.sub = "none" => sub = "none") BY <1>3 DEF Subs
<1>5. none \in Seq(Statuses) /\ none \in Seq(Frames) /\ none = <<>> /\ Len(none) = 0 OBVIOUS
<1> HIDE DEF none, sub
<1>6. /\ r \in Followers /\ r.on = f.on /\ r.sub = sub /\ r.quiet = {} /\ r.early = none /\ r.got = f.got /\ r.told = f.told
  BY <1>2, <1>4, <1>5 DEF Followers
<1> HIDE DEF r
<1>7. Sound(r, cur \in Over) BY <1>2, <1>4, <1>5, <1>6 DEF Sound, Rests, Said
<1>8. ToSet(none) = {} BY <1>5, ToSetIs
<1>9. Honest(r, none, cur \in Over) BY <1>5, <1>6, <1>8 DEF Honest
<1>10. LinkFits(r, none, "down", live2) BY <1>4, <1>5, <1>6 DEF LinkFits
<1>11. Fit(r, none, "down", live2, asks2, reads2, cur) BY <1>5, <1>7, <1>9, <1>10 DEF Fit
<1> QED BY <1>1, <1>5, <1>11

\* There is no daemon to subscribe with.
LEMMA FitLost ==
  ASSUME NEW f, NEW w, NEW live, NEW asks, NEW reads, NEW cur, Fit(f, w, "down", live, asks, reads, cur), f.on,
         NEW asks2, NEW reads2
  PROVE  LET r == [f EXCEPT !.sub = "lost"] IN r.on /\ Fit(r, w, "down", live, asks2, reads2, cur)
<1> DEFINE r == [f EXCEPT !.sub = "lost"]
<1>1. /\ w \in Seq(Frames) /\ Sound(f, cur \in Over) /\ Honest(f, w, cur \in Over) /\ f \in Followers
      /\ LinkFits(f, w, "down", live)
  BY DEF Fit, Sound
<1>2. /\ r \in Followers /\ r.on /\ r.sub = "lost" /\ r.quiet = f.quiet /\ r.early = f.early /\ r.got = f.got /\ r.told = f.told
  BY <1>1 DEF Followers, Subs
<1> HIDE DEF r
<1>3. Sound(r, cur \in Over) BY <1>1, <1>2 DEF Sound, Rests, Said
<1>4. Honest(r, w, cur \in Over) /\ LinkFits(r, w, "down", live) BY <1>1, <1>2 DEF Honest, LinkFits
<1>5. Fit(r, w, "down", live, asks2, reads2, cur) BY <1>1, <1>3, <1>4 DEF Fit
<1> QED BY <1>2, <1>5 DEF r

\* A frame is read.
LEMMA FitReads ==
  ASSUME NEW f, NEW w, NEW live, NEW asks, NEW reads, NEW cur \in Statuses, Fit(f, w, "up", live, asks, reads, cur),
         w # <<>>, NEW r, NEW x, x = Head(w),
         r = CASE x.kind # "event" -> [f EXCEPT !.got = @ \cup {x}]
               [] x.kind = "event" /\ f.sub = "live" -> OnEvent(f, x.status)
               [] x.kind = "event" /\ f.sub \in {"asking", "restoring"} -> [f EXCEPT !.early = Append(@, x.status)]
               [] OTHER -> f
  PROVE  Fit(r, IF r.on THEN Tail(w) ELSE <<>>, IF r.on THEN "up" ELSE "ended", live, asks, reads, cur)
<1> DEFINE v == Tail(w)
<1> DEFINE over == cur \in Over
<1>1. /\ w \in Seq(Frames) /\ Sound(f, over) /\ Honest(f, w, over) /\ LinkFits(f, w, "up", live)
      /\ SubFits(f, w, live, asks) /\ ReadFits(f, w, reads)
      /\ live /\ cur \notin {"none", "gone"} => LastWord(f, w, cur)
      /\ f \in Followers /\ f.on /\ over \in BOOLEAN
  BY DEF Fit, Sound, LinkFits
<1>2. x \in Frames /\ Adds(v, w, 1, x) BY <1>1, AddsTail
<1> HIDE DEF v
<1>3. v \in Seq(Frames) BY <1>2 DEF Adds
<1>4. ToSet(w) = ToSet(v) \cup {x} BY <1>2, AddsSays
<1>5. (Pushed(w) <=> x.kind = "event" \/ Pushed(v)) /\ \A g, kind : Due(g, w, kind) = Due(g, v, kind) \cup {y \in {x} : y.kind = kind}
  BY <1>2, AddsPushed
<1>6. Single(v) /\ (x.kind = "task_get" => \A y \in ToSet(v) : y.kind # "task_get")
  BY <1>1, <1>2, AddsSingle DEF ReadFits
<1>7. /\ LastPush(w, cur) => LastPush(v, cur)
      /\ x.kind = "event" /\ ~Pushed(v) => (LastPush(w, cur) => x.status = cur)
  BY <1>2, AddsLast
<1>8. x.status \in Statuses /\ (x.status = "completed" => over) BY <1>1, <1>2, <1>4 DEF Frames, Honest
<1> HIDE DEF over
<1> DEFINE s == OnEvent(f, x.status)
<1>15. Sound(s, over) /\ Hears(f, s) /\ s.quiet = {} /\ (s.on => s.status = x.status)
  BY ONLY <1>1, <1>8, OnEventDoes
<1> HIDE DEF s
<1>16. x.kind = "event" => \A g : Due(g, w, "subscribe") = Due(g, v, "subscribe") /\ Due(g, w, "task_get") = Due(g, v, "task_get")
  BY ONLY <1>4 DEF Due
<1>9. SUFFICES r.on => Fit(r, v, "up", live, asks, reads, cur)
  <2>1. Sound(r, over)
    <3>1. CASE x.kind # "event"
      <4>1. r = [f EXCEPT !.got = @ \cup {x}] BY <3>1
      <4>3. x \in Reports BY <1>2, <3>1 DEF Reports
      <4>2. /\ r \in Followers /\ r.on = f.on /\ r.told = f.told
        BY ONLY <1>1, <4>1, <4>3 DEF Followers
      <4> QED BY ONLY <1>1, <4>2 DEF Sound, Rests, Said
    <3>2. CASE x.kind = "event" /\ f.sub = "live"
      <4>1. r = s BY <3>2 DEF s
      <4> QED BY <1>15, <4>1
    <3>3. CASE x.kind = "event" /\ f.sub \in {"asking", "restoring"}
      <4> DEFINE early == Append(f.early, x.status)
      <4>1. r = [f EXCEPT !.early = early] BY <3>3
      <4>2. early \in Seq(Statuses) BY <1>1, <1>8, AppendProperties DEF Followers
      <4> HIDE DEF early
      <4> QED BY ONLY <1>1, <4>1, <4>2 DEF Sound, Followers, Rests, Said
    <3>4. CASE x.kind = "event" /\ f.sub \notin {"live", "asking", "restoring"}
      <4>1. r = f BY <3>4
      <4> QED BY <1>1, <4>1
    <3> QED BY <3>1, <3>2, <3>3, <3>4
  <2>2. ~r.on => Fit(r, <<>>, "ended", live, asks, reads, cur) BY <2>1, FitStopped DEF over
  <2> QED BY <1>9, <2>2 DEF v
<1>10. CASE x.kind # "event"
  <2>1. r = [f EXCEPT !.got = @ \cup {x}] BY <1>10
  <2>9. x \in Reports BY <1>2, <1>10 DEF Reports
  <2>2. /\ r \in Followers /\ r.on /\ r.sub = f.sub /\ r.early = f.early /\ r.got = f.got \cup {x} /\ r.told = f.told
        /\ r.asked = f.asked /\ r.quiet = f.quiet /\ r.status = f.status
    BY ONLY <1>1, <2>1, <2>9 DEF Followers
  <2>3. \A kind : Due(r, v, kind) = Due(f, w, kind) BY <1>4, <2>2 DEF Due
  <2>4. Sound(r, over) /\ LinkFits(r, v, "up", live) BY <1>1, <2>2, ZenonT(40) DEF Sound, Rests, Said, LinkFits
  <2>5. Honest(r, v, over) BY <1>1, <1>4, <2>2 DEF Honest
  <2>6. SubFits(r, v, live, asks) BY <1>1, <1>5, <1>10, <2>2, <2>3 DEF SubFits
  <2>7. ReadFits(r, v, reads)
    <3>1. x.kind = "task_get" => \A y \in f.got : y.kind # "task_get" BY <1>1, <1>4 DEF ReadFits
    <3>2. \A y \in r.got, z \in ToSet(v) : y.kind = "task_get" => z.kind # "task_get" BY <1>1, <1>4, <1>6, <2>2 DEF ReadFits
    <3>3. \A y, z \in r.got : y.kind = "task_get" /\ z.kind = "task_get" => y = z BY <1>1, <2>2, <3>1 DEF ReadFits
    <3> QED BY <1>1, <1>6, <2>2, <2>3, <3>2, <3>3 DEF ReadFits
  <2>8. LastWord(f, w, cur) => LastWord(r, v, cur) BY <1>5, <1>7, <1>10, <2>2, <2>3 DEF LastWord, Heard
  <2> QED BY <1>1, <1>3, <2>4, <2>5, <2>6, <2>7, <2>8 DEF Fit, over
<1>11. CASE x.kind = "event" /\ f.sub = "live"
  <2>1. r = s BY <1>11 DEF s
  <2>2. Sound(r, over) /\ Hears(f, r) /\ r.quiet = {} /\ (r.on => r.status = x.status) BY <1>15, <2>1
  <2> SUFFICES ASSUME r.on PROVE Fit(r, v, "up", live, asks, reads, cur) OBVIOUS
  <2>3. r.sub = "live" /\ r.early = f.early /\ r.got = f.got /\ r.asked = f.asked BY <1>11, <2>2 DEF Hears
  <2>4. \A kind : Due(r, v, kind) = Due(f, v, kind) BY <2>3 DEF Due
  <2>5. Due(r, v, "subscribe") = Due(f, w, "subscribe") /\ Due(r, v, "task_get") = Due(f, w, "task_get")
    BY <1>11, <1>16, <2>4
  <2>6. Honest(r, v, over) BY <1>1, <1>4, <2>3 DEF Honest
  <2>7. LinkFits(r, v, "up", live) BY DEF LinkFits
  <2>8. SubFits(r, v, live, asks) BY <1>1, <1>11, <2>2, <2>3, <2>5 DEF SubFits
  <2>9. ReadFits(r, v, reads)
    <3>1. ToSet(v) \subseteq ToSet(w) BY <1>4
    <3> QED BY ONLY <1>1, <1>6, <2>3, <2>5, <3>1 DEF ReadFits
  <2>10. LastWord(f, w, cur) => LastWord(r, v, cur) BY <1>7, <1>11, <2>2, <2>3 DEF LastWord, Heard
  <2> QED BY <1>1, <1>3, <2>2, <2>6, <2>7, <2>8, <2>9, <2>10 DEF Fit, over
<1>12. CASE x.kind = "event" /\ f.sub \in {"asking", "restoring"}
  <2> DEFINE early == Append(f.early, x.status)
  <2>1. r = [f EXCEPT !.early = early] BY <1>12
  <2>2. /\ early \in Seq(Statuses) /\ early # <<>> /\ Len(early) = Len(f.early) + 1 /\ early[Len(f.early) + 1] = x.status
        /\ \A i \in 1..Len(f.early) : early[i] = f.early[i]
    BY <1>1, <1>8, AppendProperties DEF Followers
  <2>3. Len(f.early) \in Nat BY <1>1 DEF Followers
  <2> HIDE DEF early
  <2>4. /\ r \in Followers /\ r.on /\ r.sub = f.sub /\ r.early = early /\ r.got = f.got /\ r.told = f.told
        /\ r.asked = f.asked /\ r.quiet = f.quiet /\ r.status = f.status
    BY <1>1, <2>1, <2>2 DEF Followers
  <2>5. \A kind : Due(r, v, kind) = Due(f, v, kind) BY <2>4 DEF Due
  <2>6. Due(r, v, "subscribe") = Due(f, w, "subscribe") /\ Due(r, v, "task_get") = Due(f, w, "task_get")
    BY <1>12, <1>16, <2>5
  <2>7. live BY <1>1, <1>5, <1>12 DEF SubFits
  <2>8. Sound(r, over) /\ LinkFits(r, v, "up", live) BY <1>1, <2>4, ZenonT(40) DEF Sound, Rests, Said, LinkFits
  <2>9. Honest(r, v, over)
    <3>1. \A i \in 1..Len(early) : early[i] = "completed" => over BY <1>1, <1>8, <2>2, <2>3 DEF Honest
    <3> QED BY <1>1, <1>4, <2>4, <3>1 DEF Honest
  <2>10. SubFits(r, v, live, asks) BY <1>1, <1>12, <2>4, <2>6, <2>7 DEF SubFits
  <2>11. ReadFits(r, v, reads) BY <1>1, <1>4, <1>6, <2>4, <2>6 DEF ReadFits
  <2>12. LastWord(f, w, cur) => LastWord(r, v, cur) BY <1>7, <1>12, <2>2, <2>4 DEF LastWord, Heard
  <2> QED BY <1>1, <1>3, <2>8, <2>9, <2>10, <2>11, <2>12 DEF Fit, over
<1>13. CASE x.kind = "event" /\ f.sub \in {"none", "lost"} BY <1>1, <1>5, <1>13 DEF SubFits
<1>14. f.sub \in Subs BY <1>1 DEF Followers
<1> QED BY <1>10, <1>11, <1>12, <1>13, <1>14 DEF Subs

\* A reply is taken, to go on with.
Takes(f, x) == [f EXCEPT !.got = @ \ {x}, !.asked = @ \ {x.kind}]

LEMMA FitTakes ==
  ASSUME NEW f, NEW w, NEW live, NEW asks, NEW reads, NEW cur, Fit(f, w, "up", live, asks, reads, cur),
         NEW x \in f.got, NEW g, g = Takes(f, x)
  PROVE  /\ Fit(g, w, "up", live, asks, reads, cur)
         /\ g.sub = f.sub /\ g.early = f.early /\ g.quiet = f.quiet /\ g.status = f.status /\ g.on
         /\ x.status \in Statuses /\ (x.status = "completed" => cur \in Over) /\ x.kind \in {"subscribe", "task_get", "gone"}
         /\ x \in Due(f, w, x.kind)
<1>1. /\ w \in Seq(Frames) /\ Sound(f, cur \in Over) /\ Honest(f, w, cur \in Over) /\ LinkFits(f, w, "up", live)
      /\ SubFits(f, w, live, asks) /\ ReadFits(f, w, reads)
      /\ live /\ cur \notin {"none", "gone"} => LastWord(f, w, cur)
      /\ f \in Followers /\ f.on
  BY DEF Fit, Sound, LinkFits
<1>2. /\ g \in Followers /\ g.on /\ g.sub = f.sub /\ g.early = f.early /\ g.quiet = f.quiet /\ g.status = f.status
      /\ g.told = f.told /\ g.got = f.got \ {x} /\ g.asked = f.asked \ {x.kind}
  BY <1>1 DEF Followers, Takes
<1>3. x.kind \in {"subscribe", "task_get", "gone"} /\ x.status \in Statuses
  <2>1. x \in Reports BY <1>1 DEF Followers
  <2> QED BY <2>1 DEF Reports, Frames, Words
<1>4. x.status = "completed" => cur \in Over BY <1>1 DEF Honest
<1>5. x \in Due(f, w, x.kind) /\ \A kind : Due(g, w, kind) \subseteq Due(f, w, kind) BY <1>2 DEF Due
<1>6. Sound(g, cur \in Over) BY <1>1, <1>2 DEF Sound, Rests, Said
<1>7. Honest(g, w, cur \in Over) BY <1>1, <1>2 DEF Honest
<1>8. LinkFits(g, w, "up", live) BY <1>2 DEF LinkFits
<1>9. SubFits(g, w, live, asks) BY <1>1, <1>2, <1>5 DEF SubFits
<1>10. ReadFits(g, w, reads)
  <2>1. CASE x.kind = "task_get"
    <3>1. ~reads BY <1>1, <1>5, <2>1 DEF ReadFits
    <3>2. Due(g, w, "task_get") = {} BY <1>1, <1>2, <2>1 DEF ReadFits, Due
    <3> QED BY <1>1, <1>2, <3>1, <3>2 DEF ReadFits
  <2>2. CASE x.kind # "task_get" BY <1>1, <1>2, <1>5, <2>2 DEF ReadFits
  <2> QED BY <2>1, <2>2
<1>11. LastWord(f, w, cur) => LastWord(g, w, cur) BY <1>2, <1>5 DEF LastWord, Heard
<1> QED BY <1>1, <1>2, <1>3, <1>4, <1>5, <1>6, <1>7, <1>8, <1>9, <1>10, <1>11 DEF Fit

\* The subscription is known, and what was read of it is heard.
LEMMA FitJoins ==
  ASSUME NEW g, NEW w, NEW live, NEW asks, NEW reads, NEW cur, Fit(g, w, "up", live, asks, reads, cur), live, ~asks,
         NEW r, Sound(r, cur \in Over), r.on,
         r.sub = "live", r.early = <<>>, r.got = g.got, r.asked = g.asked, r.quiet = {},
         cur \notin {"none", "gone"} /\ ~Pushed(w) => r.status = cur
  PROVE  Fit(r, w, "up", live, asks, reads, cur)
<1>1. /\ w \in Seq(Frames) /\ Honest(g, w, cur \in Over)
      /\ ReadFits(g, w, reads) /\ (cur \notin {"none", "gone"} => LastPush(w, cur))
  BY DEF Fit, LastWord
<1>2. \A kind : Due(r, w, kind) = Due(g, w, kind) BY DEF Due
<1>3. r.early = <<>> /\ Len(r.early) = 0 OBVIOUS
<1>4. Honest(r, w, cur \in Over) BY <1>1, <1>3 DEF Honest
<1>5. LinkFits(r, w, "up", live) BY DEF LinkFits
<1>6. SubFits(r, w, live, asks) BY <1>3 DEF SubFits
<1>7. ReadFits(r, w, reads) BY <1>1, <1>2 DEF ReadFits
<1>8. cur \notin {"none", "gone"} => LastWord(r, w, cur) BY <1>1 DEF LastWord, Heard
<1> QED BY <1>1, <1>4, <1>5, <1>6, <1>7, <1>8 DEF Fit

\* An await goes on.
LEMMA FitGoesOn ==
  ASSUME NEW f, NEW w, NEW live, NEW asks, NEW reads, NEW cur \in Statuses, Fit(f, w, "up", live, asks, reads, cur),
         NEW x \in f.got, NEW g, NEW r,
         g = Takes(f, x),
         r = CASE x.kind = "gone" -> Stop(g)
               [] x.kind = "task_get" -> ReadBack(g, x.status)
               [] x.kind = "subscribe" /\ g.sub = "restoring" -> Restored(g, x.status)
               [] OTHER -> Subscribed(g, x.status)
  PROVE  Fit(r, IF r.on THEN w ELSE <<>>, IF r.on THEN "up" ELSE "ended", live, asks, reads, cur)
<1> DEFINE over == cur \in Over
<1> DEFINE status == x.status
<1>1. /\ Fit(g, w, "up", live, asks, reads, cur)
      /\ g.sub = f.sub /\ g.early = f.early /\ g.quiet = f.quiet /\ g.status = f.status /\ g.on
      /\ status \in Statuses /\ (status = "completed" => over) /\ x.kind \in {"subscribe", "task_get", "gone"}
      /\ x \in Due(f, w, x.kind)
  BY ONLY Fit(f, w, "up", live, asks, reads, cur), x \in f.got,
          g = Takes(f, x), FitTakes DEF status, over
<1>2. /\ SubFits(f, w, live, asks) /\ (live /\ cur \notin {"none", "gone"} => LastWord(f, w, cur)) BY DEF Fit
<1>3. /\ w \in Seq(Frames) /\ Sound(g, over) /\ g \in Followers /\ over \in BOOLEAN /\ Honest(g, w, over)
      /\ SubFits(g, w, live, asks) /\ ReadFits(g, w, reads)
      /\ live /\ cur \notin {"none", "gone"} => LastWord(g, w, cur)
  BY <1>1 DEF Fit, Sound
<1> HIDE DEF status, over
<1>4. SUFFICES Sound(r, over) /\ (r.on => Fit(r, w, "up", live, asks, reads, cur))
  BY FitStopped DEF over
<1>5. CASE x.kind = "gone"
  <2>1. r = Stop(g) BY <1>5
  <2>2. r \in Followers /\ ~r.on /\ Rests(r) /\ r.told = g.told BY ONLY <1>3, <2>1, StopDoes
  <2> QED BY <1>1, <1>3, <2>2 DEF Sound, Said
<1>6. CASE x.kind = "task_get"
  <2>1. r = ReadBack(g, status) BY <1>6 DEF status
  <2>2. CASE "task_get" \notin g.quiet
    <3>1. r = g BY <2>1, <2>2 DEF ReadBack
    <3> QED BY <1>1, <1>3, <3>1
  <2>3. CASE "task_get" \in g.quiet
    <3> DEFINE h == [g EXCEPT !.quiet = @ \ {"task_get"}]
    <3>1. r = Observe(h, status) BY <2>1, <2>3 DEF ReadBack
    <3>2. /\ h \in Followers /\ h.on = g.on /\ h.sub = g.sub /\ h.early = g.early /\ h.got = g.got /\ h.told = g.told
          /\ h.asked = g.asked /\ h.quiet = g.quiet \ {"task_get"}
      BY <1>3 DEF Followers
    <3> HIDE DEF h
    <3>3. Sound(h, over) BY <1>1, <1>3, <3>2 DEF Sound, Rests, Said
    <3>4. Sound(r, over) /\ Hears(h, r) /\ (r.on => r.status = status /\ r.quiet = h.quiet)
      BY ONLY <1>1, <1>3, <3>1, <3>3, ObserveDoes
    <3>5. ASSUME r.on PROVE Fit(r, w, "up", live, asks, reads, cur)
      <4>1. /\ r.sub = g.sub /\ r.early = g.early /\ r.got = g.got /\ r.asked = g.asked
            /\ r.status = status /\ r.quiet = g.quiet \ {"task_get"}
        BY ONLY <3>2, <3>4, <3>5 DEF Hears
      <4>2. \A kind : Due(r, w, kind) = Due(g, w, kind) BY ONLY <4>1 DEF Due
      <4>3. Honest(r, w, over) /\ LinkFits(r, w, "up", live) BY ONLY <1>3, <3>5, <4>1 DEF Honest, LinkFits
      <4>4. SubFits(r, w, live, asks) BY ONLY <1>3, <4>1, <4>2 DEF SubFits
      <4>5. ReadFits(r, w, reads) BY ONLY <1>3, <4>1, <4>2 DEF ReadFits
      <4>6. live /\ cur \notin {"none", "gone"} /\ ~Pushed(w) /\ g.sub = "live" => status = cur
        BY ONLY <1>1, <1>2, <1>6, <2>3 DEF LastWord, Heard, status
      <4>7. live /\ cur \notin {"none", "gone"} => LastWord(r, w, cur)
        BY ONLY <1>3, <4>1, <4>2, <4>6 DEF LastWord, Heard
      <4> QED BY <1>3, <3>4, <4>3, <4>4, <4>5, <4>7 DEF Fit, over
    <3> QED BY <3>4, <3>5
  <2> QED BY <2>2, <2>3
<1>7. CASE x.kind = "subscribe"
  <2> DEFINE none == <<>>
  <2> DEFINE h == [g EXCEPT !.sub = "live", !.early = none]
  <2>1. none \in Seq(Statuses) /\ none = <<>> OBVIOUS
  <2> HIDE DEF none
  <2>2. /\ h \in Followers /\ h.on /\ h.sub = "live" /\ h.early = none /\ h.got = g.got /\ h.told = g.told
        /\ h.asked = g.asked /\ h.quiet = g.quiet /\ h.status = g.status
    BY <1>1, <1>3, <2>1 DEF Followers, Subs
  <2>3. h = [g EXCEPT !.sub = "live", !.early = <<>>] BY <2>1
  <2> HIDE DEF h
  <2>4. Sound(h, over) BY <1>1, <1>3, <2>2 DEF Sound, Rests, Said
  <2>5. g.early \in Seq(Statuses) /\ (\A i \in 1..Len(g.early) : g.early[i] = "completed" => over)
    BY <1>3 DEF Honest, Followers
  <2>6. live /\ f.sub \in {"asking", "restoring", "live"} /\ ~asks
    <3>1. Due(f, w, "subscribe") # {} BY <1>1, <1>7
    <3>2. f \in Followers BY DEF Fit, Sound
    <3> QED BY <1>2, <3>1, <3>2 DEF SubFits, Followers, Subs
  <2>7. cur \notin {"none", "gone"} /\ ~Pushed(w) /\ f.sub \in {"asking", "restoring"} =>
           IF g.early # <<>> THEN g.early[Len(g.early)] = cur ELSE status = cur
    BY ONLY <1>1, <1>2, <1>7, <2>6 DEF LastWord, Heard, status
  <2>8. ASSUME Sound(r, over), Hears(h, r), r.quiet = {}, f.sub \in {"asking", "restoring"},
               r.on => r.status = IF g.early # <<>> THEN g.early[Len(g.early)] ELSE status
        PROVE  r.on => Fit(r, w, "up", live, asks, reads, cur)
    <3> SUFFICES ASSUME r.on PROVE Fit(r, w, "up", live, asks, reads, cur) OBVIOUS
    <3>1. r.sub = "live" /\ r.early = <<>> /\ r.got = g.got /\ r.asked = g.asked BY <2>1, <2>2, <2>8 DEF Hears
    <3>2. cur \notin {"none", "gone"} /\ ~Pushed(w) => r.status = cur BY <2>7, <2>8
    <3>3. Sound(r, cur \in Over) BY <2>8 DEF over
    <3> QED BY ONLY <1>1, <2>6, <2>8, <3>1, <3>2, <3>3, r.on, FitJoins
  <2>9. CASE g.sub = "restoring"
    <3> DEFINE k == OnEvent(h, status)
    <3>1. r = OnEvents(k, g.early) BY <1>7, <2>3, <2>9 DEF Restored, status
    <3>2. Sound(k, over) /\ Hears(h, k) /\ k.quiet = {} /\ (k.on => k.status = status)
      BY ONLY <1>1, <1>3, <2>4, OnEventDoes
    <3> HIDE DEF k
    <3>3. /\ Sound(r, over) /\ Hears(k, r) /\ (g.early = <<>> => r = k)
          /\ g.early # <<>> => r.quiet = {} /\ (r.on => r.status = g.early[Len(g.early)])
      BY ONLY <1>3, <2>5, <3>1, <3>2, OnEventsDoes
    <3>4. Hears(h, r) /\ r.quiet = {} BY <3>2, <3>3 DEF Hears
    <3>5. r.on => r.status = IF g.early # <<>> THEN g.early[Len(g.early)] ELSE status BY <3>2, <3>3
    <3> QED BY <1>1, <2>8, <2>9, <3>3, <3>4, <3>5
  <2>10. CASE g.sub \in {"asking", "live"}
    <3> DEFINE k == OnEvents(h, g.early)
    <3>5. r = Subscribed(g, status) BY <1>7, <2>10 DEF status
    <3>1. r = IF "subscribe" \in k.quiet THEN OnEvent(k, status) ELSE k
      BY ONLY <2>3, <3>5 DEF Subscribed
    <3>2. /\ Sound(k, over) /\ Hears(h, k) /\ (g.early = <<>> => k = h)
          /\ g.early # <<>> => k.quiet = {} /\ (k.on => k.status = g.early[Len(g.early)])
      BY ONLY <1>3, <2>4, <2>5, OnEventsDoes
    <3> HIDE DEF k
    <3>3. CASE g.sub = "live"
      <4>1. g.early = <<>> /\ "subscribe" \notin g.quiet BY <1>3, <3>3 DEF SubFits
      <4>2. r = h BY <2>2, <3>1, <3>2, <4>1
      <4>3. h = g BY ONLY <1>3, <2>3, <3>3, <4>1 DEF Followers
      <4> QED BY <1>1, <1>3, <4>2, <4>3
    <3>4. CASE g.sub = "asking"
      <4>1. "subscribe" \in g.quiet BY <1>3, <3>4 DEF SubFits
      <4>2. CASE g.early = <<>>
        <5>1. r = OnEvent(h, status) BY <2>2, <3>1, <3>2, <4>1, <4>2
        <5>2. Sound(r, over) /\ Hears(h, r) /\ r.quiet = {} /\ (r.on => r.status = status)
          BY ONLY <1>1, <1>3, <2>4, <5>1, OnEventDoes
        <5> QED BY <1>1, <2>8, <3>4, <4>2, <5>2
      <4>3. CASE g.early # <<>>
        <5>1. r = k BY <3>1, <3>2, <4>3
        <5> QED BY <1>1, <2>8, <3>2, <3>4, <4>3, <5>1
      <4> QED BY <4>2, <4>3
    <3> QED BY <2>10, <3>3, <3>4
  <2> QED BY <1>1, <2>6, <2>9, <2>10
<1> QED BY <1>1, <1>5, <1>6, <1>7

----------------------------------------------------------------------------
(* Steps *)

\* A request is not a new one, and brings no news of a task.
Tame(a, b) ==
  /\ b.at = "checking" => a.at = "checking" /\ b.kind = a.kind /\ (b.live => a.live)
  /\ b.at = "replied" => a.at = "replied" /\ b.watched = a.watched

LEMMA FollowFacts ==
  /\ Followed \in Tasks /\ "follower" \in Roles
  /\ "subscribe" \in Requests /\ "task_get" \in Requests
  /\ Role("subscribe") = "follower" /\ Role("task_get") = "follower"
  /\ "subscribe" \notin Calls /\ "task_get" \notin Calls
  /\ ~NotFollowing.on
BY FrontDoorAssumption DEF FrontDoorAssumption, Roles, Requests, Role, NotFollowing

LEMMA TameCalls ==
  ASSUME FolInv, \A c \in Requests : Tame(calls[c], calls'[c])
  PROVE  /\ Named' /\ (Out("subscribe")' => Out("subscribe")) /\ (Out("task_get")' => Out("task_get"))
         /\ \A c \in Calls : Creates(calls'[c]) => Creates(calls[c])
<1>1. Named' BY DEF FolInv, Named, Tame
<1>2. (Out("subscribe")' => Out("subscribe")) /\ (Out("task_get")' => Out("task_get"))
  BY FollowFacts DEF Out, Tame
<1>3. \A c \in Calls : Creates(calls'[c]) => Creates(calls[c]) BY DEF Creates, Tame, Requests
<1> QED BY <1>1, <1>2, <1>3

LEMMA Carries ==
  ASSUME FolInv, Follows', Named', subbed' => mine', Cur' = "none" => Cur = "none",
         \A c \in Calls : Creates(calls'[c]) => Creates(calls[c]),
         Untouched => Untouched'
  PROVE  FolInv'
BY DEF FolInv

LEMMA CurTyped ==
  ASSUME Types
  PROVE  Cur \in Statuses /\ links["follower"] \in {"down", "up", "ended"} /\ subbed \in BOOLEAN
BY FollowFacts DEF Types, TaskRecords, Cur

\* Nothing of the follower's moves.
LEMMA Stays ==
  ASSUME FolInv, Types', UNCHANGED <<fol, wire, subbed>>, links'["follower"] = links["follower"], Cur' = Cur,
         subbed => mine', \A c \in Requests : Tame(calls[c], calls'[c])
  PROVE  FolInv'
<1>1. /\ Named' /\ (Out("subscribe")' => Out("subscribe")) /\ (Out("task_get")' => Out("task_get"))
      /\ \A c \in Calls : Creates(calls'[c]) => Creates(calls[c])
  BY TameCalls
<1>2. Fit(fol, wire, links["follower"], subbed, Out("subscribe"), Out("task_get"), Cur) BY DEF FolInv, Follows
<1>3. Fit(fol, wire, links["follower"], subbed, Out("subscribe")', Out("task_get")', Cur)
  BY ONLY <1>1, <1>2, FitMoves
<1>4. Follows' BY <1>3, CurTyped DEF FolInv, Follows
<1>5. Untouched => Untouched' BY DEF Untouched
<1> QED BY <1>1, <1>4, <1>5, Carries

\* One request of a tool moves.
LEMMA OneIsTame ==
  ASSUME Types, NEW c \in Requests, NEW x, calls' = [calls EXCEPT ![c] = x], Tame(calls[c], x)
  PROVE  \A d \in Requests : Tame(calls[d], calls'[d])
BY DEF Types, Tame

LEMMA IdleIsTame ==
  ASSUME NEW a
  PROVE  Tame(a, Idle)
BY DEF Tame, Idle

LEMMA ToolsFollow ==
  ASSUME FolInv, DoorInv, Types', NEW c \in Calls, TimesOut(c) \/ GivesUp(c) \/ CancelArrives(c)
  PROVE  FolInv'
<1>1. c \in Requests /\ calls[c] \in Called BY DEF Requests, DoorInv, Types
<1>2. /\ UNCHANGED <<fol, wire, subbed, links, mine, tasks>>
  BY DEF TimesOut, GivesUp, CancelArrives
<1>3. PICK x : calls' = [calls EXCEPT ![c] = x] /\ Tame(calls[c], x)
  <2>1. CASE TimesOut(c)
    <3> DEFINE x == [calls[c] EXCEPT !.at = "woken", !.late = TRUE]
    <3>1. x.at = "woken" BY <1>1 DEF Called
    <3>2. calls' = [calls EXCEPT ![c] = x] BY <2>1 DEF TimesOut
    <3> HIDE DEF x
    <3> QED BY <3>1, <3>2 DEF Tame
  <2>2. CASE GivesUp(c)
    <3> DEFINE x == [calls[c] EXCEPT !.kept = FALSE]
    <3>1. x.at = calls[c].at /\ x.kind = calls[c].kind /\ x.live = calls[c].live /\ x.watched = calls[c].watched
      BY <1>1 DEF Called
    <3>2. calls' = [calls EXCEPT ![c] = x] BY <2>2 DEF GivesUp
    <3> HIDE DEF x
    <3> QED BY <3>1, <3>2 DEF Tame
  <2>3. CASE CancelArrives(c)
    <3> DEFINE x == Abort(calls[c])
    <3>1. x.at = "woken" BY <1>1, <2>3 DEF Called, Abort, CancelArrives
    <3>2. calls' = [calls EXCEPT ![c] = x] BY <2>3 DEF CancelArrives
    <3> HIDE DEF x
    <3> QED BY <3>1, <3>2 DEF Tame
  <2> QED BY <2>1, <2>2, <2>3
<1>4. \A d \in Requests : Tame(calls[d], calls'[d]) BY <1>1, <1>3, OneIsTame DEF DoorInv
<1>5. Cur' = Cur BY <1>2 DEF Cur
<1>6. subbed => mine' BY <1>2 DEF FolInv
<1> QED BY <1>2, <1>4, <1>5, <1>6, Stays

LEMMA DeliveredCur ==
  ASSUME Types, NEW ts, Delivered(ts)
  PROVE  Cur' = Cur
BY FollowFacts DEF Types, TaskRecords, Delivered, Cur

\* Whatever a round of a wait does, it sleeps or is over, and no task moves.
LEMMA RoundFollows ==
  ASSUME Types, NEW c, NEW call \in Called, NEW m, Round(c, call, m)
  PROVE  Cur' = Cur /\ \E x : calls' = [calls EXCEPT ![c] = x] /\ x.at \in {"idle", "blocked"}
<1> DEFINE view == View(call.watched, call.running)
<1>1. Idle.at = "idle" BY DEF Idle
<1>2. \A n, reason : Ends(c, n, reason) => \E x : calls' = [calls EXCEPT ![c] = x] /\ x.at \in {"idle", "blocked"}
  BY <1>1 DEF Ends
<1>3. \A reason : Answer(c, call, m, view, reason) => Cur' = Cur /\ \E x : calls' = [calls EXCEPT ![c] = x] /\ x.at \in {"idle", "blocked"}
  <2> HIDE DEF view
  <2> SUFFICES ASSUME NEW reason, Answer(c, call, m, view, reason)
               PROVE  Cur' = Cur /\ \E x : calls' = [calls EXCEPT ![c] = x] /\ x.at \in {"idle", "blocked"}
    OBVIOUS
  <2>1. \E why : Ends(c, m, why)
    <3>1. CASE call.aborted BY <3>1 DEF Answer
    <3>2. CASE ~call.aborted BY <3>2 DEF Answer
    <3> QED BY <3>1, <3>2
  <2>2. tasks' = tasks \/ \E ts : Delivered(ts) BY DEF Answer
  <2>3. Cur' = Cur BY <2>2, DeliveredCur DEF Cur
  <2> QED BY <1>2, <2>1, <2>3
<1>4. [call EXCEPT !.at = "blocked", !.pending = view.working].at = "blocked" BY DEF Called
<1>5. tasks' = tasks => Cur' = Cur BY DEF Cur
<1> DEFINE y == [call EXCEPT !.at = "blocked", !.pending = view.working]
<1>6. y.at = "blocked" BY <1>4
<1>7. \/ \E reason : Answer(c, call, m, view, reason)
      \/ tasks' = tasks /\ \E n, reason : Ends(c, n, reason)
      \/ tasks' = tasks /\ calls' = [calls EXCEPT ![c] = y]
  BY DEF Round
<1> HIDE DEF view, y
<1> QED BY <1>2, <1>3, <1>5, <1>6, <1>7

LEMMA LooksAgainFollows ==
  ASSUME FolInv, DoorInv, Types', NEW c \in Calls, LooksAgain(c)
  PROVE  FolInv'
<1>1. c \in Requests /\ calls[c] \in Called /\ Types BY DEF Requests, DoorInv, Types
<1>2. Round(c, calls[c], main) /\ UNCHANGED <<fol, wire, subbed, links, mine>> BY DEF LooksAgain
<1>3. Cur' = Cur /\ \E x : calls' = [calls EXCEPT ![c] = x] /\ x.at \in {"idle", "blocked"} BY <1>1, <1>2, RoundFollows
<1>4. \A d \in Requests : Tame(calls[d], calls'[d])
  <2>1. PICK x : calls' = [calls EXCEPT ![c] = x] /\ x.at \in {"idle", "blocked"} BY <1>3
  <2>2. Tame(calls[c], x) BY <2>1 DEF Tame
  <2> QED BY <1>1, <2>1, <2>2, OneIsTame
<1>5. subbed => mine' BY <1>2 DEF FolInv
<1> QED BY <1>2, <1>3, <1>4, <1>5, Stays

\* A tool's request, and those of the follower, say what they are.
LEMMA ArrivesFollows ==
  ASSUME FolInv, Types, NEW c \in Requests, NEW kind, Arrives(c, kind),
         IF c \in Calls THEN kind \in {"wait", "run", "ack"} ELSE kind = c
  PROVE  /\ Named' /\ (\A d \in Calls : Creates(calls'[d]) => Creates(calls[d]))
         /\ \A d \in {"subscribe", "task_get"} : d # c => Out(d)' = Out(d)
         /\ UNCHANGED <<daemon, tasks, mine, links, subbed, wire>> /\ links[Role(c)] = "up"
<1> DEFINE x == [Idle EXCEPT !.at = "checking", !.kind = kind, !.live = TRUE, !.kept = TRUE]
<1>1. calls' = [calls EXCEPT ![c] = x] BY DEF Arrives
<1>2. x.at = "checking" /\ x.kind = kind BY DEF Idle
<1> HIDE DEF x
<1>3. \A d \in Requests : calls'[d] = IF d = c THEN x ELSE calls[d] BY <1>1 DEF Types
<1>4. Named' BY <1>2, <1>3 DEF FolInv, Named
<1>5. \A d \in Calls : Creates(calls'[d]) => Creates(calls[d]) BY <1>2, <1>3 DEF Creates, Requests
<1>6. \A d \in {"subscribe", "task_get"} : d # c => Out(d)' = Out(d) BY <1>3, FollowFacts DEF Out
<1> QED BY <1>4, <1>5, <1>6 DEF Arrives

LEMMA CallsToolFollows ==
  ASSUME FolInv, DoorInv, Types', NEW c \in Calls, NEW kind \in {"wait", "run", "ack"}, CallsTool(c, kind)
  PROVE  FolInv'
<1>1. c \in Requests /\ Types /\ Arrives(c, kind) /\ fol' = fol BY DEF Requests, DoorInv, CallsTool
<1>2. /\ Named' /\ (\A d \in Calls : Creates(calls'[d]) => Creates(calls[d]))
      /\ Out("subscribe")' = Out("subscribe") /\ Out("task_get")' = Out("task_get")
      /\ UNCHANGED <<daemon, tasks, mine, links, subbed, wire>>
  BY <1>1, ArrivesFollows, FollowFacts
<1>3. Cur' = Cur BY <1>2 DEF Cur
<1>4. Follows' BY <1>1, <1>2, <1>3 DEF FolInv, Follows
<1>5. Untouched => Untouched' BY <1>1, <1>2 DEF Untouched
<1>6. subbed' => mine' BY <1>2 DEF FolInv
<1> QED BY <1>2, <1>3, <1>4, <1>5, <1>6, Carries
\* A subscription that matters is of a task that is this Main's.
LEMMA ChangesFollows ==
  ASSUME FolInv, DoorInv, Types', NEW t \in Tasks, NEW status \in Statuses, Changes(t, status)
  PROVE  FolInv'
<1>1. /\ UNCHANGED <<mine, links, subbed, fol>> /\ tasks' = [tasks EXCEPT ![t].status = status] /\ Push(t, status)
      /\ status # "none" /\ tasks[t].status \notin {"none", "gone"}
      /\ tasks[t].status = "completed" => status = "gone"
  BY DEF Changes, There, Terminal
<1>2. \A c \in Requests : Tame(calls[c], calls'[c])
  <2> SUFFICES ASSUME NEW c \in Requests PROVE Tame(calls[c], calls'[c]) OBVIOUS
  <2>1. calls'[c] = [calls[c] EXCEPT !.at = "woken"] \/ calls'[c] = calls[c] BY DEF Changes
  <2>2. [calls[c] EXCEPT !.at = "woken"].at = "woken" BY DEF DoorInv, Types, Called
  <2> QED BY <2>1, <2>2 DEF Tame
<1>3. subbed => mine' BY <1>1 DEF FolInv
<1>4. CASE t # Followed
  <2>1. wire' = wire /\ Cur' = Cur BY <1>1, <1>4, FollowFacts DEF Push, Cur, DoorInv, Types, TaskRecords
  <2> QED BY <1>1, <1>2, <1>3, <2>1, Stays
<1>5. CASE t = Followed
  <2>1. Cur' = status /\ Cur \notin {"none", "gone"} /\ (Cur = "completed" => status = "gone")
    BY <1>1, <1>5, FollowFacts DEF Cur, DoorInv, Types, TaskRecords
  <2>2. /\ Named' /\ (Out("subscribe")' => Out("subscribe")) /\ (Out("task_get")' => Out("task_get"))
        /\ \A c \in Calls : Creates(calls'[c]) => Creates(calls[c])
    BY <1>2, TameCalls
  <2>3. Fit(fol, wire, links["follower"], subbed, Out("subscribe"), Out("task_get"), Cur) BY DEF FolInv, Follows
  <2>4. Fit(fol, wire', links["follower"], subbed, Out("subscribe")', Out("task_get")', status)
    <3>1. CASE subbed /\ status # "gone"
      <4>1. wire' = Append(wire, [kind |-> "event", status |-> status]) BY <1>5, <3>1 DEF FolInv, Changes, Push
      <4>2. Cur \notin Over BY <2>1, <3>1 DEF Over
      <4> QED BY <2>2, <2>3, <3>1, <4>1, <4>2, FitPush, ZenonT(30)
    <3>2. CASE ~subbed \/ status = "gone"
      <4>1. wire' = wire BY <1>1, <3>2 DEF Push
      <4>2. Cur \in Over => status \in Over BY <2>1 DEF Over
      <4>3. Fit(fol, wire, links["follower"], subbed, Out("subscribe")', Out("task_get")', status)
        BY ONLY <2>2, <2>3, <3>2, <4>2, FitMoves
      <4> QED BY <4>1, <4>3
    <3> QED BY <3>1, <3>2
  <2>5. Follows' BY <1>1, <2>1, <2>4, CurTyped DEF FolInv, Follows
  <2>6. Untouched => Untouched' BY <1>1 DEF Untouched, Push
  <2> QED BY <1>1, <1>3, <2>1, <2>2, <2>5, <2>6, Carries
<1> QED BY <1>4, <1>5

\* A task that is new is not followed yet: nothing ever was.
LEMMA AdmitsFollows ==
  ASSUME FolInv, DoorInv, Types', NEW c \in Calls, Admits(c)
  PROVE  FolInv'
<1>1. c \in Requests /\ Types /\ calls[c] \in Called /\ calls[c].at = "working"
      /\ UNCHANGED <<mine, links, subbed, wire, fol>>
  BY RequestFacts DEF Admits, DoorInv, Types
<1>2. subbed => mine' BY <1>1 DEF FolInv
<1>3. CASE calls' = [calls EXCEPT ![c] = Idle] /\ UNCHANGED tasks
  <2>1. \A d \in Requests : Tame(calls[d], calls'[d]) BY <1>1, <1>3, OneIsTame, IdleIsTame
  <2>2. Cur' = Cur BY <1>3 DEF Cur
  <2> QED BY <1>1, <1>2, <2>1, <2>2, Stays
<1>4. ASSUME NEW t \in Tasks, tasks[t].status = "none", tasks' = [tasks EXCEPT ![t].status = "working"],
             calls' = [calls EXCEPT ![c] = IF @.live /\ @.kept THEN [@ EXCEPT !.at = "replied", !.watched = {t}] ELSE Idle]
      PROVE  FolInv'
  <2> DEFINE x == IF calls[c].live /\ calls[c].kept THEN [calls[c] EXCEPT !.at = "replied", !.watched = {t}] ELSE Idle
  <2>1. calls' = [calls EXCEPT ![c] = x] BY <1>4
  <2>2. x.at # "checking" /\ (x.at = "replied" => x.watched = {t}) BY <1>1 DEF Called, Idle
  <2> HIDE DEF x
  <2>3. \A d \in Requests : calls'[d] = IF d = c THEN x ELSE calls[d] BY <1>1, <2>1 DEF Types
  <2>4. Named' BY <2>2, <2>3 DEF FolInv, Named
  <2>5. Out("subscribe")' = Out("subscribe") /\ Out("task_get")' = Out("task_get") BY <2>3, FollowFacts DEF Out
  <2>6. \A d \in Calls : Creates(calls'[d]) => Creates(calls[d]) \/ (d = c /\ t = Followed)
    BY <2>2, <2>3, RequestFacts DEF Creates
  <2>7. Untouched => Untouched' BY <1>1 DEF Untouched
  <2>8. Fit(fol, wire, links["follower"], subbed, Out("subscribe"), Out("task_get"), Cur) BY DEF FolInv, Follows
  <2>9. CASE t # Followed
    <3>1. Cur' = Cur BY <1>1, <1>4, <2>9, FollowFacts DEF Cur, Types, TaskRecords
    <3>2. Follows' BY <1>1, <2>5, <3>1 DEF FolInv, Follows
    <3> QED BY <1>1, <1>2, <2>4, <2>6, <2>7, <2>9, <3>1, <3>2, Carries
  <2>10. CASE t = Followed
    <3>1. Cur = "none" /\ Cur' = "working" BY <1>1, <1>4, <2>10, FollowFacts DEF Cur, Types, TaskRecords
    <3>2. Untouched /\ \A d \in Calls : ~Creates(calls[d]) BY <3>1 DEF FolInv
    <3>3. links["follower"] # "up" /\ Cur \notin Over BY <3>1, <3>2 DEF Untouched, Over
    <3>4. Fit(fol, wire, links["follower"], subbed, Out("subscribe"), Out("task_get"), Cur')
      BY ONLY <2>8, <3>3, FitMoves
    <3>5. Cur' \in Statuses BY <3>1 DEF Statuses
    <3>8. Follows' BY <1>1, <2>5, <3>4, <3>5, CurTyped DEF FolInv, Follows
    <3>6. Cur' # "none" BY <3>1
    <3>7. \A d, e \in Calls : Creates(calls'[d]) /\ Creates(calls'[e]) => d = e BY <2>6, <3>2
    <3> QED BY <1>1, <1>2, <2>4, <2>7, <3>2, <3>6, <3>7, <3>8 DEF FolInv
  <2> QED BY <2>9, <2>10
<1> QED BY <1>3, <1>4 DEF Admits

\* Nothing is known yet, of a task just created or of none.
LEMMA FitBegins ==
  ASSUME NEW f, f = NotFollowing \/ f = Follow(NotFollowing), NEW w, w = <<>>, NEW live, ~live, NEW asks, NEW reads, NEW cur
  PROVE  Fit(f, w, "down", live, asks, reads, cur)
<1> DEFINE none == <<>>
<1> DEFINE rests == [on |-> FALSE, status |-> "none", sub |-> "none", asked |-> {}, quiet |-> {},
                     early |-> none, got |-> {}, told |-> none]
<1> DEFINE starts == [on |-> TRUE, status |-> "working", sub |-> "none", asked |-> {}, quiet |-> {},
                      early |-> none, got |-> {}, told |-> none]
<1>1. none \in Seq(Statuses) /\ none \in Seq(Frames) /\ Len(none) = 0 /\ none = w OBVIOUS
<1>2. NotFollowing = rests BY DEF NotFollowing
<1> HIDE DEF none
<1>3. Follow(NotFollowing) = [rests EXCEPT !.on = TRUE, !.status = "working", !.sub = "none"] BY <1>2 DEF Follow
<1>4. Follow(NotFollowing) = starts BY <1>3
<1>5. /\ f \in Followers /\ f.sub = "none" /\ f.quiet = {} /\ f.early = none /\ f.got = {} /\ f.told = none
  <2>1. CASE f = rests BY ONLY <1>1, <2>1 DEF Followers, Statuses, Subs
  <2>2. CASE f = starts BY ONLY <1>1, <2>2 DEF Followers, Statuses, Subs
  <2> QED BY <1>2, <1>4, <2>1, <2>2
<1> HIDE DEF rests, starts
<1>6. none = <<>> /\ w \in Seq(Frames) BY <1>1 DEF none
<1>7. ToSet(w) = {} BY <1>6, ToSetIs
<1>8. Sound(f, cur \in Over) BY <1>1, <1>5, <1>6 DEF Sound, Rests, Said
<1>9. Honest(f, w, cur \in Over) BY <1>1, <1>5, <1>7 DEF Honest
<1>10. LinkFits(f, w, "down", live) BY <1>5, <1>6 DEF LinkFits
<1> QED BY <1>6, <1>8, <1>9, <1>10 DEF Fit

LEMMA CreatedFollows ==
  ASSUME FolInv, DoorInv, Types', NEW c \in Calls, Created(c)
  PROVE  FolInv'
<1>1. /\ c \in Requests /\ Types /\ calls[c].at = "replied" /\ calls' = [calls EXCEPT ![c] = Idle]
      /\ UNCHANGED <<tasks, mine, links, subbed, wire>>
  BY RequestFacts DEF Created, DoorInv
<1>2. \A d \in Requests : Tame(calls[d], calls'[d]) BY <1>1, OneIsTame, IdleIsTame
<1>3. Cur' = Cur /\ (subbed => mine') BY <1>1 DEF Cur, FolInv
<1>4. CASE fol' = fol BY <1>1, <1>2, <1>3, <1>4, Stays
<1>5. CASE fol' = Follow(fol) /\ Followed \in calls[c].watched
  <2>1. Creates(calls[c]) BY <1>1, <1>5 DEF Creates
  <2>2. Untouched /\ Cur # "none" /\ \A d \in Calls : Creates(calls[d]) => d = c BY <2>1 DEF FolInv
  <2>3. /\ Named' /\ (Out("subscribe")' => Out("subscribe")) /\ (Out("task_get")' => Out("task_get"))
        /\ \A d \in Calls : Creates(calls'[d]) => Creates(calls[d])
    BY <1>2, TameCalls
  <2>4. calls'[c] = Idle BY <1>1 DEF Types
  <2>5. \A d \in Calls : ~Creates(calls'[d]) BY <2>2, <2>3, <2>4 DEF Creates, Idle
  <2>6. fol' = Follow(NotFollowing) /\ wire = <<>> /\ ~subbed /\ links["follower"] = "down" BY <1>5, <2>2 DEF Untouched
  <2>7. Fit(fol', wire, "down", subbed, Out("subscribe")', Out("task_get")', Cur) BY ONLY <2>6, FitBegins
  <2>8. Follows' BY <1>1, <1>3, <2>6, <2>7, CurTyped DEF Follows
  <2> QED BY <1>1, <1>3, <2>2, <2>3, <2>5, <2>8 DEF FolInv
<1> QED BY <1>4, <1>5 DEF Created

\* A wait that is served sleeps or is over.
LEMMA WaitFollows ==
  ASSUME Types, NEW c, calls[c] \in Called, NEW m, Wait(c, m)
  PROVE  Cur' = Cur /\ \E x : calls' = [calls EXCEPT ![c] = x] /\ x.at \in {"idle", "blocked"}
<1>1. PICK watched \in SUBSET Tasks, late \in BOOLEAN :
        \/ Ends(c, m, "error") /\ UNCHANGED tasks
        \/ Round(c, [calls[c] EXCEPT !.watched = watched, !.late = late,
                       !.running = {t \in watched : Open(tasks[t].status)}], m)
  BY DEF Wait
<1>2. CASE Ends(c, m, "error") /\ UNCHANGED tasks
  <2>1. calls' = [calls EXCEPT ![c] = Idle] /\ Cur' = Cur BY <1>2 DEF Ends, Cur
  <2>2. Idle.at = "idle" BY DEF Idle
  <2> QED BY <2>1, <2>2
<1>3. CASE Round(c, [calls[c] EXCEPT !.watched = watched, !.late = late,
                       !.running = {t \in watched : Open(tasks[t].status)}], m)
  <2> DEFINE call == [calls[c] EXCEPT !.watched = watched, !.late = late,
                        !.running = {t \in watched : Open(tasks[t].status)}]
  <2>1. call \in Called BY DEF Called
  <2>2. Round(c, call, m) BY <1>3
  <2> HIDE DEF call
  <2> QED BY <2>1, <2>2, RoundFollows
<1> QED BY <1>1, <1>2, <1>3

\* An answer to the follower
LEMMA AnswersFollow ==
  ASSUME FolInv, DoorInv, Types', NEW c \in Requests, calls[c].at = "checking", calls[c].live,
         calls[c].kind \in {"subscribe", "task_get"},
         calls' = [calls EXCEPT ![c] = Idle], Replies(Reads(calls[c].kind)),
         subbed' = (subbed \/ (calls[c].kind = "subscribe" /\ Readable(Followed))),
         UNCHANGED <<tasks, mine, links, fol>>
  PROVE  FolInv'
<1> DEFINE x == Reads(c)
<1>1. Types /\ c \notin Calls /\ calls[c].kind = c BY DEF DoorInv, FolInv, Named
<1>2. c \in {"subscribe", "task_get"} /\ Role(c) = "follower" /\ Out(c) BY <1>1 DEF Requests, Role, Out
<1>3. links["follower"] # "down" BY <1>2 DEF DoorInv, Fits, ServiceFits, World
<1>4. Cur' = Cur /\ Cur \in Statuses BY CurTyped, <1>1 DEF Cur
<1>5. /\ x.status = Cur /\ x.kind = IF Readable(Followed) THEN c ELSE "gone"
      /\ x = [kind |-> x.kind, status |-> x.status]
  BY DEF Reads, Cur
<1>6. Replies(x) BY <1>1
<1> HIDE DEF x
<1>7. x \in Frames BY <1>2, <1>4, <1>5 DEF Frames, Words
<1>8. /\ Named' /\ (Out("subscribe")' => Out("subscribe")) /\ (Out("task_get")' => Out("task_get"))
      /\ \A d \in Calls : Creates(calls'[d]) => Creates(calls[d])
  <2>1. \A d \in Requests : Tame(calls[d], calls'[d]) BY <1>1, OneIsTame, IdleIsTame
  <2> QED BY <2>1, TameCalls
<1>9. ~Out(c)' BY <1>1 DEF Out, Idle, Types
<1>10. Fit(fol, wire, links["follower"], subbed, Out("subscribe"), Out("task_get"), Cur) BY DEF FolInv, Follows
<1>11. subbed' => mine' BY DEF FolInv, Readable
<1>12. ~Untouched BY <1>3 DEF Untouched
<1>13. Fit(fol, wire', links["follower"], subbed', Out("subscribe")', Out("task_get")', Cur)
  <2>1. CASE links["follower"] = "up"
    <3>1. wire \in Seq(Frames) BY <1>10 DEF Fit
    <3>2. PICK n \in 0..Len(wire) : wire' = InsertAt(wire, n + 1, x) BY <1>6, <2>1 DEF Replies
    <3>3. CASE c = "subscribe"
      <4>1. subbed' <=> subbed \/ x.kind = "subscribe" BY <1>1, <1>5, <3>3
      <4>2. x.kind \in {"subscribe", "gone"} BY <1>5, <3>3
      <4>3. Out("subscribe") /\ ~Out("subscribe")' BY <1>2, <1>9, <3>3
      <4>4. Fit(fol, wire, "up", subbed, Out("subscribe"), Out("task_get"), Cur) BY <1>10, <2>1
      <4>5. Fit(fol, InsertAt(wire, n + 1, x), "up", subbed', Out("subscribe")', Out("task_get")', Cur)
        BY ONLY <1>5, <1>7, <1>8, <3>1, n \in 0..Len(wire), <4>1, <4>2, <4>3, <4>4, FitReply
      <4> QED BY <2>1, <3>2, <4>5
    <3>4. CASE c = "task_get"
      <4>1. subbed' <=> subbed BY <1>1, <3>4
      <4>2. x.kind \in {"task_get", "gone"} BY <1>5, <3>4
      <4>3. Out("task_get") /\ ~Out("task_get")' BY <1>2, <1>9, <3>4
      <4>4. Fit(fol, wire, "up", subbed, Out("subscribe"), Out("task_get"), Cur) BY <1>10, <2>1
      <4>5. Fit(fol, InsertAt(wire, n + 1, x), "up", subbed', Out("subscribe")', Out("task_get")', Cur)
        BY ONLY <1>5, <1>7, <1>8, <3>1, n \in 0..Len(wire), <4>1, <4>2, <4>3, <4>4, FitReply
      <4> QED BY <2>1, <3>2, <4>5
    <3> QED BY <1>2, <3>3, <3>4
  <2>2. CASE links["follower"] = "ended"
    <3>1. wire' = wire BY <1>6, <2>2 DEF Replies
    <3> QED BY <1>10, <2>2, <3>1 DEF Fit, LinkFits
  <2>3. links["follower"] \in {"down", "up", "ended"} BY <1>1, CurTyped
  <2> QED BY <1>3, <2>1, <2>2, <2>3
<1>14. subbed' \in BOOLEAN /\ links["follower"] \in {"down", "up", "ended"} BY <1>1, CurTyped DEF Types
<1>15. Follows' BY <1>4, <1>13, <1>14 DEF Follows
<1> QED BY <1>4, <1>8, <1>11, <1>12, <1>15, Carries

LEMMA ServesFollows ==
  ASSUME FolInv, DoorInv, Types', NEW c \in Requests, Serves(c)
  PROVE  FolInv'
<1> DEFINE m == Attach(main, Role(c))
<1>1. /\ Types /\ calls[c] \in Called /\ calls[c].at = "checking" /\ UNCHANGED <<mine, links, fol>>
  BY DEF Serves, DoorInv, Types
<1>2. subbed => mine' BY <1>1 DEF FolInv
<1>3. ASSUME Cur' = Cur, UNCHANGED <<wire, subbed>>, NEW x, calls' = [calls EXCEPT ![c] = x], x.at \in {"idle", "blocked", "working"}
      PROVE  FolInv'
  <2>1. Tame(calls[c], x) BY <1>3 DEF Tame
  <2>2. \A d \in Requests : Tame(calls[d], calls'[d]) BY <1>1, <1>3, <2>1, OneIsTame
  <2> QED BY <1>1, <1>2, <1>3, <2>2, Stays
<1>4. Idle.at = "idle" /\ (tasks' = tasks => Cur' = Cur) BY DEF Idle, Cur
<1> HIDE DEF m
<1>5. CASE calls' = [calls EXCEPT ![c] = Idle] /\ UNCHANGED <<tasks, subbed, wire>> BY <1>3, <1>4, <1>5
<1>6. CASE Wait(c, m) /\ UNCHANGED <<subbed, wire>> BY <1>1, <1>3, <1>6, WaitFollows
<1>7. CASE calls' = [calls EXCEPT ![c].at = "working"] /\ UNCHANGED <<tasks, subbed, wire>>
  <2> DEFINE x == [calls[c] EXCEPT !.at = "working"]
  <2>1. x.at = "working" BY <1>1 DEF Called
  <2>2. calls' = [calls EXCEPT ![c] = x] BY <1>7
  <2> HIDE DEF x
  <2> QED BY <1>3, <1>4, <1>7, <2>1, <2>2
<1>8. CASE calls' = [calls EXCEPT ![c] = Idle] /\ Acks(calls[c]) /\ UNCHANGED <<subbed, wire>>
  <2>1. Cur' = Cur BY <1>1, <1>8, DeliveredCur DEF Acks
  <2> QED BY <1>3, <1>4, <1>8, <2>1
<1>9. CASE /\ ~Drops(c) /\ calls[c].kind \in {"subscribe", "task_get"}
           /\ calls' = [calls EXCEPT ![c] = Idle] /\ Replies(Reads(calls[c].kind))
           /\ subbed' = (subbed \/ (calls[c].kind = "subscribe" /\ Readable(Followed)))
           /\ UNCHANGED tasks
  BY <1>1, <1>9, AnswersFollow DEF Drops
<1> QED BY <1>5, <1>6, <1>7, <1>8, <1>9 DEF Serves, m

----------------------------------------------------------------------------
(* Its connection *)

LEMMA ConnectsFollows ==
  ASSUME FolInv, DoorInv, Types', NEW r \in Roles, Connects(r)
  PROVE  FolInv'
<1>1. /\ Types /\ links[r] = "down" /\ links' = [links EXCEPT ![r] = "up"]
      /\ UNCHANGED <<tasks, mine, subbed, wire>>
  BY DEF Connects, DoorInv
<1>2. Cur' = Cur /\ (subbed => mine') BY <1>1 DEF Cur, FolInv
<1>3. CASE r # "follower"
  <2>1. UNCHANGED <<fol, calls>> BY <1>3 DEF Connects
  <2>2. \A c \in Requests : Tame(calls[c], calls'[c]) BY <2>1 DEF Tame
  <2>3. links'["follower"] = links["follower"] BY <1>1, <1>3, FollowFacts DEF Types
  <2> QED BY <1>1, <1>2, <2>1, <2>2, <2>3, Stays
<1>4. CASE r = "follower"
  <2> DEFINE x == [Idle EXCEPT !.at = "checking", !.kind = "subscribe", !.live = TRUE, !.kept = TRUE]
  <2>1. /\ fol.on /\ calls["subscribe"].at = "idle" /\ links["follower"] = "down" /\ links'["follower"] = "up"
        /\ IF fol.sub = "live"
           THEN fol' = Asks([fol EXCEPT !.sub = "restoring"], "subscribe") /\ calls' = [calls EXCEPT !["subscribe"] = x]
           ELSE UNCHANGED <<fol, calls>>
    BY <1>1, <1>4, FollowFacts DEF Connects, Types
  <2>2. x.at = "checking" /\ x.kind = "subscribe" BY DEF Idle
  <2> HIDE DEF x
  <2>3. \A d \in Requests : calls'[d] = calls[d] \/ (d = "subscribe" /\ calls'[d] = x) BY <1>1, <2>1 DEF Types
  <2>4. Named' BY <2>2, <2>3, FollowFacts DEF FolInv, Named
  <2>5. \A d \in Calls : Creates(calls'[d]) => Creates(calls[d]) BY <2>3, FollowFacts DEF Creates, Requests
  <2>6. ~Out("task_get")
    <3>1. Fits("task_get", calls["task_get"], World) BY FollowFacts DEF DoorInv
    <3> QED BY <2>1, <3>1, FollowFacts DEF Fits, ServiceFits, World, Out
  <2>7. ~Out("task_get")' BY <2>3, <2>6, FollowFacts DEF Out
  <2>8. fol.sub # "live" => ~Out("subscribe")' BY <2>1 DEF Out
  <2>9. Fit(fol, wire, "down", subbed, Out("subscribe"), Out("task_get"), Cur) BY <2>1 DEF FolInv, Follows
  <2>10. IF fol.sub = "live" THEN fol' = Asks([fol EXCEPT !.sub = "restoring"], "subscribe")
         ELSE fol' = fol /\ ~Out("subscribe")'
    BY <2>1, <2>8
  <2>11. Fit(fol', wire, "up", subbed, Out("subscribe")', Out("task_get")', Cur)
    BY ONLY <2>1, <2>7, <2>9, <2>10, FitConnects
  <2>12. Follows' BY <1>1, <1>2, <2>1, <2>11, CurTyped DEF Follows
  <2>13. ~Untouched BY <2>1, FollowFacts DEF Untouched
  <2> QED BY <1>1, <1>2, <2>4, <2>5, <2>12, <2>13, Carries
<1> QED BY <1>3, <1>4

LEMMA ClosesFollows ==
  ASSUME FolInv, DoorInv, Types', NEW r \in Roles, Closes(r)
  PROVE  FolInv'
<1>1. /\ Types /\ links[r] # "down" /\ links' = [links EXCEPT ![r] = "down"] /\ fol.got = {}
      /\ UNCHANGED <<tasks, mine>>
      /\ IF r = "follower" THEN subbed' = FALSE /\ wire' = <<>> /\ fol' = Disconnected(fol)
         ELSE UNCHANGED <<subbed, wire, fol>>
  BY DEF Closes, DoorInv
<1>2. Cur' = Cur BY <1>1 DEF Cur
<1>3. \A c \in Requests : Tame(calls[c], calls'[c])
  <2> SUFFICES ASSUME NEW c \in Requests PROVE Tame(calls[c], calls'[c]) OBVIOUS
  <2> DEFINE x == [Abort(calls[c]) EXCEPT !.live = FALSE, !.kept = FALSE]
  <2>1. calls'[c] = calls[c] \/ calls'[c] = Idle \/ (calls[c].at # "replied" /\ calls'[c] = x) BY DEF Closes
  <2>2. x.at \in {calls[c].at, "woken"} /\ x.kind = calls[c].kind /\ ~x.live
    BY <1>1 DEF Types, Called, Abort
  <2> HIDE DEF x
  <2> QED BY <2>1, <2>2, IdleIsTame DEF Tame
<1>4. CASE r # "follower"
  <2>1. links'["follower"] = links["follower"] BY <1>1, <1>4, FollowFacts DEF Types
  <2>2. subbed => mine' BY <1>1 DEF FolInv
  <2> QED BY <1>1, <1>2, <1>3, <1>4, <2>1, <2>2, Stays
<1>5. CASE r = "follower"
  <2>1. links["follower"] # "down" /\ links'["follower"] = "down" /\ subbed' = FALSE /\ wire' = <<>> /\ fol' = Disconnected(fol)
    BY <1>1, <1>5, FollowFacts DEF Types
  <2>2. Fit(fol, wire, links["follower"], subbed, Out("subscribe"), Out("task_get"), Cur) BY DEF FolInv, Follows
  <2>3. ~subbed' BY <2>1
  <2>4. Fit(Disconnected(fol), <<>>, "down", subbed', Out("subscribe")', Out("task_get")', Cur)
    BY ONLY <1>1, <2>2, <2>3, FitDisconnects
  <2>5. Follows' BY <1>1, <1>2, <2>1, <2>4, CurTyped DEF Follows
  <2>6. ~Untouched BY <2>1 DEF Untouched
  <2>7. /\ Named' /\ \A c \in Calls : Creates(calls'[c]) => Creates(calls[c]) BY <1>3, TameCalls
  <2> QED BY <1>2, <2>3, <2>5, <2>6, <2>7, Carries
<1> QED BY <1>4, <1>5

LEMMA HostLeavesFollows ==
  ASSUME FolInv, DoorInv, Types', HostLeaves
  PROVE  FolInv'
<1>1. /\ Types /\ fol' = Stop(fol) /\ wire' = <<>> /\ UNCHANGED <<tasks, mine, subbed>>
      /\ links'["follower"] = IF links["follower"] = "up" THEN "ended" ELSE links["follower"]
  BY FollowFacts DEF HostLeaves, DoorInv
<1>2. Cur' = Cur /\ (subbed => mine') BY <1>1 DEF Cur, FolInv
<1>3. \A c \in Requests : Tame(calls[c], calls'[c])
  <2> SUFFICES ASSUME NEW c \in Requests PROVE Tame(calls[c], calls'[c]) OBVIOUS
  <2> DEFINE x == [calls[c] EXCEPT !.kept = FALSE]
  <2>1. calls'[c] = Idle \/ calls'[c] = x BY DEF HostLeaves
  <2>2. x.at = calls[c].at /\ x.kind = calls[c].kind /\ x.live = calls[c].live /\ x.watched = calls[c].watched
    BY <1>1 DEF Types, Called
  <2> HIDE DEF x
  <2> QED BY <2>1, <2>2, IdleIsTame DEF Tame
<1>4. /\ Named' /\ \A c \in Calls : Creates(calls'[c]) => Creates(calls[c]) BY <1>3, TameCalls
<1>5. Fit(fol, wire, links["follower"], subbed, Out("subscribe"), Out("task_get"), Cur) BY DEF FolInv, Follows
<1>6. fol \in Followers /\ Said(fol, Cur \in Over) BY <1>5 DEF Fit, Sound
<1>7. Sound(fol', Cur \in Over) /\ ~fol'.on
  <2>1. fol' \in Followers /\ ~fol'.on /\ Rests(fol') /\ fol'.told = fol.told BY <1>1, <1>6, StopDoes
  <2> QED BY <1>6, <2>1 DEF Sound, Said
<1>8. links'["follower"] = "ended" \/ (links'["follower"] = "down" /\ ~subbed)
  BY <1>1, <1>5, CurTyped DEF Fit, LinkFits
<1>9. Fit(fol', <<>>, links'["follower"], subbed, Out("subscribe")', Out("task_get")', Cur)
  BY ONLY <1>7, <1>8, FitStopped
<1>10. Follows' BY <1>1, <1>2, <1>8, <1>9, CurTyped DEF Follows
<1>11. Untouched => Untouched'
  <2>1. Stop(NotFollowing) = NotFollowing BY DEF Stop, NotFollowing
  <2> QED BY <1>1, <2>1 DEF Untouched
<1> QED BY <1>1, <1>2, <1>4, <1>10, <1>11, Carries

\* A step of the follower alone
LEMMA FollowerFollows ==
  ASSUME FolInv, Types', NEW f, Follower(f), calls' = calls, fol.on,
         Fit(f, wire', IF fol.on /\ ~f.on /\ links["follower"] = "up" THEN "ended" ELSE links["follower"],
             subbed, Out("subscribe"), Out("task_get"), Cur),
         Types
  PROVE  FolInv'
<1>1. /\ fol' = f /\ UNCHANGED <<tasks, mine, subbed>>
      /\ links'["follower"] = IF fol.on /\ ~f.on /\ links["follower"] = "up" THEN "ended" ELSE links["follower"]
  BY FollowFacts DEF Follower, Types
<1>2. Cur' = Cur /\ (subbed => mine') BY <1>1 DEF Cur, FolInv
<1>3. \A c \in Requests : Tame(calls[c], calls'[c]) BY DEF Tame
<1>4. /\ Named' /\ \A c \in Calls : Creates(calls'[c]) => Creates(calls[c]) BY <1>3, TameCalls
<1>5. Out("subscribe")' = Out("subscribe") /\ Out("task_get")' = Out("task_get") BY DEF Out
<1>6. Follows' BY <1>1, <1>2, <1>5, CurTyped DEF Follows
<1>7. ~Untouched BY FollowFacts DEF Untouched
<1> QED BY <1>1, <1>2, <1>4, <1>6, <1>7, Carries

LEMMA SubscribesFollows ==
  ASSUME FolInv, DoorInv, Types', Subscribes
  PROVE  FolInv'
<1>1. Types /\ fol.on /\ fol.sub = "none" BY DEF Subscribes, DoorInv
<1>2. Fit(fol, wire, links["follower"], subbed, Out("subscribe"), Out("task_get"), Cur) BY DEF FolInv, Follows
<1>3. CASE Arrives("subscribe", "subscribe") /\ fol' = Asks([fol EXCEPT !.sub = "asking"], "subscribe")
  <2>1. /\ Named' /\ (\A d \in Calls : Creates(calls'[d]) => Creates(calls[d])) /\ Out("task_get")' = Out("task_get")
        /\ UNCHANGED <<tasks, mine, links, subbed, wire>> /\ links["follower"] = "up"
    BY <1>1, <1>3, ArrivesFollows, FollowFacts
  <2>2. Cur' = Cur /\ (subbed => mine') BY <2>1 DEF Cur, FolInv
  <2>3. Fit(fol', wire, "up", subbed, Out("subscribe")', Out("task_get")', Cur)
    <3>1. Fit(fol, wire, "up", subbed, Out("subscribe"), Out("task_get"), Cur) BY <1>2, <2>1
    <3>2. Out("task_get")' => Out("task_get") BY <2>1
    <3>3. fol' = Asks([fol EXCEPT !.sub = "asking"], "subscribe") BY <1>3
    <3> QED BY ONLY <1>1, <3>1, <3>2, <3>3, FitAsks
  <2>4. Follows' BY <1>1, <2>1, <2>2, <2>3, CurTyped DEF Follows
  <2>5. ~Untouched BY <1>1, FollowFacts DEF Untouched
  <2> QED BY <2>1, <2>2, <2>4, <2>5, Carries
<1>4. CASE daemon = "down" /\ Follower([fol EXCEPT !.sub = "lost"]) /\ UNCHANGED <<calls, wire>>
  <2> DEFINE f == [fol EXCEPT !.sub = "lost"]
  <2>1. links["follower"] = "down" BY <1>4, FollowFacts DEF DoorInv, Connected
  <2>2. Fit(fol, wire, "down", subbed, Out("subscribe"), Out("task_get"), Cur) BY <1>2, <2>1
  <2>3. Fit(f, wire, "down", subbed, Out("subscribe"), Out("task_get"), Cur) BY ONLY <1>1, <2>2, FitLost
  <2>4. Follower(f) BY <1>4
  <2> HIDE DEF f
  <2> QED BY <1>1, <1>4, <2>1, <2>3, <2>4, FollowerFollows
<1> QED BY <1>3, <1>4 DEF Subscribes

LEMMA BeatsFollows ==
  ASSUME FolInv, DoorInv, Types', Beats
  PROVE  FolInv'
<1>1. /\ Types /\ fol.on /\ "task_get" \notin fol.asked /\ fol.sub # "restoring"
      /\ Arrives("task_get", "task_get") /\ fol' = Asks(fol, "task_get")
  BY DEF Beats, DoorInv
<1>2. Fit(fol, wire, links["follower"], subbed, Out("subscribe"), Out("task_get"), Cur) BY DEF FolInv, Follows
<1>3. /\ Named' /\ (\A d \in Calls : Creates(calls'[d]) => Creates(calls[d])) /\ Out("subscribe")' = Out("subscribe")
      /\ UNCHANGED <<tasks, mine, links, subbed, wire>> /\ links["follower"] = "up"
  BY <1>1, ArrivesFollows, FollowFacts
<1>4. Cur' = Cur /\ (subbed => mine') BY <1>3 DEF Cur, FolInv
<1>5. Fit(fol', wire, "up", subbed, Out("subscribe")', Out("task_get")', Cur)
  <2>1. Fit(fol, wire, "up", subbed, Out("subscribe"), Out("task_get"), Cur) BY <1>2, <1>3
  <2>2. Out("subscribe")' => Out("subscribe") BY <1>3
  <2>3. fol' = Asks(fol, "task_get") /\ "task_get" \notin fol.asked /\ fol.sub # "restoring" BY <1>1
  <2> QED BY ONLY <2>1, <2>2, <2>3, FitAsks
<1>6. Follows' BY <1>1, <1>3, <1>4, <1>5, CurTyped DEF Follows
<1>7. ~Untouched BY <1>1, FollowFacts DEF Untouched
<1> QED BY <1>3, <1>4, <1>6, <1>7, Carries

LEMMA ReadsFrameFollows ==
  ASSUME FolInv, DoorInv, Types', ReadsFrame
  PROVE  FolInv'
<1> DEFINE x == Head(wire)
<1> DEFINE r == CASE x.kind # "event" -> [fol EXCEPT !.got = @ \cup {x}]
                  [] x.kind = "event" /\ fol.sub = "live" -> OnEvent(fol, x.status)
                  [] x.kind = "event" /\ fol.sub \in {"asking", "restoring"} -> [fol EXCEPT !.early = Append(@, x.status)]
                  [] OTHER -> fol
<1>1. /\ wire # <<>> /\ links["follower"] = "up" /\ Follower(r) /\ calls' = calls
      /\ wire' = IF fol'.on THEN Tail(wire) ELSE <<>>
  BY DEF ReadsFrame
<1>2. Types /\ Cur \in Statuses BY CurTyped DEF DoorInv
<1>3. Fit(fol, wire, "up", subbed, Out("subscribe"), Out("task_get"), Cur) BY <1>1 DEF FolInv, Follows
<1>4. fol.on BY <1>3 DEF Fit, LinkFits
<1>5. Fit(r, IF r.on THEN Tail(wire) ELSE <<>>, IF r.on THEN "up" ELSE "ended", subbed, Out("subscribe"), Out("task_get"), Cur)
  BY ONLY <1>1, <1>2, <1>3, FitReads
<1> HIDE DEF r
<1>6. fol' = r BY <1>1 DEF Follower
<1>7. Fit(r, wire', IF fol.on /\ ~r.on /\ links["follower"] = "up" THEN "ended" ELSE links["follower"],
          subbed, Out("subscribe"), Out("task_get"), Cur)
  BY ONLY <1>1, <1>4, <1>5, <1>6
<1> QED BY <1>1, <1>2, <1>4, <1>7, FollowerFollows

LEMMA GoesOnFollows ==
  ASSUME FolInv, DoorInv, Types', NEW x \in fol.got, GoesOn(x)
  PROVE  FolInv'
<1> DEFINE g == Takes(fol, x)
<1> DEFINE r == CASE x.kind = "gone" -> Stop(g)
                  [] x.kind = "task_get" -> ReadBack(g, x.status)
                  [] x.kind = "subscribe" /\ fol.sub = "restoring" -> Restored(g, x.status)
                  [] OTHER -> Subscribed(g, x.status)
<1>1. Follower(r) /\ calls' = calls /\ wire' = IF fol'.on THEN wire ELSE <<>> BY DEF GoesOn, Takes
<1>2. Types /\ Cur \in Statuses /\ links["follower"] \in {"down", "up", "ended"} BY CurTyped DEF DoorInv
<1>3. Fit(fol, wire, links["follower"], subbed, Out("subscribe"), Out("task_get"), Cur) BY DEF FolInv, Follows
<1>4. links["follower"] = "up" BY <1>2, <1>3 DEF Fit, LinkFits, Sound, Rests
<1>5. Fit(fol, wire, "up", subbed, Out("subscribe"), Out("task_get"), Cur) BY <1>3, <1>4
<1>6. fol.on BY <1>5 DEF Fit, LinkFits
<1> HIDE DEF g
<1>7. g = Takes(fol, x) BY DEF g
<1>8. g.sub = fol.sub BY ONLY <1>5, <1>7, x \in fol.got, FitTakes
<1>9. r = CASE x.kind = "gone" -> Stop(g)
            [] x.kind = "task_get" -> ReadBack(g, x.status)
            [] x.kind = "subscribe" /\ g.sub = "restoring" -> Restored(g, x.status)
            [] OTHER -> Subscribed(g, x.status)
  BY ONLY <1>8
<1> HIDE DEF r
<1>10. Fit(r, IF r.on THEN wire ELSE <<>>, IF r.on THEN "up" ELSE "ended", subbed, Out("subscribe"), Out("task_get"), Cur)
  BY ONLY <1>2, <1>5, <1>7, <1>9, x \in fol.got, FitGoesOn
<1>11. fol' = r BY <1>1 DEF Follower
<1>12. Fit(r, wire', IF fol.on /\ ~r.on /\ links["follower"] = "up" THEN "ended" ELSE links["follower"],
           subbed, Out("subscribe"), Out("task_get"), Cur)
  BY ONLY <1>1, <1>4, <1>6, <1>10, <1>11
<1> QED BY <1>1, <1>2, <1>6, <1>12, FollowerFollows

----------------------------------------------------------------------------
(* The daemon's end *)

LEMMA GoneFollows ==
  ASSUME FolInv, DoorInv, Types', Gone, Cur' = Cur
  PROVE  FolInv'
<1>1. /\ Types /\ fol.got = {} /\ subbed' = FALSE /\ wire' = <<>> /\ links'["follower"] = "down" /\ fol' = Disconnected(fol)
  BY FollowFacts DEF Gone, DoorInv
<1>2. \A c \in Requests : Tame(calls[c], calls'[c]) BY IdleIsTame DEF Gone
<1>3. /\ Named' /\ \A c \in Calls : Creates(calls'[c]) => Creates(calls[c]) BY <1>2, TameCalls
<1>4. Fit(fol, wire, links["follower"], subbed, Out("subscribe"), Out("task_get"), Cur) BY DEF FolInv, Follows
<1>5. ~subbed' BY <1>1
<1>6. Fit(Disconnected(fol), <<>>, "down", subbed', Out("subscribe")', Out("task_get")', Cur)
  BY ONLY <1>1, <1>4, <1>5, FitDisconnects
<1>7. Follows' BY <1>1, <1>6, CurTyped DEF Follows
<1>8. Untouched => Untouched'
  <2> DEFINE none == <<>>
  <2> DEFINE rests == [on |-> FALSE, status |-> "none", sub |-> "none", asked |-> {}, quiet |-> {},
                       early |-> none, got |-> {}, told |-> none]
  <2>1. NotFollowing = rests BY DEF NotFollowing
  <2> HIDE DEF none
  <2>2. Disconnected(rests) = [rests EXCEPT !.asked = {}, !.quiet = {}, !.early = none,
                                            !.sub = CASE rests.sub = "asking" -> "lost" [] rests.sub = "restoring" -> "live" [] OTHER -> rests.sub]
    BY DEF Disconnected, none
  <2>3. (CASE rests.sub = "asking" -> "lost" [] rests.sub = "restoring" -> "live" [] OTHER -> rests.sub) = "none" OBVIOUS
  <2>4. Disconnected(rests) = [rests EXCEPT !.asked = {}, !.quiet = {}, !.early = none, !.sub = "none"] BY ONLY <2>2, <2>3
  <2>5. Disconnected(NotFollowing) = NotFollowing BY ONLY <2>1, <2>4
  <2> QED BY <1>1, <2>5 DEF Untouched
<1> QED BY <1>3, <1>5, <1>7, <1>8, Carries

\* What was open when the process ended is over when the next one starts.
LEMMA StartsFollows ==
  ASSUME FolInv, DoorInv, Types', Starts
  PROVE  FolInv'
<1>1. /\ Types /\ daemon = "down" /\ UNCHANGED <<mine, links, calls, subbed, wire, fol>>
      /\ Cur' = IF Open(Cur) THEN "completed" ELSE Cur
  BY FollowFacts DEF Starts, DoorInv, Types, TaskRecords, Cur
<1>2. links["follower"] = "down" BY <1>1, FollowFacts DEF DoorInv, Connected
<1>3. Fit(fol, wire, links["follower"], subbed, Out("subscribe"), Out("task_get"), Cur) BY DEF FolInv, Follows
<1>4. /\ links["follower"] # "up" /\ (Cur \in Over => Cur' \in Over)
  BY <1>1, <1>2 DEF Over, Open
<1>5. Out("subscribe")' = Out("subscribe") /\ Out("task_get")' = Out("task_get") BY <1>1 DEF Out
<1>6. Fit(fol, wire, links["follower"], subbed, Out("subscribe"), Out("task_get"), Cur')
  BY ONLY <1>3, <1>4, FitMoves
<1>7. Cur' \in Statuses BY <1>1, CurTyped DEF Statuses
<1>8. Follows' BY <1>1, <1>5, <1>6, <1>7, CurTyped DEF FolInv, Follows
<1>9. \A c \in Requests : Tame(calls[c], calls'[c]) BY <1>1 DEF Tame
<1>10. /\ Named' /\ \A c \in Calls : Creates(calls'[c]) => Creates(calls[c]) BY <1>9, TameCalls
<1>11. Untouched => Untouched' BY <1>1 DEF Untouched
<1>12. (subbed' => mine') /\ (Cur' = "none" => Cur = "none") BY <1>1 DEF FolInv
<1> QED BY <1>8, <1>10, <1>11, <1>12, Carries

LEMMA FolInvInit ==
  ASSUME Init
  PROVE  FolInv
<1>1. Types BY DoorInvInit DEF DoorInv
<1>2. fol = NotFollowing /\ wire = <<>> /\ links["follower"] = "down" /\ ~subbed BY FollowFacts DEF Init
<1>3. Fit(fol, wire, "down", subbed, Out("subscribe"), Out("task_get"), Cur) BY ONLY <1>2, FitBegins
<1>4. Follows BY <1>1, <1>2, <1>3, CurTyped DEF Follows
<1>5. \A c \in Requests : calls[c].at = "idle" BY DEF Init, Idle
<1>6. Named BY <1>5 DEF Named
<1>7. \A c \in Calls : ~Creates(calls[c]) BY <1>5 DEF Creates, Requests
<1> QED BY <1>2, <1>4, <1>6, <1>7 DEF FolInv, Untouched

LEMMA FolInvNext ==
  ASSUME FolInv, DoorInv, Types', [Next]_vars
  PROVE  FolInv'
<1>1. ASSUME NEW t \in Tasks, NEW status \in {"working", "input_required", "completed", "gone"}, Changes(t, status)
      PROVE  FolInv'
  BY <1>1, ChangesFollows DEF Statuses
<1>2. ASSUME NEW c \in Calls,
             \/ LooksAgain(c) \/ TimesOut(c) \/ Admits(c) \/ Created(c) \/ GivesUp(c) \/ CancelArrives(c)
             \/ \E kind \in {"wait", "run", "ack"} : CallsTool(c, kind)
      PROVE  FolInv'
  BY <1>2, LooksAgainFollows, ToolsFollow, AdmitsFollows, CreatedFollows, CallsToolFollows
<1>3. ASSUME NEW c \in Requests, Serves(c) PROVE FolInv' BY <1>3, ServesFollows
<1>4. ASSUME NEW r \in Roles, Connects(r) \/ Closes(r) PROVE FolInv' BY <1>4, ConnectsFollows, ClosesFollows
<1>5. ASSUME NEW frame \in fol.got, GoesOn(frame) PROVE FolInv' BY <1>5, GoesOnFollows
<1>6. CASE Exits
  <2>1. Cur' = Cur BY <1>6 DEF Exits, Cur
  <2> QED BY <1>6, <2>1, GoneFollows DEF Exits
<1>7. CASE Dies
  <2>1. PICK lost \in SUBSET Tasks : tasks' = [t \in Tasks |-> IF t \in lost THEN [tasks[t] EXCEPT !.seen = FALSE] ELSE tasks[t]]
    BY <1>7 DEF Dies
  <2>2. Cur' = Cur BY <2>1, FollowFacts DEF Cur, DoorInv, Types, TaskRecords
  <2> QED BY <1>7, <2>2, GoneFollows DEF Dies
<1>8. CASE \/ GraceRunsOut \/ Adopts \/ (\E force \in BOOLEAN : Drains(force)) \/ UNCHANGED vars
  <2>1. UNCHANGED <<tasks, links, calls, subbed, wire, fol>> /\ (mine' = mine \/ ~subbed)
    BY <1>8 DEF GraceRunsOut, Adopts, IsLive, Drains, vars
  <2>2. \A c \in Requests : Tame(calls[c], calls'[c]) BY <2>1 DEF Tame
  <2>3. Cur' = Cur /\ (subbed => mine') BY <2>1 DEF Cur, FolInv
  <2> QED BY <2>1, <2>2, <2>3, Stays
<1> QED
  BY <1>1, <1>2, <1>3, <1>4, <1>5, <1>6, <1>7, <1>8, SubscribesFollows, BeatsFollows, ReadsFrameFollows,
     HostLeavesFollows, StartsFollows DEF Next

\* What is known of the follower follows.
THEOREM FollowerInvariant == Spec => []FolInv
<1>1. DoorInv => Types BY DEF DoorInv
<1>2. FolInv /\ DoorInv /\ DoorInv' /\ [Next]_vars => FolInv'
  <2>1. DoorInv' => Types' BY <1>1, PTL
  <2> QED BY <2>1, FolInvNext
<1> QED BY <1>2, DoorInvariant, FolInvInit, PTL DEF Spec

\* The end of a task is told once, last, and only of one that is over; and with nothing
\* on its way, what the follower heard last is where the task stands: a reply counts
\* only while nothing newer was heard, and the last push is never overtaken.
THEOREM TheFollowerIsCurrent == Spec => []FollowerIsCurrent
<1>1. DoorInv /\ FolInv => FollowerIsCurrent
  <2> SUFFICES ASSUME DoorInv, FolInv PROVE FollowerIsCurrent OBVIOUS
  <2>1. Fit(fol, wire, links["follower"], subbed, Out("subscribe"), Out("task_get"), Cur) BY DEF FolInv, Follows
  <2>2. fol \in Followers /\ Said(fol, Cur \in Over) BY <2>1 DEF Fit, Sound
  <2>3. DOMAIN fol.told = 1..Len(fol.told) BY <2>2 DEF Followers
  <2>4. \A n \in DOMAIN fol.told : Terminal(fol.told[n]) =>
          n = Len(fol.told) /\ ~fol.on /\ tasks[Followed].status \in {"completed", "gone"}
    BY <2>2, <2>3 DEF Said, Terminal, Over, Cur
  <2>5. ASSUME fol.on, fol.sub = "live", links["follower"] = "up", wire = <<>>, There(Followed)
        PROVE  fol.status = Cur
    <3>1. wire \in Seq(Frames) /\ ~Pushed(wire) BY <2>1, <2>5, ToSetIs DEF Fit, Pushed
    <3>2. Cur \notin {"none", "gone"} BY <2>5 DEF There, Cur
    <3> QED BY <2>1, <2>5, <3>1, <3>2 DEF Fit, SubFits, LastWord, Heard
  <2> QED BY <2>4, <2>5 DEF FollowerIsCurrent, Cur
<1> QED BY <1>1, DoorInvariant, FollowerInvariant, PTL
=============================================================================
