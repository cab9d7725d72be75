----------------------------- MODULE FrontDoor -----------------------------
(***************************************************************************)
(* One Main's front door (index.js) and the daemon it talks to             *)
(* (gateway-daemon.js): the two connections, the requests on them, the     *)
(* waits the Main sleeps in (gateway-service.js waitTasks), the task it    *)
(* follows (TaskFollower), where the Main is shown to stand                *)
(* (MainRegistry), who may take its session over, and the shutdown of the  *)
(* daemon.  All tasks are of one session, which the Main opened.           *)
(*                                                                         *)
(* A step runs to its next await.  The daemon looks every caller up        *)
(* (worker-tree.js) before it serves a request, so any request may find    *)
(* its connection gone by then.                                            *)
(***************************************************************************)
EXTENDS Integers, Sequences, SequencesExt, FiniteSets, MainRegistry, TaskFollower

CONSTANTS
  Tasks,        \* task ids
  Followed,     \* the one the MCP client creates as a task
  Calls,        \* ids of the tools' calls
  MaxInflight,  \* MAX_INFLIGHT_REQUESTS_PER_CONNECTION
  Scenarios,    \* maxWaitersPerRoot; which tools are called, how often at most, and the
                \* bounds on the tasks' changes, lost connections and ends of the daemon
  Others        \* may another Main take the session over?

ASSUME FrontDoorAssumption ==
  /\ Followed \in Tasks /\ {"subscribe", "task_get"} \cap Calls = {}
  /\ MaxInflight \in Nat \ {0}
  /\ Scenarios \subseteq [waiters : Nat \ {0}, kinds : SUBSET {"wait", "run", "ack"}, calls : Nat, changes : Nat, drops : Nat, ends : Nat]

VARIABLES
  daemon,  \* "up", "draining" (idle or forced), "down"
  tasks,   \* where each task stands and whether its result was delivered
  mine,    \* does the session, and with it the tasks, belong to this Main?
  main,    \* the Main's entry of the registry
  links,   \* the connections: "down", "up", "ended" by the front door only
  calls,   \* requests of the tools, and the follower's two
  subbed,  \* has the daemon a subscription of the follower's connection?
  wire,    \* frames from the daemon to the follower
  fol,     \* the follower
  host,    \* is the front door's host there?
  sent,    \* ghost: the tasks whose result was put on an open connection, or acknowledged on one
  used     \* the scenario, and the bounds spent

vars == <<daemon, tasks, mine, main, links, calls, subbed, wire, fol, host, sent, used>>

Roles == {"tools", "follower"}
Requests == Calls \cup {"subscribe", "task_get"}
Role(c) == IF c \in Calls THEN "tools" ELSE "follower"

\* live: its connection is not destroyed; kept: the front door still wants it
Idle == [at |-> "idle", kind |-> "none", live |-> FALSE, kept |-> FALSE, aborted |-> FALSE,
         watched |-> {}, running |-> {}, pending |-> {}, late |-> FALSE]

Init ==
  /\ daemon = "up" /\ mine = TRUE /\ main = NoMain /\ subbed = FALSE /\ wire = <<>>
  /\ fol = NotFollowing /\ host = TRUE /\ sent = {}
  /\ links = [r \in Roles |-> "down"]
  /\ calls = [c \in Requests |-> Idle]
  /\ used \in [scene : Scenarios, calls : {0}, changes : {0}, drops : {0}, ends : {0}]
  /\ tasks = [t \in Tasks |-> [status |-> IF "run" \in used.scene.kinds THEN "none" ELSE "working", seen |-> FALSE]]

Spend(bound) == used[bound] < used.scene[bound] /\ used' = [used EXCEPT ![bound] = @ + 1]

----------------------------------------------------------------------------
(* Tasks *)

Open(status) == status \in {"working", "input_required"}
There(t) == tasks[t].status \notin {"none", "gone"}

Asleep(cs) == {c \in Calls : cs[c].at = "blocked"}

\* Only the end of a task gives a sleeping wait back.
Wakes_End(t, status) == status \in {"completed", "gone"}

\* transition's flushWaiters and stopOn, and removal: what a waiter of waitForAny
\* that is registered on the task is released by.
Wakes(t, status) == status \in {"completed", "gone", "input_required"}

\* #publishToTaskSubscribers, to a subscription of this Main
Push(t, status) ==
  IF subbed /\ t = Followed /\ mine /\ status # "gone"
  THEN wire' = Append(wire, [kind |-> "event", status |-> status])
  ELSE UNCHANGED wire

\* A task takes another status, is committed, or is gone (its TTL): its waiters
\* are released, to look again, and its subscribers told (#publishTaskStatus).
Changes(t, status) ==
  /\ There(t) /\ status # tasks[t].status /\ status # "none"
  /\ Terminal(tasks[t].status) => status = "gone"
  /\ daemon # "down"
  /\ Spend("changes")
  /\ tasks' = [tasks EXCEPT ![t].status = status]
  /\ calls' = [c \in Requests |-> IF c \in Asleep(calls) /\ t \in calls[c].pending /\ Wakes(t, status)
                                  THEN [calls[c] EXCEPT !.at = "woken"] ELSE calls[c]]
  /\ Push(t, status)
  /\ UNCHANGED <<daemon, mine, main, links, subbed, fol, host, sent>>

----------------------------------------------------------------------------
(* Waits *)

Awaited(t) == tasks[t].status = "completed" /\ ~tasks[t].seen

\* #waitView
View(watched, running) ==
  LET there == {t \in watched : mine /\ There(t)}
  IN  [finished |-> {t \in there : tasks[t].status = "completed" /\ (t \in running \/ Awaited(t))},
       needsInput |-> {t \in there : tasks[t].status = "input_required"},
       working |-> {t \in there : tasks[t].status = "working"}]

\* waitReason
Reason(view) ==
  CASE view.needsInput # {} -> "needs_input"
    [] view.needsInput = {} /\ view.finished # {} -> "task_finished"
    [] view.needsInput = {} /\ view.finished = {} /\ view.working = {} -> "nothing_pending"
    [] OTHER -> "none"

\* #defaultWaitTasks
Default == {t \in Tasks : mine /\ There(t) /\ (Open(tasks[t].status) \/ Awaited(t))}

\* The wait ends for the reason, with an answer, or with an error ("error").
Ends(c, m, reason) ==
  /\ main' = CloseWait(m, c, reason)
  /\ calls' = [calls EXCEPT ![c] = Idle]

\* #markDelivered, #recordSeen: these results have reached their Main.
Delivered(ts) == tasks' = [t \in Tasks |-> IF t \in ts THEN [tasks[t] EXCEPT !.seen = TRUE] ELSE tasks[t]]

\* Results on the wire, or acknowledged: what the ghost takes only where the
\* request's connection is there.
Sends(call, ts) == sent' = IF call.live THEN sent \cup ts ELSE sent

\* The signal is not looked at before the marks.
Answer_Unread(c, call, m, view, reason) ==
  \E delivered \in IF reason = "task_finished" THEN (SUBSET view.finished) \ {{}} ELSE {{}} :
    /\ Delivered(delivered)
    /\ Sends(call, delivered)
    /\ Ends(c, m, reason)

\* #waitAnswer: nothing for a wait that was aborted.  Only task_finished carries
\* results, the first and then what the budget holds, and only those are seen.
Answer(c, call, m, view, reason) ==
  IF call.aborted THEN Ends(c, m, "error") /\ UNCHANGED <<tasks, sent>>
  ELSE \E delivered \in IF reason = "task_finished" THEN (SUBSET view.finished) \ {{}} ELSE {{}} :
         /\ Delivered(delivered)
         /\ Sends(call, delivered)
         /\ Ends(c, m, reason)

\* One round of waitTasks' loop: an answer, the end of an aborted wait or of one
\* over the waiters' limit, or a sleep on what still works.
Round(c, call, m) ==
  LET view == View(call.watched, call.running)
      reason == Reason(view)
  IN  \/ /\ reason # "none" \/ call.late
         /\ Answer(c, call, m, view, IF reason = "none" THEN "heartbeat" ELSE reason)
      \/ /\ reason = "none" /\ ~call.late /\ UNCHANGED <<tasks, sent>>
         /\ IF call.aborted THEN Ends(c, m, "error")
            ELSE IF Cardinality(Asleep(calls)) >= used.scene.waiters THEN Ends(c, BlockWait(m, c, view.working), "error")
            ELSE /\ main' = BlockWait(m, c, view.working)
                 /\ calls' = [calls EXCEPT ![c] = [call EXCEPT !.at = "blocked", !.pending = view.working]]

\* waitTasks from its start: named tasks must be there and this Main's.
Wait(c, m) ==
  \E named \in BOOLEAN, watched \in SUBSET Tasks, late \in BOOLEAN :
    /\ named => watched # {}
    /\ ~named => watched = Default
    /\ IF named /\ \E t \in watched : ~(mine /\ There(t))
       THEN Ends(c, m, "error") /\ UNCHANGED <<tasks, sent>>
       ELSE Round(c, [calls[c] EXCEPT !.watched = watched, !.late = late,
                        !.running = {t \in watched : Open(tasks[t].status)}], m)

\* The waiter was released, or its time ran out: the loop looks again.
LooksAgain(c) ==
  /\ calls[c].at = "woken"
  /\ Round(c, calls[c], main)
  /\ UNCHANGED <<daemon, mine, links, subbed, wire, fol, host, used>>

TimesOut(c) ==
  /\ calls[c].at = "blocked"
  /\ calls' = [calls EXCEPT ![c] = [@ EXCEPT !.at = "woken", !.late = TRUE]]
  /\ UNCHANGED <<daemon, tasks, mine, main, links, subbed, wire, fol, host, sent, used>>

\* The grace a heartbeat left runs out.
GraceRunsOut ==
  /\ main.grace.on /\ main' = GraceEnds(main)
  /\ UNCHANGED <<daemon, tasks, mine, links, calls, subbed, wire, fol, host, sent, used>>

----------------------------------------------------------------------------
(* Connections and requests *)

\* A connection is made: for the tools when one of them is called, for the
\* follower while it follows, which also makes its subscription again
\* (#connectAndRestore).
Connects(r) ==
  /\ host /\ links[r] = "down" /\ daemon # "down"
  /\ r = "follower" => fol.on /\ fol.got = {} /\ calls["subscribe"].at = "idle"
  /\ links' = [links EXCEPT ![r] = "up"]
  /\ IF r = "follower" /\ fol.sub = "live"
     THEN /\ fol' = Asks([fol EXCEPT !.sub = "restoring"], "subscribe")
          /\ calls' = [calls EXCEPT !["subscribe"] = [Idle EXCEPT !.at = "checking", !.kind = "subscribe", !.live = TRUE, !.kept = TRUE]]
     ELSE UNCHANGED <<fol, calls>>
  /\ UNCHANGED <<daemon, tasks, mine, main, subbed, wire, host, sent, used>>

Inflight(r) == Cardinality({c \in Requests : Role(c) = r /\ calls[c].live /\ calls[c].at \in {"checking", "blocked", "woken", "working"}})

\* A request reaches the daemon, which looks its caller up; one over the
\* connection's limit is refused and changes nothing.
Arrives(c, kind) ==
  /\ host /\ links[Role(c)] = "up" /\ calls[c].at = "idle"
  /\ Inflight(Role(c)) < MaxInflight
  /\ calls' = [calls EXCEPT ![c] = [Idle EXCEPT !.at = "checking", !.kind = kind, !.live = TRUE, !.kept = TRUE]]
  /\ UNCHANGED <<daemon, tasks, mine, main, links, subbed, wire, host, sent>>

\* A tool is called: agent_acp_wait, agent_acp_run as a task, agent_acp_inbox ack.
CallsTool(c, kind) ==
  /\ kind \in used.scene.kinds
  /\ kind = "run" => \E t \in Tasks : tasks[t].status = "none"
  /\ Spend("calls") /\ Arrives(c, kind) /\ UNCHANGED fol

\* A reply goes ahead of the events that are queued (send, on the HIGH lane), but
\* of no other reply.
Replies(frame) ==
  IF links["follower"] # "up" THEN UNCHANGED wire
  ELSE \E n \in 0..Len(wire) :
         /\ \A k \in (n + 1)..Len(wire) : wire[k].kind = "event"
         /\ wire' = InsertAt(wire, n + 1, frame)

Readable(t) == mine /\ There(t)

\* What the daemon answers the follower with: where the task stands, or that it
\* will never say again (UNKNOWN_TASK, NOT_TASK_OWNER).
Reads(c) == [kind |-> IF Readable(Followed) THEN c ELSE "gone", status |-> tasks[Followed].status]

\* The request is served whatever became of its connection.
Drops_Never(c) == FALSE

\* The connection closed while the caller was looked up: its close handler has run.
Drops(c) == ~calls[c].live

\* #ackTasks: the Main has these results, whichever way they reached it.
Acks(call) ==
  \E acked \in SUBSET {t \in Tasks : Readable(t) /\ Terminal(tasks[t].status)} :
    /\ Delivered(acked)
    /\ Sends(call, acked)

\* Draining is not looked at.
MayMutate_Always == TRUE

\* A draining Gateway takes no call that may change something (call).
MayMutate == daemon = "up"

\* The caller is looked up: the request is dropped, or the connection speaks for
\* its Main from now on and the request is served to its next await.
Serves(c) ==
  LET m == Attach(main, Role(c))
      done == [calls EXCEPT ![c] = Idle]
  IN  /\ calls[c].at = "checking" /\ daemon # "down"
      /\ \/ /\ Drops(c)
            /\ calls' = done /\ UNCHANGED <<main, tasks, sent, subbed, wire>>
         \/ /\ ~Drops(c) /\ calls[c].kind = "wait"
            /\ Wait(c, m) /\ UNCHANGED <<subbed, wire>>
         \/ /\ ~Drops(c) /\ calls[c].kind = "run" /\ MayMutate
            /\ main' = GraceEnds(m) /\ calls' = [calls EXCEPT ![c].at = "working"]
            /\ UNCHANGED <<tasks, sent, subbed, wire>>
         \/ /\ ~Drops(c) /\ calls[c].kind = "ack" /\ MayMutate
            /\ main' = GraceEnds(m) /\ calls' = done /\ Acks(calls[c]) /\ UNCHANGED <<subbed, wire>>
         \/ /\ ~Drops(c) /\ calls[c].kind \in {"run", "ack"} /\ ~MayMutate
            /\ main' = m /\ calls' = done /\ UNCHANGED <<tasks, sent, subbed, wire>>
         \/ /\ ~Drops(c) /\ calls[c].kind \in {"subscribe", "task_get"}
            /\ main' = m /\ calls' = done /\ Replies(Reads(calls[c].kind))
            /\ subbed' = (subbed \/ (calls[c].kind = "subscribe" /\ Readable(Followed)))
            /\ UNCHANGED <<tasks, sent>>
      /\ UNCHANGED <<daemon, mine, links, fol, host, used>>

\* task_run admits a task, durable before it answers, whoever is left to read that;
\* or it fails, and the call with it.
Admits(c) ==
  /\ calls[c].at = "working" /\ daemon # "down"
  /\ \/ \E t \in Tasks :
          /\ tasks[t].status = "none"
          /\ tasks' = [tasks EXCEPT ![t].status = "working"]
          /\ calls' = [calls EXCEPT ![c] = IF @.live /\ @.kept THEN [@ EXCEPT !.at = "replied", !.watched = {t}] ELSE Idle]
     \/ calls' = [calls EXCEPT ![c] = Idle] /\ UNCHANGED tasks
  /\ UNCHANGED <<daemon, mine, main, links, subbed, wire, fol, host, sent, used>>

\* The front door reads the CreateTaskResult, and follows the task.
Created(c) ==
  /\ calls[c].at = "replied" /\ host
  /\ calls' = [calls EXCEPT ![c] = Idle]
  /\ fol' = IF calls[c].kept /\ Followed \in calls[c].watched THEN Follow(fol) ELSE fol
  /\ UNCHANGED <<daemon, tasks, mine, main, links, subbed, wire, host, sent, used>>

\* The host cancels the tool's call (raceAbort), or the RPC client's own timeout
\* ends it: it is no longer wanted, and request_cancel is on its way.
GivesUp(c) ==
  /\ calls[c].at \in {"checking", "blocked", "woken", "working"} /\ calls[c].kept /\ c \in Calls
  /\ calls' = [calls EXCEPT ![c].kept = FALSE]
  /\ UNCHANGED <<daemon, tasks, mine, main, links, subbed, wire, fol, host, sent, used>>

\* An aborted wait is over at its next look.
Abort(call) == [call EXCEPT !.aborted = TRUE, !.at = IF @ = "blocked" THEN "woken" ELSE @]

\* request_cancel, which the daemon serves after the request it cancels
CancelArrives(c) ==
  /\ calls[c].at \in {"blocked", "woken"} /\ ~calls[c].kept /\ calls[c].live /\ ~calls[c].aborted
  /\ calls' = [calls EXCEPT ![c] = Abort(@)]
  /\ UNCHANGED <<daemon, tasks, mine, main, links, subbed, wire, fol, host, sent, used>>

\* The daemon's close handler, and the RPC client's when the connection was lost:
\* its requests are aborted and its subscriptions removed before the Main is let
\* go of, so a Main asleep goes from waiting_tasks to gone.
Closes(r) ==
  /\ links[r] # "down" /\ daemon # "down" /\ fol.got = {}
  /\ IF links[r] = "up" THEN Spend("drops") ELSE UNCHANGED used
  /\ links' = [links EXCEPT ![r] = "down"]
  /\ calls' = [c \in Requests |->
       IF Role(c) # r \/ ~calls[c].live THEN calls[c]
       ELSE IF calls[c].at = "replied" THEN Idle
       ELSE [Abort(calls[c]) EXCEPT !.live = FALSE, !.kept = FALSE]]
  /\ main' = Detach(main, r)
  /\ IF r = "follower" THEN subbed' = FALSE /\ wire' = <<>> /\ fol' = Disconnected(fol)
                       ELSE UNCHANGED <<subbed, wire, fol>>
  /\ UNCHANGED <<daemon, tasks, mine, host, sent>>

\* stop: however the host goes, both connections are ended.
HostLeaves ==
  /\ host /\ host' = FALSE /\ fol.got = {}
  /\ fol' = Stop(fol)
  /\ links' = [r \in Roles |-> IF links[r] = "up" THEN "ended" ELSE links[r]]
  /\ calls' = [c \in Requests |-> IF calls[c].at = "replied" THEN Idle ELSE [calls[c] EXCEPT !.kept = FALSE]]
  /\ wire' = <<>>
  /\ UNCHANGED <<daemon, tasks, mine, main, subbed, sent, used>>

----------------------------------------------------------------------------
(* The follower *)

\* A step of the follower: with its last task the connection goes too (#idle).
Follower(f) ==
  /\ fol' = f
  /\ links' = IF fol.on /\ ~f.on /\ links["follower"] = "up" THEN [links EXCEPT !["follower"] = "ended"] ELSE links
  /\ UNCHANGED <<daemon, tasks, mine, main, subbed, host, sent, used>>

\* #subscribe, once; without a daemon it fails and the heartbeat goes on alone.
Subscribes ==
  /\ fol.on /\ fol.sub = "none"
  /\ \/ /\ Arrives("subscribe", "subscribe") /\ fol' = Asks([fol EXCEPT !.sub = "asking"], "subscribe")
        /\ UNCHANGED used
     \/ /\ daemon = "down" /\ Follower([fol EXCEPT !.sub = "lost"]) /\ UNCHANGED <<calls, wire>>

\* #beat: the task is read, unless the read before is still out.
Beats ==
  /\ fol.on /\ fol.asked \cap {"task_get"} = {} /\ fol.got = {} /\ fol.sub # "restoring"
  /\ Arrives("task_get", "task_get") /\ fol' = Asks(fol, "task_get") /\ UNCHANGED used

\* A frame is read: an event goes to the subscription it is known by, or waits for
\* that; a reply's await goes on once the chunk it came in is read.
ReadsFrame ==
  /\ wire # <<>> /\ links["follower"] = "up"
  /\ LET frame == Head(wire) IN
       Follower(CASE frame.kind # "event" -> [fol EXCEPT !.got = @ \cup {frame}]
                  [] frame.kind = "event" /\ fol.sub = "live" -> OnEvent(fol, frame.status)
                  [] frame.kind = "event" /\ fol.sub \in {"asking", "restoring"} -> [fol EXCEPT !.early = Append(@, frame.status)]
                  [] OTHER -> fol)
  /\ wire' = IF fol'.on THEN Tail(wire) ELSE <<>>
  /\ UNCHANGED calls

\* The await of a reply goes on.
GoesOn(frame) ==
  /\ frame \in fol.got
  /\ LET f == [fol EXCEPT !.got = @ \ {frame}, !.asked = @ \ {frame.kind}] IN
       Follower(CASE frame.kind = "gone"                                    -> Stop(f)
                  [] frame.kind = "task_get"                                -> ReadBack(f, frame.status)
                  [] frame.kind = "subscribe" /\ fol.sub = "restoring"      -> Restored(f, frame.status)
                  [] OTHER                                                  -> Subscribed(f, frame.status))
  /\ wire' = IF fol'.on THEN wire ELSE <<>>
  /\ UNCHANGED calls

----------------------------------------------------------------------------
(* The daemon's end, and who holds the session *)

\* CallerPresence, and #ownerIsLive, which counts subscriptions too
IsLive == main.conns # {} \/ subbed

\* #adoptIfOwnerGone: another Main restores the session by name.
Adopts ==
  /\ Others /\ daemon = "up" /\ mine /\ ~IsLive
  /\ mine' = FALSE
  /\ UNCHANGED <<daemon, tasks, main, links, calls, subbed, wire, fol, host, sent, used>>

\* shutdownBlockers: active tasks and calls that may still change something.
Blocked == (\E t \in Tasks : Open(tasks[t].status)) \/ (\E c \in Calls : calls[c].at = "working")

\* prepareShutdown, of shutdown_if_idle or of a daemon_shutdown that is forced
Drains(force) ==
  /\ daemon = "up" /\ (force \/ ~Blocked) /\ Spend("ends")
  /\ daemon' = IF force THEN "forced" ELSE "idle"
  /\ UNCHANGED <<tasks, mine, main, links, calls, subbed, wire, fol, host, sent>>

\* What ends with the process: connections, requests and the registry.
Gone ==
  /\ fol.got = {}
  /\ daemon' = "down" /\ main' = NoMain /\ subbed' = FALSE /\ wire' = <<>>
  /\ links' = [r \in Roles |-> "down"] /\ calls' = [c \in Requests |-> Idle]
  /\ fol' = Disconnected(fol)
  /\ UNCHANGED <<host, sent>>

\* shutdown, right after the drain
Exits == daemon \in {"idle", "forced"} /\ Gone /\ UNCHANGED <<tasks, mine, used>>

\* The process dies: a seen mark or an adoption it has not saved goes with it.
Dies ==
  /\ daemon = "up" /\ Spend("ends") /\ Gone
  /\ \E lost \in SUBSET Tasks :
       tasks' = [t \in Tasks |-> IF t \in lost THEN [tasks[t] EXCEPT !.seen = FALSE] ELSE tasks[t]]
  /\ mine' \in {mine, TRUE}

\* A daemon starts, for a tool's call: what was open is interrupted (init).
Starts ==
  /\ daemon = "down" /\ daemon' = "up"
  /\ tasks' = [t \in Tasks |-> IF Open(tasks[t].status) THEN [tasks[t] EXCEPT !.status = "completed"] ELSE tasks[t]]
  /\ UNCHANGED <<mine, main, links, calls, subbed, wire, fol, host, sent, used>>

----------------------------------------------------------------------------
Next ==
  \/ \E t \in Tasks, status \in {"working", "input_required", "completed", "gone"} : Changes(t, status)
  \/ \E c \in Calls : \/ LooksAgain(c) \/ TimesOut(c) \/ Admits(c) \/ Created(c) \/ GivesUp(c) \/ CancelArrives(c)
                      \/ \E kind \in {"wait", "run", "ack"} : CallsTool(c, kind)
  \/ \E c \in Requests : Serves(c)
  \/ \E r \in Roles : Connects(r) \/ Closes(r)
  \/ Subscribes \/ Beats \/ ReadsFrame \/ \E frame \in fol.got : GoesOn(frame)
  \/ GraceRunsOut \/ HostLeaves \/ Adopts \/ Exits \/ Dies \/ Starts
  \/ \E force \in BOOLEAN : Drains(force)

Spec == Init /\ [][Next]_vars

\* The daemon's lookups end; the follower's heartbeat and its reconnect fire again
\* and again, and it reads what is there to read.
Fairness ==
  /\ WF_vars(Serves("subscribe")) /\ WF_vars(Serves("task_get"))
  /\ WF_vars(Connects("follower")) /\ WF_vars(Beats) /\ WF_vars(ReadsFrame)
  /\ WF_vars(\E frame \in fol.got : GoesOn(frame))

FairSpec == Spec /\ Fairness

----------------------------------------------------------------------------
Statuses == {"none", "working", "input_required", "completed", "gone"}

\* Every variable is of its kind, and a request waits only where its kind may.
TypeOK ==
  /\ daemon \in {"up", "idle", "forced", "down"} /\ {mine, subbed, host} \subseteq BOOLEAN
  /\ tasks \in [Tasks -> [status : Statuses, seen : BOOLEAN]] /\ sent \subseteq Tasks
  /\ links \in [Roles -> {"down", "up", "ended"}]
  /\ \A c \in Requests : /\ calls[c].at \in {"idle", "checking", "blocked", "woken", "working", "replied"}
                         /\ calls[c].at \in {"blocked", "woken"} => calls[c].kind = "wait"

\* A Main is shown while, and only while, a connection that named it is open or a
\* wait of its has not ended; it is shown asleep on what its waits watch.  What is
\* registered after the connection closed would never be undone (gateway-daemon.js).
MainIsShownAsItIs ==
  LET asleep == {c \in Calls : calls[c].at \in {"blocked", "woken"}}
  IN  /\ TypeOK
      /\ main.conns \subseteq {r \in Roles : links[r] # "down"}
      /\ \A c \in asleep \cup {d \in Calls : calls[d].at = "working"} : calls[c].live => Role(c) \in main.conns
      /\ {w.call : w \in main.waits} = asleep
      /\ Listed(main) <=> main.conns # {} \/ asleep # {}
      /\ asleep # {} => /\ main.shown.status = "waiting_tasks"
                        /\ main.shown.tasks = (UNION {calls[c].pending : c \in asleep}) \cup main.grace.tasks

\* No wait sleeps while something it watches needs the Main, or while nothing it
\* watches still runs (waitTasks, waitForAny).
NeverSleepsOnNews ==
  \A c \in Calls : calls[c].at = "blocked" =>
    LET view == View(calls[c].watched, calls[c].running)
    IN  Reason(view) = "none" /\ view.working \subseteq calls[c].pending

\* A result counts as seen only if it was in an answer for a connection that was
\* there when it was marked, or acknowledged on one: a wait whose connection closed
\* is aborted by the close handler, and #waitAnswer looks at the signal before it marks.
SeenWasSent == \A t \in Tasks : tasks[t].seen => t \in sent

\* A Gateway that drains because it was idle stays idle: no task runs or is being
\* admitted when its connections are cut (prepareShutdown, call).
IdleStaysIdle ==
  daemon = "idle" => /\ \A t \in Tasks : ~Open(tasks[t].status)
                     /\ \A c \in Calls : calls[c].at # "working"

\* What the follower says of a task is true: the terminal status is sent once,
\* last, and it is the task's own, and with nothing on its way a follower whose
\* subscription lives knows where the task stands, so that no older read replaced a
\* newer push (TaskFollower #observe, #check, #subscribe).
FollowerIsCurrent ==
  /\ \A n \in DOMAIN fol.told : Terminal(fol.told[n]) =>
       n = Len(fol.told) /\ ~fol.on /\ tasks[Followed].status \in {"completed", "gone"}
  /\ fol.on /\ fol.sub = "live" /\ links["follower"] = "up" /\ wire = <<>> /\ fol.got = {} /\ mine
       /\ There(Followed) => fol.status = tasks[Followed].status

\* A followed task that ends, or is gone, is not followed for ever, whatever was
\* lost on the way: the subscription or the heartbeat says so.
FollowedToTheEnd ==
  (fol.on /\ daemon = "up" /\ tasks[Followed].status \in {"completed", "gone"}) ~> (~fol.on \/ daemon # "up")
=============================================================================
