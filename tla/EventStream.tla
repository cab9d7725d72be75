---------------------------- MODULE EventStream ----------------------------
(***************************************************************************)
(* A Main's subscription to one session, from the worker's update to the   *)
(* Main's handler: the session's event ring (sessions.js), the service's   *)
(* subscribe and publishEvent (gateway-service.js), the lane policy of the *)
(* daemon's connection (socket-flow.js), the framed channel under it       *)
(* (ndjson-channel.js) and the RPC client at the other end, which          *)
(* reconnects and resubscribes from its cursor (socket-rpc.js).            *)
(*                                                                         *)
(* Every frame weighs one unit, so the lanes' byte budgets are numbers of  *)
(* frames; a frame is a record, and an event is its place in `log`, the    *)
(* history of everything the session ever published.                       *)
(***************************************************************************)
EXTENDS Integers, Sequences, SequencesExt, FiniteSetsExt

CONSTANTS
  Types,          \* the kinds of event the worker causes
  None,           \* null
  LowBudget, NormalBudget, HighBudget,  \* the budgets of the lanes, in frames
  MaxQueue,       \* maxQueueBytes: the stream's and the lanes' frames together
  HighWater,      \* the stream refuses more once it holds so many frames
  MaxTelemetry,   \* maxEvents: the telemetry the ring keeps
  ControlSlots,   \* CONTROL_EVENT_SLOTS: the control events it keeps on top
  ReplayBudget,   \* maxReplayBytes, in events
  Lossy,          \* may a restart lose what the last snapshot did not hold?
  MaxLog,         \* bound: events published
  MaxDrops,       \* bound: connections lost
  MaxRestarts,    \* bound: restarts of the daemon
  MaxRequests     \* bound: requests made before an unsubscribe

ASSUME BudgetsAssumption ==
  /\ {LowBudget, NormalBudget, HighBudget, HighWater} \subseteq Nat \ {0}
  /\ MaxQueue \in Nat /\ MaxQueue >= HighWater
  /\ {MaxTelemetry, ControlSlots, ReplayBudget} \subseteq Nat
  /\ Types \subseteq {"control", "telemetry", "tool", "chunk"}
  /\ Lossy \in BOOLEAN /\ None \notin Nat

VARIABLES
  log,      \* history: every event published, [i |-> sequence, type |-> kind]
  session,  \* the session's record: eventSequence, ring and watermarks
  saved,    \* its checkpoint in the last snapshot, as old as the last start
  chan,     \* the daemon's end of the connection: stream, lanes, subscriptions
  asks,     \* requests on their way to the daemon
  link,     \* the connection: "down", "up", or "closing" at the daemon's end
  client,   \* the Main's RPC client and its one subscription record
  got,      \* history: the events its handler was given
  cut,      \* history: the events a truncated replay told it of
  drops, restarts

vars == <<log, session, saved, chan, asks, link, client, got, cut, drops, restarts>>

\* DURABLE_EVENT_TYPES: the control events, which ride the NORMAL lane and have
\* ring slots of their own.
Durable(type) == type = "control"

MinOf(a, b) == IF a < b THEN a ELSE b
MaxOf(a, b) == IF a > b THEN a ELSE b

Sequence(n) == log[n].i

\* dropWhere, and every other filter of the code: the elements of a sequence that
\* are in a set, in their order. This and the loops below are recursive functions.
Only(seq, set) ==
  LET kept[n \in 0 .. Len(seq)] ==
        IF n = 0 THEN <<>>
        ELSE IF seq[n] \in set THEN Append(kept[n - 1], seq[n]) ELSE kept[n - 1]
  IN kept[Len(seq)]

(***************************************************************************)
(* The ring.                                                               *)
(***************************************************************************)
\* #evict drops the oldest telemetry past its budget, then the oldest control
\* past its own; the watermark is the highest sequence that left.
Evict(s) ==
  LET Of(d) == Only(s.ring, {e \in Range(s.ring) : Durable(e.type) = d})
      Over(d, limit) == IF Len(Of(d)) > limit
                        THEN Range(SubSeq(Of(d), 1, Len(Of(d)) - limit)) ELSE {}
      gone == Over(FALSE, MaxTelemetry) \cup Over(TRUE, ControlSlots)
  IN  [s EXCEPT !.ring = Only(@, Range(@) \ gone),
                !.evicted = Max({@} \cup {e.i : e \in gone})]

\* push, publishChunk and pushToolCallUpdate: a raw chunk is live only, a tool
\* call's new state replaces its prior entry under a fresh sequence.
Push(s, type) ==
  LET e == [i |-> s.seq, type |-> type, n |-> Len(log) + 1]
      kept == IF type = "tool" THEN Only(s.ring, {x \in Range(s.ring) : x.type # "tool"}) ELSE s.ring
  IN  IF type = "chunk"
      THEN [s EXCEPT !.seq = @ + 1, !.lastMessage = s.seq]
      ELSE Evict([s EXCEPT !.seq = @ + 1, !.ring = Append(kept, e)])

(***************************************************************************)
(* The framed channel and its lane policy.                                 *)
(***************************************************************************)
Queued(c) == Len(c.high) + Len(c.normal) + Len(c.low)

Lane(c, lane) == CASE lane = "high" -> c.high [] lane = "normal" -> c.normal [] OTHER -> c.low

Budget(lane) == CASE lane = "high" -> HighBudget [] lane = "normal" -> NormalBudget [] OTHER -> LowBudget

Fits(c, lane) == /\ Len(Lane(c, lane)) < Budget(lane)
                 /\ Len(c.stream) + Queued(c) < MaxQueue

\* #toStream: the stream takes the frame, and is blocked once it is full.
ToStream(c, frame) ==
  [c EXCEPT !.stream = Append(@, frame), !.blocked = Len(c.stream) + 1 >= HighWater]

\* #fail: the lanes are discarded unreported and onFatal destroys the socket,
\* whose close handler removes the connection's subscriptions.
Fail(c) == [c EXCEPT !.failed = TRUE, !.high = <<>>, !.normal = <<>>, !.low = <<>>, !.subs = <<>>]

Queue(c, lane, frame) ==
  CASE lane = "high"   -> [c EXCEPT !.high = Append(@, frame)]
    [] lane = "normal" -> [c EXCEPT !.normal = Append(@, frame)]
    [] OTHER           -> [c EXCEPT !.low = Append(@, frame)]

\* write on a lane that is never shed: straight to an idle stream, else queued,
\* and a lane past its budget fails the connection.
Write(c, lane, frame) ==
  CASE c.failed                                 -> c
    [] ~c.failed /\ Queued(c) = 0 /\ ~c.blocked -> ToStream(c, frame)
    [] OTHER -> IF Fits(c, lane) THEN Queue(c, lane, frame) ELSE Fail(c)

\* reportGaps for one shed frame: the marker still queued is widened in place,
\* else a new one is written.
ReportGap(c, sub, i) ==
  LET Mine(f) == f.kind = "gap" /\ f.sub = sub
      at == SelectInSeq(c.normal, Mine)
  IN  IF at > 0
      THEN [c EXCEPT !.normal[at].from = MinOf(@, i), !.normal[at].to = MaxOf(@, i)]
      ELSE Write(c, "normal", [kind |-> "gap", sub |-> sub, from |-> i, to |-> i])

\* write on LOW: a queued update of the same tool call is superseded where it
\* stands, a frame past the budget is dropped, and either loss is reported.
WriteLow(c, frame) ==
  LET same(f) == log'[frame.n].type = "tool" /\ f.sub = frame.sub /\ log'[f.n].type = "tool"
      at == SelectInSeq(c.low, same)
      i == log'[frame.n].i
  IN  CASE c.failed                                 -> c
        [] ~c.failed /\ Queued(c) = 0 /\ ~c.blocked -> ToStream(c, frame)
        [] ~c.failed /\ (Queued(c) > 0 \/ c.blocked) /\ at > 0 ->
             ReportGap([c EXCEPT !.low[at] = frame], frame.sub, log'[c.low[at].n].i)
        [] OTHER -> IF Fits(c, "low") THEN Queue(c, "low", frame) ELSE ReportGap(c, frame.sub, i)

\* reportGaps, for all the frames that were shed.
ReportGaps(c, sub, lost) ==
  LET after[n \in 0 .. Len(lost)] ==
        IF n = 0 THEN c ELSE ReportGap(after[n - 1], sub, log'[lost[n].n].i)
  IN  after[Len(lost)]

RetractOvertaken_Never(c, sub, i) == c

\* retractOvertaken: the LOW frames of this subscription that the reserved frame
\* is about to overtake are dropped and reported.
RetractOvertaken(c, sub, i) ==
  LET overtaken == {f \in Range(c.low) : f.sub = sub /\ log'[f.n].i < i}
  IN  ReportGaps([c EXCEPT !.low = Only(@, Range(@) \ overtaken)], sub, Only(c.low, overtaken))

SendEvent_AllLow(c, sub, n) == WriteLow(c, [kind |-> "event", sub |-> sub, n |-> n])

\* sendEvent, for a subscriber that accepts gaps: durable events on NORMAL,
\* everything else on LOW.
SendEvent(c, sub, n) ==
  LET frame == [kind |-> "event", sub |-> sub, n |-> n]
  IN  IF Durable(log'[n].type)
      THEN Write(RetractOvertaken(c, sub, log'[n].i), "normal", frame)
      ELSE WriteLow(c, frame)

\* publishEvent, to each subscription of the connection.
Publishes(c, n) ==
  LET after[k \in 0 .. Len(c.subs)] == IF k = 0 THEN c ELSE SendEvent(after[k - 1], c.subs[k], n)
  IN  after[Len(c.subs)]

Closing(c) == IF link = "up" /\ c.failed THEN "closing" ELSE link

(***************************************************************************)
(* The RPC client's handling of what arrives.                              *)
(***************************************************************************)
\* What a subscription's handler has been given once a frame is delivered:
\* [client, got, cut].
Told == [client |-> client, got |-> got, cut |-> cut]

\* #deliver: a gap marker lowers the floor and is reported; an event below the
\* cursor is skipped, any other moves the cursor past itself.
Deliver(t, frame) ==
  IF frame.kind = "gap"
  THEN [t EXCEPT !.client.floor = IF @ = None THEN frame.from ELSE MinOf(@, frame.from)]
  ELSE IF Sequence(frame.n) < t.client.cursor THEN t
  ELSE [t EXCEPT !.client.cursor = Sequence(frame.n) + 1, !.got = @ \cup {frame.n}]

\* Frames one after the other.
Delivered(t, frames) ==
  LET after[n \in 0 .. Len(frames)] == IF n = 0 THEN t ELSE Deliver(after[n - 1], frames[n])
  IN  after[Len(frames)]

\* #drainEarlyEvents: the frames of this server id that came before its reply
\* was awaited.
DrainEarly(c, id) == Only(c.early, {f \in Range(c.early) : f.sub = id})

\* A subscribe's reply, awaited: the record takes the server's id, a truncated
\* replay is reported, the replayed events and then the early ones are
\* delivered.  The first subscribe hands the replay to its caller
\* (#advanceReplay), a resubscribe to the handler; the floor is cleared.
Subscribed(t, r) ==
  LET c == [t.client EXCEPT !.state = "live", !.server = r.id, !.floor = None, !.reply = None,
                            !.early = Only(@, {f \in Range(@) : f.sub # r.id})]
      missing == IF r.truncated THEN {n \in DOMAIN log : n <= r.upto /\ Sequence(n) >= r.cursor} ELSE {}
      replay == [k \in DOMAIN r.events |-> [kind |-> "event", sub |-> r.id, n |-> r.events[k]]]
      replayed == Delivered([t EXCEPT !.client = c, !.cut = @ \cup missing], replay)
  IN  Delivered(replayed, DrainEarly(t.client, r.id))

\* #failSubscription, close(), and a first subscribe or an unsubscribe that is
\* over: the record is gone, its handler told.
Ended(c) == [c EXCEPT !.state = "ended", !.server = None, !.reply = None,
                      !.pending = None, !.timer = FALSE]

Disconnected_Restoring(c) ==
  LET d == [c EXCEPT !.server = None, !.early = <<>>, !.pending = None]
  IN  IF c.state = "live" THEN [d EXCEPT !.timer = c.server # None] ELSE Ended(d)

\* #disconnect: what is pending is rejected, the server's ids are forgotten, and
\* a client with a subscription schedules its reconnect.
Disconnected(c) ==
  LET d == [c EXCEPT !.server = None, !.early = <<>>, !.pending = None]
  IN  IF c.state = "live" THEN [d EXCEPT !.timer = TRUE] ELSE Ended(d)

\* #restoreSubscriptions: the cursor goes back to the floor, which stays until
\* the resubscribe that carried it is answered.
Rewound(c) == [c EXCEPT !.cursor = IF c.floor = None THEN @ ELSE MinOf(@, c.floor)]

----------------------------------------------------------------------------
NoFrames == [stream |-> <<>>, high |-> <<>>, normal |-> <<>>, low |-> <<>>,
             blocked |-> FALSE, failed |-> FALSE, subs |-> <<>>]

Init ==
  /\ log = <<>>
  /\ session = [seq |-> 0, ring |-> <<>>, evicted |-> -1, lastMessage |-> -1]
  /\ saved = session
  /\ chan = NoFrames
  /\ asks = <<>>
  /\ link = "down"
  /\ client = [state |-> "calling", cursor |-> 0, floor |-> None, server |-> None,
               early |-> <<>>, pending |-> None, reply |-> None, timer |-> FALSE, requests |-> 0]
  /\ got = {} /\ cut = {}
  /\ drops = 0 /\ restarts = 0

history == <<got, cut>>
bounds == <<drops, restarts>>

\* Bound: the model follows the subscription to its end.
Watching == client.state # "ended"

Takes(t) == client' = t.client /\ got' = t.got /\ cut' = t.cut

\* The worker causes an event: the ring keeps it and publishEvent emits it to
\* every subscription of the connection.
Publish(type) ==
  /\ Watching /\ Len(log) < MaxLog
  /\ log' = Append(log, [i |-> session.seq, type |-> type])
  /\ session' = Push(session, type)
  /\ chan' = Publishes(chan, Len(log'))
  /\ link' = Closing(chan')
  /\ UNCHANGED <<saved, asks, client, history, bounds>>

\* The stream drained: the channel pumps HIGH, then NORMAL, then LOW into it
\* until it is full again.
Drain ==
  /\ chan.blocked /\ ~chan.failed /\ Len(chan.stream) < HighWater
  /\ LET room == HighWater - Len(chan.stream)
         h == MinOf(room, Len(chan.high))
         n == MinOf(room - h, Len(chan.normal))
         k == MinOf(room - h - n, Len(chan.low))
     IN  chan' = [chan EXCEPT
           !.stream = @ \o SubSeq(chan.high, 1, h) \o SubSeq(chan.normal, 1, n) \o SubSeq(chan.low, 1, k),
           !.high = SubSeq(@, h + 1, Len(@)),
           !.normal = SubSeq(@, n + 1, Len(@)),
           !.low = SubSeq(@, k + 1, Len(@)),
           !.blocked = h + n + k >= room]
  /\ UNCHANGED <<log, session, saved, asks, link, client, history, bounds>>

\* The stream took no byte for writeTimeoutMs: the connection fails.
WriteTimesOut ==
  /\ chan.blocked /\ ~chan.failed /\ Watching /\ drops < MaxDrops
  /\ chan' = Fail(chan)
  /\ link' = Closing(chan')
  /\ drops' = drops + 1
  /\ UNCHANGED <<log, session, saved, asks, client, history, restarts>>

\* The daemon answers a request of the connection.  A subscribe replays the
\* ring from its cursor, newest first within the budget, and says whether
\* anything since the cursor is missing: evicted, live only or cut; or it is
\* refused, the session being gone or the subscriptions at their limit.
Candidates(cursor) == Only(session.ring, {e \in Range(session.ring) : e.i >= cursor})

Replay(cursor) ==
  LET all == Candidates(cursor)
  IN  SubSeq(all, MaxOf(1, Len(all) - ReplayBudget + 1), Len(all))

Truncated(cursor) ==
  \/ cursor <= session.evicted
  \/ cursor <= session.lastMessage
  \/ Len(Candidates(cursor)) > ReplayBudget

Handle ==
  /\ asks # <<>> /\ link = "up"
  /\ asks' = Tail(asks)
  /\ LET ask == Head(asks)
         kept == Replay(ask.cursor)
         reply == [kind |-> "reply", id |-> ask.id, ok |-> TRUE, cursor |-> ask.cursor,
                   events |-> [k \in DOMAIN kept |-> kept[k].n],
                   truncated |-> Truncated(ask.cursor), upto |-> Len(log)]
     IN  \/ /\ ask.method = "subscribe"
            /\ chan' = Write([chan EXCEPT !.subs = Append(@, ask.id)], "high", reply)
         \/ /\ ask.method = "subscribe"
            /\ chan' = Write(chan, "high", [reply EXCEPT !.ok = FALSE, !.events = <<>>, !.truncated = FALSE])
         \/ /\ ask.method = "unsubscribe"
            /\ chan' = Write([chan EXCEPT !.subs = Only(@, Range(@) \ {ask.cursor})], "high",
                             [reply EXCEPT !.events = <<>>, !.truncated = FALSE])
  /\ link' = Closing(chan')
  /\ UNCHANGED <<log, session, saved, client, history, bounds>>

\* The daemon stops, having written its state, or dies since its last snapshot,
\* and the next one loads the session: no ring, everything below its sequence
\* gone.
Restart ==
  /\ Watching /\ restarts < MaxRestarts
  /\ restarts' = restarts + 1
  /\ \E s \in (IF Lossy THEN {saved, session} ELSE {session}) :
       session' = [s EXCEPT !.ring = <<>>, !.evicted = MaxOf(@, s.seq - 1)]
  /\ saved' = session'
  /\ chan' = Fail(chan)
  /\ link' = IF link = "up" THEN "closing" ELSE link
  /\ UNCHANGED <<log, asks, client, history, drops>>

----------------------------------------------------------------------------
\* A reply that arrived is awaited before anything but the lines of its own
\* chunk.
Idle == client.reply = None

Ask(c, method, cursor) ==
  /\ client' = [c EXCEPT !.pending = c.requests + 1, !.requests = @ + 1]
  /\ asks' = Append(asks, [id |-> c.requests + 1, method |-> method, cursor |-> cursor])

\* connect(): the first subscribe, or the reconnect timer, which restores the
\* subscription from its cursor.
Connect ==
  /\ link = "down" /\ Idle
  /\ client.state = "calling" \/ client.timer
  /\ link' = "up"
  /\ chan' = NoFrames
  /\ LET c == Rewound([client EXCEPT !.timer = FALSE]) IN Ask(c, "subscribe", c.cursor)
  /\ UNCHANGED <<log, session, saved, history, bounds>>

\* #onLine: a frame arrives.  A reply resolves the request that waits for it; an
\* event or a marker of an id no reply has named yet is kept.
Receive ==
  /\ link # "down" /\ chan.stream # <<>>
  /\ chan' = [chan EXCEPT !.stream = Tail(@)]
  /\ LET f == Head(chan.stream)
     IN  \/ /\ f.kind = "reply"
            /\ client' = IF f.id = client.pending THEN [client EXCEPT !.pending = None, !.reply = f]
                         ELSE client
            /\ UNCHANGED history
         \/ /\ f.kind # "reply" /\ f.sub = client.server
            /\ Takes(Deliver(Told, f))
         \/ /\ f.kind # "reply" /\ f.sub # client.server
            /\ client' = [client EXCEPT !.early = Append(@, f)]
            /\ UNCHANGED history
  /\ UNCHANGED <<log, session, saved, asks, link, bounds>>

\* The awaiting code goes on: a subscription is made or restored, or, refused,
\* ends; an unsubscribe ends it.
Resume ==
  /\ client.reply # None
  /\ \/ client.reply.ok /\ client.server = None /\ Takes(Subscribed(Told, client.reply))
     \/ /\ ~client.reply.ok \/ client.server # None
        /\ client' = Ended(client) /\ UNCHANGED history
  /\ UNCHANGED <<log, session, saved, chan, asks, link, bounds>>

\* A request's timer: a first subscribe rejects, a resubscribe ends the
\* subscription, an unsubscribe leaves it as it is.
TimeOut ==
  /\ client.pending # None /\ Idle
  /\ client' = IF client.server = None THEN Ended(client) ELSE [client EXCEPT !.pending = None]
  /\ UNCHANGED <<log, session, saved, chan, asks, link, history, bounds>>

\* unsubscribe(), of a restored subscription (a restore in flight is joined).
Unsubscribe ==
  /\ link = "up" /\ Idle /\ client.server # None /\ client.pending = None
  /\ client.requests < MaxRequests
  /\ Ask(client, "unsubscribe", client.server)
  /\ UNCHANGED <<log, session, saved, chan, link, history, bounds>>

\* The socket closes, for the daemon's reasons or the network's.
Disconnect ==
  /\ link # "down" /\ Idle
  /\ link = "closing" \/ (Watching /\ drops < MaxDrops)
  /\ drops' = IF link = "closing" THEN drops ELSE drops + 1
  /\ link' = "down"
  /\ chan' = NoFrames
  /\ asks' = <<>>
  /\ client' = Disconnected(client)
  /\ UNCHANGED <<log, session, saved, history, restarts>>

Next ==
  \/ \E type \in Types : Publish(type)
  \/ Drain
  \/ WriteTimesOut
  \/ Handle
  \/ Restart
  \/ Connect
  \/ Receive
  \/ Resume
  \/ TimeOut
  \/ Unsubscribe
  \/ Disconnect

Spec == Init /\ [][Next]_vars

\* A stream the peer reads drains, frames and requests arrive or their socket
\* closes, and the reconnect timer fires.
FairSpec ==
  /\ Spec
  /\ WF_vars(Drain) /\ WF_vars(Handle) /\ WF_vars(Connect) /\ WF_vars(Receive) /\ WF_vars(Resume)
  /\ WF_vars(link = "closing" /\ Disconnect)

----------------------------------------------------------------------------
Frames == UNION {Range(chan.stream), Range(chan.high), Range(chan.normal), Range(chan.low)}

\* The lanes and the stream stay within their budgets, the cursor never runs
\* ahead of the session's sequence, and the ring ascends, within its own.
TypeOK ==
  /\ link \in {"down", "up", "closing"}
  /\ Len(chan.low) <= LowBudget /\ Len(chan.normal) <= NormalBudget /\ Len(chan.high) <= HighBudget
  /\ Len(chan.stream) + Queued(chan) <= MaxQueue
  /\ \A f \in Frames : f.kind \in {"event", "gap", "reply"}
  /\ client.state \in {"calling", "live", "ended"}
  /\ client.cursor \in 0 .. session.seq
  /\ client.floor \in {None} \cup 0 .. session.seq
  /\ session.evicted < session.seq /\ session.lastMessage < session.seq
  /\ \A a, b \in DOMAIN session.ring : a < b => session.ring[a].i < session.ring[b].i
  /\ Len(session.ring) <= MaxTelemetry + ControlSlots

\* A later state of the same tool call was published.
Superseded(n) == log[n].type = "tool" /\ \E m \in DOMAIN log : m > n /\ log[m].type = "tool"

Passed(n) == client.state = "live" /\ Sequence(n) < client.cursor

\* No event is lost for good in silence: one the subscription's cursor has
\* passed was given to its handler, was in a replay it was told is truncated, is
\* superseded, or is at or above the floor that the next resubscribe goes back
\* to (socket-flow.js reportGaps and retractOvertaken, socket-rpc.js #deliver
\* and #restoreSubscriptions).
NothingLostForGood ==
  \A n \in DOMAIN log : Passed(n) =>
    \/ n \in got \cup cut
    \/ Superseded(n)
    \/ client.floor # None /\ client.floor <= Sequence(n)

\* "After daemon restart, the prior non-persisted event history is explicitly
\* marked truncated": a subscriber that is back on its subscription, and was given
\* an event, lacks none published after that one in silence, whatever number the
\* restarted daemon gave it (init's eventsEvictedThrough, Handle's replay
\* from the client's cursor).
RestartIsTold ==
  link = "up" /\ client.server # None =>
    \A m \in got, n \in DOMAIN log : m < n /\ Passed(n) =>
      \/ n \in got \cup cut
      \/ Superseded(n)
      \/ client.floor # None /\ client.floor <= Sequence(n)

\* Within the budgets of the lanes and the ring, control events are never shed:
\* one the cursor has passed was delivered, or left the ring or the replay's
\* budget in a replay the handler was told is truncated, whatever telemetry
\* flooded the lanes or the ring.
ControlIsDelivered ==
  /\ TypeOK
  /\ \A n \in DOMAIN log : Passed(n) /\ Durable(log[n].type) => n \in got \cup cut

\* A subscription whose connection is lost is restored, or ends and its handler
\* is told: it is never left without events on a client that looks connected.
SubscriptionIsRestored ==
  (client.state = "live" /\ client.server = None) ~> (client.server # None \/ client.state = "ended")
=============================================================================
