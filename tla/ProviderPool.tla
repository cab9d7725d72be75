---------------------------- MODULE ProviderPool ----------------------------
(***************************************************************************)
(* The provider processes of one provider, the sessions opened or restored *)
(* on them and the snapshot copies they work in (gateway-service.js,       *)
(* workspace.js): opens and restores in flight, the maintenance pass that  *)
(* reclaims processes and copies nobody uses, adapter updates, exits, the  *)
(* shutdown and the death of the daemon.  An action is what runs between   *)
(* two awaits.  The session a request opens, and its copy, have its name.  *)
(***************************************************************************)
EXTENDS Integers, FiniteSets

CONSTANTS
  Requests,     \* opens and restores that may come
  MaxProcs,     \* provider processes at a time
  MaxDefs,      \* definitions of the adapter (auto-update rewrites the pin)
  MaxCopies,    \* maxSnapshotTotalBytes, every copy weighing one
  MaxFails,     \* file operations that fail
  MaxExits,     \* providers that exit by themselves
  MaxRuns       \* deaths and shutdowns

ASSUME PoolAssumption ==
  /\ IsFiniteSet(Requests)
  /\ {MaxProcs, MaxDefs, MaxCopies, MaxFails, MaxExits, MaxRuns} \subseteq Nat

Procs == 1 .. MaxProcs

VARIABLES
  procs,     \* the provider processes: [at, def]
  pool,      \* clients (current), retiredClients and clientStarts (starting)
  def,       \* the definition in force
  reqs,      \* the requests: [at, kind, of (the session), client]
  sessions,  \* the records: [here, client, copy]
  disk,      \* the copies: "none", "dir" (no owner.json) or "marked"
  removals,  \* workspaceRemovals: "none", "removing" or "failed"
  gc,        \* the maintenance pass: [at, todo, one (what it awaits)]
  life,      \* [at, left (ghost: what ran, and was not told to stop, when a shutdown ended)]
  used       \* how much of each bound

vars == <<procs, pool, def, reqs, sessions, disk, removals, gc, life, used>>

NoRequest == [at |-> "idle", kind |-> "direct", of |-> 0, client |-> 0]
NoSession == [here |-> FALSE, client |-> 0, copy |-> FALSE]
NoPass == [at |-> "idle", todo |-> {}, one |-> 0]
Empty == [current |-> 0, retired |-> {}, starting |-> 0]

Init ==
  /\ procs = [p \in Procs |-> [at |-> "gone", def |-> 1]] /\ pool = Empty /\ def = 1
  /\ reqs = [r \in Requests |-> NoRequest] /\ sessions = [r \in Requests |-> NoSession]
  /\ disk = [r \in Requests |-> "none"] /\ removals = [r \in Requests |-> "none"]
  /\ gc = NoPass /\ life = [at |-> "up", left |-> {}]
  /\ used = [fails |-> 0, exits |-> 0, runs |-> 0]

\* "left": the open is over (or its session gone with a daemon), and its copy is
\* on disk without anybody counting it.
Running(r) == reqs[r].at \notin {"idle", "done", "left"}
Alive(p) == p # 0 /\ procs[p].at \in {"starting", "up"}
Here == {s \in Requests : sessions[s].here}

\* A copy's session is gone: one deletion at a time.
Removing(ws) == [r \in Requests |-> IF r \in ws THEN "removing" ELSE removals[r]]

\* stop(): the process is not alive from here on, whoever waits for its end.
Stopping(ps) == [p \in Procs |-> IF p \in ps /\ Alive(p) THEN [procs[p] EXCEPT !.at = "stopping"] ELSE procs[p]]

\* The request goes on, or is over with its client.
Becomes(r, at) == reqs' = [reqs EXCEPT ![r].at = at, ![r].client = IF at \in {"done", "left"} THEN 0 ELSE @]

----------------------------------------------------------------------------
(* Opens and restores *)

Opens(r) ==
  /\ life.at = "up" /\ reqs[r] = NoRequest
  /\ \E kind \in {"direct", "snapshot"} :
       reqs' = [reqs EXCEPT ![r] = [at |-> "asked", kind |-> kind, of |-> r, client |-> 0]]
  /\ UNCHANGED <<procs, pool, def, sessions, disk, removals, gc, life, used>>

\* No command has the session: its mailbox is quiet.
Quiet(s) == ~\E r \in Requests : Running(r) /\ reqs[r].kind = "restore" /\ reqs[r].of = s

\* ensureConnected, for a session whose process is gone.
Restores(r, s) ==
  /\ life.at = "up" /\ reqs[r] = NoRequest /\ r # s
  /\ sessions[s].here /\ ~Alive(sessions[s].client) /\ Quiet(s)
  /\ reqs' = [reqs EXCEPT ![r] = [at |-> "asked", kind |-> "restore", of |-> s, client |-> 0]]
  /\ UNCHANGED <<procs, pool, def, sessions, disk, removals, gc, life, used>>

\* The request has its client.
With(p, request) ==
  [request EXCEPT !.client = p, !.at = IF request.kind = "snapshot" THEN "measuring" ELSE "creating"]

Free == {p \in Procs : /\ procs[p].at = "gone" /\ p \notin pool.retired \cup {pool.current, pool.starting}
                       /\ \A r \in Requests : p # reqs[r].client /\ p # sessions[r].client}

\* A process of an older definition serves the sessions it has.
Retire == [pool EXCEPT !.current = 0, !.retired = @ \cup {pool.current}]

\* getClient: the current process, the start under way, or a new start.
GetsClient(r) ==
  LET current == pool.current # 0 /\ procs[pool.current].at = "up"
      fresh(p) == procs[p].def = def
      left == IF current THEN Retire ELSE pool
  IN  /\ reqs[r].at = "asked" /\ life.at # "down"
      /\ \/ /\ life.at # "up"
            /\ Becomes(r, "done") /\ UNCHANGED <<procs, pool>>
         \/ /\ life.at = "up" /\ current /\ fresh(pool.current)
            /\ reqs' = [reqs EXCEPT ![r] = With(pool.current, @)] /\ UNCHANGED <<procs, pool>>
         \/ /\ life.at = "up" /\ ~(current /\ fresh(pool.current)) /\ pool.starting # 0
            /\ Becomes(r, IF fresh(pool.starting) THEN "joined" ELSE "waits")
            /\ pool' = left /\ UNCHANGED procs
         \/ /\ life.at = "up" /\ ~(current /\ fresh(pool.current)) /\ pool.starting = 0
            /\ \E p \in Free :
                 /\ \A q \in Free : p <= q
                 /\ procs' = [procs EXCEPT ![p] = [at |-> "starting", def |-> def]]
                 /\ pool' = [left EXCEPT !.starting = p]
            /\ Becomes(r, "joined")
  /\ UNCHANGED <<def, sessions, disk, removals, gc, life, used>>

\* The start under way settled: those that joined it have its client or its
\* error, and one that waited it out chooses again.
Settled(p) ==
  [r \in Requests |->
     CASE reqs[r].at = "joined" -> IF p # 0 THEN With(p, reqs[r]) ELSE [reqs[r] EXCEPT !.at = "done"]
       [] reqs[r].at = "waits" -> [reqs[r] EXCEPT !.at = "asked"]
       [] OTHER -> reqs[r]]

\* #startClient, once initialize is answered
Starts(p) ==
  /\ pool.starting = p /\ procs[p].at = "starting" /\ life.at # "down"
  /\ \/ /\ procs' = [procs EXCEPT ![p].at = "up"]
        /\ pool' = [pool EXCEPT !.current = p, !.starting = 0]
        /\ reqs' = Settled(p)
     \/ /\ procs' = Stopping({p})
        /\ UNCHANGED <<pool, reqs>>
  /\ UNCHANGED <<def, sessions, disk, removals, gc, life, used>>

\* The process is gone, at the end of a stop, or killed once its grace is over.
Ends(p) ==
  /\ procs[p].at = "stopping" /\ life.at # "down"
  /\ procs' = [procs EXCEPT ![p].at = "gone"]
  /\ IF pool.starting = p THEN pool' = [pool EXCEPT !.starting = 0] /\ reqs' = Settled(0)
                          ELSE UNCHANGED <<pool, reqs>>
  /\ UNCHANGED <<def, sessions, disk, removals, gc, life, used>>

\* #fail: the process exits by itself.
Exits(p) ==
  /\ Alive(p) /\ life.at # "down" /\ used.exits < MaxExits /\ used' = [used EXCEPT !.exits = @ + 1]
  /\ procs' = [procs EXCEPT ![p].at = "gone"]
  /\ IF pool.starting = p THEN pool' = [pool EXCEPT !.starting = 0] /\ reqs' = Settled(0)
                          ELSE UNCHANGED <<pool, reqs>>
  /\ UNCHANGED <<def, sessions, disk, removals, gc, life>>

\* #providerExitLocked
ExitLocked(s) ==
  /\ sessions[s].client # 0 /\ ~Alive(sessions[s].client) /\ Quiet(s) /\ life.at # "down"
  /\ sessions' = [sessions EXCEPT ![s].client = 0]
  /\ UNCHANGED <<procs, pool, def, reqs, disk, removals, gc, life, used>>

\* An update rewrites the adapter's pin.
Updates ==
  /\ life.at = "up" /\ def < MaxDefs /\ def' = def + 1
  /\ UNCHANGED <<procs, pool, reqs, sessions, disk, removals, gc, life, used>>

----------------------------------------------------------------------------
(* Snapshot copies *)

\* The opens that have a copy under way: from their client to their end.
WorkspaceOpens ==
  {r \in Requests : reqs[r].kind = "snapshot" /\ Running(r) /\ reqs[r].at \notin {"asked", "waits", "joined"}}

\* Copies being deleted are taken for gone.
Charged_NotRemoved ==
  {s \in Here : sessions[s].copy} \cup {r \in WorkspaceOpens : reqs[r].at # "measuring"}

\* What #admitSnapshotBytes counts: the copies of sessions, those on their way,
\* and those of deleted sessions that are not gone yet.
Charged ==
  {s \in Here : sessions[s].copy} \cup {r \in WorkspaceOpens : reqs[r].at # "measuring"}
    \cup {w \in Requests : removals[w] # "none"}

\* createSnapshot up to its first directory: measured, and within the budget.
Measures(r) ==
  /\ reqs[r].at = "measuring" /\ life.at # "down"
  /\ Becomes(r, IF Cardinality(Charged) < MaxCopies THEN "making" ELSE "done")
  /\ UNCHANGED <<procs, pool, def, sessions, disk, removals, gc, life, used>>

\* Its directory, owner.json before anything is copied, and the two trees.
Copies(r) ==
  /\ life.at # "down"
  /\ \/ /\ reqs[r].at = "making" /\ disk' = [disk EXCEPT ![r] = "dir"] /\ Becomes(r, "marking")
     \/ /\ reqs[r].at = "marking" /\ disk' = [disk EXCEPT ![r] = "marked"] /\ Becomes(r, "copying")
     \/ /\ reqs[r].at = "copying" /\ UNCHANGED disk /\ Becomes(r, "creating")
  /\ UNCHANGED <<procs, pool, def, sessions, removals, gc, life, used>>

CopyFails(r) ==
  /\ reqs[r].at \in {"making", "marking", "copying"} /\ life.at # "down"
  /\ used.fails < MaxFails /\ used' = [used EXCEPT !.fails = @ + 1]
  /\ Becomes(r, "clearing")
  /\ UNCHANGED <<procs, pool, def, sessions, disk, removals, gc, life>>

\* rm -r has removed owner.json, and goes on.
Unmarks(w) == disk[w] = "marked" /\ disk' = [disk EXCEPT ![w] = "dir"] /\ UNCHANGED used

\* createSnapshot's catch: what it left is removed, or is not, or not all of it.
Clears(r) ==
  /\ reqs[r].at = "clearing" /\ life.at # "down"
  /\ \/ disk' = [disk EXCEPT ![r] = "none"] /\ UNCHANGED used /\ Becomes(r, "done")
     \/ used.fails < MaxFails /\ used' = [used EXCEPT !.fails = @ + 1] /\ UNCHANGED disk /\ Becomes(r, "left")
     \/ Unmarks(r) /\ UNCHANGED reqs
  /\ UNCHANGED <<procs, pool, def, sessions, removals, gc, life>>

----------------------------------------------------------------------------
(* The session *)

\* session/new or a restore is answered: the record has the client.  The answer
\* and the registration are one step: nothing is awaited between them.
Registers(r) ==
  LET s == reqs[r].of IN
  /\ reqs[r].at = "creating" /\ procs[reqs[r].client].at = "up" /\ life.at # "down"
  /\ sessions' = [sessions EXCEPT ![s] =
                    [here |-> TRUE, client |-> reqs[r].client,
                     copy |-> IF reqs[r].kind = "restore" THEN @.copy ELSE reqs[r].kind = "snapshot"]]
  /\ Becomes(r, "done")
  /\ UNCHANGED <<procs, pool, def, disk, removals, gc, life, used>>

\* It is refused, times out or loses its process: the worker's session is
\* discarded, then the copy goes.
CreateFails(r) ==
  /\ reqs[r].at = "creating" /\ life.at # "down"
  /\ reqs' = [reqs EXCEPT ![r].at = IF reqs[r].kind = "snapshot" THEN "discarding" ELSE "done", ![r].client = 0]
  /\ UNCHANGED <<procs, pool, def, sessions, disk, removals, gc, life, used>>

Discards(r) ==
  /\ life.at # "down"
  /\ \/ /\ reqs[r].at = "discarding" /\ Becomes(r, "removing") /\ removals' = Removing({r})
     \/ /\ reqs[r].at = "removing" /\ removals[r] # "removing" /\ Becomes(r, "done") /\ UNCHANGED removals
  /\ UNCHANGED <<procs, pool, def, sessions, disk, gc, life, used>>

\* #closeLocked, or retention: the record goes, then its copy.
Closes(s) ==
  /\ sessions[s].here /\ Quiet(s) /\ life.at # "down"
  /\ sessions' = [sessions EXCEPT ![s] = NoSession]
  /\ removals' = Removing({w \in {s} : sessions[w].copy})
  /\ UNCHANGED <<procs, pool, def, reqs, disk, gc, life, used>>

\* removeSnapshot: a delete that failed, perhaps half way, is kept for
\* maintenance.
Removes(w) ==
  /\ removals[w] = "removing" /\ life.at # "down"
  /\ \/ disk' = [disk EXCEPT ![w] = "none"] /\ removals' = [removals EXCEPT ![w] = "none"] /\ UNCHANGED used
     \/ /\ used.fails < MaxFails /\ used' = [used EXCEPT !.fails = @ + 1]
        /\ removals' = [removals EXCEPT ![w] = "failed"] /\ UNCHANGED disk
     \/ Unmarks(w) /\ UNCHANGED removals
  /\ UNCHANGED <<procs, pool, def, reqs, sessions, gc, life>>

----------------------------------------------------------------------------
(* The maintenance pass *)

\* #clientInUse: a session is on it, or an open or restore may be about to put
\* one there.
InUse(ss, p) == (\E s \in Requests : ss[s].client = p) \/ \E r \in Requests : Running(r)

To(at, todo) == gc' = [at |-> at, todo |-> todo, one |-> 0]
Awaits(at, one) == gc' = [gc EXCEPT !.at = at, !.one = one, !.todo = @ \ {one}]

Begins ==
  /\ life.at = "up" /\ gc.at = "idle" /\ To("sessions", {})
  /\ UNCHANGED <<procs, pool, def, reqs, sessions, disk, removals, life, used>>

\* unloadSession, and the process with it when nobody else is on it.
Unloads(s) ==
  LET p == sessions[s].client
      after == [sessions EXCEPT ![s].client = 0]
  IN  /\ gc.at = "sessions" /\ sessions[s].here /\ Alive(p) /\ Quiet(s)
      /\ sessions' = after
      /\ IF InUse(after, p) THEN UNCHANGED <<procs, gc>>
                            ELSE procs' = Stopping({p}) /\ Awaits("unloading", p)
      /\ UNCHANGED <<pool, def, reqs, disk, removals, life, used>>

\* Whatever is under the key by now is dropped.
Forget_Any(p) == [pool EXCEPT !.current = 0]

\* The map may hold another client than the one that was stopped.
Forget(p) == [pool EXCEPT !.current = IF @ = p THEN 0 ELSE @]

Stopped(at) == gc.at = at /\ procs[gc.one].at = "gone"

Unloaded ==
  /\ Stopped("unloading") /\ To("sessions", {})
  /\ pool' = [Forget(gc.one) EXCEPT !.retired = @ \ {gc.one}]
  /\ UNCHANGED <<procs, def, reqs, sessions, disk, removals, life, used>>

SessionsDone ==
  /\ gc.at = "sessions" /\ To("retry", {w \in Requests : removals[w] # "none"})
  /\ UNCHANGED <<procs, pool, def, reqs, sessions, disk, removals, life, used>>

\* Nothing is tried again.
ToRetry_None(w) == FALSE

ToRetry(w) == removals[w] = "failed"

\* #reconcileWorkspaces: first the deletes that failed ...
Retries ==
  /\ gc.at = "retry"
  /\ \/ /\ gc.todo = {} /\ UNCHANGED removals
        /\ IF WorkspaceOpens = {} THEN To("listing", {}) ELSE To("current", {})
     \/ \E w \in gc.todo :
          IF ToRetry(w) THEN removals' = Removing({w}) /\ Awaits("retrying", w)
                        ELSE UNCHANGED removals /\ To("retry", gc.todo \ {w})
  /\ UNCHANGED <<procs, pool, def, reqs, sessions, disk, life, used>>

Removed(at) == gc.at = at /\ removals[gc.one] # "removing"

Retried ==
  /\ Removed("retrying") /\ To("retry", gc.todo)
  /\ UNCHANGED <<procs, pool, def, reqs, sessions, disk, removals, life, used>>

\* ... then the copies on disk that are this state's (ownedSnapshots: the
\* directory, then each owner.json) ...
Lists ==
  /\ \/ gc.at = "listing" /\ To("listed", {w \in Requests : disk[w] # "none"})
     \/ gc.at = "listed" /\ To("reclaim", {w \in gc.todo : disk[w] = "marked"})
  /\ UNCHANGED <<procs, pool, def, reqs, sessions, disk, removals, life, used>>

\* The opens that began since the list was made are not looked for.
MayReclaim_Listed(w) == removals[w] = "none" /\ ~sessions[w].here

\* ... and that nobody refers to: no open, checked again before each one, no
\* removal and no session.
MayReclaim(w) == WorkspaceOpens = {} /\ removals[w] = "none" /\ ~sessions[w].here

Reclaims ==
  /\ gc.at = "reclaim"
  /\ \/ gc.todo = {} /\ To("current", {}) /\ UNCHANGED removals
     \/ \E w \in gc.todo :
          IF MayReclaim(w) THEN removals' = Removing({w}) /\ Awaits("reclaiming", w)
          ELSE UNCHANGED removals /\ IF WorkspaceOpens # {} THEN To("current", {}) ELSE To("reclaim", gc.todo \ {w})
  /\ UNCHANGED <<procs, pool, def, reqs, sessions, disk, life, used>>

Reclaimed ==
  /\ Removed("reclaiming") /\ To("reclaim", gc.todo)
  /\ UNCHANGED <<procs, pool, def, reqs, sessions, disk, removals, life, used>>

\* The current process, then those of older definitions.
StopsCurrent ==
  /\ gc.at = "current"
  /\ IF pool.current = 0 \/ InUse(sessions, pool.current)
       THEN To("retired", pool.retired) /\ UNCHANGED procs
       ELSE procs' = Stopping({pool.current}) /\ Awaits("stopping", pool.current)
  /\ UNCHANGED <<pool, def, reqs, sessions, disk, removals, life, used>>

CurrentStopped ==
  /\ Stopped("stopping") /\ pool' = Forget(gc.one) /\ To("retired", pool.retired)
  /\ UNCHANGED <<procs, def, reqs, sessions, disk, removals, life, used>>

StopsRetired ==
  /\ gc.at = "retired"
  /\ \/ gc.todo = {} /\ gc' = NoPass /\ UNCHANGED <<procs, pool>>
     \/ \E p \in gc.todo :
          IF Alive(p) /\ InUse(sessions, p) THEN To("retired", gc.todo \ {p}) /\ UNCHANGED <<procs, pool>>
          ELSE /\ procs' = Stopping({p}) /\ Awaits("retiring", p)
               /\ pool' = [pool EXCEPT !.retired = @ \ {p}]
  /\ UNCHANGED <<def, reqs, sessions, disk, removals, life, used>>

RetiredStopped ==
  /\ Stopped("retiring") /\ To("retired", gc.todo)
  /\ UNCHANGED <<procs, pool, def, reqs, sessions, disk, removals, life, used>>

Pass ==
  /\ life.at # "down"
  /\ \/ \E s \in Requests : Unloads(s)
     \/ Unloaded \/ SessionsDone \/ Retries \/ Retried \/ Lists \/ Reclaims \/ Reclaimed
     \/ StopsCurrent \/ CurrentStopped \/ StopsRetired \/ RetiredStopped

----------------------------------------------------------------------------
(* The daemon *)

\* shutdown(): no start begins any more; the one under way is waited for ...
ShutsDown ==
  /\ life.at = "up" /\ used.runs < MaxRuns /\ used' = [used EXCEPT !.runs = @ + 1]
  /\ life' = [life EXCEPT !.at = "draining"]
  /\ UNCHANGED <<procs, pool, def, reqs, sessions, disk, removals, gc>>

StartsLanded == pool.starting = 0

\* ... then every client it holds is stopped ...
StopsAll ==
  /\ life.at = "draining" /\ StartsLanded
  /\ life' = [life EXCEPT !.at = "stopping"]
  /\ procs' = Stopping(pool.retired \cup {pool.current})
  /\ UNCHANGED <<pool, def, reqs, sessions, disk, removals, gc, used>>

\* What is left of a daemon that is no longer there: the copies and the records
\* it had written.
Down(kept, left) ==
  /\ life' = [at |-> "down", left |-> left]
  /\ procs' = [p \in Procs |-> [procs[p] EXCEPT !.at = "gone"]] /\ pool' = Empty
  /\ reqs' = [r \in Requests |->
                IF reqs[r].at = "idle" THEN reqs[r]
                ELSE [NoRequest EXCEPT !.at = IF disk[r] # "none" /\ r \notin kept THEN "left" ELSE "done"]]
  /\ sessions' = [s \in Requests |-> IF s \in kept THEN [sessions[s] EXCEPT !.client = 0] ELSE NoSession]
  /\ removals' = [w \in Requests |-> "none"] /\ gc' = NoPass
  /\ UNCHANGED <<def, disk>>

\* ... and waited for.
Leaves ==
  /\ life.at = "stopping" /\ \A p \in pool.retired \cup {pool.current} : p # 0 => procs[p].at = "gone"
  /\ Down(Here, {p \in Procs : Alive(p)}) /\ UNCHANGED used

\* The daemon dies: a registration it had not written goes with it.
Dies ==
  /\ life.at # "down" /\ used.runs < MaxRuns /\ used' = [used EXCEPT !.runs = @ + 1]
  /\ \E kept \in SUBSET Here : Down(kept, {})

\* init() ends in a maintenance pass.
Restarts ==
  /\ life.at = "down" /\ life' = [at |-> "up", left |-> {}] /\ To("sessions", {})
  /\ UNCHANGED <<procs, pool, def, reqs, sessions, disk, removals, used>>

----------------------------------------------------------------------------
Request(r) ==
  \/ GetsClient(r) \/ Measures(r) \/ Copies(r) \/ CopyFails(r) \/ Clears(r)
  \/ Registers(r) \/ CreateFails(r) \/ Discards(r)

Next ==
  \/ \E r \in Requests : Opens(r) \/ Request(r) \/ Removes(r) \/ Closes(r) \/ ExitLocked(r)
  \/ \E r, s \in Requests : Restores(r, s)
  \/ \E p \in Procs : Starts(p) \/ Ends(p) \/ Exits(p)
  \/ Updates \/ Begins \/ Pass
  \/ ShutsDown \/ StopsAll \/ Leaves \/ Dies \/ Restarts

Spec == Init /\ [][Next]_vars

\* Every await of a request ends, each provider request having a timeout; a stop
\* ends, with a SIGKILL at the latest; file operations return; the maintenance
\* timer keeps coming.
FairSpec ==
  /\ Spec
  /\ WF_vars(\E r \in Requests : Request(r)) /\ WF_vars(\E r \in Requests : Removes(r))
  /\ WF_vars(\E p \in Procs : Starts(p)) /\ WF_vars(\E p \in Procs : Ends(p))
  /\ WF_vars(\E s \in Requests : ExitLocked(s))
  /\ WF_vars(Begins) /\ WF_vars(Pass)

----------------------------------------------------------------------------
(* Properties *)

Steps == {"idle", "asked", "joined", "waits", "measuring", "making", "marking", "copying", "clearing",
          "creating", "discarding", "removing", "done", "left"}
Stages == {"idle", "sessions", "unloading", "retry", "retrying", "listing", "listed", "reclaim",
           "reclaiming", "current", "stopping", "retired", "retiring"}

TypeOK ==
  /\ procs \in [Procs -> [at : {"starting", "up", "stopping", "gone"}, def : Nat]]
  /\ pool \in [current : Procs \cup {0}, retired : SUBSET Procs, starting : Procs \cup {0}]
  /\ def \in Nat
  /\ reqs \in [Requests -> [at : Steps, kind : {"direct", "snapshot", "restore"},
                            of : Requests \cup {0}, client : Procs \cup {0}]]
  /\ sessions \in [Requests -> [here : BOOLEAN, client : Procs \cup {0}, copy : BOOLEAN]]
  /\ disk \in [Requests -> {"none", "dir", "marked"}]
  /\ removals \in [Requests -> {"none", "removing", "failed"}]
  /\ gc \in [at : Stages, todo : SUBSET (Requests \cup Procs), one : Requests \cup Procs \cup {0}]
  /\ life \in [at : {"up", "draining", "stopping", "down"}, left : SUBSET Procs]

\* A provider process runs while somebody needs it, and somebody knows of it:
\* maintenance and the idle unload never stop one on which a session is being
\* opened or restored, or is ("maintenance and the idle unload leave every process
\* of a provider running", docs/operations.md), every process that runs can still
\* be found by the passes to come, and a daemon that shuts down leaves none it
\* has not told to stop (getClient, #clientInUse, #runMaintenance, shutdown).
ProvidersAreKept ==
  /\ TypeOK
  /\ \A r \in Requests : life.at \in {"up", "draining"} =>
       \A p \in {reqs[r].client, sessions[r].client} \ {0} : procs[p].at # "stopping"
  /\ \A p \in Procs : procs[p].at = "up" => p = pool.current \/ p \in pool.retired
  /\ \A p \in Procs : procs[p].at = "starting" => p = pool.starting
  /\ life.left = {}

\* A session never loses its copy: while the record is there, the copy is, and
\* nobody deletes it; nor that of an open on its way (#reconcileWorkspaces).
CopiesAreKept ==
  /\ \A s \in Here : sessions[s].copy => disk[s] = "marked" /\ removals[s] = "none"
  /\ \A r \in Requests : reqs[r].at \in {"marking", "copying", "creating", "discarding"} => removals[r] = "none"

\* The byte budget of the copies holds on disk while opens race each other,
\* closes and deletes, but for what a dead daemon or a failed delete left behind,
\* which nobody counts (#admitSnapshotBytes, createSnapshot).
BudgetHolds == Cardinality({w \in Requests : disk[w] # "none" /\ reqs[w].at # "left"}) <= MaxCopies

\* What nobody uses is reclaimed, whatever failed on the way or died between the
\* copy and its registration: while a daemon runs, there is again and again a
\* moment at which every copy that is marked, or whose delete failed in this
\* daemon, has its session or its open, and every process a session
\* (#reconcileWorkspaces, #runMaintenance, #clientInUse).
IsReclaimed ==
  []<>(life.at = "up" =>
         /\ \A w \in Requests :
              disk[w] = "marked" \/ removals[w] = "failed" => sessions[w].here \/ Running(w)
         /\ \A p \in Procs : procs[p].at = "up" => \E s \in Requests : sessions[s].client = p)
=============================================================================
