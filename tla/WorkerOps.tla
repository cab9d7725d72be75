----------------------------- MODULE WorkerOps -----------------------------
(***************************************************************************)
(* What a worker asks the Gateway to do for it (acp-client.js): permission *)
(* requests and the approvals they become, reads, writes and terminals,    *)
(* each held to what Main was shown, the limits they count against, and    *)
(* the terminals' ends.  One session of one provider process.              *)
(*                                                                         *)
(* The worker shares the disk: between any two steps it may put another    *)
(* file or directory at a place, link one, take one away, or point the     *)
(* name it uses elsewhere.  A file or directory is its inode.              *)
(***************************************************************************)
EXTENDS Integers, Sequences, SequencesExt, FiniteSets, TerminalGroup

CONSTANTS
  Ids,          \* JSON-RPC ids the worker uses, in the order it takes them
  Paths,        \* canonical paths of files in the session's roots
  Cwd,          \* the canonical path of a terminal's directory
  Contents,     \* what a write writes, what a terminal runs
  None,         \* a request that shows Main no content (no diffs)
  MaxPending,   \* maxPendingRequestsPerSession
  MaxServed,    \* MAX_CONCURRENT_CLIENT_REQUESTS_PER_SESSION
  MaxTerminals, \* maxTerminalsPerSession
  MaxGrants,    \* MAX_GRANTS_PER_SESSION
  Scenarios,    \* permissionPolicy, and bounds: the kinds of request, how many at most
  MaxSwaps,     \* bound: what it does to the disk
  MaxEnds       \* bound: turns that end, cancels, clears

Kinds == {"read", "write", "terminal"}

ASSUME WorkerOpsAssumption ==
  /\ Cwd \notin Paths /\ None \notin Contents
  /\ Scenarios \subseteq [policy : {"ask", "auto_approve", "read_only"}, kinds : SUBSET Kinds, requests : Nat]
  /\ {MaxPending, MaxServed, MaxTerminals, MaxGrants} \subseteq Nat \ {0}

VARIABLES
  client,  \* the process: alive, open (handler and roots are set), grants, served
  reqs,    \* the worker's requests that are not answered
  disk,    \* the inode at each place (0: none), where the worker's name leads, the next inode
  terms,   \* the terminals ever started
  said,    \* ghost: what Main allowed, as it was shown
  done,    \* ghost: what was done, and by which approval (0: the policy's)
  used     \* the scenario, and the bounds spent

vars == <<client, reqs, disk, terms, said, done, used>>

Places == Paths \cup {Cwd}

Init ==
  /\ client = [alive |-> TRUE, open |-> TRUE, grants |-> <<>>, served |-> 0]
  /\ reqs = {} /\ terms = <<>> /\ said = <<>> /\ done = <<>>
  /\ \E file \in {CHOOSE p \in Paths : TRUE}, name \in Paths :
       disk = [at |-> [p \in Places |-> CASE p = Cwd -> 1 [] p = file -> 2 [] OTHER -> 0], lead |-> name, next |-> 3]
  /\ used \in [scene : Scenarios, requests : {0}, swaps : {0}, ends : {0}]

----------------------------------------------------------------------------
(* What is asked *)

\* A request's subject: the inode at each place it names as it arrives (#grantFor,
\* #writeOperation, #terminalOperation), and the content the diffs or the write
\* make, or the command.  edit: the diffs need the file as it is (they have an
\* oldText), as those of a file that is there do.
Op(kind, places, what, edit) ==
  [kind |-> kind, idents |-> [p \in places |-> disk.at[p]], what |-> what, edit |-> edit]

Place(op) == CHOOSE p \in DOMAIN op.idents : TRUE
Ident(op) == op.idents[Place(op)]

\* What the client is asked outright: the file the worker's name leads to, or a
\* command in a directory that is there (#terminalRequest).
Asks ==
  {Op("read", {disk.lead}, None, FALSE)}
    \cup {Op("write", {disk.lead}, what, FALSE) : what \in Contents}
    \cup {Op("terminal", {Cwd}, what, FALSE) : what \in IF disk.at[Cwd] = 0 THEN {} ELSE Contents}

\* What a permission request may name: a file with diffs of it, files without, or
\* a command.
Proposals ==
  {Op("write", {disk.lead}, what, disk.at[disk.lead] # 0) : what \in Contents}
    \cup {Op("write", Paths, None, FALSE)}
    \cup {Op("terminal", {Cwd}, what, FALSE) : what \in Contents}

Asked == {r \in reqs : r.at = "asked"}

\* #requestIdInUse
InUse(id) == \E r \in reqs : r.id = id

\* #releaseClientRequest, in the handler's finally: for fs/ and terminal/ only.
Released(c, r) == IF r.permission THEN c ELSE [c EXCEPT !.served = IF @ > 0 THEN @ - 1 ELSE 0]

\* The answer goes out and the handler is done.
Answers(r) ==
  /\ reqs' = reqs \ {r}
  /\ client' = Released(client, r)

\* The request goes on, as a later form of itself.
GoesOn(r, later) == reqs' = (reqs \ {r}) \cup {later}

\* #requirePendingInputCapacity
Capacity == client.open /\ Cardinality(Asked) < MaxPending

\* #automaticPermission of a request that changes something, by the places it
\* names (#permissionScope).
Automatic(scope) ==
  IF scope = "protected" THEN "answered"
  ELSE IF used.scene.policy = "ask" \/ (scope = "outside" /\ used.scene.policy = "auto_approve") THEN "asked"
  ELSE "answered"

\* session/request_permission: answered at once, refused for want of room, or kept
\* for Main with the approval it would become.
RequestsPermission(id, op, scope) ==
  /\ ~InUse(id) /\ client.alive /\ used.requests < used.scene.requests
  /\ used' = [used EXCEPT !.requests = @ + 1]
  /\ reqs' = IF Automatic(scope) = "asked" /\ Capacity
             THEN reqs \cup {[id |-> id, permission |-> TRUE, op |-> op, at |-> "asked", by |-> 0, ino |-> 0]}
             ELSE reqs
  /\ UNCHANGED <<client, disk, terms, said, done>>

\* fs/read_text_file, fs/write_text_file, terminal/create: counted while the
\* handler runs (#admitClientRequest); read_only refuses all but a read, and a
\* path outside the roots (all of them, once the session is cleared) is refused.
Requests(id, op) ==
  /\ ~InUse(id) /\ client.alive /\ used.requests < used.scene.requests
  /\ used' = [used EXCEPT !.requests = @ + 1]
  /\ IF client.served < MaxServed /\ client.open /\ (used.scene.policy # "read_only" \/ op.kind = "read")
     THEN /\ reqs' = reqs \cup {[id |-> id, permission |-> FALSE, op |-> op, at |-> "came", by |-> 0, ino |-> 0]}
          /\ client' = [client EXCEPT !.served = @ + 1]
     ELSE UNCHANGED <<reqs, client>>
  /\ UNCHANGED <<disk, terms, said, done>>

\* An id that is in use is refused and the request that has it keeps it: nothing
\* changes, so this is no action (#dispatch).

----------------------------------------------------------------------------
(* Whether it may run *)

\* What the approved diffs make of the file as it was read is what the write
\* writes; a file shown without diffs is bound by its identity alone.
ApprovedContent(grant, op, read) ==
  grant.op.what = None \/ (grant.op.what = op.what /\ (grant.op.edit => read))

Covers_Path(grant, op, read) ==
  /\ grant.op.kind = op.kind /\ Place(op) \in DOMAIN grant.op.idents
  /\ ApprovedContent(grant, op, read)

\* An approval covers the operation: the same kind at an approved place where the
\* same inode, or still none, is, and the approved content or command.
Covers(grant, op, read) ==
  /\ grant.op.kind = op.kind /\ Place(op) \in DOMAIN grant.op.idents
  /\ grant.op.idents[Place(op)] = Ident(op)
  /\ ApprovedContent(grant, op, read)

\* #consumeGrant: the file, or the last of it, is spent.
Spent(grants, i, op) ==
  IF Cardinality(DOMAIN grants[i].op.idents) > 1
  THEN [grants EXCEPT ![i].op.idents = [p \in DOMAIN @ \ {Place(op)} |-> @[p]]]
  ELSE RemoveAt(grants, i)

\* #grantEditsFile: then the file is read before an approval is spent.
EditsFile(op) ==
  \E i \in DOMAIN client.grants :
    LET grant == client.grants[i].op
    IN  op.kind = "write" /\ grant.kind = "write" /\ grant.edit /\ Place(op) \in DOMAIN grant.idents

\* checkedPath and workerFilePathSync: the name the worker gave still leads to the
\* file the request was read as.
LeadsTo(op) == disk.lead = Place(op)

\* run(), up to its first await: the name must still lead to the approved file,
\* and the session have its roots.
MayRun(op) == client.open /\ (op.kind = "write" => LeadsTo(op))

Runs(r, by, c) ==
  IF MayRun(r.op)
  THEN GoesOn(r, [r EXCEPT !.at = "named", !.by = by]) /\ client' = c
  ELSE reqs' = reqs \ {r} /\ client' = Released(c, r)

\* #currentText: null unless the file is there and is the one the write was checked
\* against.
CurrentText(op) == client.open /\ Ident(op) # 0 /\ disk.at[Place(op)] = Ident(op)

Covering(op, read) == {i \in DOMAIN client.grants : Covers(client.grants[i], op, read)}

\* #consumeGrant's first approval that covers it, or else the operation waits for
\* Main, if there is room.
Decides(r, read) ==
  IF Covering(r.op, read) # {}
  THEN \E i \in Covering(r.op, read) :
         /\ \A j \in Covering(r.op, read) : i <= j
         /\ Runs(r, client.grants[i].by, [client EXCEPT !.grants = Spent(@, i, r.op)])
  ELSE IF Capacity THEN GoesOn(r, [r EXCEPT !.at = "asked"]) /\ UNCHANGED client
  ELSE Answers(r)

\* #runProtectedOperation: auto_approve runs a write, and a terminal the OS confines;
\* otherwise an approval decides, after the file is read if that takes one.
Considers(r, confined) ==
  /\ r.at = "came"
  /\ IF r.op.kind = "read" \/ (used.scene.policy = "auto_approve" /\ (r.op.kind = "write" \/ confined))
     THEN Runs(r, 0, client)
     ELSE IF EditsFile(r.op) THEN GoesOn(r, [r EXCEPT !.at = "reading"]) /\ UNCHANGED client
     ELSE Decides(r, FALSE)
  /\ UNCHANGED <<disk, terms, said, done, used>>

\* The file has been read; a change on disk, a cancel or a clear may have come first.
ReadsCurrent(r) ==
  /\ r.at = "reading"
  /\ Decides(r, CurrentText(r.op))
  /\ UNCHANGED <<disk, terms, said, done, used>>

\* respondPermission finds an operation before a permission request.
Pending(id) ==
  LET held == {r \in Asked : r.id = id}
      ops == {r \in held : ~r.permission}
  IN  CHOOSE r \in held : ops # {} => r \in ops

WithGrant(grants, grant) == IF Len(grants) = MaxGrants THEN Append(Tail(grants), grant) ELSE Append(grants, grant)

\* Main, who was shown r, allows it, and the client goes by the id: an operation
\* runs, a permission request becomes an approval (#addOperationGrant).
MainAllows(r) ==
  LET found == Pending(r.id)
      by == Len(said) + 1
  IN  /\ r \in Asked
      /\ said' = Append(said, r.op)
      /\ IF found.permission
         THEN /\ reqs' = reqs \ {found}
              /\ client' = [client EXCEPT !.grants = WithGrant(@, [op |-> found.op, by |-> by])]
         ELSE Runs(found, by, client)
      /\ UNCHANGED <<disk, terms, done, used>>

MainRejects(r) ==
  /\ r \in Asked /\ Answers(Pending(r.id))
  /\ UNCHANGED <<disk, terms, said, done, used>>

----------------------------------------------------------------------------
(* What is done *)

Done(r, ino, fresh) ==
  Append(done, [kind |-> r.op.kind, place |-> Place(r.op), ino |-> ino,
                fresh |-> fresh, what |-> r.op.what, by |-> r.by])

\* openWorkerFile at the approved path: a write where Main saw no file only creates
\* one, another one creates what is missing as well, a read opens what is there.
Opens(r) ==
  LET at == disk.at[Place(r.op)]
      creates == r.op.kind = "write" /\ at = 0
  IN  /\ r.op.kind \in {"read", "write"} /\ r.at = "named"
      /\ IF creates \/ (at # 0 /\ (r.op.kind = "write" => Ident(r.op) # 0))
         THEN /\ GoesOn(r, [r EXCEPT !.at = "opened", !.ino = IF creates THEN disk.next ELSE at])
              /\ disk' = IF creates THEN [disk EXCEPT !.at[Place(r.op)] = disk.next, !.next = @ + 1] ELSE disk
              /\ UNCHANGED client
         ELSE Answers(r) /\ UNCHANGED disk
      /\ UNCHANGED <<terms, said, done, used>>

\* verifyOpened and #writeTextFile's own check: the path still leads to what was
\* opened, and that is the file Main saw.
Verified(r) ==
  /\ disk.at[Place(r.op)] = r.ino
  /\ r.op.kind = "write" /\ Ident(r.op) # 0 => r.ino = Ident(r.op)

\* The descriptor is verified, then read from or emptied and written.
Finishes(r) ==
  /\ r.at = "opened"
  /\ done' = IF r.op.kind = "write" /\ Verified(r) THEN Done(r, r.ino, Ident(r.op) = 0) ELSE done
  /\ Answers(r)
  /\ UNCHANGED <<disk, terms, said, used>>

Listed == {i \in DOMAIN terms : terms[i].listed}

\* startInApprovedCwd: the directory the command would start in is the approved one.
InApprovedCwd(op) == disk.at[Cwd] = Ident(op)

\* The limit looked at before the sandbox was awaited.
MayStart_Before(r) == client.alive /\ InApprovedCwd(r.op)

\* #createTerminal after its await: the client runs, there is room, and the
\* directory is the approved one (#requireApprovedCwd, startInApprovedCwd).
MayStart(r) ==
  /\ client.alive /\ Cardinality(Listed) < MaxTerminals
  /\ InApprovedCwd(r.op)

CreatesTerminal(r) ==
  /\ r.op.kind = "terminal" /\ r.at = "named"
  /\ IF MayStart(r)
     THEN terms' = Append(terms, Spawned) /\ done' = Done(r, disk.at[Cwd], FALSE)
     ELSE UNCHANGED <<terms, done>>
  /\ Answers(r)
  /\ UNCHANGED <<disk, said, used>>

\* terminal/release and terminal/kill, answered in the same step.
ReleasesTerminal(i) ==
  /\ terms[i].listed /\ client.served < MaxServed
  /\ terms' = [terms EXCEPT ![i] = [EndGroup(@) EXCEPT !.listed = FALSE]]
  /\ UNCHANGED <<client, reqs, disk, said, done, used>>

KillsTerminal(i) ==
  /\ terms[i].listed /\ client.served < MaxServed
  /\ terms' = [terms EXCEPT ![i] = KillTerminal(@)]
  /\ UNCHANGED <<client, reqs, disk, said, done, used>>

----------------------------------------------------------------------------
(* What ends it *)

\* #closeSessionTerminals, and stop()'s and #fail's loop over the same map.
CloseTerminals == [i \in DOMAIN terms |-> IF terms[i].listed THEN [EndGroup(terms[i]) EXCEPT !.listed = FALSE] ELSE terms[i]]

\* What waits for Main is answered: cancelled, or with an error.
Unasked == reqs \ Asked
AskedServed == Cardinality({r \in Asked : ~r.permission})

\* cancelSession: the approvals stay, until the prompt itself is settled.
CancelSession ==
  /\ client.open /\ used.ends < MaxEnds
  /\ reqs' = Unasked /\ terms' = CloseTerminals
  /\ client' = [client EXCEPT !.served = IF @ > AskedServed THEN @ - AskedServed ELSE 0]
  /\ used' = [used EXCEPT !.ends = @ + 1]
  /\ UNCHANGED <<disk, said, done>>

\* clearSession: the handlers that still run give back what is no longer counted.
ClearSession ==
  /\ client.open /\ used.ends < MaxEnds
  /\ reqs' = Unasked /\ terms' = CloseTerminals
  /\ client' = [client EXCEPT !.open = FALSE, !.served = 0, !.grants = <<>>]
  /\ used' = [used EXCEPT !.ends = @ + 1]
  /\ UNCHANGED <<disk, said, done>>

\* sessionResume or sessionLoad on the same process.
Resumes ==
  /\ client.alive /\ ~client.open
  /\ client' = [client EXCEPT !.open = TRUE]
  /\ UNCHANGED <<reqs, disk, terms, said, done, used>>

\* sessionPrompt's request is settled: the turn's approvals end.
PromptSettles ==
  /\ client.alive /\ client.grants # <<>> /\ used.ends < MaxEnds
  /\ client' = [client EXCEPT !.grants = <<>>]
  /\ used' = [used EXCEPT !.ends = @ + 1]
  /\ UNCHANGED <<reqs, disk, terms, said, done>>

\* stop() and #fail: for good, as far as this client goes.
Ends ==
  /\ client.alive
  /\ reqs' = Unasked /\ terms' = CloseTerminals
  /\ client' = [client EXCEPT !.alive = FALSE, !.served = 0, !.grants = <<>>]
  /\ UNCHANGED <<disk, said, done, used>>

----------------------------------------------------------------------------
(* The worker's hand in it: the disk, and the processes of a terminal *)

\* bound: where a behaviour has no request, the disk stays as it is.
Touched == (IF "write" \in used.scene.kinds THEN Paths ELSE {}) \cup (IF "terminal" \in used.scene.kinds THEN {Cwd} ELSE {})

Swaps ==
  /\ used.swaps < MaxSwaps
  /\ \/ \E p \in Touched : disk' = [disk EXCEPT !.at[p] = disk.next, !.next = @ + 1]
     \/ \E p \in Touched : disk.at[p] # 0 /\ disk' = [disk EXCEPT !.at[p] = 0]
     \/ \E p, q \in Touched \ {Cwd} : disk.at[p] \notin {0, disk.at[q]} /\ disk' = [disk EXCEPT !.at[q] = disk.at[p]]
     \/ \E p \in Touched \ {Cwd} : p # disk.lead /\ disk' = [disk EXCEPT !.lead = p]
  /\ used' = [used EXCEPT !.swaps = @ + 1]
  /\ UNCHANGED <<client, reqs, terms, said, done>>

Term(i, t) ==
  /\ terms' = [terms EXCEPT ![i] = t]
  /\ UNCHANGED <<client, reqs, disk, said, done, used>>

Exits(i, leaves) == terms[i].cmd /\ (terms[i].killed => ~leaves) /\ Term(i, CommandExits(terms[i], leaves))
RestEnds(i) == terms[i].rest /\ Term(i, [terms[i] EXCEPT !.rest = FALSE])
Closes(i) == ~terms[i].cmd /\ ~terms[i].closed /\ Term(i, [terms[i] EXCEPT !.closed = TRUE])
IdIsReused(i) == ~GroupAlive(terms[i]) /\ Term(i, [terms[i] EXCEPT !.other = TRUE])

\* The Gateway's timers.
FindsGone(i) == Checks(terms[i]) /\ ~GroupAlive(terms[i]) /\ Term(i, FoundGone(terms[i]))
GraceEnds(i) == terms[i].ending = "term" /\ Term(i, SigKill(terms[i]))
GivesUp(i) == terms[i].ending = "kill" /\ Term(i, [terms[i] EXCEPT !.ending = "done"])

\* bound: of the ids it does not use, the worker takes the first.
Tried == {id \in Ids : \A free \in Ids \ {r.id : r \in reqs} : id <= free}

Next ==
  \/ \E id \in Tried : \/ \E op \in Asks : op.kind \in used.scene.kinds /\ Requests(id, op)
                       \/ \E op \in Proposals, scope \in {"inside", "outside", "protected"} :
                            op.kind \in used.scene.kinds /\ RequestsPermission(id, op, scope)
  \/ \E r \in reqs :
       \/ \E confined \in BOOLEAN : Considers(r, confined)
       \/ ReadsCurrent(r) \/ MainAllows(r) \/ MainRejects(r)
       \/ Opens(r) \/ Finishes(r) \/ CreatesTerminal(r)
  \/ \E i \in DOMAIN terms :
       \/ ReleasesTerminal(i) \/ KillsTerminal(i)
       \/ \E leaves \in BOOLEAN : Exits(i, leaves)
       \/ RestEnds(i) \/ Closes(i) \/ IdIsReused(i)
       \/ FindsGone(i) \/ GraceEnds(i) \/ GivesUp(i)
  \/ CancelSession \/ ClearSession \/ Resumes \/ PromptSettles \/ Ends
  \/ Swaps

Spec == Init /\ [][Next]_vars

----------------------------------------------------------------------------
(* Properties *)

IsOperation(op) ==
  /\ op \in [kind : Kinds, idents : {op.idents}, what : Contents \cup {None}, edit : BOOLEAN]
  /\ \E places \in (SUBSET Places) \ {{}} : op.idents \in [places -> Nat]

IsRequest(r) ==
  /\ r \in [id : Ids, permission : BOOLEAN, op : {r.op}, at : {"came", "reading", "asked", "named", "opened"},
             by : 0 .. Len(said), ino : Nat]
  /\ IsOperation(r.op)

IsGrant(grant) == grant \in [op : {grant.op}, by : 1 .. Len(said)] /\ IsOperation(grant.op)

Doings == [kind : Kinds, place : Places, ino : Nat, fresh : BOOLEAN, what : Contents \cup {None}, by : Nat]

\* Every variable keeps its type, and the ids of the pending requests are distinct.
TypeOK ==
  /\ client \in [alive : BOOLEAN, open : BOOLEAN, grants : Seq(Range(client.grants)), served : 0 .. MaxServed]
  /\ Len(client.grants) <= MaxGrants /\ \A grant \in Range(client.grants) : IsGrant(grant)
  /\ IsFiniteSet(reqs) /\ \A r \in reqs : IsRequest(r)
  /\ \A r, other \in reqs : r.id = other.id => r = other
  /\ disk \in [at : [Places -> Nat], lead : Paths, next : Nat]
  /\ terms \in Seq(Terminals) /\ said \in Seq(Range(said)) /\ \A op \in Range(said) : IsOperation(op)
  /\ done \in Seq(Doings)
  /\ used \in [scene : Scenarios, requests : Nat, swaps : Nat, ends : Nat]

\* A write or a terminal that ran by an approval is the one Main was shown: the
\* same kind, at a place it named, on the very file or directory that was there
\* then (or one the Gateway created where there was none), with the content or
\* command shown; each approved place and command went to one operation, and only
\* auto_approve ran anything without an approval (#consumeGrant, #writeTextFile,
\* #createTerminal, #requestIdInUse).
AppliedAsApproved ==
  /\ \A d \in DOMAIN done :
       LET did == done[d] IN
       IF did.by = 0 THEN used.scene.policy = "auto_approve"
       ELSE LET shown == said[did.by]
            IN  /\ shown.kind = did.kind /\ did.place \in DOMAIN shown.idents
                /\ IF did.fresh THEN shown.idents[did.place] = 0 ELSE shown.idents[did.place] = did.ino
                /\ shown.what \in {None, did.what}
  /\ \A d, e \in DOMAIN done :
       d # e /\ done[d].by # 0 /\ done[d].by = done[e].by => done[d].place # done[e].place

\* What is counted is there, and no two requests are pending under one id: the
\* count of running requests never exceeds the handlers that run, so no place is
\* lost for good (#releaseClientRequest in the finally), and no session has more
\* terminals or requests waiting for Main than its limits, though each limit is
\* checked after an await.
LimitsHold ==
  /\ TypeOK
  /\ client.served <= Cardinality({r \in reqs : ~r.permission})
  /\ Cardinality(Listed) <= MaxTerminals
  /\ Cardinality(Asked) <= MaxPending

\* A terminal's process group is ended, and nothing else is: ending it never
\* signals a group a check has found empty, whose id may be another group's by
\* then, and while anything of the group of a terminal the Gateway is done with
\* runs, the command or what it left behind, the SIGKILL is still to come or has
\* been sent (watchGroup, endGroup, terminateChild).
GroupsAreEnded ==
  \A i \in DOMAIN terms :
    /\ "teardown" \notin terms[i].late
    /\ ~terms[i].listed /\ Members(terms[i]) => terms[i].ending = "term" \/ terms[i].killed
============================================================================
