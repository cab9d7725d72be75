-------------------------- MODULE WorkerOpsProofs --------------------------
(***************************************************************************)
(* What the Gateway does for a worker: only what Main was shown, each      *)
(* approval once; within its limits; and every terminal's group is ended   *)
(* and no other.  For any number of requests, approvals, terminals and     *)
(* changes of the disk, and any limits.                                    *)
(***************************************************************************)
EXTENDS WorkerOps, FiniteSetTheorems, TLAPS

Operations ==
  [kind : Kinds, idents : UNION {[places -> Nat] : places \in (SUBSET Places) \ {{}}},
   what : Contents \cup {None}, edit : BOOLEAN]
Grants == [op : Operations, by : Nat]
Steps == {"came", "reading", "asked", "named", "opened"}
Requestings == [id : Ids, permission : BOOLEAN, op : Operations, at : Steps, by : Nat, ino : Nat]

ClientType == client \in [alive : BOOLEAN, open : BOOLEAN, grants : Seq(Grants), served : Nat]
ReqsType == reqs \subseteq Requestings /\ IsFiniteSet(reqs)
DiskType == disk \in [at : [Places -> Nat], lead : Paths, next : Nat]
TermsType == terms \in Seq(Terminals)
SaidType == said \in Seq(Operations)
DoneType == done \in Seq(Doings)
UsedType == used \in [scene : Scenarios, requests : Nat, swaps : Nat, ends : Nat]

\* No two requests are pending under one id.
OneUnderEachId == \A r, other \in reqs : r.id = other.id => r = other

----------------------------------------------------------------------------
(* The terminals *)

\* The sequence that ends a group is past its SIGTERM only when the group is gone
\* or killed, nobody is signalled once it was found gone, and a terminal that is
\* not listed has its sequence under way.
Sound(t) ==
  /\ "teardown" \notin t.late
  /\ t.gone => ~Members(t) /\ t.ending \in {"no", "done"}
  /\ t.ending \in {"kill", "done"} /\ Members(t) => t.killed
  /\ ~t.listed /\ Members(t) => t.ending = "term" \/ t.killed

GroupsInv == \A i \in DOMAIN terms : Sound(terms[i])

TermsPart == TermsType /\ GroupsInv /\ Cardinality(Listed) <= MaxTerminals

----------------------------------------------------------------------------
(* The requests, and what is counted *)

Handlers(rs) == {r \in rs : ~r.permission}
AskedOf(rs) == {r \in rs : r.at = "asked"}

\* What has not run yet has no approval to its name.
NoneYet == \A r \in reqs : r.at \in {"came", "reading", "asked"} => r.by = 0

\* The count of running requests stays within the handlers that run.
ReqsPart ==
  /\ ReqsType /\ OneUnderEachId /\ NoneYet
  /\ client.served \in Nat /\ client.served <= MaxServed /\ client.served <= Cardinality(Handlers(reqs))
  /\ Cardinality(AskedOf(reqs)) <= MaxPending

----------------------------------------------------------------------------
(* The approvals *)

RunningOf(rs) == {r \in rs : r.at \in {"named", "opened"}}

\* An approval is what is left of what Main was shown.
GrantAsShown(grant, shown) ==
  /\ grant.by \in DOMAIN shown
  /\ LET op == shown[grant.by]
     IN  /\ op.kind = grant.op.kind /\ op.what = grant.op.what
         /\ \A p \in DOMAIN grant.op.idents : p \in DOMAIN op.idents /\ op.idents[p] = grant.op.idents[p]

\* An operation runs as Main was shown it, or by the policy.
RunAsShown(r, shown, auto) ==
  IF r.by = 0 THEN r.op.kind = "read" \/ auto
  ELSE /\ r.by \in DOMAIN shown
       /\ LET op == shown[r.by]
          IN  /\ op.kind = r.op.kind /\ op.what \in {None, r.op.what}
              /\ Place(r.op) \in DOMAIN op.idents /\ op.idents[Place(r.op)] = Ident(r.op)

DoneAsShown(did, shown, auto) ==
  IF did.by = 0 THEN auto
  ELSE /\ did.by \in DOMAIN shown
       /\ LET op == shown[did.by]
          IN  /\ op.kind = did.kind /\ did.place \in DOMAIN op.idents
              /\ IF did.fresh THEN op.idents[did.place] = 0 ELSE op.idents[did.place] = did.ino
              /\ op.what \in {None, did.what}

\* Each place of what Main allowed is in an approval, with a running operation,
\* or done, and in no two of them.
SpentOnce(grants, running, did) ==
  /\ \A i, j \in DOMAIN grants : i # j => grants[i].by # grants[j].by
  /\ \A i \in DOMAIN grants, r \in running :
       r.by = grants[i].by => Place(r.op) \notin DOMAIN grants[i].op.idents
  /\ \A i \in DOMAIN grants, d \in DOMAIN did :
       did[d].by = grants[i].by => did[d].place \notin DOMAIN grants[i].op.idents
  /\ \A r, s \in running : r # s /\ r.by # 0 /\ r.by = s.by => Place(r.op) # Place(s.op)
  /\ \A r \in running, d \in DOMAIN did : r.by # 0 /\ r.by = did[d].by => Place(r.op) # did[d].place
  /\ \A d, e \in DOMAIN did : d # e /\ did[d].by # 0 /\ did[d].by = did[e].by => did[d].place # did[e].place

Approved(grants, running, shown, did, auto) ==
  /\ \A i \in DOMAIN grants : GrantAsShown(grants[i], shown)
  /\ \A r \in running : RunAsShown(r, shown, auto)
  /\ \A d \in DOMAIN did : DoneAsShown(did[d], shown, auto)
  /\ SpentOnce(grants, running, did)

AutoApproves == used.scene.policy = "auto_approve"

ApprovedInv == Approved(client.grants, RunningOf(reqs), said, done, AutoApproves)

GrantsPart == ClientType /\ Len(client.grants) <= MaxGrants /\ SaidType /\ DoneType /\ ApprovedInv

\* The inductive invariant.
OpsInv == TermsPart /\ ReqsPart /\ GrantsPart /\ DiskType /\ UsedType

----------------------------------------------------------------------------
(* Each step of a terminal keeps it sound *)

\* The end of a group, by whoever is first, and the removal from the list.
LEMMA EndIsSound ==
  ASSUME NEW t \in Terminals, Sound(t)
  PROVE  LET ended == [EndGroup(t) EXCEPT !.listed = FALSE] IN ended \in Terminals /\ Sound(ended) /\ ~ended.listed
  BY ZenonT(30) DEF Terminals, Sound, EndGroup, KillChild, GroupAlive, Members

\* The SIGKILL at the end of the grace.
LEMMA SigKillIsSound ==
  ASSUME NEW t \in Terminals, Sound(t), t.ending = "term"
  PROVE  SigKill(t) \in Terminals /\ Sound(SigKill(t)) /\ (SigKill(t).listed <=> t.listed)
  BY DEF Terminals, Sound, SigKill, FoundGone, KillChild, GroupAlive, Members

\* The worker's own kill.
LEMMA KillIsSound ==
  ASSUME NEW t \in Terminals, Sound(t)
  PROVE  KillTerminal(t) \in Terminals /\ Sound(KillTerminal(t)) /\ (KillTerminal(t).listed <=> t.listed)
  BY DEF Terminals, Sound, KillTerminal, KillChild, Members

\* A check that finds the group empty.
LEMMA GoneIsSound ==
  ASSUME NEW t \in Terminals, Sound(t), ~GroupAlive(t)
  PROVE  FoundGone(t) \in Terminals /\ Sound(FoundGone(t)) /\ (FoundGone(t).listed <=> t.listed)
  BY DEF Terminals, Sound, FoundGone, GroupAlive, Members

\* The command's exit.
LEMMA ExitIsSound ==
  ASSUME NEW t \in Terminals, Sound(t), t.cmd, NEW leaves \in BOOLEAN, t.killed => ~leaves
  PROVE  /\ CommandExits(t, leaves) \in Terminals /\ Sound(CommandExits(t, leaves))
         /\ CommandExits(t, leaves).listed <=> t.listed
  BY ZenonT(30) DEF Terminals, Sound, CommandExits, WatchGroup, FoundGone, GroupAlive, Members

\* What befalls a terminal otherwise.
LEMMA RestIsSound ==
  ASSUME NEW t \in Terminals, Sound(t)
  PROVE  /\ LET less == [t EXCEPT !.rest = FALSE] IN less \in Terminals /\ Sound(less) /\ (less.listed <=> t.listed)
         /\ LET closed == [t EXCEPT !.closed = TRUE]
            IN  closed \in Terminals /\ Sound(closed) /\ (closed.listed <=> t.listed)
         /\ LET other == [t EXCEPT !.other = TRUE] IN other \in Terminals /\ Sound(other) /\ (other.listed <=> t.listed)
         /\ t.ending = "kill" =>
              LET over == [t EXCEPT !.ending = "done"] IN over \in Terminals /\ Sound(over) /\ (over.listed <=> t.listed)
  BY DEF Terminals, Sound, Members

----------------------------------------------------------------------------
(* The terminals together *)

LEMMA ListedIsFinite ==
  ASSUME TermsType
  PROVE  IsFiniteSet(Listed) /\ Cardinality(Listed) \in Nat
<1>1. DOMAIN terms = 1 .. Len(terms) /\ Len(terms) \in Nat
  BY DEF TermsType
<1>2. IsFiniteSet(DOMAIN terms)
  BY <1>1, FS_Interval
<1>3. Listed \in SUBSET DOMAIN terms
  BY DEF Listed
<1> QED
  BY <1>2, <1>3, FS_Subset, FS_CardinalityType

\* A step that lists no other terminal keeps the limit.
LEMMA NoMoreListed ==
  ASSUME TermsPart, Listed' \subseteq Listed
  PROVE  Cardinality(Listed)' <= MaxTerminals
<1>1. IsFiniteSet(Listed) /\ Cardinality(Listed) \in Nat
  BY ListedIsFinite DEF TermsPart
<1>2. Listed' \in SUBSET Listed
  OBVIOUS
<1>3. Cardinality(Listed') <= Cardinality(Listed) /\ Cardinality(Listed') \in Nat
  BY <1>1, <1>2, FS_Subset, FS_CardinalityType
<1> QED
  BY <1>1, <1>3, WorkerOpsAssumption DEF TermsPart

LEMMA TermChanges ==
  ASSUME TermsPart, NEW i \in DOMAIN terms, NEW t \in Terminals, Sound(t), t.listed => terms[i].listed,
         terms' = [terms EXCEPT ![i] = t]
  PROVE  TermsPart'
<1>1. TermsType' /\ DOMAIN terms' = DOMAIN terms
  BY DEF TermsPart, TermsType
<1>2. \A j \in DOMAIN terms : terms'[j] = IF j = i THEN t ELSE terms[j]
  BY DEF TermsPart, TermsType
<1>3. GroupsInv'
  BY <1>1, <1>2 DEF TermsPart, GroupsInv
<1>4. Listed' \subseteq Listed
  BY <1>1, <1>2 DEF Listed
<1> QED
  BY <1>1, <1>3, <1>4, NoMoreListed DEF TermsPart

LEMMA CloseKeeps ==
  ASSUME TermsPart, terms' = CloseTerminals
  PROVE  TermsPart'
<1>1. DOMAIN terms = 1 .. Len(terms) /\ Len(terms) \in Nat /\ DOMAIN terms' = DOMAIN terms
  BY DEF TermsPart, TermsType, CloseTerminals
<1>2. ASSUME NEW i \in DOMAIN terms
      PROVE  terms'[i] \in Terminals /\ Sound(terms'[i]) /\ ~terms'[i].listed
  <2>1. terms[i] \in Terminals /\ Sound(terms[i])
    BY DEF TermsPart, TermsType, GroupsInv
  <2>2. terms'[i] = IF terms[i].listed THEN [EndGroup(terms[i]) EXCEPT !.listed = FALSE] ELSE terms[i]
    BY DEF CloseTerminals
  <2> QED
    BY <2>1, <2>2, EndIsSound
<1>3. terms' \in Seq(Terminals)
  BY <1>1, <1>2 DEF CloseTerminals
<1>4. TermsType' /\ GroupsInv'
  BY <1>1, <1>2, <1>3 DEF TermsType, GroupsInv
<1>5. Listed' \subseteq Listed
  BY <1>1, <1>2 DEF Listed
<1> QED
  BY <1>4, <1>5, NoMoreListed DEF TermsPart

LEMMA StartKeeps ==
  ASSUME TermsPart, terms' = Append(terms, Spawned), Cardinality(Listed) < MaxTerminals
  PROVE  TermsPart'
<1> DEFINE new == Len(terms) + 1
<1>1. Spawned \in Terminals /\ Sound(Spawned)
  BY DEF Spawned, Terminals, Sound, Members
<1>2. TermsType' /\ DOMAIN terms' = 1 .. new /\ DOMAIN terms = 1 .. Len(terms) /\ Len(terms) \in Nat
  BY <1>1 DEF TermsPart, TermsType
<1>3. terms'[new] = Spawned /\ \A j \in DOMAIN terms : terms'[j] = terms[j]
  BY <1>1 DEF TermsPart, TermsType
<1> HIDE DEF new
<1>4. \A j \in DOMAIN terms' : j \in DOMAIN terms \/ j = new
  BY <1>2 DEF new
<1>5. GroupsInv'
  BY <1>1, <1>3, <1>4 DEF TermsPart, GroupsInv
<1>6. Listed' \in SUBSET (Listed \cup {new})
  BY <1>3, <1>4 DEF Listed
<1>7. IsFiniteSet(Listed) /\ Cardinality(Listed) \in Nat
  BY ListedIsFinite DEF TermsPart
<1>8. IsFiniteSet(Listed \cup {new}) /\ Cardinality(Listed \cup {new}) <= Cardinality(Listed) + 1
      /\ Cardinality(Listed \cup {new}) \in Nat
  <2>1. /\ IsFiniteSet(Listed \cup {new})
        /\ Cardinality(Listed \cup {new}) = IF new \in Listed THEN Cardinality(Listed) ELSE Cardinality(Listed) + 1
    BY ONLY <1>7, FS_AddElement
  <2> QED
    BY <1>7, <2>1
<1>9. Cardinality(Listed') <= Cardinality(Listed \cup {new}) /\ Cardinality(Listed') \in Nat
  BY <1>6, <1>8, FS_Subset, FS_CardinalityType
<1>10. Cardinality(Listed)' <= MaxTerminals
  BY <1>7, <1>8, <1>9, WorkerOpsAssumption
<1> QED
  BY <1>2, <1>5, <1>10 DEF TermsPart

----------------------------------------------------------------------------
(* The requests together *)

LEMMA CountsAreNumbers ==
  ASSUME NEW rs, IsFiniteSet(rs)
  PROVE  /\ IsFiniteSet(Handlers(rs)) /\ Cardinality(Handlers(rs)) \in Nat
         /\ IsFiniteSet(AskedOf(rs)) /\ Cardinality(AskedOf(rs)) \in Nat
<1>1. Handlers(rs) \in SUBSET rs /\ AskedOf(rs) \in SUBSET rs
  BY DEF Handlers, AskedOf
<1> QED
  BY <1>1, FS_Subset, FS_CardinalityType

\* What a request that leaves takes off the counts.
LEMMA LeavingCounts ==
  ASSUME NEW rs, IsFiniteSet(rs), NEW r \in rs
  PROVE  /\ IsFiniteSet(rs \ {r})
         /\ Cardinality(Handlers(rs \ {r})) = IF r.permission THEN Cardinality(Handlers(rs)) ELSE Cardinality(Handlers(rs)) - 1
         /\ Cardinality(AskedOf(rs \ {r})) = IF r.at = "asked" THEN Cardinality(AskedOf(rs)) - 1 ELSE Cardinality(AskedOf(rs))
<1>1. IsFiniteSet(Handlers(rs)) /\ IsFiniteSet(AskedOf(rs))
  BY CountsAreNumbers
<1>2. Handlers(rs \ {r}) = Handlers(rs) \ {r} /\ (r \in Handlers(rs) <=> ~r.permission)
  BY DEF Handlers
<1>3. AskedOf(rs \ {r}) = AskedOf(rs) \ {r} /\ (r \in AskedOf(rs) <=> r.at = "asked")
  BY DEF AskedOf
<1> QED
  BY <1>1, <1>2, <1>3, FS_RemoveElement

\* What a request that comes adds to them.
LEMMA ComingCounts ==
  ASSUME NEW rs, IsFiniteSet(rs), NEW r, r \notin rs
  PROVE  /\ IsFiniteSet(rs \cup {r})
         /\ Cardinality(Handlers(rs \cup {r})) = IF r.permission THEN Cardinality(Handlers(rs)) ELSE Cardinality(Handlers(rs)) + 1
         /\ Cardinality(AskedOf(rs \cup {r})) = IF r.at = "asked" THEN Cardinality(AskedOf(rs)) + 1 ELSE Cardinality(AskedOf(rs))
<1>1. IsFiniteSet(Handlers(rs)) /\ IsFiniteSet(AskedOf(rs))
  BY CountsAreNumbers
<1>2. Handlers(rs \cup {r}) = (IF r.permission THEN Handlers(rs) ELSE Handlers(rs) \cup {r}) /\ r \notin Handlers(rs)
  BY DEF Handlers
<1>3. AskedOf(rs \cup {r}) = (IF r.at = "asked" THEN AskedOf(rs) \cup {r} ELSE AskedOf(rs)) /\ r \notin AskedOf(rs)
  BY DEF AskedOf
<1>4. IsFiniteSet(rs \cup {r})
  BY FS_AddElement
<1>5. Cardinality(Handlers(rs) \cup {r}) = Cardinality(Handlers(rs)) + 1 /\ Cardinality(AskedOf(rs) \cup {r}) = Cardinality(AskedOf(rs)) + 1
  BY <1>1, <1>2, <1>3, FS_AddElement
<1> QED
  BY <1>2, <1>3, <1>4, <1>5

\* A handler that ends gives its place back (#releaseClientRequest).
LEMMA LeaveKeeps ==
  ASSUME ReqsPart, NEW r \in reqs, reqs' = reqs \ {r},
         client'.served = IF r.permission THEN client.served ELSE IF client.served > 0 THEN client.served - 1 ELSE 0
  PROVE  ReqsPart'
<1>1. ReqsType' /\ OneUnderEachId' /\ NoneYet'
  <2>1. IsFiniteSet(reqs')
    BY FS_RemoveElement DEF ReqsPart, ReqsType
  <2> QED
    BY <2>1 DEF ReqsPart, ReqsType, OneUnderEachId, NoneYet
<1>2. /\ Cardinality(Handlers(reqs')) = IF r.permission THEN Cardinality(Handlers(reqs)) ELSE Cardinality(Handlers(reqs)) - 1
      /\ Cardinality(AskedOf(reqs')) = IF r.at = "asked" THEN Cardinality(AskedOf(reqs)) - 1 ELSE Cardinality(AskedOf(reqs))
  BY LeavingCounts DEF ReqsPart, ReqsType
<1>3. Cardinality(Handlers(reqs)) \in Nat /\ Cardinality(AskedOf(reqs)) \in Nat
  BY CountsAreNumbers DEF ReqsPart, ReqsType
<1>4. Cardinality(Handlers(reqs')) \in Nat /\ Cardinality(AskedOf(reqs')) \in Nat
  BY <1>1, CountsAreNumbers DEF ReqsType
<1> QED
  BY <1>1, <1>2, <1>3, <1>4, WorkerOpsAssumption DEF ReqsPart

\* A request that comes has an id nobody uses.
LEMMA ComeKeeps ==
  ASSUME ReqsPart, NEW r \in Requestings, ~InUse(r.id), reqs' = reqs \cup {r}, r.by = 0,
         r.at = "asked" => Cardinality(AskedOf(reqs)) < MaxPending,
         client'.served \in Nat, client'.served <= MaxServed,
         client'.served <= IF r.permission THEN client.served ELSE client.served + 1
  PROVE  ReqsPart'
<1>1. r \notin reqs /\ \A other \in reqs : other.id # r.id
  BY DEF InUse
<1>2. ReqsType' /\ OneUnderEachId' /\ NoneYet'
  <2>1. IsFiniteSet(reqs')
    BY FS_AddElement DEF ReqsPart, ReqsType
  <2> QED
    BY <1>1, <2>1 DEF ReqsPart, ReqsType, OneUnderEachId, NoneYet
<1>3. /\ Cardinality(Handlers(reqs')) = IF r.permission THEN Cardinality(Handlers(reqs)) ELSE Cardinality(Handlers(reqs)) + 1
      /\ Cardinality(AskedOf(reqs')) = IF r.at = "asked" THEN Cardinality(AskedOf(reqs)) + 1 ELSE Cardinality(AskedOf(reqs))
  BY <1>1, ComingCounts DEF ReqsPart, ReqsType
<1>4. Cardinality(Handlers(reqs)) \in Nat /\ Cardinality(AskedOf(reqs)) \in Nat
  BY CountsAreNumbers DEF ReqsPart, ReqsType
<1> QED
  BY <1>2, <1>3, <1>4, WorkerOpsAssumption DEF ReqsPart

\* A request that goes on is still one request.
LEMMA GoOnKeeps ==
  ASSUME ReqsPart, NEW r \in reqs, NEW later \in Requestings, GoesOn(r, later),
         later.id = r.id, later.permission = r.permission,
         later.at \in {"came", "reading", "asked"} => later.by = 0,
         later.at = "asked" => r.at = "asked" \/ Cardinality(AskedOf(reqs)) < MaxPending,
         client'.served = client.served
  PROVE  ReqsPart'
<1> DEFINE rest == reqs \ {r}
<1>1. IsFiniteSet(rest) /\ later \notin rest /\ reqs' = rest \cup {later}
  <2>1. \A other \in rest : other.id # later.id
    BY DEF ReqsPart, OneUnderEachId
  <2> QED
    BY <2>1, FS_RemoveElement DEF ReqsPart, ReqsType, GoesOn
<1>2. ReqsType' /\ OneUnderEachId' /\ NoneYet'
  <2>1. IsFiniteSet(reqs')
    BY <1>1, FS_AddElement
  <2> QED
    BY <1>1, <2>1 DEF ReqsPart, ReqsType, OneUnderEachId, NoneYet
<1>3. /\ Cardinality(Handlers(rest)) = IF r.permission THEN Cardinality(Handlers(reqs)) ELSE Cardinality(Handlers(reqs)) - 1
      /\ Cardinality(AskedOf(rest)) = IF r.at = "asked" THEN Cardinality(AskedOf(reqs)) - 1 ELSE Cardinality(AskedOf(reqs))
  BY LeavingCounts DEF ReqsPart, ReqsType
<1>4. /\ Cardinality(Handlers(reqs')) = IF later.permission THEN Cardinality(Handlers(rest)) ELSE Cardinality(Handlers(rest)) + 1
      /\ Cardinality(AskedOf(reqs')) = IF later.at = "asked" THEN Cardinality(AskedOf(rest)) + 1 ELSE Cardinality(AskedOf(rest))
  BY <1>1, ComingCounts
<1> HIDE DEF rest
<1>5. Cardinality(Handlers(reqs)) \in Nat /\ Cardinality(AskedOf(reqs)) \in Nat
  BY CountsAreNumbers DEF ReqsPart, ReqsType
<1> QED
  BY <1>2, <1>3, <1>4, <1>5, WorkerOpsAssumption DEF ReqsPart

\* What waits for Main is answered.
LEMMA UnaskedKeeps ==
  ASSUME ReqsPart, reqs' = Unasked,
         client'.served = 0 \/ client'.served = IF client.served > AskedServed THEN client.served - AskedServed ELSE 0
  PROVE  ReqsPart'
<1> DEFINE held == {r \in Asked : ~r.permission}
<1>1. ReqsType' /\ OneUnderEachId' /\ NoneYet'
  <2>1. Unasked \in SUBSET reqs
    BY DEF Unasked
  <2>2. IsFiniteSet(reqs')
    BY <2>1, FS_Subset DEF ReqsPart, ReqsType
  <2> QED
    BY <2>1, <2>2 DEF ReqsPart, ReqsType, OneUnderEachId, NoneYet
<1>2. AskedOf(reqs') = {}
  BY DEF AskedOf, Unasked, Asked
<1>3. Handlers(reqs') = Handlers(reqs) \ held /\ held \in SUBSET Handlers(reqs) /\ AskedServed = Cardinality(held)
  BY DEF Handlers, Unasked, Asked, AskedServed
<1>4. IsFiniteSet(Handlers(reqs)) /\ Cardinality(Handlers(reqs)) \in Nat
  BY CountsAreNumbers DEF ReqsPart, ReqsType
<1>5. IsFiniteSet(held) /\ Cardinality(held) \in Nat /\ Handlers(reqs) \cap held = held
  BY <1>3, <1>4, FS_Subset, FS_CardinalityType
<1> HIDE DEF held
<1>6. Cardinality(Handlers(reqs')) = Cardinality(Handlers(reqs)) - Cardinality(held)
  BY <1>3, <1>4, <1>5, FS_Difference, ZenonT(30)
<1>7. Cardinality(AskedOf(reqs')) = 0
  BY <1>2, FS_EmptySet
<1>8. Cardinality(Handlers(reqs')) \in Nat
  BY <1>1, CountsAreNumbers DEF ReqsType
<1> QED
  BY <1>1, <1>3, <1>4, <1>5, <1>6, <1>7, <1>8, WorkerOpsAssumption DEF ReqsPart

----------------------------------------------------------------------------
(* The approvals: what is left of them, and what becomes of each *)

\* Each approval of g2 is what is left of one of g, and of no two the same one.
Narrower(g2, g) ==
  \E m \in [DOMAIN g2 -> DOMAIN g] :
    /\ \A i, j \in DOMAIN g2 : m[i] = m[j] => i = j
    /\ \A i \in DOMAIN g2 :
         /\ g2[i].by = g[m[i]].by /\ g2[i].op.kind = g[m[i]].op.kind /\ g2[i].op.what = g[m[i]].op.what
         /\ \A p \in DOMAIN g2[i].op.idents : p \in DOMAIN g[m[i]].op.idents /\ g2[i].op.idents[p] = g[m[i]].op.idents[p]

LEMMA NarrowerKeeps ==
  ASSUME NEW g, NEW g2, NEW running, NEW shown, NEW did, NEW auto, NEW fewer \in SUBSET running,
         Approved(g, running, shown, did, auto), Narrower(g2, g)
  PROVE  Approved(g2, fewer, shown, did, auto)
<1>1. PICK m \in [DOMAIN g2 -> DOMAIN g] :
        /\ \A i, j \in DOMAIN g2 : m[i] = m[j] => i = j
        /\ \A i \in DOMAIN g2 :
             /\ g2[i].by = g[m[i]].by /\ g2[i].op.kind = g[m[i]].op.kind /\ g2[i].op.what = g[m[i]].op.what
             /\ \A p \in DOMAIN g2[i].op.idents : p \in DOMAIN g[m[i]].op.idents /\ g2[i].op.idents[p] = g[m[i]].op.idents[p]
  BY DEF Narrower
<1>2. \A i \in DOMAIN g2 : m[i] \in DOMAIN g
  OBVIOUS
<1>3. \A i \in DOMAIN g2 : GrantAsShown(g2[i], shown)
  <2> SUFFICES ASSUME NEW i \in DOMAIN g2 PROVE GrantAsShown(g2[i], shown)
    OBVIOUS
  <2>1. GrantAsShown(g[m[i]], shown)
    BY <1>2 DEF Approved
  <2> QED
    BY <1>1, <2>1 DEF GrantAsShown
<1>4. SpentOnce(g2, fewer, did)
  <2>1. SpentOnce(g, running, did)
    BY DEF Approved
  <2>2. \A i, j \in DOMAIN g2 : i # j => g2[i].by # g2[j].by
    BY <1>1, <1>2, <2>1 DEF SpentOnce
  <2>3. \A i \in DOMAIN g2, r \in fewer : r.by = g2[i].by => Place(r.op) \notin DOMAIN g2[i].op.idents
    BY <1>1, <1>2, <2>1 DEF SpentOnce
  <2>4. \A i \in DOMAIN g2, d \in DOMAIN did : did[d].by = g2[i].by => did[d].place \notin DOMAIN g2[i].op.idents
    BY <1>1, <1>2, <2>1 DEF SpentOnce
  <2> QED
    BY <2>1, <2>2, <2>3, <2>4 DEF SpentOnce
<1> QED
  BY <1>3, <1>4 DEF Approved

LEMMA NoneIsNarrower ==
  ASSUME NEW g
  PROVE  Narrower(<<>>, g) /\ Narrower(g, g)
<1>1. Narrower(<<>>, g)
  <2>1. [i \in {} |-> i] \in [DOMAIN <<>> -> DOMAIN g] /\ DOMAIN <<>> = {}
    OBVIOUS
  <2> QED
    BY <2>1 DEF Narrower
<1>2. Narrower(g, g)
  <2> DEFINE m == [i \in DOMAIN g |-> i]
  <2>1. m \in [DOMAIN g -> DOMAIN g] /\ \A i \in DOMAIN g : m[i] = i
    OBVIOUS
  <2> HIDE DEF m
  <2> QED
    BY <2>1 DEF Narrower
<1> QED
  BY <1>1, <1>2

\* The oldest approval gives way to the newest.
LEMMA TailIsNarrower ==
  ASSUME NEW g \in Seq(Grants), Len(g) > 0
  PROVE  Narrower(Tail(g), g) /\ Tail(g) \in Seq(Grants) /\ Len(Tail(g)) = Len(g) - 1
<1> DEFINE m == [i \in DOMAIN Tail(g) |-> i + 1]
<1>1. Tail(g) \in Seq(Grants) /\ Len(Tail(g)) = Len(g) - 1 /\ DOMAIN Tail(g) = 1 .. Len(g) - 1 /\ DOMAIN g = 1 .. Len(g)
      /\ Len(g) \in Nat /\ \A i \in DOMAIN Tail(g) : Tail(g)[i] = g[i + 1]
  OBVIOUS
<1>2. \A i \in DOMAIN Tail(g) : m[i] = i + 1 /\ m[i] \in DOMAIN g
  BY <1>1
<1>3. m \in [DOMAIN Tail(g) -> DOMAIN g] /\ \A i, j \in DOMAIN Tail(g) : m[i] = m[j] => i = j
  BY <1>1, <1>2
<1> HIDE DEF m
<1>4. Narrower(Tail(g), g)
  BY <1>1, <1>2, <1>3 DEF Narrower
<1> QED
  BY <1>1, <1>4

LEMMA RemovedIsNarrower ==
  ASSUME NEW g \in Seq(Grants), NEW i \in DOMAIN g
  PROVE  /\ Narrower(RemoveAt(g, i), g) /\ RemoveAt(g, i) \in Seq(Grants) /\ Len(RemoveAt(g, i)) <= Len(g)
         /\ \A k \in DOMAIN RemoveAt(g, i) : \E j \in DOMAIN g : j # i /\ RemoveAt(g, i)[k] = g[j]
<1> DEFINE n == Len(g)
           rest == RemoveAt(g, i)
           m == [k \in 1 .. n - 1 |-> IF k < i THEN k ELSE k + 1]
<1>1. n \in Nat /\ DOMAIN g = 1 .. n /\ i \in 1 .. n
  OBVIOUS
<1>2. SubSeq(g, 1, i - 1) \in Seq(Grants) /\ Len(SubSeq(g, 1, i - 1)) = i - 1
      /\ \A k \in 1 .. i - 1 : SubSeq(g, 1, i - 1)[k] = g[k]
  BY <1>1
<1>3. SubSeq(g, i + 1, n) \in Seq(Grants) /\ Len(SubSeq(g, i + 1, n)) = n - i
      /\ \A k \in 1 .. n - i : SubSeq(g, i + 1, n)[k] = g[i + k]
  BY <1>1
<1>4. rest = SubSeq(g, 1, i - 1) \o SubSeq(g, i + 1, n)
  BY DEF RemoveAt
<1>5. rest \in Seq(Grants) /\ Len(rest) = n - 1 /\ DOMAIN rest = 1 .. n - 1
  BY <1>1, <1>2, <1>3, <1>4
<1>6. \A k \in 1 .. n - 1 : m[k] \in 1 .. n /\ m[k] # i /\ rest[k] = g[m[k]]
  <2> DEFINE before == SubSeq(g, 1, i - 1)
             after == SubSeq(g, i + 1, n)
  <2>1. \A k \in 1 .. n - 1 : m[k] = (IF k < i THEN k ELSE k + 1) /\ m[k] \in 1 .. n /\ m[k] # i
    BY <1>1
  <2>2. before \in Seq(Grants) /\ after \in Seq(Grants) /\ Len(before) = i - 1 /\ Len(after) = n - i /\ rest = before \o after
        /\ (\A k \in 1 .. i - 1 : before[k] = g[k]) /\ \A k \in 1 .. n - i : after[k] = g[i + k]
    BY <1>2, <1>3, <1>4
  <2> HIDE DEF before, after, rest, m, n
  <2> SUFFICES ASSUME NEW k \in 1 .. n - 1 PROVE rest[k] = g[m[k]]
    BY <2>1
  <2>3. CASE k < i
    <3>1. rest[k] = before[k] /\ k \in 1 .. i - 1
      BY <1>1, <2>2, <2>3
    <3> QED
      BY <2>1, <2>2, <2>3, <3>1
  <2>4. CASE ~(k < i)
    <3>1. k - (i - 1) \in 1 .. n - i /\ i + (k - (i - 1)) = k + 1
      BY <1>1, <2>4
    <3>2. rest[k] = after[k - (i - 1)]
      BY <1>1, <2>2, <2>4, <3>1, SMTT(20)
    <3> QED
      BY <2>1, <2>2, <2>4, <3>1, <3>2, ZenonT(40)
  <2> QED
    BY <2>3, <2>4
<1>7. m \in [DOMAIN rest -> DOMAIN g] /\ \A k, l \in DOMAIN rest : m[k] = m[l] => k = l
  BY <1>1, <1>5, <1>6
<1> HIDE DEF m, rest, n
<1>8. Narrower(rest, g)
  BY <1>1, <1>5, <1>6, <1>7 DEF Narrower
<1> QED
  BY <1>1, <1>5, <1>6, <1>8 DEF n, rest

\* #consumeGrant takes the place off the approval, or the approval off the list.
LEMMA SpentIsNarrower ==
  ASSUME NEW g \in Seq(Grants), NEW i \in DOMAIN g, NEW op, Place(op) \in DOMAIN g[i].op.idents,
         \A j, k \in DOMAIN g : j # k => g[j].by # g[k].by
  PROVE  /\ Narrower(Spent(g, i, op), g) /\ Spent(g, i, op) \in Seq(Grants) /\ Len(Spent(g, i, op)) <= Len(g)
         /\ \A k \in DOMAIN Spent(g, i, op) :
              Spent(g, i, op)[k].by = g[i].by => Place(op) \notin DOMAIN Spent(g, i, op)[k].op.idents
<1>1. CASE Cardinality(DOMAIN g[i].op.idents) > 1
  <2> DEFINE left == [p \in DOMAIN g[i].op.idents \ {Place(op)} |-> g[i].op.idents[p]]
             less == [g[i] EXCEPT !.op.idents = left]
             g2 == [g EXCEPT ![i] = less]
             m == [k \in DOMAIN g |-> k]
  <2>1. g[i] \in Grants /\ g[i].op \in Operations
    <3>1. g[i] \in Grants
      OBVIOUS
    <3> QED
      BY <3>1 DEF Grants
  <2>2. PICK places \in (SUBSET Places) \ {{}} : g[i].op.idents \in [places -> Nat]
    BY <2>1 DEF Operations
  <2>3. places \ {Place(op)} # {}
    <3>1. SUFFICES ASSUME places \ {Place(op)} = {} PROVE FALSE
      OBVIOUS
    <3>2. places = {Place(op)}
      BY <2>2, <3>1
    <3>3. Cardinality(places) = 1
      BY <3>2, FS_Singleton
    <3> QED
      BY <1>1, <2>2, <3>3
  <2>4. left \in [places \ {Place(op)} -> Nat] /\ places \ {Place(op)} \in (SUBSET Places) \ {{}}
    BY <2>2, <2>3
  <2>5. left \in UNION {[ps -> Nat] : ps \in (SUBSET Places) \ {{}}}
    BY <2>4
  <2>6. DOMAIN left = places \ {Place(op)} /\ \A p \in DOMAIN left : p \in DOMAIN g[i].op.idents /\ left[p] = g[i].op.idents[p]
    BY <2>2
  <2> HIDE DEF left
  <2>7. less \in Grants /\ less.by = g[i].by /\ less.op.kind = g[i].op.kind /\ less.op.what = g[i].op.what /\ less.op.idents = left
    BY <2>1, <2>5 DEF Grants, Operations
  <2> HIDE DEF less
  <2>8. g2 \in Seq(Grants) /\ DOMAIN g2 = DOMAIN g /\ Len(g2) = Len(g)
        /\ \A k \in DOMAIN g : g2[k] = IF k = i THEN less ELSE g[k]
    BY <2>7
  <2>9. Spent(g, i, op) = g2
    BY <1>1 DEF Spent, less, left
  <2> HIDE DEF g2
  <2>10. m \in [DOMAIN g2 -> DOMAIN g] /\ \A k \in DOMAIN g2 : m[k] = k
    BY <2>8
  <2> HIDE DEF m
  <2>11. Narrower(g2, g)
    BY <2>6, <2>7, <2>8, <2>10, SMTT(20) DEF Narrower
  <2>12. \A k \in DOMAIN g2 : g2[k].by = g[i].by => Place(op) \notin DOMAIN g2[k].op.idents
    BY <2>6, <2>7, <2>8
  <2>13. Len(g2) <= Len(g)
    BY <2>8
  <2> QED
    BY <2>8, <2>9, <2>11, <2>12, <2>13
<1>2. CASE ~(Cardinality(DOMAIN g[i].op.idents) > 1)
  <2>1. Spent(g, i, op) = RemoveAt(g, i)
    BY <1>2 DEF Spent
  <2>2. /\ Narrower(RemoveAt(g, i), g) /\ RemoveAt(g, i) \in Seq(Grants) /\ Len(RemoveAt(g, i)) <= Len(g)
        /\ \A k \in DOMAIN RemoveAt(g, i) : \E j \in DOMAIN g : j # i /\ RemoveAt(g, i)[k] = g[j]
    BY RemovedIsNarrower
  <2>3. \A k \in DOMAIN RemoveAt(g, i) : RemoveAt(g, i)[k].by # g[i].by
    BY <2>2
  <2> QED
    BY <2>1, <2>2, <2>3
<1> QED
  BY <1>1, <1>2

\* An operation an approval covers runs, and the approval is spent.
LEMMA SpendKeeps ==
  ASSUME NEW g \in Seq(Grants), NEW running, NEW shown \in Seq(Operations), NEW did, NEW auto,
         Approved(g, running, shown, did, auto),
         NEW i \in DOMAIN g, NEW x, NEW read, Covers(g[i], x.op, read), x.by = g[i].by
  PROVE  Approved(Spent(g, i, x.op), running \cup {x}, shown, did, auto)
<1> DEFINE g2 == Spent(g, i, x.op)
<1>1. SpentOnce(g, running, did) /\ GrantAsShown(g[i], shown)
  BY DEF Approved
<1>2. Place(x.op) \in DOMAIN g[i].op.idents /\ g[i].op.kind = x.op.kind /\ g[i].op.idents[Place(x.op)] = Ident(x.op)
      /\ (g[i].op.what = None \/ g[i].op.what = x.op.what)
  BY DEF Covers, ApprovedContent
<1>3. Narrower(g2, g) /\ \A k \in DOMAIN g2 : g2[k].by = g[i].by => Place(x.op) \notin DOMAIN g2[k].op.idents
  <2>1. \A j, k \in DOMAIN g : j # k => g[j].by # g[k].by
    BY <1>1 DEF SpentOnce
  <2> QED
    BY <1>2, <2>1, SpentIsNarrower
<1> HIDE DEF g2
<1>4. Approved(g2, running, shown, did, auto)
  BY <1>3, NarrowerKeeps
<1>5. x.by # 0 /\ x.by \in DOMAIN shown
  BY <1>1 DEF GrantAsShown
<1>6. RunAsShown(x, shown, auto)
  BY <1>1, <1>2, <1>5 DEF RunAsShown, GrantAsShown
<1>7. SpentOnce(g2, running \cup {x}, did)
  <2>1. SpentOnce(g2, running, did)
    BY <1>4 DEF Approved
  <2>2. \A r \in running : r.by = x.by => Place(r.op) # Place(x.op)
    BY <1>1, <1>2 DEF SpentOnce
  <2>3. \A d \in DOMAIN did : did[d].by = x.by => did[d].place # Place(x.op)
    BY <1>1, <1>2 DEF SpentOnce
  <2>4. \A k \in DOMAIN g2 : x.by = g2[k].by => Place(x.op) \notin DOMAIN g2[k].op.idents
    BY <1>3
  <2> QED
    BY <2>1, <2>2, <2>3, <2>4 DEF SpentOnce
<1> QED
  BY <1>4, <1>6, <1>7 DEF Approved, g2

\* An operation the policy allows.
LEMMA PolicyKeeps ==
  ASSUME NEW g \in Seq(Grants), NEW running, NEW shown \in Seq(Operations), NEW did, NEW auto,
         Approved(g, running, shown, did, auto), NEW x, x.by = 0, x.op.kind = "read" \/ auto
  PROVE  Approved(g, running \cup {x}, shown, did, auto)
<1>1. \A i \in DOMAIN g : g[i].by # 0
  BY DEF Approved, GrantAsShown
<1>2. RunAsShown(x, shown, auto)
  BY DEF RunAsShown
<1>3. SpentOnce(g, running \cup {x}, did)
  BY <1>1 DEF Approved, SpentOnce
<1> QED
  BY <1>2, <1>3 DEF Approved

\* What Main says next says nothing of what it said before.
LEMMA SayKeeps ==
  ASSUME NEW g, NEW running, NEW shown \in Seq(Operations), NEW did, NEW auto,
         Approved(g, running, shown, did, auto), NEW op \in Operations
  PROVE  Approved(g, running, Append(shown, op), did, auto)
<1> DEFINE more == Append(shown, op)
<1>1. \A k \in DOMAIN shown : k \in DOMAIN more /\ more[k] = shown[k]
  OBVIOUS
<1> HIDE DEF more
<1>2. \A i \in DOMAIN g : GrantAsShown(g[i], more)
  BY <1>1 DEF Approved, GrantAsShown
<1>3. \A r \in running : RunAsShown(r, more, auto)
  BY <1>1 DEF Approved, RunAsShown
<1>4. \A d \in DOMAIN did : DoneAsShown(did[d], more, auto)
  BY <1>1 DEF Approved, DoneAsShown
<1> QED
  BY <1>2, <1>3, <1>4 DEF Approved, more

\* Nothing has the number of what Main says next.
LEMMA NextIsNew ==
  ASSUME NEW g, NEW running, NEW shown \in Seq(Operations), NEW did, NEW auto,
         Approved(g, running, shown, did, auto)
  PROVE  /\ \A i \in DOMAIN g : g[i].by # Len(shown) + 1
         /\ \A r \in running : r.by # Len(shown) + 1
         /\ \A d \in DOMAIN did : did[d].by # Len(shown) + 1
         /\ Len(shown) + 1 # 0
<1>1. Len(shown) \in Nat /\ Len(shown) + 1 \notin DOMAIN shown /\ Len(shown) + 1 # 0
  OBVIOUS
<1> QED
  BY <1>1 DEF Approved, GrantAsShown, RunAsShown, DoneAsShown

\* The operation Main allows runs.
LEMMA AllowKeeps ==
  ASSUME NEW g, NEW running, NEW shown \in Seq(Operations), NEW did, NEW auto,
         Approved(g, running, shown, did, auto),
         NEW x, x.by = Len(shown) + 1, x.op \in Operations
  PROVE  Approved(g, running \cup {x}, Append(shown, x.op), did, auto)
<1> DEFINE more == Append(shown, x.op)
<1>1. Approved(g, running, more, did, auto)
  BY SayKeeps
<1>2. x.by \in DOMAIN more /\ more[x.by] = x.op /\ x.by # 0
  OBVIOUS
<1>3. Place(x.op) \in DOMAIN x.op.idents
  BY DEF Place, Operations
<1> HIDE DEF more
<1>4. RunAsShown(x, more, auto)
  BY <1>2, <1>3 DEF RunAsShown, Ident
<1>5. /\ \A i \in DOMAIN g : g[i].by # x.by
      /\ \A r \in running : r.by # x.by
      /\ \A d \in DOMAIN did : did[d].by # x.by
  BY NextIsNew
<1>6. SpentOnce(g, running \cup {x}, did)
  <2>1. SpentOnce(g, running, did)
    BY DEF Approved
  <2> QED
    BY <1>5, <2>1 DEF SpentOnce
<1> QED
  BY <1>1, <1>4, <1>6 DEF Approved, more

\* The permission request Main allows becomes an approval; the oldest of too many
\* goes.
LEMMA GrantKeeps ==
  ASSUME NEW g \in Seq(Grants), NEW running, NEW shown \in Seq(Operations), NEW did, NEW auto,
         Approved(g, running, shown, did, auto), NEW op \in Operations, Len(g) <= MaxGrants
  PROVE  LET g2 == WithGrant(g, [op |-> op, by |-> Len(shown) + 1])
         IN  g2 \in Seq(Grants) /\ Len(g2) <= MaxGrants /\ Approved(g2, running, Append(shown, op), did, auto)
<1> DEFINE new == [op |-> op, by |-> Len(shown) + 1]
           kept == IF Len(g) = MaxGrants THEN Tail(g) ELSE g
           g2 == Append(kept, new)
           more == Append(shown, op)
<1>1. MaxGrants \in Nat \ {0} /\ Len(g) \in Nat
  BY WorkerOpsAssumption
<1>2. kept \in Seq(Grants) /\ Len(kept) + 1 <= MaxGrants /\ Narrower(kept, g)
  BY <1>1, TailIsNarrower, NoneIsNarrower
<1>3. WithGrant(g, new) = g2
  BY DEF WithGrant
<1>4. new \in Grants /\ new.by = Len(shown) + 1 /\ new.op = op
  BY DEF Grants
<1>5. Approved(kept, running, shown, did, auto)
  BY <1>2, NarrowerKeeps
<1>6. Approved(kept, running, more, did, auto)
  BY <1>5, SayKeeps
<1>7. new.by \in DOMAIN more /\ more[new.by] = op /\ new.by # 0
  BY <1>4
<1>8. /\ \A i \in DOMAIN kept : kept[i].by # new.by
      /\ \A r \in running : r.by # new.by
      /\ \A d \in DOMAIN did : did[d].by # new.by
  BY <1>4, <1>5, NextIsNew
<1> HIDE DEF new, kept, more
<1>9. g2 \in Seq(Grants) /\ Len(g2) = Len(kept) + 1 /\ Len(kept) \in Nat /\ g2[Len(g2)] = new
      /\ \A i \in DOMAIN g2 : i = Len(g2) \/ (i \in DOMAIN kept /\ g2[i] = kept[i])
  BY <1>2, <1>4
<1> HIDE DEF g2
<1>10. \A i \in DOMAIN g2 : GrantAsShown(g2[i], more)
  <2>1. GrantAsShown(new, more)
    BY <1>4, <1>7 DEF GrantAsShown
  <2> QED
    BY <1>6, <1>9, <2>1 DEF Approved
<1>11. SpentOnce(g2, running, did)
  <2>1. SpentOnce(kept, running, did)
    BY <1>6 DEF Approved
  <2> QED
    BY <1>8, <1>9, <2>1 DEF SpentOnce
<1>12. Approved(g2, running, more, did, auto)
  BY <1>6, <1>10, <1>11 DEF Approved
<1> QED
  BY <1>2, <1>3, <1>9, <1>12 DEF new, more

\* A running operation goes on as itself.
LEMMA SameKeeps ==
  ASSUME NEW g, NEW running, NEW shown, NEW did, NEW auto,
         Approved(g, running, shown, did, auto), NEW r \in running, NEW x, x.op = r.op, x.by = r.by
  PROVE  Approved(g, (running \ {r}) \cup {x}, shown, did, auto)
<1>1. RunAsShown(x, shown, auto)
  BY DEF Approved, RunAsShown
<1>2. SpentOnce(g, (running \ {r}) \cup {x}, did)
  BY DEF Approved, SpentOnce
<1> QED
  BY <1>1, <1>2 DEF Approved

\* What is done takes the place of the operation that did it.
LEMMA DoKeeps ==
  ASSUME NEW g, NEW running, NEW shown, NEW did \in Seq(Doings), NEW auto,
         Approved(g, running, shown, did, auto), NEW r \in running, r.op.kind # "read",
         NEW new \in Doings, new.kind = r.op.kind, new.place = Place(r.op), new.what = r.op.what, new.by = r.by,
         IF new.fresh THEN Ident(r.op) = 0 ELSE new.ino = Ident(r.op)
  PROVE  Approved(g, running \ {r}, shown, Append(did, new), auto)
<1> DEFINE all == Append(did, new)
<1>1. \A d \in DOMAIN all : (d = Len(did) + 1 /\ all[d] = new) \/ (d \in DOMAIN did /\ all[d] = did[d])
  OBVIOUS
<1> HIDE DEF all
<1>2. RunAsShown(r, shown, auto)
  BY DEF Approved
<1>3. DoneAsShown(new, shown, auto)
  BY <1>2 DEF DoneAsShown, RunAsShown
<1>4. \A d \in DOMAIN all : DoneAsShown(all[d], shown, auto)
  BY <1>1, <1>3 DEF Approved
<1>5. SpentOnce(g, running \ {r}, all)
  <2>1. SpentOnce(g, running, did)
    BY DEF Approved
  <2>2. \A i \in DOMAIN g, d \in DOMAIN all : all[d].by = g[i].by => all[d].place \notin DOMAIN g[i].op.idents
    BY <1>1, <2>1 DEF SpentOnce
  <2>3. \A s \in running \ {r}, d \in DOMAIN all : s.by # 0 /\ s.by = all[d].by => Place(s.op) # all[d].place
    BY <1>1, <2>1 DEF SpentOnce
  <2>4. \A d, e \in DOMAIN all : d # e /\ all[d].by # 0 /\ all[d].by = all[e].by => all[d].place # all[e].place
    BY <1>1, <2>1 DEF SpentOnce
  <2> QED
    BY <2>1, <2>2, <2>3, <2>4 DEF SpentOnce
<1> QED
  BY <1>4, <1>5 DEF Approved, all

----------------------------------------------------------------------------
(* What is asked, and who is found by an id *)

LEMMA PlaceIsNamed ==
  ASSUME NEW op \in Operations
  PROVE  Place(op) \in DOMAIN op.idents /\ Place(op) \in Places /\ Ident(op) \in Nat
<1>1. PICK places \in (SUBSET Places) \ {{}} : op.idents \in [places -> Nat]
  BY DEF Operations
<1> QED
  BY <1>1 DEF Place, Ident

LEMMA OpIsOperation ==
  ASSUME DiskType, NEW kind \in Kinds, NEW places \in (SUBSET Places) \ {{}}, NEW what \in Contents \cup {None},
         NEW edit \in BOOLEAN
  PROVE  Op(kind, places, what, edit) \in Operations
<1> DEFINE idents == [p \in places |-> disk.at[p]]
<1>1. idents \in [places -> Nat]
  BY DEF DiskType
<1>2. idents \in UNION {[ps -> Nat] : ps \in (SUBSET Places) \ {{}}}
  BY <1>1
<1> HIDE DEF idents
<1>3. [kind |-> kind, idents |-> idents, what |-> what, edit |-> edit] \in Operations
  BY <1>2 DEF Operations
<1> QED
  BY <1>3 DEF Op, idents

LEMMA AskedIsOperation ==
  ASSUME DiskType
  PROVE  Asks \subseteq Operations /\ Proposals \subseteq Operations
<1>1. disk.lead \in Paths
  BY DEF DiskType
<1>2. {disk.lead} \in (SUBSET Places) \ {{}} /\ {Cwd} \in (SUBSET Places) \ {{}} /\ Paths \in (SUBSET Places) \ {{}}
  BY <1>1 DEF Places
<1>3. {"read", "write", "terminal"} \subseteq Kinds /\ None \in Contents \cup {None} /\ \A what \in Contents : what \in Contents \cup {None}
  BY DEF Kinds
<1>4. Op("read", {disk.lead}, None, FALSE) \in Operations
  BY <1>2, <1>3, OpIsOperation
<1>5. \A what \in Contents : Op("write", {disk.lead}, what, FALSE) \in Operations
  BY <1>2, <1>3, OpIsOperation
<1>6. \A what \in Contents : Op("terminal", {Cwd}, what, FALSE) \in Operations
  BY <1>2, <1>3, OpIsOperation
<1>7. \A what \in Contents : Op("write", {disk.lead}, what, disk.at[disk.lead] # 0) \in Operations
  BY <1>2, <1>3, OpIsOperation
<1>8. Op("write", Paths, None, FALSE) \in Operations
  BY <1>2, <1>3, OpIsOperation
<1>9. Asks \subseteq Operations
  BY <1>4, <1>5, <1>6 DEF Asks
<1>10. Proposals \subseteq Operations
  BY <1>6, <1>7, <1>8 DEF Proposals
<1> QED
  BY <1>9, <1>10

\* Main answers by id, and means the request it was shown.
LEMMA PendingIsIt ==
  ASSUME OneUnderEachId, NEW r \in Asked
  PROVE  Pending(r.id) = r /\ r \in reqs
<1> DEFINE held == {n \in Asked : n.id = r.id}
           ops == {n \in held : ~n.permission}
<1>1. held = {r} /\ r \in reqs
  BY DEF Asked, OneUnderEachId
<1>2. Pending(r.id) = CHOOSE n \in held : ops # {} => n \in ops
  BY DEF Pending
<1>3. ops # {} => r \in ops
  BY <1>1
<1> HIDE DEF ops, held
<1>4. \E n \in held : ops # {} => n \in ops
  BY <1>1, <1>3
<1>5. Pending(r.id) \in held
  BY <1>2, <1>4
<1> QED
  BY <1>1, <1>5

----------------------------------------------------------------------------
(* What becomes of a request *)

LEMMA RunningShrinks ==
  ASSUME NEW rs, NEW fewer \in SUBSET rs
  PROVE  RunningOf(fewer) \in SUBSET RunningOf(rs)
  BY DEF RunningOf

\* A step that neither runs an operation, nor spends an approval, nor does one.
LEMMA GrantsFrame ==
  ASSUME GrantsPart, ClientType', client'.grants = client.grants \/ client'.grants = <<>>,
         RunningOf(reqs') \subseteq RunningOf(reqs), UNCHANGED <<said, done>>, used'.scene = used.scene
  PROVE  GrantsPart'
<1>1. Narrower(client'.grants, client.grants)
  BY NoneIsNarrower
<1>2. Approved(client.grants, RunningOf(reqs), said, done, AutoApproves)
  BY DEF GrantsPart, ApprovedInv
<1>3. Approved(client'.grants, RunningOf(reqs'), said, done, AutoApproves)
  BY <1>1, <1>2, NarrowerKeeps
<1>4. AutoApproves' = AutoApproves
  BY DEF AutoApproves
<1>5. Len(client'.grants) <= MaxGrants
  BY WorkerOpsAssumption DEF GrantsPart
<1> QED
  BY <1>3, <1>4, <1>5 DEF GrantsPart, ApprovedInv, SaidType, DoneType

LEMMA ReleasedFacts ==
  ASSUME NEW c \in [alive : BOOLEAN, open : BOOLEAN, grants : Seq(Grants), served : Nat], NEW r
  PROVE  /\ Released(c, r) \in [alive : BOOLEAN, open : BOOLEAN, grants : Seq(Grants), served : Nat]
         /\ Released(c, r).grants = c.grants
         /\ Released(c, r).served = IF r.permission THEN c.served ELSE IF c.served > 0 THEN c.served - 1 ELSE 0
<1>1. c.served > 0 => c.served - 1 \in Nat
  OBVIOUS
<1> QED
  BY <1>1 DEF Released

LEMMA AnswersKeep ==
  ASSUME ReqsPart, GrantsPart, NEW r \in reqs, Answers(r), UNCHANGED <<said, done>>, used'.scene = used.scene
  PROVE  ReqsPart' /\ GrantsPart'
<1>1. client \in [alive : BOOLEAN, open : BOOLEAN, grants : Seq(Grants), served : Nat]
  BY DEF GrantsPart, ClientType
<1>2. reqs' = reqs \ {r} /\ client' = Released(client, r)
  BY DEF Answers
<1>3. ReqsPart'
  BY <1>1, <1>2, ReleasedFacts, LeaveKeeps
<1>4. ClientType' /\ client'.grants = client.grants
  BY <1>1, <1>2, ReleasedFacts DEF ClientType
<1>5. RunningOf(reqs') \subseteq RunningOf(reqs)
  BY <1>2, RunningShrinks
<1> QED
  BY <1>3, <1>4, <1>5, GrantsFrame

\* A request goes on without running: its file is read, or Main is asked.
LEMMA WaitsKeep ==
  ASSUME ReqsPart, GrantsPart, NEW r \in reqs, r.at \in {"came", "reading"}, NEW at \in {"reading", "asked"},
         GoesOn(r, [r EXCEPT !.at = at]), at = "asked" => Cardinality(AskedOf(reqs)) < MaxPending,
         UNCHANGED <<client, said, done>>, used'.scene = used.scene
  PROVE  ReqsPart' /\ GrantsPart'
<1> DEFINE later == [r EXCEPT !.at = at]
<1>1. r \in Requestings /\ r.by = 0
  BY DEF ReqsPart, ReqsType, NoneYet
<1>2. later \in Requestings /\ later.id = r.id /\ later.permission = r.permission /\ later.by = 0 /\ later.at = at
  BY <1>1 DEF Requestings, Steps
<1> HIDE DEF later
<1>3. ReqsPart'
  BY <1>1, <1>2, GoOnKeeps DEF later
<1>4. RunningOf(reqs') \subseteq RunningOf(reqs)
  BY <1>2 DEF RunningOf, GoesOn, later
<1>5. ClientType'
  BY DEF GrantsPart, ClientType
<1> QED
  BY <1>3, <1>4, <1>5, GrantsFrame

\* An operation runs by an approval, by Main's word or by the policy.
LEMMA RunsKeep ==
  ASSUME ReqsPart, GrantsPart, NEW r \in reqs, NEW by \in Nat, SaidType', UNCHANGED done, used'.scene = used.scene,
         NEW c \in [alive : BOOLEAN, open : BOOLEAN, grants : Seq(Grants), served : Nat],
         c.served = client.served, Len(c.grants) <= MaxGrants,
         Runs(r, by, c),
         Approved(c.grants, RunningOf(reqs) \cup {[r EXCEPT !.at = "named", !.by = by]}, said', done, AutoApproves)
  PROVE  ReqsPart' /\ GrantsPart'
<1> DEFINE later == [r EXCEPT !.at = "named", !.by = by]
<1>1. r \in Requestings
  BY DEF ReqsPart, ReqsType
<1>2. later \in Requestings /\ later.id = r.id /\ later.permission = r.permission /\ later.by = by /\ later.at = "named"
  BY <1>1 DEF Requestings, Steps
<1>3. Narrower(c.grants, c.grants)
  BY NoneIsNarrower
<1>4. AutoApproves' = AutoApproves
  BY DEF AutoApproves
<1> HIDE DEF later
<1>5. ReqsPart' /\ ClientType' /\ client'.grants = c.grants /\ RunningOf(reqs') \subseteq RunningOf(reqs) \cup {later}
  <2>1. CASE MayRun(r.op)
    <3>1. GoesOn(r, later) /\ client' = c
      BY <2>1 DEF Runs, later
    <3>2. ReqsPart'
      BY <1>2, <3>1, GoOnKeeps
    <3>3. RunningOf(reqs') \subseteq RunningOf(reqs) \cup {later}
      BY <3>1 DEF RunningOf, GoesOn
    <3> QED
      BY <3>1, <3>2, <3>3 DEF ClientType
  <2>2. CASE ~MayRun(r.op)
    <3>1. reqs' = reqs \ {r} /\ client' = Released(c, r)
      BY <2>2 DEF Runs
    <3>2. ReqsPart'
      BY <3>1, ReleasedFacts, LeaveKeeps
    <3>3. RunningOf(reqs') \subseteq RunningOf(reqs)
      BY <3>1, RunningShrinks
    <3> QED
      BY <3>1, <3>2, <3>3, ReleasedFacts DEF ClientType
  <2> QED
    BY <2>1, <2>2
<1>6. Approved(c.grants, RunningOf(reqs) \cup {later}, said', done, AutoApproves)
  BY DEF later
<1>7. Approved(c.grants, RunningOf(reqs'), said', done, AutoApproves)
  BY <1>3, <1>5, <1>6, NarrowerKeeps
<1>8. ApprovedInv'
  BY <1>4, <1>5, <1>7 DEF ApprovedInv
<1> QED
  BY <1>5, <1>8 DEF GrantsPart, DoneType

\* #consumeGrant, or the wait for Main.
LEMMA DecidesKeep ==
  ASSUME ReqsPart, GrantsPart, NEW r \in reqs, r.at \in {"came", "reading"}, NEW read, Decides(r, read),
         UNCHANGED <<said, done>>, used'.scene = used.scene
  PROVE  ReqsPart' /\ GrantsPart'
<1>1. CASE Covering(r.op, read) # {}
  <2>1. PICK i \in Covering(r.op, read) : Runs(r, client.grants[i].by, [client EXCEPT !.grants = Spent(@, i, r.op)])
    BY <1>1 DEF Decides
  <2> DEFINE g == client.grants
             by == g[i].by
             c == [client EXCEPT !.grants = Spent(g, i, r.op)]
             later == [r EXCEPT !.at = "named", !.by = by]
  <2>2. g \in Seq(Grants) /\ Len(g) <= MaxGrants /\ i \in DOMAIN g /\ Covers(g[i], r.op, read)
    BY DEF GrantsPart, ClientType, Covering
  <2>3. Approved(g, RunningOf(reqs), said, done, AutoApproves) /\ said \in Seq(Operations)
    BY DEF GrantsPart, ApprovedInv, SaidType
  <2>4. by \in Nat
    <3>1. g[i] \in Grants
      BY <2>2
    <3> QED
      BY <3>1 DEF Grants
  <2>5. r \in Requestings
    BY DEF ReqsPart, ReqsType
  <2>6. later.op = r.op /\ later.by = by
    BY <2>5 DEF Requestings
  <2>7. Spent(g, i, r.op) \in Seq(Grants) /\ Len(Spent(g, i, r.op)) <= Len(g)
    <3>1. \A j, k \in DOMAIN g : j # k => g[j].by # g[k].by
      BY <2>3 DEF Approved, SpentOnce
    <3>2. Place(r.op) \in DOMAIN g[i].op.idents
      BY <2>2 DEF Covers
    <3> QED
      BY <2>2, <3>1, <3>2, SpentIsNarrower
  <2>8. c \in [alive : BOOLEAN, open : BOOLEAN, grants : Seq(Grants), served : Nat] /\ c.served = client.served
        /\ c.grants = Spent(g, i, r.op)
    BY <2>7 DEF GrantsPart, ClientType
  <2>9. Len(c.grants) <= MaxGrants
    <3>1. Len(c.grants) \in Nat /\ Len(g) \in Nat /\ MaxGrants \in Nat
      BY <2>2, <2>7, <2>8, WorkerOpsAssumption
    <3> QED
      BY <2>2, <2>7, <2>8, <3>1
  <2> HIDE DEF later, c, g, by
  <2>10. Covers(g[i], later.op, read) /\ later.by = g[i].by
    BY <2>2, <2>6 DEF by
  <2>11. Approved(Spent(g, i, later.op), RunningOf(reqs) \cup {later}, said, done, AutoApproves)
    BY <2>2, <2>3, <2>10, SpendKeeps
  <2>12. Approved(c.grants, RunningOf(reqs) \cup {[r EXCEPT !.at = "named", !.by = by]}, said', done, AutoApproves)
    BY <2>6, <2>8, <2>11 DEF later
  <2>13. Runs(r, by, c)
    BY <2>1 DEF by, c, g
  <2>14. SaidType'
    BY DEF GrantsPart, SaidType
  <2> QED
    BY <2>4, <2>8, <2>9, <2>12, <2>13, <2>14, RunsKeep
<1>2. CASE Covering(r.op, read) = {} /\ Capacity
  <2>1. GoesOn(r, [r EXCEPT !.at = "asked"]) /\ UNCHANGED client
    BY <1>2 DEF Decides
  <2>2. Cardinality(AskedOf(reqs)) < MaxPending
    BY <1>2 DEF Capacity, Asked, AskedOf
  <2> QED
    BY <2>1, <2>2, WaitsKeep
<1>3. CASE Covering(r.op, read) = {} /\ ~Capacity
  <2>1. Answers(r)
    BY <1>3 DEF Decides
  <2> QED
    BY <2>1, AnswersKeep
<1> QED
  BY <1>1, <1>2, <1>3

----------------------------------------------------------------------------
(* The steps of a request *)

LEMMA TermsFrame ==
  ASSUME TermsPart, UNCHANGED terms
  PROVE  TermsPart'
  BY DEF TermsPart, TermsType, GroupsInv, Listed

\* Another file or directory at a place, or none.
LEMMA DiskChanges ==
  ASSUME DiskType, NEW p \in Places, NEW ino \in Nat,
         disk' = [disk EXCEPT !.at[p] = ino] \/ disk' = [disk EXCEPT !.at[p] = ino, !.next = @ + 1]
  PROVE  DiskType'
<1> DEFINE at == [disk.at EXCEPT ![p] = ino]
<1>1. disk.at \in [Places -> Nat] /\ disk.next \in Nat /\ disk.next + 1 \in Nat /\ disk.lead \in Paths
  BY DEF DiskType
<1>2. at \in [Places -> Nat]
  BY <1>1
<1>3. disk' = [disk EXCEPT !.at = at] \/ disk' = [disk EXCEPT !.at = at, !.next = @ + 1]
  BY DEF DiskType
<1> HIDE DEF at
<1> QED
  BY <1>1, <1>2, <1>3 DEF DiskType

LEMMA RequestsKeeps ==
  ASSUME OpsInv, NEW id \in Ids, NEW op \in Asks, Requests(id, op)
  PROVE  OpsInv'
<1> DEFINE new == [id |-> id, permission |-> FALSE, op |-> op, at |-> "came", by |-> 0, ino |-> 0]
<1>1. TermsPart' /\ DiskType' /\ UsedType' /\ used'.scene = used.scene
  <2>1. UsedType' /\ used'.scene = used.scene
    BY DEF OpsInv, UsedType, Requests
  <2> QED
    BY <2>1, TermsFrame DEF OpsInv, Requests, DiskType
<1>2. new \in Requestings
  BY AskedIsOperation DEF OpsInv, Requestings, Steps
<1>3. CASE UNCHANGED <<reqs, client>>
  <2>1. ReqsPart'
    BY <1>3 DEF OpsInv, ReqsPart, ReqsType, OneUnderEachId, NoneYet
  <2>2. GrantsPart'
    BY <1>1, <1>3, GrantsFrame DEF OpsInv, GrantsPart, ClientType, Requests
  <2> QED
    BY <1>1, <2>1, <2>2 DEF OpsInv
<1>4. CASE client.served < MaxServed /\ reqs' = reqs \cup {new} /\ client' = [client EXCEPT !.served = @ + 1]
  <2>1. client'.served = client.served + 1 /\ client'.served \in Nat /\ client'.served <= MaxServed /\ ClientType'
        /\ client'.grants = client.grants
    BY <1>4, WorkerOpsAssumption DEF OpsInv, GrantsPart, ClientType
  <2>2. new.id = id /\ new.by = 0 /\ new.at = "came" /\ ~new.permission /\ ~InUse(id)
    BY DEF Requests
  <2> HIDE DEF new
  <2>3. ReqsPart'
    BY <1>2, <1>4, <2>1, <2>2, ComeKeeps DEF OpsInv
  <2>4. RunningOf(reqs') \subseteq RunningOf(reqs)
    BY <1>4, <2>2 DEF RunningOf
  <2>5. GrantsPart'
    BY <1>1, <2>1, <2>4, GrantsFrame DEF OpsInv, Requests
  <2> QED
    BY <1>1, <2>3, <2>5 DEF OpsInv
<1> QED
  BY <1>3, <1>4 DEF Requests

LEMMA RequestsPermissionKeeps ==
  ASSUME OpsInv, NEW id \in Ids, NEW op \in Proposals, NEW scope, RequestsPermission(id, op, scope)
  PROVE  OpsInv'
<1> DEFINE new == [id |-> id, permission |-> TRUE, op |-> op, at |-> "asked", by |-> 0, ino |-> 0]
<1>1. TermsPart' /\ DiskType' /\ UsedType' /\ used'.scene = used.scene
  <2>1. UsedType' /\ used'.scene = used.scene
    BY DEF OpsInv, UsedType, RequestsPermission
  <2> QED
    BY <2>1, TermsFrame DEF OpsInv, RequestsPermission, DiskType
<1>2. new \in Requestings
  BY AskedIsOperation DEF OpsInv, Requestings, Steps
<1>3. UNCHANGED client /\ ClientType' /\ client.served \in Nat /\ client.served <= MaxServed
  BY DEF OpsInv, GrantsPart, ReqsPart, ClientType, RequestsPermission
<1>4. CASE reqs' = reqs
  <2>1. ReqsPart'
    BY <1>3, <1>4 DEF OpsInv, ReqsPart, ReqsType, OneUnderEachId, NoneYet
  <2>2. GrantsPart'
    BY <1>1, <1>3, <1>4, GrantsFrame DEF OpsInv, RequestsPermission
  <2> QED
    BY <1>1, <2>1, <2>2 DEF OpsInv
<1>5. CASE Capacity /\ reqs' = reqs \cup {new}
  <2>1. new.id = id /\ new.by = 0 /\ new.at = "asked" /\ new.permission /\ ~InUse(id)
    BY DEF RequestsPermission
  <2>2. Cardinality(AskedOf(reqs)) < MaxPending
    BY <1>5 DEF Capacity, Asked, AskedOf
  <2> HIDE DEF new
  <2>3. client'.served <= IF new.permission THEN client.served ELSE client.served + 1
    BY <1>3
  <2>4. ReqsPart'
    BY <1>2, <1>3, <1>5, <2>1, <2>2, <2>3, ComeKeeps DEF OpsInv
  <2>5. RunningOf(reqs') \subseteq RunningOf(reqs)
    BY <1>5, <2>1 DEF RunningOf
  <2>6. GrantsPart'
    BY <1>1, <1>3, <2>5, GrantsFrame DEF OpsInv, RequestsPermission
  <2> QED
    BY <1>1, <2>4, <2>6 DEF OpsInv
<1> QED
  BY <1>4, <1>5 DEF RequestsPermission

LEMMA ConsidersKeeps ==
  ASSUME OpsInv, NEW r \in reqs, NEW confined \in BOOLEAN, Considers(r, confined)
  PROVE  OpsInv'
<1>1. TermsPart' /\ DiskType' /\ UsedType' /\ UNCHANGED <<said, done>> /\ used'.scene = used.scene /\ r.at = "came"
  BY TermsFrame DEF OpsInv, Considers, DiskType, UsedType
<1>2. CASE r.op.kind = "read" \/ (used.scene.policy = "auto_approve" /\ (r.op.kind = "write" \/ confined))
  <2> DEFINE later == [r EXCEPT !.at = "named", !.by = 0]
  <2>1. Runs(r, 0, client)
    BY <1>2 DEF Considers
  <2>2. client \in [alive : BOOLEAN, open : BOOLEAN, grants : Seq(Grants), served : Nat] /\ Len(client.grants) <= MaxGrants
    BY DEF OpsInv, GrantsPart, ClientType
  <2>3. later.op = r.op /\ later.by = 0
    BY DEF OpsInv, ReqsPart, ReqsType, Requestings
  <2>4. Approved(client.grants, RunningOf(reqs), said, done, AutoApproves) /\ said \in Seq(Operations) /\ SaidType'
        /\ client.grants \in Seq(Grants)
    BY <1>1, <2>2 DEF OpsInv, GrantsPart, ApprovedInv, SaidType
  <2> HIDE DEF later
  <2>5. Approved(client.grants, RunningOf(reqs) \cup {later}, said, done, AutoApproves)
    BY <1>2, <2>3, <2>4, PolicyKeeps DEF AutoApproves
  <2>6. Approved(client.grants, RunningOf(reqs) \cup {[r EXCEPT !.at = "named", !.by = 0]}, said', done, AutoApproves)
    BY <1>1, <2>5 DEF later
  <2>7. ReqsPart' /\ GrantsPart'
    BY <1>1, <2>1, <2>2, <2>4, <2>6, RunsKeep DEF OpsInv
  <2> QED
    BY <1>1, <2>7 DEF OpsInv
<1>3. CASE GoesOn(r, [r EXCEPT !.at = "reading"]) /\ UNCHANGED client
  <2>1. ReqsPart' /\ GrantsPart'
    BY <1>1, <1>3, WaitsKeep DEF OpsInv
  <2> QED
    BY <1>1, <2>1 DEF OpsInv
<1>4. CASE Decides(r, FALSE)
  <2>1. ReqsPart' /\ GrantsPart'
    BY <1>1, <1>4, DecidesKeep DEF OpsInv
  <2> QED
    BY <1>1, <2>1 DEF OpsInv
<1> QED
  BY <1>2, <1>3, <1>4 DEF Considers

LEMMA ReadsCurrentKeeps ==
  ASSUME OpsInv, NEW r \in reqs, ReadsCurrent(r)
  PROVE  OpsInv'
<1>1. TermsPart' /\ DiskType' /\ UsedType'
  BY TermsFrame DEF OpsInv, ReadsCurrent, DiskType, UsedType
<1>2. ReqsPart' /\ GrantsPart'
  BY DecidesKeep DEF OpsInv, ReadsCurrent
<1> QED
  BY <1>1, <1>2 DEF OpsInv

LEMMA MainAllowsKeeps ==
  ASSUME OpsInv, NEW r \in reqs, MainAllows(r)
  PROVE  OpsInv'
<1> DEFINE by == Len(said) + 1
<1>1. TermsPart' /\ DiskType' /\ UsedType' /\ UNCHANGED done /\ used'.scene = used.scene /\ r \in Asked
  BY TermsFrame DEF OpsInv, MainAllows, DiskType, UsedType
<1>2. Pending(r.id) = r
  BY <1>1, PendingIsIt DEF OpsInv, ReqsPart
<1>3. r \in Requestings /\ r.op \in Operations /\ by \in Nat
  BY DEF OpsInv, ReqsPart, ReqsType, Requestings, GrantsPart, SaidType
<1>4. client \in [alive : BOOLEAN, open : BOOLEAN, grants : Seq(Grants), served : Nat] /\ Len(client.grants) <= MaxGrants
      /\ client.grants \in Seq(Grants) /\ said \in Seq(Operations)
  BY DEF OpsInv, GrantsPart, ClientType, SaidType
<1>5. Approved(client.grants, RunningOf(reqs), said, done, AutoApproves)
  BY DEF OpsInv, GrantsPart, ApprovedInv
<1>6. said' = Append(said, r.op) /\ SaidType'
  BY <1>3, <1>4 DEF MainAllows, SaidType
<1>7. CASE r.permission
  <2> DEFINE g2 == WithGrant(client.grants, [op |-> r.op, by |-> by])
  <2>1. reqs' = reqs \ {r} /\ client' = [client EXCEPT !.grants = g2]
    BY <1>2, <1>7 DEF MainAllows
  <2>2. g2 \in Seq(Grants) /\ Len(g2) <= MaxGrants /\ Approved(g2, RunningOf(reqs), said', done, AutoApproves)
    BY <1>3, <1>4, <1>5, <1>6, GrantKeeps
  <2> HIDE DEF g2
  <2>3. ClientType' /\ client'.grants = g2 /\ client'.served = client.served
    BY <1>4, <2>1, <2>2 DEF ClientType
  <2>4. ReqsPart'
    BY <1>7, <2>1, <2>3, LeaveKeeps DEF OpsInv
  <2>5. RunningOf(reqs') \in SUBSET RunningOf(reqs) /\ Narrower(g2, g2)
    BY <2>1, RunningShrinks, NoneIsNarrower
  <2>6. Approved(g2, RunningOf(reqs'), said', done, AutoApproves)
    BY <2>2, <2>5, NarrowerKeeps
  <2>7. AutoApproves' = AutoApproves
    BY <1>1 DEF AutoApproves
  <2>8. GrantsPart'
    BY <1>1, <1>6, <2>2, <2>3, <2>6, <2>7 DEF OpsInv, GrantsPart, ApprovedInv, DoneType
  <2> QED
    BY <1>1, <2>4, <2>8 DEF OpsInv
<1>8. CASE ~r.permission
  <2> DEFINE later == [r EXCEPT !.at = "named", !.by = by]
  <2>1. Runs(r, by, client)
    BY <1>2, <1>8 DEF MainAllows
  <2>2. later.op = r.op /\ later.by = Len(said) + 1
    BY <1>3 DEF Requestings
  <2> HIDE DEF later
  <2>3. Approved(client.grants, RunningOf(reqs) \cup {later}, Append(said, later.op), done, AutoApproves)
    BY <1>3, <1>4, <1>5, <2>2, AllowKeeps
  <2>4. Approved(client.grants, RunningOf(reqs) \cup {[r EXCEPT !.at = "named", !.by = by]}, said', done, AutoApproves)
    BY <1>6, <2>2, <2>3 DEF later
  <2> HIDE DEF by
  <2>5. ReqsPart' /\ GrantsPart'
    BY <1>1, <1>3, <1>4, <1>6, <2>1, <2>4, RunsKeep DEF OpsInv
  <2> QED
    BY <1>1, <2>5 DEF OpsInv
<1> QED
  BY <1>7, <1>8

LEMMA MainRejectsKeeps ==
  ASSUME OpsInv, NEW r \in reqs, MainRejects(r)
  PROVE  OpsInv'
<1>1. TermsPart' /\ DiskType' /\ UsedType' /\ UNCHANGED <<said, done, used>> /\ r \in Asked
  BY TermsFrame DEF OpsInv, MainRejects, DiskType, UsedType
<1>2. Pending(r.id) = r
  BY <1>1, PendingIsIt DEF OpsInv, ReqsPart
<1>3. Answers(r)
  BY <1>2 DEF MainRejects
<1>4. ReqsPart' /\ GrantsPart'
  BY <1>1, <1>3, AnswersKeep DEF OpsInv
<1> QED
  BY <1>1, <1>4 DEF OpsInv

LEMMA OpensKeeps ==
  ASSUME OpsInv, NEW r \in reqs, Opens(r)
  PROVE  OpsInv'
<1> DEFINE at == disk.at[Place(r.op)]
           creates == r.op.kind = "write" /\ at = 0
           later == [r EXCEPT !.at = "opened", !.ino = IF creates THEN disk.next ELSE at]
<1>1. TermsPart' /\ UsedType' /\ UNCHANGED <<said, done>> /\ used'.scene = used.scene /\ r.at = "named"
  BY TermsFrame DEF OpsInv, Opens, UsedType
<1>2. r \in Requestings /\ r.op \in Operations
  BY DEF OpsInv, ReqsPart, ReqsType, Requestings
<1>3. Place(r.op) \in Places
  BY <1>2, PlaceIsNamed
<1>4. at \in Nat /\ disk.next \in Nat
  BY <1>3 DEF OpsInv, DiskType
<1>5. DiskType'
  <2>1. CASE UNCHANGED disk
    BY <2>1 DEF OpsInv, DiskType
  <2>2. CASE disk' = [disk EXCEPT !.at[Place(r.op)] = disk.next, !.next = @ + 1]
    BY <1>3, <1>4, <2>2, DiskChanges DEF OpsInv
  <2> QED
    BY <2>1, <2>2 DEF Opens
<1>6. CASE GoesOn(r, later) /\ UNCHANGED client
  <2>1. later \in Requestings /\ later.id = r.id /\ later.permission = r.permission /\ later.at = "opened"
        /\ later.op = r.op /\ later.by = r.by
    BY <1>2, <1>4 DEF Requestings, Steps
  <2> HIDE DEF later
  <2>2. ReqsPart'
    BY <1>6, <2>1, GoOnKeeps DEF OpsInv
  <2>3. r \in RunningOf(reqs) /\ RunningOf(reqs') = (RunningOf(reqs) \ {r}) \cup {later}
    BY <1>1, <1>6, <2>1 DEF RunningOf, GoesOn
  <2>4. Approved(client.grants, RunningOf(reqs'), said, done, AutoApproves)
    BY <2>1, <2>3, SameKeeps DEF OpsInv, GrantsPart, ApprovedInv
  <2>5. GrantsPart'
    BY <1>1, <1>6, <2>4 DEF OpsInv, GrantsPart, ApprovedInv, AutoApproves, ClientType, SaidType, DoneType
  <2> QED
    BY <1>1, <1>5, <2>2, <2>5 DEF OpsInv
<1>7. CASE Answers(r)
  <2>1. ReqsPart' /\ GrantsPart'
    BY <1>1, <1>7, AnswersKeep DEF OpsInv
  <2> QED
    BY <1>1, <1>5, <2>1 DEF OpsInv
<1> QED
  BY <1>6, <1>7 DEF Opens

\* What a running operation did stands in its place.
LEMMA DoingKeeps ==
  ASSUME OpsInv, NEW r \in reqs, r.at \in {"named", "opened"}, r.op.kind # "read", Answers(r),
         NEW ino \in Nat, NEW fresh \in BOOLEAN, IF fresh THEN Ident(r.op) = 0 ELSE ino = Ident(r.op),
         done' = Done(r, ino, fresh), UNCHANGED <<said, used>>
  PROVE  ReqsPart' /\ GrantsPart'
<1> DEFINE new == [kind |-> r.op.kind, place |-> Place(r.op), ino |-> ino, fresh |-> fresh, what |-> r.op.what, by |-> r.by]
<1>1. r \in Requestings /\ r.op \in Operations /\ Place(r.op) \in Places
  BY PlaceIsNamed DEF OpsInv, ReqsPart, ReqsType, Requestings
<1>2. new \in Doings
  BY <1>1 DEF Doings, Requestings, Operations
<1>3. done' = Append(done, new) /\ done \in Seq(Doings)
  BY DEF Done, OpsInv, GrantsPart, DoneType
<1>4. client \in [alive : BOOLEAN, open : BOOLEAN, grants : Seq(Grants), served : Nat]
  BY DEF OpsInv, GrantsPart, ClientType
<1>5. reqs' = reqs \ {r} /\ client' = Released(client, r)
  BY DEF Answers
<1>6. ReqsPart'
  BY <1>4, <1>5, ReleasedFacts, LeaveKeeps DEF OpsInv
<1>7. ClientType' /\ client'.grants = client.grants
  BY <1>4, <1>5, ReleasedFacts DEF ClientType
<1>8. r \in RunningOf(reqs) /\ RunningOf(reqs') = RunningOf(reqs) \ {r}
  BY <1>5 DEF RunningOf
<1>9. new.kind = r.op.kind /\ new.place = Place(r.op) /\ new.what = r.op.what /\ new.by = r.by /\ new.ino = ino /\ new.fresh = fresh
  OBVIOUS
<1> HIDE DEF new
<1>10. Approved(client.grants, RunningOf(reqs) \ {r}, said, Append(done, new), AutoApproves)
  BY <1>2, <1>3, <1>8, <1>9, DoKeeps DEF OpsInv, GrantsPart, ApprovedInv
<1>11. ApprovedInv' /\ DoneType'
  BY <1>2, <1>3, <1>7, <1>8, <1>10 DEF ApprovedInv, AutoApproves, DoneType
<1> QED
  BY <1>6, <1>7, <1>11 DEF OpsInv, GrantsPart, SaidType

LEMMA FinishesKeeps ==
  ASSUME OpsInv, NEW r \in reqs, Finishes(r)
  PROVE  OpsInv'
<1>1. TermsPart' /\ DiskType' /\ UsedType' /\ UNCHANGED <<said, used>> /\ r.at = "opened" /\ Answers(r)
  BY TermsFrame DEF OpsInv, Finishes, DiskType, UsedType
<1>2. CASE r.op.kind = "write" /\ Verified(r)
  <2>1. done' = Done(r, r.ino, Ident(r.op) = 0)
    BY <1>2 DEF Finishes
  <2>2. r.ino \in Nat /\ (Ident(r.op) # 0 => r.ino = Ident(r.op))
    BY <1>2 DEF Verified, OpsInv, ReqsPart, ReqsType, Requestings
  <2>3. PICK fresh \in BOOLEAN : fresh <=> Ident(r.op) = 0
    OBVIOUS
  <2>4. done' = Done(r, r.ino, fresh)
    BY <2>1, <2>3 DEF Done
  <2>5. ReqsPart' /\ GrantsPart'
    BY <1>1, <1>2, <2>2, <2>3, <2>4, DoingKeeps
  <2> QED
    BY <1>1, <2>5 DEF OpsInv
<1>3. CASE ~(r.op.kind = "write" /\ Verified(r))
  <2>1. ReqsPart' /\ GrantsPart'
    BY <1>1, <1>3, AnswersKeep DEF OpsInv, Finishes
  <2> QED
    BY <1>1, <2>1 DEF OpsInv
<1> QED
  BY <1>2, <1>3

LEMMA CreatesTerminalKeeps ==
  ASSUME OpsInv, NEW r \in reqs, CreatesTerminal(r)
  PROVE  OpsInv'
<1>1. DiskType' /\ UsedType' /\ UNCHANGED <<said, used>> /\ r.at = "named" /\ r.op.kind = "terminal" /\ Answers(r)
  BY DEF OpsInv, CreatesTerminal, DiskType, UsedType
<1>2. CASE MayStart(r)
  <2>1. terms' = Append(terms, Spawned) /\ done' = Done(r, disk.at[Cwd], FALSE) /\ Cardinality(Listed) < MaxTerminals
        /\ disk.at[Cwd] = Ident(r.op)
    BY <1>2 DEF CreatesTerminal, MayStart, InApprovedCwd
  <2>2. TermsPart'
    BY <2>1, StartKeeps DEF OpsInv
  <2>3. disk.at[Cwd] \in Nat
    BY DEF OpsInv, DiskType, Places
  <2>4. ReqsPart' /\ GrantsPart'
    BY <1>1, <2>1, <2>3, DoingKeeps
  <2> QED
    BY <1>1, <2>2, <2>4 DEF OpsInv
<1>3. CASE ~MayStart(r)
  <2>1. TermsPart' /\ ReqsPart' /\ GrantsPart'
    BY <1>1, <1>3, TermsFrame, AnswersKeep DEF OpsInv, CreatesTerminal
  <2> QED
    BY <1>1, <2>1 DEF OpsInv
<1> QED
  BY <1>2, <1>3

----------------------------------------------------------------------------
(* The steps of a terminal, of the client and of the disk *)

\* Whatever leaves the client and its requests alone.
LEMMA RestFrame ==
  ASSUME OpsInv, UNCHANGED <<client, reqs, said, done>>, used'.scene = used.scene
  PROVE  ReqsPart' /\ GrantsPart'
<1>1. ReqsPart'
  BY DEF OpsInv, ReqsPart, ReqsType, OneUnderEachId, NoneYet
<1>2. ClientType'
  BY DEF OpsInv, GrantsPart, ClientType
<1> QED
  BY <1>1, <1>2, GrantsFrame DEF OpsInv

LEMMA TermStepKeeps ==
  ASSUME OpsInv, NEW i \in DOMAIN terms, NEW t \in Terminals, Sound(t), t.listed => terms[i].listed,
         terms' = [terms EXCEPT ![i] = t], UNCHANGED <<client, reqs, disk, said, done, used>>
  PROVE  OpsInv'
<1>1. TermsPart'
  BY TermChanges DEF OpsInv
<1>2. ReqsPart' /\ GrantsPart'
  BY RestFrame
<1> QED
  BY <1>1, <1>2 DEF OpsInv, DiskType, UsedType

LEMMA TerminalKeeps ==
  ASSUME OpsInv, NEW i \in DOMAIN terms, NEW leaves \in BOOLEAN,
         \/ ReleasesTerminal(i) \/ KillsTerminal(i) \/ Exits(i, leaves) \/ RestEnds(i) \/ Closes(i) \/ IdIsReused(i)
         \/ FindsGone(i) \/ GraceEnds(i) \/ GivesUp(i)
  PROVE  OpsInv'
<1> DEFINE t == terms[i]
<1>1. t \in Terminals /\ Sound(t)
  BY DEF OpsInv, TermsPart, TermsType, GroupsInv
<1> DEFINE ended == [EndGroup(t) EXCEPT !.listed = FALSE]
           rested == [t EXCEPT !.rest = FALSE]
           closed == [t EXCEPT !.closed = TRUE]
           reused == [t EXCEPT !.other = TRUE]
           given == [t EXCEPT !.ending = "done"]
<1>2. /\ ended \in Terminals /\ Sound(ended) /\ ~ended.listed
      /\ rested \in Terminals /\ Sound(rested) /\ (rested.listed <=> t.listed)
      /\ closed \in Terminals /\ Sound(closed) /\ (closed.listed <=> t.listed)
      /\ reused \in Terminals /\ Sound(reused) /\ (reused.listed <=> t.listed)
      /\ t.ending = "kill" => given \in Terminals /\ Sound(given) /\ (given.listed <=> t.listed)
  BY <1>1, EndIsSound, RestIsSound
<1>3. CASE ReleasesTerminal(i)
  <2>1. terms' = [terms EXCEPT ![i] = ended] /\ UNCHANGED <<client, reqs, disk, said, done, used>>
    BY <1>3 DEF ReleasesTerminal
  <2> QED
    BY <1>2, <2>1, TermStepKeeps
<1>4. CASE KillsTerminal(i)
  <2>1. terms' = [terms EXCEPT ![i] = KillTerminal(t)] /\ UNCHANGED <<client, reqs, disk, said, done, used>>
    BY <1>4 DEF KillsTerminal
  <2> QED
    BY <1>1, <2>1, KillIsSound, TermStepKeeps
<1>5. CASE Exits(i, leaves)
  <2>1. terms' = [terms EXCEPT ![i] = CommandExits(t, leaves)] /\ UNCHANGED <<client, reqs, disk, said, done, used>>
        /\ t.cmd /\ (t.killed => ~leaves)
    BY <1>5 DEF Exits, Term
  <2> QED
    BY <1>1, <2>1, ExitIsSound, TermStepKeeps
<1>6. CASE RestEnds(i)
  BY <1>2, <1>6, TermStepKeeps DEF RestEnds, Term
<1>7. CASE Closes(i)
  BY <1>2, <1>7, TermStepKeeps DEF Closes, Term
<1>8. CASE IdIsReused(i)
  BY <1>2, <1>8, TermStepKeeps DEF IdIsReused, Term
<1>9. CASE FindsGone(i)
  BY <1>1, <1>9, GoneIsSound, TermStepKeeps DEF FindsGone, Term
<1>10. CASE GraceEnds(i)
  BY <1>1, <1>10, SigKillIsSound, TermStepKeeps DEF GraceEnds, Term
<1>11. CASE GivesUp(i)
  BY <1>2, <1>11, TermStepKeeps DEF GivesUp, Term
<1> QED
  BY <1>3, <1>4, <1>5, <1>6, <1>7, <1>8, <1>9, <1>10, <1>11

\* The client without its approvals.
LEMMA WithoutGrants ==
  ASSUME NEW c \in [alive : BOOLEAN, open : BOOLEAN, grants : Seq(Grants), served : Nat]
  PROVE  /\ [c EXCEPT !.grants = <<>>] \in [alive : BOOLEAN, open : BOOLEAN, grants : Seq(Grants), served : Nat]
         /\ [c EXCEPT !.grants = <<>>].grants = <<>> /\ [c EXCEPT !.grants = <<>>].served = c.served
<1> DEFINE none == <<>>
<1>1. none \in Seq(Grants)
  OBVIOUS
<1> HIDE DEF none
<1>2. /\ [c EXCEPT !.grants = none] \in [alive : BOOLEAN, open : BOOLEAN, grants : Seq(Grants), served : Nat]
      /\ [c EXCEPT !.grants = none].grants = none /\ [c EXCEPT !.grants = none].served = c.served
  BY <1>1
<1> QED
  BY <1>2 DEF none

\* A cancel, a clear and the end of the client answer what waits for Main.
LEMMA EndsKeep ==
  ASSUME OpsInv, CancelSession \/ ClearSession \/ Ends
  PROVE  OpsInv'
<1>1. reqs' = Unasked /\ terms' = CloseTerminals /\ UNCHANGED <<disk, said, done>>
  BY DEF CancelSession, ClearSession, Ends
<1>2. UsedType' /\ used'.scene = used.scene
  BY DEF CancelSession, ClearSession, Ends, OpsInv, UsedType
<1>3. client \in [alive : BOOLEAN, open : BOOLEAN, grants : Seq(Grants), served : Nat] /\ AskedServed \in Nat
  <2>1. IsFiniteSet(reqs) /\ {r \in Asked : ~r.permission} \in SUBSET reqs
    BY DEF OpsInv, ReqsPart, ReqsType, Asked
  <2> QED
    BY <2>1, FS_Subset, FS_CardinalityType DEF OpsInv, GrantsPart, ClientType, AskedServed
<1>4. /\ ClientType' /\ (client'.grants = client.grants \/ client'.grants = <<>>)
      /\ client'.served = 0 \/ client'.served = IF client.served > AskedServed THEN client.served - AskedServed ELSE 0
  <2>1. CASE CancelSession
    <3> DEFINE left == IF client.served > AskedServed THEN client.served - AskedServed ELSE 0
    <3>1. client' = [client EXCEPT !.served = left]
      BY <2>1 DEF CancelSession
    <3>2. left \in Nat
      BY <1>3
    <3> HIDE DEF left
    <3>3. ClientType' /\ client'.grants = client.grants /\ client'.served = left
      BY <1>3, <3>1, <3>2 DEF ClientType
    <3> QED
      BY <3>3 DEF left
  <2>2. CASE ClearSession
    <3> DEFINE c == [client EXCEPT !.open = FALSE, !.served = 0]
    <3>1. c \in [alive : BOOLEAN, open : BOOLEAN, grants : Seq(Grants), served : Nat] /\ c.served = 0
      BY <1>3
    <3>2. client' = [c EXCEPT !.grants = <<>>]
      BY <2>2 DEF ClearSession
    <3> HIDE DEF c
    <3> QED
      BY <3>1, <3>2, WithoutGrants DEF ClientType
  <2>3. CASE Ends
    <3> DEFINE c == [client EXCEPT !.alive = FALSE, !.served = 0]
    <3>1. c \in [alive : BOOLEAN, open : BOOLEAN, grants : Seq(Grants), served : Nat] /\ c.served = 0
      BY <1>3
    <3>2. client' = [c EXCEPT !.grants = <<>>]
      BY <2>3 DEF Ends
    <3> HIDE DEF c
    <3> QED
      BY <3>1, <3>2, WithoutGrants DEF ClientType
  <2> QED
    BY <2>1, <2>2, <2>3
<1>5. ReqsPart'
  BY <1>1, <1>4, UnaskedKeeps DEF OpsInv
<1>6. TermsPart'
  BY <1>1, CloseKeeps DEF OpsInv
<1>7. RunningOf(reqs') \subseteq RunningOf(reqs)
  BY <1>1, RunningShrinks DEF Unasked
<1>8. GrantsPart'
  BY <1>1, <1>2, <1>4, <1>7, GrantsFrame DEF OpsInv
<1> QED
  BY <1>1, <1>2, <1>5, <1>6, <1>8 DEF OpsInv, DiskType

LEMMA TurnsKeep ==
  ASSUME OpsInv, Resumes \/ PromptSettles
  PROVE  OpsInv'
<1>1. UNCHANGED <<reqs, disk, terms, said, done>>
  BY DEF Resumes, PromptSettles
<1>2. UsedType' /\ used'.scene = used.scene
  BY DEF Resumes, PromptSettles, OpsInv, UsedType
<1>3. ClientType' /\ (client'.grants = client.grants \/ client'.grants = <<>>) /\ client'.served = client.served
  <2>1. client \in [alive : BOOLEAN, open : BOOLEAN, grants : Seq(Grants), served : Nat]
    BY DEF OpsInv, GrantsPart, ClientType
  <2>2. CASE Resumes
    BY <2>1, <2>2 DEF Resumes, ClientType
  <2>3. CASE PromptSettles
    BY <2>1, <2>3, WithoutGrants DEF PromptSettles, ClientType
  <2> QED
    BY <2>2, <2>3
<1>4. ReqsPart'
  BY <1>1, <1>3 DEF OpsInv, ReqsPart, ReqsType, OneUnderEachId, NoneYet
<1>5. GrantsPart'
  BY <1>1, <1>2, <1>3, GrantsFrame DEF OpsInv
<1> QED
  BY <1>1, <1>2, <1>4, <1>5, TermsFrame DEF OpsInv, DiskType

LEMMA SwapsKeeps ==
  ASSUME OpsInv, Swaps
  PROVE  OpsInv'
<1>1. UsedType' /\ used'.scene = used.scene /\ UNCHANGED <<client, reqs, terms, said, done>>
  <2>1. used' = [used EXCEPT !.swaps = @ + 1] /\ UNCHANGED <<client, reqs, terms, said, done>>
    BY DEF Swaps
  <2> QED
    BY <2>1 DEF OpsInv, UsedType
<1>2. Touched \subseteq Places /\ Touched \ {Cwd} \subseteq Paths /\ DiskType /\ disk.next \in Nat /\ 0 \in Nat
      /\ \A p \in Places : disk.at[p] \in Nat
  BY DEF Touched, Places, OpsInv, DiskType
<1>3. ASSUME NEW p \in Touched, disk' = [disk EXCEPT !.at[p] = disk.next, !.next = @ + 1]
      PROVE  DiskType'
  <2>1. p \in Places
    BY <1>2
  <2> QED
    BY <1>2, <1>3, <2>1, DiskChanges
<1>4. ASSUME NEW p \in Touched, disk' = [disk EXCEPT !.at[p] = 0]
      PROVE  DiskType'
  <2>1. p \in Places
    BY <1>2
  <2> QED
    BY <1>2, <1>4, <2>1, DiskChanges
<1>5. ASSUME NEW p \in Touched \ {Cwd}, NEW q \in Touched \ {Cwd}, disk' = [disk EXCEPT !.at[q] = disk.at[p]]
      PROVE  DiskType'
  <2>1. p \in Places /\ q \in Places /\ disk.at[p] \in Nat
    BY <1>2
  <2> QED
    BY <1>2, <1>5, <2>1, DiskChanges
<1>6. ASSUME NEW p \in Touched \ {Cwd}, disk' = [disk EXCEPT !.lead = p]
      PROVE  DiskType'
  BY <1>2, <1>6 DEF DiskType
<1>7. DiskType'
  BY <1>3, <1>4, <1>5, <1>6 DEF Swaps
<1>8. ReqsPart' /\ GrantsPart' /\ TermsPart'
  BY <1>1, RestFrame, TermsFrame DEF OpsInv
<1> QED
  BY <1>1, <1>7, <1>8 DEF OpsInv

----------------------------------------------------------------------------
(* The theorems *)

LEMMA StartIsSound == Init => OpsInv
<1> SUFFICES ASSUME Init PROVE OpsInv
  OBVIOUS
<1>1. client = [alive |-> TRUE, open |-> TRUE, grants |-> <<>>, served |-> 0] /\ reqs = {} /\ terms = <<>> /\ said = <<>>
      /\ done = <<>>
  BY DEF Init
<1>2. UsedType
  BY DEF Init, UsedType
<1>3. DiskType
  BY DEF Init, DiskType, Places
<1>4. TermsPart
  <2>1. TermsType /\ GroupsInv /\ Listed = {}
    BY <1>1 DEF TermsType, GroupsInv, Listed
  <2> QED
    BY <2>1, FS_EmptySet, WorkerOpsAssumption DEF TermsPart
<1>5. ReqsPart
  <2>1. Handlers(reqs) = {} /\ AskedOf(reqs) = {} /\ IsFiniteSet(reqs) /\ Cardinality({}) = 0
    BY <1>1, FS_EmptySet DEF Handlers, AskedOf
  <2>2. client.served = 0 /\ MaxServed \in Nat /\ MaxPending \in Nat
    BY <1>1, WorkerOpsAssumption
  <2>3. ReqsType /\ OneUnderEachId /\ NoneYet
    BY <1>1, <2>1 DEF ReqsType, OneUnderEachId, NoneYet
  <2>4. Cardinality(Handlers(reqs)) = 0 /\ Cardinality(AskedOf(reqs)) = 0
    BY <2>1
  <2> QED
    BY <2>2, <2>3, <2>4 DEF ReqsPart
<1>6. GrantsPart
  <2>1. ClientType /\ SaidType /\ DoneType /\ client.grants = <<>>
    BY <1>1 DEF ClientType, SaidType, DoneType
  <2>2. RunningOf(reqs) = {} /\ DOMAIN client.grants = {} /\ DOMAIN done = {}
    BY <1>1 DEF RunningOf
  <2>3. ApprovedInv
    BY <2>2 DEF ApprovedInv, Approved, SpentOnce
  <2> QED
    BY <2>1, <2>3, WorkerOpsAssumption DEF GrantsPart
<1> QED
  BY <1>2, <1>3, <1>4, <1>5, <1>6 DEF OpsInv

LEMMA StepKeeps == OpsInv /\ [Next]_vars => OpsInv'
<1> SUFFICES ASSUME OpsInv, [Next]_vars PROVE OpsInv'
  OBVIOUS
<1>1. ASSUME NEW id \in Tried, NEW op \in Asks, Requests(id, op) PROVE OpsInv'
  BY <1>1, RequestsKeeps DEF Tried
<1>2. ASSUME NEW id \in Tried, NEW op \in Proposals, NEW scope, RequestsPermission(id, op, scope) PROVE OpsInv'
  BY <1>2, RequestsPermissionKeeps DEF Tried
<1>3. ASSUME NEW r \in reqs, NEW confined \in BOOLEAN, Considers(r, confined) PROVE OpsInv'
  BY <1>3, ConsidersKeeps
<1>4. ASSUME NEW r \in reqs, \/ ReadsCurrent(r) \/ MainAllows(r) \/ MainRejects(r)
                            \/ Opens(r) \/ Finishes(r) \/ CreatesTerminal(r)
      PROVE  OpsInv'
  BY <1>4, ReadsCurrentKeeps, MainAllowsKeeps, MainRejectsKeeps, OpensKeeps, FinishesKeeps, CreatesTerminalKeeps
<1>5. ASSUME NEW i \in DOMAIN terms,
             \/ ReleasesTerminal(i) \/ KillsTerminal(i) \/ RestEnds(i) \/ Closes(i) \/ IdIsReused(i)
             \/ FindsGone(i) \/ GraceEnds(i) \/ GivesUp(i) \/ \E leaves \in BOOLEAN : Exits(i, leaves)
      PROVE  OpsInv'
  BY <1>5, TerminalKeeps
<1>6. CASE CancelSession \/ ClearSession \/ Ends
  BY <1>6, EndsKeep
<1>7. CASE Resumes \/ PromptSettles
  BY <1>7, TurnsKeep
<1>8. CASE Swaps
  BY <1>8, SwapsKeeps
<1>9. CASE UNCHANGED vars
  <2>1. UNCHANGED <<client, reqs, disk, terms, said, done, used>>
    BY <1>9 DEF vars
  <2>2. ReqsPart' /\ GrantsPart' /\ TermsPart'
    BY <2>1, RestFrame, TermsFrame DEF OpsInv
  <2> QED
    BY <2>1, <2>2 DEF OpsInv, DiskType, UsedType
<1> QED
  BY <1>1, <1>2, <1>3, <1>4, <1>5, <1>6, <1>7, <1>8, <1>9 DEF Next

\* The inductive invariant holds: requests, approvals, counts and terminals stay
\* in step through every request, answer, end and change of the disk.
THEOREM WorkerOpsInvariant == Spec => []OpsInv
<1> QED
  BY StartIsSound, StepKeeps, PTL DEF Spec

\* For any number of requests, approvals and changes on disk, what was done is
\* what Main was shown, where it was shown it, and each approved place and command
\* went to one operation (#consumeGrant, #writeTextFile, #createTerminal).
THEOREM OnlyTheApproved == Spec => []AppliedAsApproved
<1>1. OpsInv => AppliedAsApproved
  <2> SUFFICES ASSUME OpsInv PROVE AppliedAsApproved
    OBVIOUS
  <2>1. \A d \in DOMAIN done : DoneAsShown(done[d], said, AutoApproves)
    BY DEF OpsInv, GrantsPart, ApprovedInv, Approved
  <2>2. \A d, e \in DOMAIN done : d # e /\ done[d].by # 0 /\ done[d].by = done[e].by => done[d].place # done[e].place
    BY DEF OpsInv, GrantsPart, ApprovedInv, Approved, SpentOnce
  <2>3. ASSUME NEW d \in DOMAIN done
        PROVE  LET did == done[d] IN
               IF did.by = 0 THEN used.scene.policy = "auto_approve"
               ELSE LET shown == said[did.by]
                    IN  /\ shown.kind = did.kind /\ did.place \in DOMAIN shown.idents
                        /\ IF did.fresh THEN shown.idents[did.place] = 0 ELSE shown.idents[did.place] = did.ino
                        /\ shown.what \in {None, did.what}
    BY <2>1 DEF DoneAsShown, AutoApproves
  <2> QED
    BY <2>2, <2>3 DEF AppliedAsApproved
<1> QED
  BY <1>1, WorkerOpsInvariant, PTL

\* Whatever the interleaving of requests, answers, cancels, clears and terminals
\* that start late, a terminal's group is ended or about to be, and no group that
\* was found empty is signalled for it (watchGroup, endGroup, terminateChild).
THEOREM EveryGroupIsEnded == Spec => []GroupsAreEnded
<1>1. OpsInv => GroupsAreEnded
  BY DEF OpsInv, TermsPart, GroupsInv, Sound, GroupsAreEnded
<1> QED
  BY <1>1, WorkerOpsInvariant, PTL

\* The type invariant follows.
LEMMA TypesFollow == OpsInv => TypeOK
<1> SUFFICES ASSUME OpsInv PROVE TypeOK
  OBVIOUS
<1>1. \A op \in Operations : IsOperation(op)
  <2> SUFFICES ASSUME NEW op \in Operations PROVE IsOperation(op)
    OBVIOUS
  <2>1. PICK places \in (SUBSET Places) \ {{}} : op.idents \in [places -> Nat]
    BY DEF Operations
  <2>2. op \in [kind : Kinds, idents : {op.idents}, what : Contents \cup {None}, edit : BOOLEAN]
    BY DEF Operations
  <2> QED
    BY <2>1, <2>2 DEF IsOperation
<1>2. /\ client \in [alive : BOOLEAN, open : BOOLEAN, grants : Seq(Grants), served : Nat] /\ client.grants \in Seq(Grants)
      /\ said \in Seq(Operations) /\ done \in Seq(Doings) /\ Len(client.grants) <= MaxGrants
      /\ Approved(client.grants, RunningOf(reqs), said, done, AutoApproves)
      /\ DOMAIN said = 1 .. Len(said) /\ Len(said) \in Nat
  BY DEF OpsInv, GrantsPart, ClientType, SaidType, DoneType, ApprovedInv
<1>3. client.grants \in Seq(Range(client.grants)) /\ \A grant \in Range(client.grants) : IsGrant(grant)
  <2>1. ASSUME NEW i \in DOMAIN client.grants PROVE IsGrant(client.grants[i])
    <3>1. client.grants[i] \in Grants
      BY <1>2
    <3>2. client.grants[i].by \in 1 .. Len(said)
      BY <1>2 DEF Approved, GrantAsShown
    <3> QED
      BY <1>1, <3>1, <3>2 DEF IsGrant, Grants
  <2>2. client.grants \in Seq(Range(client.grants))
    BY <1>2 DEF Range
  <2> QED
    BY <2>1, <2>2 DEF Range
<1>4. said \in Seq(Range(said)) /\ \A op \in Range(said) : IsOperation(op)
  <2>1. \A i \in DOMAIN said : said[i] \in Operations
    BY <1>2
  <2>2. said \in Seq(Range(said))
    BY <1>2 DEF Range
  <2> QED
    BY <1>1, <2>1, <2>2 DEF Range
<1>5. ASSUME NEW r \in reqs PROVE IsRequest(r)
  <2>1. r \in Requestings
    BY DEF OpsInv, ReqsPart, ReqsType
  <2>2. r.by \in 0 .. Len(said)
    <3>1. CASE r.at \in {"came", "reading", "asked"}
      BY <1>2, <3>1 DEF OpsInv, ReqsPart, NoneYet
    <3>2. CASE r.at \in {"named", "opened"}
      <4>1. RunAsShown(r, said, AutoApproves)
        BY <1>2, <3>2 DEF Approved, RunningOf
      <4> QED
        BY <1>2, <4>1 DEF RunAsShown
    <3> QED
      BY <2>1, <3>1, <3>2 DEF Requestings, Steps
  <2> QED
    BY <1>1, <2>1, <2>2 DEF IsRequest, Requestings, Steps
<1>6. client.served \in 0 .. MaxServed
  BY WorkerOpsAssumption DEF OpsInv, ReqsPart
<1>7. client \in [alive : BOOLEAN, open : BOOLEAN, grants : Seq(Range(client.grants)), served : 0 .. MaxServed]
  BY <1>2, <1>3, <1>6
<1> QED
  BY <1>2, <1>3, <1>4, <1>5, <1>7
     DEF OpsInv, TypeOK, ReqsPart, ReqsType, OneUnderEachId, DiskType, TermsPart, TermsType, UsedType

\* For any limits, however requests, terminals and ends overtake each other between
\* a check and its use, no limit is exceeded, and no place is lost for good
\* (#admitClientRequest, #releaseClientRequest, #requirePendingInputCapacity).
THEOREM WithinItsLimits == Spec => []LimitsHold
<1>1. OpsInv => LimitsHold
  BY TypesFollow DEF OpsInv, TermsPart, ReqsPart, Handlers, AskedOf, Asked, LimitsHold
<1> QED
  BY <1>1, WorkerOpsInvariant, PTL
=============================================================================
