------------------------- MODULE ProviderPoolProofs -------------------------
(***************************************************************************)
(* No session loses its copy and no provider process is stopped, or        *)
(* forgotten, under somebody that needs it: for any number of requests,    *)
(* processes, definitions, copies, failures, exits and deaths.             *)
(***************************************************************************)
EXTENDS ProviderPool, FiniteSetTheorems, TLAPS

Ended == {"done", "left"}

\* The steps of a request before its copy has a directory.
Early == {"idle", "asked", "joined", "waits", "measuring", "making"}

\* The request is over, or its copy may be on disk.
Past(w) == reqs[w].at \in Ended \/ (reqs[w].kind = "snapshot" /\ reqs[w].at \notin Early)

\* A copy is deleted only once its request is over, or ends in the deletion.
DeletedLate == \A r \in Requests : removals[r] # "none" => reqs[r].at \in Ended \cup {"removing"}

\* A record comes from a request that is over.
HereIsDone == \A s \in Requests : sessions[s].here => reqs[s].at = "done"

\* Which session a request is about.
OpensItsOwn == \A r \in Requests : Running(r) /\ reqs[r].kind # "restore" => reqs[r].of = r
RestoresOne ==
  \A r \in Requests : Running(r) /\ reqs[r].kind = "restore" => reqs[r].of \in Requests /\ sessions[reqs[r].of].here

\* The steps only a snapshot open takes, and what is on disk at them.
CopySteps == {"measuring", "making", "marking", "copying", "clearing", "discarding", "removing"}
CopiesForSnapshots == \A r \in Requests : reqs[r].at \in CopySteps => reqs[r].kind = "snapshot"
MarkedFirst ==
  \A r \in Requests : reqs[r].at = "copying" \/ (reqs[r].at = "creating" /\ reqs[r].kind = "snapshot") => disk[r] = "marked"

\* What is on disk, and what a pass has listed from it, is of a request past its
\* early steps.
Listed == gc.at \in {"listed", "reclaim", "reclaiming"} => \A w \in gc.todo : w \in Requests /\ Past(w)
OnDiskIsPast == \A w \in Requests : disk[w] # "none" => Past(w)

\* While the record is there, the copy is, and nobody deletes it.
Copied == \A s \in Requests : sessions[s].here /\ sessions[s].copy => disk[s] = "marked" /\ removals[s] = "none"

CopyInv ==
  /\ DeletedLate /\ HereIsDone /\ OpensItsOwn /\ RestoresOne /\ CopiesForSnapshots /\ MarkedFirst
  /\ Listed /\ OnDiskIsPast /\ Copied

\* No process is stopped under a request or a session, and a process that runs, or
\* is being started, is one the pool knows of.
NoneStopped ==
  \A r \in Requests : life.at \in {"up", "draining"} =>
    \A p \in {reqs[r].client, sessions[r].client} \ {0} : procs[p].at # "stopping"
UpIsKnown == \A p \in Procs : procs[p].at = "up" => p = pool.current \/ p \in pool.retired
StartIsKnown == \A p \in Procs : procs[p].at = "starting" => p = pool.starting

\* A start takes a process of its own, which nobody has yet, and begins when no
\* current one is up.
StartIsNew ==
  pool.starting # 0 =>
    /\ pool.current = 0 \/ procs[pool.current].at # "up"
    /\ pool.starting # pool.current /\ pool.starting \notin pool.retired
    /\ procs[pool.starting].at \in {"starting", "stopping"}
    /\ \A r \in Requests : reqs[r].client # pool.starting /\ sessions[r].client # pool.starting

\* A request has no client before it was given one, nor once it is over.
Clientless == {"idle", "asked", "joined", "waits"} \cup Ended
OverIsFree == \A r \in Requests : reqs[r].at \in Clientless => reqs[r].client = 0

\* A daemon that stops has nothing starting; one that is down has nothing, and
\* left nothing.
DaemonEnds ==
  /\ life.at = "stopping" => pool.starting = 0
  /\ life.at = "down" => /\ pool.current = 0 /\ pool.retired = {} /\ pool.starting = 0
                         /\ \A p \in Procs : procs[p].at = "gone"
  /\ life.left = {}

ProcInv == NoneStopped /\ UpIsKnown /\ StartIsKnown /\ StartIsNew /\ OverIsFree /\ DaemonEnds

PoolInv == TypeOK /\ CopyInv /\ ProcInv

\* The records of processes, requests and sessions.
ProcRecords == [at : {"starting", "up", "stopping", "gone"}, def : Nat]
RequestRecords ==
  [at : Steps, kind : {"direct", "snapshot", "restore"}, of : Requests \cup {0}, client : Procs \cup {0}]
SessionRecords == [here : BOOLEAN, client : Procs \cup {0}, copy : BOOLEAN]

-----------------------------------------------------------------------------
(* What the operators return *)

\* Becomes: the request's step, and its client once it is over.
LEMMA BecomesFacts ==
  ASSUME TypeOK, NEW r \in Requests, NEW at \in Steps, Becomes(r, at)
  PROVE  /\ reqs' \in [Requests -> RequestRecords]
         /\ \A q \in Requests \ {r} : reqs'[q] = reqs[q]
         /\ reqs'[r].at = at /\ reqs'[r].kind = reqs[r].kind /\ reqs'[r].of = reqs[r].of
         /\ reqs'[r].client = IF at \in Ended THEN 0 ELSE reqs[r].client
PROOF
  <1> DEFINE mid == [reqs EXCEPT ![r].at = at]
  <1>1. /\ mid \in [Requests -> RequestRecords]
        /\ \A q \in Requests \ {r} : mid[q] = reqs[q]
        /\ mid[r].at = at /\ mid[r].kind = reqs[r].kind /\ mid[r].of = reqs[r].of
        /\ mid[r].client = reqs[r].client
    <2>1. reqs \in [Requests -> RequestRecords] /\ reqs[r] \in RequestRecords
      BY DEF TypeOK, RequestRecords
    <2>2. /\ [reqs[r] EXCEPT !.at = at] \in RequestRecords
          /\ [reqs[r] EXCEPT !.at = at].at = at /\ [reqs[r] EXCEPT !.at = at].kind = reqs[r].kind
          /\ [reqs[r] EXCEPT !.at = at].of = reqs[r].of /\ [reqs[r] EXCEPT !.at = at].client = reqs[r].client
      BY <2>1 DEF RequestRecords
    <2> QED BY <2>1, <2>2
  <1>2. reqs' = [mid EXCEPT ![r].client = IF at \in Ended THEN 0 ELSE mid[r].client]
    BY DEF Becomes, Ended
  <1> HIDE DEF mid
  <1>3. \A c \in Procs \cup {0} :
          /\ [mid[r] EXCEPT !.client = c] \in RequestRecords
          /\ [mid[r] EXCEPT !.client = c].at = mid[r].at
          /\ [mid[r] EXCEPT !.client = c].kind = mid[r].kind
          /\ [mid[r] EXCEPT !.client = c].of = mid[r].of
          /\ [mid[r] EXCEPT !.client = c].client = c
    BY <1>1 DEF RequestRecords
  <1>4. (IF at \in Ended THEN 0 ELSE mid[r].client) \in Procs \cup {0}
    BY <1>1 DEF RequestRecords
  <1> QED BY <1>1, <1>2, <1>3, <1>4

\* With: the request has its client.
LEMMA WithFacts ==
  ASSUME NEW a \in RequestRecords, NEW p \in Procs \cup {0}
  PROVE  /\ With(p, a) \in RequestRecords
         /\ With(p, a).at = IF a.kind = "snapshot" THEN "measuring" ELSE "creating"
         /\ With(p, a).kind = a.kind /\ With(p, a).of = a.of /\ With(p, a).client = p
PROOF
  <1> DEFINE mid == [a EXCEPT !.client = p]
  <1>1. /\ mid \in RequestRecords /\ mid.kind = a.kind /\ mid.of = a.of /\ mid.client = p
    BY DEF RequestRecords
  <1>2. With(p, a) = [mid EXCEPT !.at = IF mid.kind = "snapshot" THEN "measuring" ELSE "creating"]
    BY <1>1 DEF With
  <1> HIDE DEF mid
  <1> QED BY <1>1, <1>2 DEF RequestRecords, Steps

\* Stopping: those of the set that live are stopping.
LEMMA StoppingFacts ==
  ASSUME TypeOK, NEW ps
  PROVE  /\ Stopping(ps) \in [Procs -> ProcRecords]
         /\ \A p \in Procs : Stopping(ps)[p].at = IF p \in ps /\ Alive(p) THEN "stopping" ELSE procs[p].at
PROOF BY DEF Stopping, TypeOK, ProcRecords

\* Settled: what becomes of those that wait for the start under way.
LEMMA SettledFacts ==
  ASSUME TypeOK, NEW p \in Procs \cup {0}
  PROVE  /\ Settled(p) \in [Requests -> RequestRecords]
         /\ \A r \in Requests :
              /\ Settled(p)[r].kind = reqs[r].kind /\ Settled(p)[r].of = reqs[r].of
              /\ reqs[r].at = "joined" =>
                   IF p # 0 THEN Settled(p)[r] = With(p, reqs[r])
                   ELSE Settled(p)[r].at = "done" /\ Settled(p)[r].client = reqs[r].client
              /\ reqs[r].at = "waits" => Settled(p)[r].at = "asked" /\ Settled(p)[r].client = reqs[r].client
              /\ reqs[r].at \notin {"joined", "waits"} => Settled(p)[r] = reqs[r]
PROOF
  <1>1. \A r \in Requests : reqs[r] \in RequestRecords
    BY DEF TypeOK, RequestRecords
  <1>2. ASSUME NEW a \in RequestRecords, NEW at \in Steps
        PROVE  /\ [a EXCEPT !.at = at] \in RequestRecords /\ [a EXCEPT !.at = at].at = at
               /\ [a EXCEPT !.at = at].kind = a.kind /\ [a EXCEPT !.at = at].of = a.of
               /\ [a EXCEPT !.at = at].client = a.client
    BY DEF RequestRecords
  <1>3. {"done", "asked"} \subseteq Steps
    BY DEF Steps
  <1>4. \A r \in Requests : Settled(p)[r] =
          IF reqs[r].at = "joined" THEN IF p # 0 THEN With(p, reqs[r]) ELSE [reqs[r] EXCEPT !.at = "done"]
          ELSE IF reqs[r].at = "waits" THEN [reqs[r] EXCEPT !.at = "asked"] ELSE reqs[r]
    BY DEF Settled
  <1>5. ASSUME NEW r \in Requests
        PROVE  /\ Settled(p)[r] \in RequestRecords
               /\ Settled(p)[r].kind = reqs[r].kind /\ Settled(p)[r].of = reqs[r].of
               /\ reqs[r].at = "joined" =>
                    IF p # 0 THEN Settled(p)[r] = With(p, reqs[r])
                    ELSE Settled(p)[r].at = "done" /\ Settled(p)[r].client = reqs[r].client
               /\ reqs[r].at = "waits" => Settled(p)[r].at = "asked" /\ Settled(p)[r].client = reqs[r].client
               /\ reqs[r].at \notin {"joined", "waits"} => Settled(p)[r] = reqs[r]
    <2>1. CASE reqs[r].at = "joined" /\ p # 0
      <3>1. Settled(p)[r] = With(p, reqs[r])
        BY <1>4, <2>1
      <3> QED BY <1>1, <2>1, <3>1, WithFacts
    <2>2. CASE reqs[r].at = "joined" /\ p = 0
      <3>1. Settled(p)[r] = [reqs[r] EXCEPT !.at = "done"]
        BY <1>4, <2>2
      <3>2. /\ Settled(p)[r] \in RequestRecords /\ Settled(p)[r].at = "done"
            /\ Settled(p)[r].kind = reqs[r].kind /\ Settled(p)[r].of = reqs[r].of
            /\ Settled(p)[r].client = reqs[r].client
        BY <1>1, <1>2, <1>3, <3>1
      <3> QED BY <2>2, <3>2
    <2>3. CASE reqs[r].at = "waits"
      <3>1. Settled(p)[r] = [reqs[r] EXCEPT !.at = "asked"]
        BY <1>4, <2>3
      <3> QED BY <1>1, <1>2, <1>3, <2>3, <3>1
    <2>4. CASE reqs[r].at \notin {"joined", "waits"}
      <3>1. Settled(p)[r] = reqs[r]
        BY <1>4, <2>4
      <3> QED BY <1>1, <2>4, <3>1
    <2> QED BY <2>1, <2>2, <2>3, <2>4
  <1>6. Settled(p) \in [Requests -> RequestRecords]
    <2>1. \A r \in Requests : Settled(p)[r] \in RequestRecords
      BY <1>5
    <2> DEFINE value(r) == CASE reqs[r].at = "joined" -> IF p # 0 THEN With(p, reqs[r]) ELSE [reqs[r] EXCEPT !.at = "done"]
                             [] reqs[r].at = "waits" -> [reqs[r] EXCEPT !.at = "asked"]
                             [] OTHER -> reqs[r]
    <2>2. Settled(p) = [r \in Requests |-> value(r)]
      BY DEF Settled
    <2> HIDE DEF value
    <2> QED BY <2>1, <2>2
  <1> QED BY <1>5, <1>6

Pools == [current : Procs \cup {0}, retired : SUBSET Procs, starting : Procs \cup {0}]
Passes == [at : Stages, todo : SUBSET (Requests \cup Procs), one : Requests \cup Procs \cup {0}]
Lives == [at : {"up", "draining", "stopping", "down"}, left : SUBSET Procs]

LEMMA TypeParts ==
  TypeOK <=> /\ procs \in [Procs -> ProcRecords] /\ pool \in Pools /\ def \in Nat
             /\ reqs \in [Requests -> RequestRecords] /\ sessions \in [Requests -> SessionRecords]
             /\ disk \in [Requests -> {"none", "dir", "marked"}]
             /\ removals \in [Requests -> {"none", "removing", "failed"}]
             /\ gc \in Passes /\ life \in Lives
PROOF BY DEF TypeOK, ProcRecords, Pools, RequestRecords, SessionRecords, Passes, Lives

\* Retire and Forget: the pool without a current process.
LEMMA RetireFacts ==
  ASSUME pool \in Pools
  PROVE  /\ pool.current # 0 =>
              /\ Retire \in Pools /\ Retire.current = 0 /\ Retire.starting = pool.starting
              /\ Retire.retired = pool.retired \cup {pool.current}
         /\ \A p : /\ Forget(p) \in Pools /\ Forget(p).current = IF pool.current = p THEN 0 ELSE pool.current
                   /\ Forget(p).retired = pool.retired /\ Forget(p).starting = pool.starting
PROOF
  <1> DEFINE mid == [pool EXCEPT !.current = 0]
  <1>1. pool.current \in Procs \cup {0} /\ pool.retired \in SUBSET Procs /\ pool.starting \in Procs \cup {0}
    BY DEF Pools
  <1>2. mid \in Pools /\ mid.current = 0 /\ mid.retired = pool.retired /\ mid.starting = pool.starting
    BY DEF Pools
  <1>3. Retire = [mid EXCEPT !.retired = mid.retired \cup {pool.current}]
    BY DEF Retire
  <1> HIDE DEF mid
  <1>4. ASSUME pool.current # 0
        PROVE  /\ Retire \in Pools /\ Retire.current = 0 /\ Retire.starting = pool.starting
               /\ Retire.retired = pool.retired \cup {pool.current}
    <2>1. mid.retired \cup {pool.current} \in SUBSET Procs
      BY <1>1, <1>2, <1>4
    <2> QED BY <1>2, <1>3, <2>1 DEF Pools
  <1>5. ASSUME NEW p
        PROVE  /\ Forget(p) \in Pools /\ Forget(p).current = IF pool.current = p THEN 0 ELSE pool.current
               /\ Forget(p).retired = pool.retired /\ Forget(p).starting = pool.starting
    BY <1>1 DEF Forget, Pools
  <1> QED BY <1>4, <1>5

\* A pool with another start, or fewer retired processes.
LEMMA PoolFacts ==
  ASSUME NEW a \in Pools
  PROVE  /\ \A p \in Procs \cup {0} :
              /\ [a EXCEPT !.starting = p] \in Pools /\ [a EXCEPT !.starting = p].starting = p
              /\ [a EXCEPT !.starting = p].current = a.current /\ [a EXCEPT !.starting = p].retired = a.retired
         /\ \A p : /\ [a EXCEPT !.retired = a.retired \ {p}] \in Pools
                   /\ [a EXCEPT !.retired = a.retired \ {p}].retired = a.retired \ {p}
                   /\ [a EXCEPT !.retired = a.retired \ {p}].current = a.current
                   /\ [a EXCEPT !.retired = a.retired \ {p}].starting = a.starting
PROOF
  <1>1. a.retired \in SUBSET Procs
    BY DEF Pools
  <1>2. \A p : a.retired \ {p} \in SUBSET Procs
    BY <1>1
  <1> QED BY <1>2 DEF Pools

\* Awaits and To: where the pass stands.
LEMMA PassFacts ==
  ASSUME gc \in Passes, NEW at \in Stages
  PROVE  /\ \A one \in Requests \cup Procs \cup {0} :
              Awaits(at, one) => gc' \in Passes /\ gc'.at = at /\ gc'.one = one /\ gc'.todo = gc.todo \ {one}
         /\ \A todo \in SUBSET (Requests \cup Procs) :
              To(at, todo) => gc' \in Passes /\ gc'.at = at /\ gc'.one = 0 /\ gc'.todo = todo
PROOF
  <1>1. ASSUME NEW one \in Requests \cup Procs \cup {0}, Awaits(at, one)
        PROVE  gc' \in Passes /\ gc'.at = at /\ gc'.one = one /\ gc'.todo = gc.todo \ {one}
    <2> DEFINE first == [gc EXCEPT !.at = at]
    <2>1. first \in Passes /\ first.at = at /\ first.todo = gc.todo
      BY DEF Passes
    <2> DEFINE second == [first EXCEPT !.one = one]
    <2>2. gc' = [second EXCEPT !.todo = second.todo \ {one}]
      BY <1>1 DEF Awaits
    <2> HIDE DEF first
    <2>3. second \in Passes /\ second.at = at /\ second.one = one /\ second.todo = gc.todo
      BY <2>1 DEF Passes
    <2> HIDE DEF second
    <2>4. second.todo \ {one} \in SUBSET (Requests \cup Procs)
      BY <2>3 DEF Passes
    <2> QED BY <2>2, <2>3, <2>4 DEF Passes
  <1>2. ASSUME NEW todo \in SUBSET (Requests \cup Procs), To(at, todo)
        PROVE  gc' \in Passes /\ gc'.at = at /\ gc'.one = 0 /\ gc'.todo = todo
    BY <1>2 DEF To, Passes
  <1> QED BY <1>1, <1>2

\* The session s changes, in one or all of its fields.
LEMMA SessionFacts ==
  ASSUME TypeOK, NEW s \in Requests
  PROVE  /\ [sessions EXCEPT ![s].client = 0] \in [Requests -> SessionRecords]
         /\ \A q \in Requests \ {s} : [sessions EXCEPT ![s].client = 0][q] = sessions[q]
         /\ [sessions EXCEPT ![s].client = 0][s].here = sessions[s].here
         /\ [sessions EXCEPT ![s].client = 0][s].copy = sessions[s].copy
         /\ [sessions EXCEPT ![s].client = 0][s].client = 0
PROOF
  <1>1. sessions \in [Requests -> SessionRecords] /\ sessions[s] \in SessionRecords
    BY TypeParts
  <1>2. /\ [sessions[s] EXCEPT !.client = 0] \in SessionRecords
        /\ [sessions[s] EXCEPT !.client = 0].here = sessions[s].here
        /\ [sessions[s] EXCEPT !.client = 0].copy = sessions[s].copy
        /\ [sessions[s] EXCEPT !.client = 0].client = 0
    BY <1>1 DEF SessionRecords
  <1> QED BY <1>1, <1>2

\* What Down leaves.
LEMMA DownFacts ==
  ASSUME TypeOK, NEW kept \in SUBSET Requests, NEW left \in SUBSET Procs, Down(kept, left)
  PROVE  /\ life' \in Lives /\ life'.at = "down" /\ life'.left = left
         /\ procs' \in [Procs -> ProcRecords] /\ \A p \in Procs : procs'[p].at = "gone"
         /\ pool' \in Pools /\ pool' = Empty /\ pool'.current = 0 /\ pool'.retired = {} /\ pool'.starting = 0
         /\ reqs' \in [Requests -> RequestRecords]
         /\ \A r \in Requests :
              /\ reqs[r].at = "idle" => reqs'[r] = reqs[r]
              /\ reqs[r].at # "idle" => reqs'[r].at \in Ended /\ reqs'[r].client = 0
                                        /\ (r \in kept => reqs'[r].at = "done")
         /\ sessions' \in [Requests -> SessionRecords]
         /\ \A s \in Requests :
              /\ sessions'[s].client = 0
              /\ s \in kept => sessions'[s].here = sessions[s].here /\ sessions'[s].copy = sessions[s].copy
              /\ s \notin kept => ~ sessions'[s].here
         /\ removals' \in [Requests -> {"none", "removing", "failed"}]
         /\ \A r \in Requests : removals'[r] = "none"
         /\ gc' \in Passes /\ gc'.at = "idle"
         /\ UNCHANGED <<def, disk>>
PROOF
  <1>1. /\ procs \in [Procs -> ProcRecords] /\ reqs \in [Requests -> RequestRecords]
        /\ sessions \in [Requests -> SessionRecords]
    BY TypeParts
  <1>2. life' \in Lives /\ life'.at = "down" /\ life'.left = left
    BY DEF Down, Lives
  <1>3. procs' \in [Procs -> ProcRecords] /\ \A p \in Procs : procs'[p].at = "gone"
    BY <1>1 DEF Down, ProcRecords
  <1>4. pool' \in Pools /\ pool' = Empty /\ pool'.current = 0 /\ pool'.retired = {} /\ pool'.starting = 0
    BY DEF Down, Empty, Pools
  <1>5. \A at \in {"left", "done"} :
          /\ [NoRequest EXCEPT !.at = at] \in RequestRecords
          /\ [NoRequest EXCEPT !.at = at].at = at /\ [NoRequest EXCEPT !.at = at].client = 0
    BY DEF NoRequest, RequestRecords, Steps
  <1>6. \A r \in Requests :
          reqs'[r] = IF reqs[r].at = "idle" THEN reqs[r]
                     ELSE [NoRequest EXCEPT !.at = IF disk[r] # "none" /\ r \notin kept THEN "left" ELSE "done"]
    BY DEF Down
  <1>7. \A r \in Requests :
          /\ reqs'[r] \in RequestRecords
          /\ reqs[r].at = "idle" => reqs'[r] = reqs[r]
          /\ reqs[r].at # "idle" => reqs'[r].at \in Ended /\ reqs'[r].client = 0
                                    /\ (r \in kept => reqs'[r].at = "done")
    BY <1>1, <1>5, <1>6 DEF Ended
  <1>8. reqs' \in [Requests -> RequestRecords]
    BY <1>7 DEF Down
  <1>9. NoSession \in SessionRecords /\ ~ NoSession.here /\ NoSession.client = 0
    BY DEF NoSession, SessionRecords
  <1>10. \A s \in Requests : sessions'[s] = IF s \in kept THEN [sessions[s] EXCEPT !.client = 0] ELSE NoSession
    BY DEF Down
  <1>11. \A s \in Requests :
           /\ sessions'[s] \in SessionRecords /\ sessions'[s].client = 0
           /\ s \in kept => sessions'[s].here = sessions[s].here /\ sessions'[s].copy = sessions[s].copy
           /\ s \notin kept => ~ sessions'[s].here
    BY <1>1, <1>9, <1>10 DEF SessionRecords
  <1>12. sessions' \in [Requests -> SessionRecords]
    BY <1>11 DEF Down
  <1>13. gc' \in Passes /\ gc'.at = "idle"
    BY DEF Down, NoPass, Passes, Stages
  <1>14. removals' \in [Requests -> {"none", "removing", "failed"}] /\ \A r \in Requests : removals'[r] = "none"
    BY DEF Down
  <1> QED BY <1>2, <1>3, <1>4, <1>7, <1>8, <1>11, <1>12, <1>13, <1>14 DEF Down

-----------------------------------------------------------------------------
(* Types *)

\* getClient: what may become of the request, the pool and the processes.
LEMMA GetsClientFacts ==
  ASSUME TypeOK, NEW r \in Requests, GetsClient(r)
  PROVE  /\ reqs[r].at = "asked" /\ UNCHANGED <<def, sessions, disk, removals, gc, life, used>>
         /\ \A q \in Requests \ {r} : reqs'[q] = reqs[q]
         /\ reqs' \in [Requests -> RequestRecords] /\ reqs'[r].kind = reqs[r].kind /\ reqs'[r].of = reqs[r].of
         /\ \/ /\ reqs'[r].at \in {"done", "joined", "waits"} /\ reqs'[r].client \in {0, reqs[r].client}
               /\ reqs'[r].at = "done" => reqs'[r].client = 0
            \/ /\ pool.current # 0 /\ procs[pool.current].at = "up"
               /\ reqs'[r].at = (IF reqs[r].kind = "snapshot" THEN "measuring" ELSE "creating")
               /\ reqs'[r].client = pool.current
               /\ UNCHANGED <<procs, pool>>
         /\ pool' \in Pools /\ procs' \in [Procs -> ProcRecords]
         /\ \E left \in Pools :
              /\ left.starting = pool.starting
              /\ \/ left = pool
                 \/ /\ pool.current # 0 /\ procs[pool.current].at = "up"
                    /\ left.current = 0 /\ left.retired = pool.retired \cup {pool.current}
              /\ \/ UNCHANGED <<procs, pool>>
                 \/ pool.starting # 0 /\ pool' = left /\ UNCHANGED procs
                 \/ /\ pool.starting = 0 /\ life.at = "up"
                    /\ pool.current = 0 \/ procs[pool.current].at # "up" \/ left # pool
                    /\ \E p \in Free :
                         /\ \A q \in Procs \ {p} : procs'[q] = procs[q]
                         /\ procs'[p].at = "starting"
                         /\ pool'.starting = p /\ pool'.current = left.current /\ pool'.retired = left.retired
PROOF
  <1> DEFINE current == pool.current # 0 /\ procs[pool.current].at = "up"
             left == IF current THEN Retire ELSE pool
  <1>1. /\ procs \in [Procs -> ProcRecords] /\ pool \in Pools /\ def \in Nat
        /\ reqs \in [Requests -> RequestRecords] /\ reqs[r] \in RequestRecords
        /\ pool.current \in Procs \cup {0}
    BY TypeParts DEF Pools
  <1>2. /\ left \in Pools /\ left.starting = pool.starting
        /\ \/ left = pool
           \/ current /\ left.current = 0 /\ left.retired = pool.retired \cup {pool.current}
        /\ current => left.current = 0
    BY <1>1, RetireFacts
  <1>3. reqs[r].at = "asked" /\ UNCHANGED <<def, sessions, disk, removals, gc, life, used>>
    BY DEF GetsClient
  <1>4. CASE Becomes(r, "done") /\ UNCHANGED <<procs, pool>>
    <2>1. "done" \in Steps /\ "done" \in Ended
      BY DEF Steps, Ended
    <2>2. /\ reqs' \in [Requests -> RequestRecords]
          /\ \A q \in Requests \ {r} : reqs'[q] = reqs[q]
          /\ reqs'[r].at = "done" /\ reqs'[r].kind = reqs[r].kind /\ reqs'[r].of = reqs[r].of
          /\ reqs'[r].client = 0
      BY <1>4, <2>1, BecomesFacts
    <2> QED BY <1>1, <1>2, <1>3, <1>4, <2>2
  <1>5. CASE current /\ reqs' = [reqs EXCEPT ![r] = With(pool.current, @)] /\ UNCHANGED <<procs, pool>>
    <2>1. /\ reqs' \in [Requests -> RequestRecords]
          /\ \A q \in Requests \ {r} : reqs'[q] = reqs[q]
          /\ reqs'[r] = With(pool.current, reqs[r])
      BY <1>1, <1>5, WithFacts
    <2>2. /\ reqs'[r].at = (IF reqs[r].kind = "snapshot" THEN "measuring" ELSE "creating")
          /\ reqs'[r].kind = reqs[r].kind /\ reqs'[r].of = reqs[r].of /\ reqs'[r].client = pool.current
      BY <1>1, <2>1, WithFacts
    <2> QED BY <1>1, <1>2, <1>3, <1>5, <2>1, <2>2
  <1>6. ASSUME NEW at \in {"joined", "waits"}, Becomes(r, at)
        PROVE  /\ reqs' \in [Requests -> RequestRecords]
               /\ \A q \in Requests \ {r} : reqs'[q] = reqs[q]
               /\ reqs'[r].at = at /\ reqs'[r].kind = reqs[r].kind /\ reqs'[r].of = reqs[r].of
               /\ reqs'[r].client = reqs[r].client
    <2>1. at \in Steps /\ at \notin Ended
      BY DEF Steps, Ended
    <2> QED BY <1>6, <2>1, BecomesFacts
  <1>7. CASE /\ pool.starting # 0 /\ \E at \in {"joined", "waits"} : Becomes(r, at)
             /\ pool' = left /\ UNCHANGED procs
    BY <1>1, <1>2, <1>3, <1>6, <1>7
  <1>8. CASE /\ pool.starting = 0 /\ life.at = "up" /\ Becomes(r, "joined")
             /\ \E p \in Free : /\ procs' = [procs EXCEPT ![p] = [at |-> "starting", def |-> def]]
                                /\ pool' = [left EXCEPT !.starting = p]
    <2>1. PICK p \in Free : /\ procs' = [procs EXCEPT ![p] = [at |-> "starting", def |-> def]]
                            /\ pool' = [left EXCEPT !.starting = p]
      BY <1>8
    <2>2. p \in Procs
      BY DEF Free
    <2>3. [at |-> "starting", def |-> def] \in ProcRecords
      BY <1>1 DEF ProcRecords
    <2>4. /\ procs' \in [Procs -> ProcRecords]
          /\ \A q \in Procs \ {p} : procs'[q] = procs[q]
          /\ procs'[p].at = "starting"
      BY <1>1, <2>1, <2>2, <2>3
    <2>5. /\ pool' \in Pools
          /\ pool'.starting = p /\ pool'.current = left.current /\ pool'.retired = left.retired
      BY <1>2, <2>1, <2>2, PoolFacts
    <2>6. pool.current = 0 \/ procs[pool.current].at # "up" \/ left # pool
      BY <1>2
    <2>7. /\ reqs' \in [Requests -> RequestRecords]
          /\ \A q \in Requests \ {r} : reqs'[q] = reqs[q]
          /\ reqs'[r].at = "joined" /\ reqs'[r].kind = reqs[r].kind /\ reqs'[r].of = reqs[r].of
          /\ reqs'[r].client = reqs[r].client
      BY <1>6, <1>8
    <2> HIDE DEF left
    <2> QED BY <1>2, <1>3, <1>8, <2>2, <2>1, <2>4, <2>5, <2>6, <2>7
  <1>9. \/ Becomes(r, "done") /\ UNCHANGED <<procs, pool>>
        \/ current /\ reqs' = [reqs EXCEPT ![r] = With(pool.current, @)] /\ UNCHANGED <<procs, pool>>
        \/ /\ pool.starting # 0 /\ \E at \in {"joined", "waits"} : Becomes(r, at)
           /\ pool' = left /\ UNCHANGED procs
        \/ /\ pool.starting = 0 /\ life.at = "up" /\ Becomes(r, "joined")
           /\ \E p \in Free : /\ procs' = [procs EXCEPT ![p] = [at |-> "starting", def |-> def]]
                              /\ pool' = [left EXCEPT !.starting = p]
    BY DEF GetsClient
  <1> QED BY <1>4, <1>5, <1>7, <1>8, <1>9

\* Registers: the record has the client, and the request is over.
LEMMA RegistersFacts ==
  ASSUME TypeOK, NEW r \in Requests, Registers(r)
  PROVE  /\ reqs[r].at = "creating" /\ procs[reqs[r].client].at = "up" /\ life.at # "down"
         /\ reqs' \in [Requests -> RequestRecords]
         /\ \A q \in Requests \ {r} : reqs'[q] = reqs[q]
         /\ reqs'[r].at = "done" /\ reqs'[r].client = 0
         /\ sessions' \in [Requests -> SessionRecords]
         /\ \A q \in Requests \ {reqs[r].of} : sessions'[q] = sessions[q]
         /\ reqs[r].of \in Requests =>
              /\ sessions'[reqs[r].of].here /\ sessions'[reqs[r].of].client = reqs[r].client
              /\ sessions'[reqs[r].of].copy = IF reqs[r].kind = "restore" THEN sessions[reqs[r].of].copy
                                              ELSE reqs[r].kind = "snapshot"
         /\ UNCHANGED <<procs, pool, def, disk, removals, gc, life, used>>
PROOF
  <1> DEFINE s == reqs[r].of
             new == [here |-> TRUE, client |-> reqs[r].client,
                     copy |-> IF reqs[r].kind = "restore" THEN sessions[s].copy ELSE reqs[r].kind = "snapshot"]
  <1>1. /\ reqs \in [Requests -> RequestRecords] /\ reqs[r] \in RequestRecords
        /\ sessions \in [Requests -> SessionRecords]
    BY TypeParts
  <1>2. Becomes(r, "done") /\ "done" \in Steps /\ "done" \in Ended
    BY DEF Registers, Steps, Ended
  <1>3. sessions' = [sessions EXCEPT ![s] = new]
    BY DEF Registers
  <1>4. s \in Requests => new \in SessionRecords
    <2> SUFFICES ASSUME s \in Requests PROVE new \in SessionRecords
      OBVIOUS
    <2>1. sessions[s] \in SessionRecords
      BY <1>1
    <2>2. sessions[s].copy \in BOOLEAN
      BY <2>1 DEF SessionRecords
    <2>3. reqs[r].client \in Procs \cup {0}
      BY <1>1 DEF RequestRecords
    <2>4. (IF reqs[r].kind = "restore" THEN sessions[s].copy ELSE reqs[r].kind = "snapshot") \in BOOLEAN
      BY <2>2
    <2> QED BY <2>3, <2>4 DEF SessionRecords
  <1>5. sessions' \in [Requests -> SessionRecords] /\ \A q \in Requests \ {s} : sessions'[q] = sessions[q]
    <2>1. CASE s \in Requests
      BY <1>1, <1>3, <1>4, <2>1
    <2>2. CASE s \notin Requests
      BY <1>1, <1>3, <2>2
    <2> QED BY <2>1, <2>2
  <1>6. s \in Requests => sessions'[s] = new
    BY <1>1, <1>3
  <1>7. new.here /\ new.client = reqs[r].client
        /\ new.copy = IF reqs[r].kind = "restore" THEN sessions[s].copy ELSE reqs[r].kind = "snapshot"
    OBVIOUS
  <1> HIDE DEF new
  <1>8. /\ reqs' \in [Requests -> RequestRecords]
        /\ \A q \in Requests \ {r} : reqs'[q] = reqs[q]
        /\ reqs'[r].at = "done" /\ reqs'[r].client = 0
    BY <1>2, BecomesFacts
  <1> QED BY <1>5, <1>6, <1>7, <1>8 DEF Registers

\* CreateFails: the request discards what it made, or is over; it has no client.
LEMMA CreateFailsFacts ==
  ASSUME TypeOK, NEW r \in Requests, CreateFails(r)
  PROVE  /\ reqs[r].at = "creating"
         /\ reqs' \in [Requests -> RequestRecords]
         /\ \A q \in Requests \ {r} : reqs'[q] = reqs[q]
         /\ reqs'[r].at = (IF reqs[r].kind = "snapshot" THEN "discarding" ELSE "done")
         /\ reqs'[r].kind = reqs[r].kind /\ reqs'[r].of = reqs[r].of /\ reqs'[r].client = 0
         /\ UNCHANGED <<procs, pool, def, sessions, disk, removals, gc, life, used>>
PROOF
  <1> DEFINE at == IF reqs[r].kind = "snapshot" THEN "discarding" ELSE "done"
             mid == [reqs EXCEPT ![r].at = at]
  <1>1. reqs \in [Requests -> RequestRecords] /\ reqs[r] \in RequestRecords
    BY TypeParts
  <1>2. at \in Steps
    BY DEF Steps
  <1>3. reqs' = [mid EXCEPT ![r].client = 0]
    BY DEF CreateFails
  <1> HIDE DEF at
  <1>4. /\ [reqs[r] EXCEPT !.at = at] \in RequestRecords
        /\ [reqs[r] EXCEPT !.at = at].at = at /\ [reqs[r] EXCEPT !.at = at].kind = reqs[r].kind
        /\ [reqs[r] EXCEPT !.at = at].of = reqs[r].of
    BY <1>1, <1>2 DEF RequestRecords
  <1>5. /\ mid \in [Requests -> RequestRecords] /\ mid[r] \in RequestRecords
        /\ \A q \in Requests \ {r} : mid[q] = reqs[q]
        /\ mid[r].at = at /\ mid[r].kind = reqs[r].kind /\ mid[r].of = reqs[r].of
    BY <1>1, <1>4
  <1> HIDE DEF mid
  <1>6. /\ [mid[r] EXCEPT !.client = 0] \in RequestRecords
        /\ [mid[r] EXCEPT !.client = 0].at = mid[r].at /\ [mid[r] EXCEPT !.client = 0].kind = mid[r].kind
        /\ [mid[r] EXCEPT !.client = 0].of = mid[r].of /\ [mid[r] EXCEPT !.client = 0].client = 0
    BY <1>5 DEF RequestRecords
  <1>7. /\ reqs' \in [Requests -> RequestRecords]
        /\ \A q \in Requests \ {r} : reqs'[q] = reqs[q]
        /\ reqs'[r].at = at
        /\ reqs'[r].kind = reqs[r].kind /\ reqs'[r].of = reqs[r].of /\ reqs'[r].client = 0
    BY <1>3, <1>5, <1>6
  <1> QED BY <1>7 DEF CreateFails, at

LEMMA StartTypes == Init => TypeOK
PROOF
  <1> SUFFICES ASSUME Init PROVE TypeOK
    OBVIOUS
  <1>1. procs \in [Procs -> ProcRecords]
    BY DEF Init, ProcRecords
  <1>2. pool \in Pools
    BY DEF Init, Pools, Empty
  <1>3. reqs \in [Requests -> RequestRecords]
    <2>1. NoRequest \in RequestRecords
      BY DEF NoRequest, RequestRecords, Steps
    <2> QED BY <2>1 DEF Init
  <1>4. sessions \in [Requests -> SessionRecords]
    <2>1. NoSession \in SessionRecords
      BY DEF NoSession, SessionRecords
    <2> QED BY <2>1 DEF Init
  <1>5. disk \in [Requests -> {"none", "dir", "marked"}] /\ removals \in [Requests -> {"none", "removing", "failed"}]
    BY DEF Init
  <1>6. gc \in Passes
    BY DEF Init, NoPass, Passes, Stages
  <1>7. life \in Lives
    BY DEF Init, Lives
  <1>8. def \in Nat
    BY DEF Init
  <1> QED BY <1>1, <1>2, <1>3, <1>4, <1>5, <1>6, <1>7, <1>8, TypeParts

-----------------------------------------------------------------------------
(* What most steps have in common *)

\* A step that leaves the requests, the copies and what the records say of them
\* alone, and lists no more copies.
LEMMA CopyFrame ==
  ASSUME CopyInv, UNCHANGED <<reqs, disk, removals>>,
         \A s \in Requests : sessions'[s].here = sessions[s].here /\ sessions'[s].copy = sessions[s].copy,
         \/ gc' = gc
         \/ gc'.at \notin {"listed", "reclaim", "reclaiming"}
         \/ gc.at \in {"listed", "reclaim", "reclaiming"} /\ gc'.todo \subseteq gc.todo
  PROVE  CopyInv'
PROOF
  <1> USE DEF CopyInv
  <1>1. DeletedLate' /\ HereIsDone' /\ CopiesForSnapshots' /\ MarkedFirst' /\ Copied'
    BY DEF DeletedLate, HereIsDone, CopiesForSnapshots, MarkedFirst, Copied
  <1>2. OpensItsOwn' /\ RestoresOne'
    BY DEF OpensItsOwn, RestoresOne, Running
  <1>3. OnDiskIsPast'
    BY DEF OnDiskIsPast, Past
  <1>4. Listed'
    BY DEF Listed, Past
  <1> QED BY <1>1, <1>2, <1>3, <1>4

\* A step of requests: each goes on as it was asked, towards its end, and has its
\* marked copy where the next step needs it.
LEMMA CopyMoves ==
  ASSUME CopyInv, UNCHANGED <<sessions, disk, removals, gc>>,
         \A q \in Requests :
           \/ reqs'[q] = reqs[q]
           \/ /\ Running(q)
              /\ reqs'[q].kind = reqs[q].kind /\ reqs'[q].of = reqs[q].of
              /\ reqs'[q].at # "idle"
              /\ reqs[q].at = "removing" => reqs'[q].at \in Ended
              /\ reqs'[q].at \in CopySteps => reqs[q].kind = "snapshot"
              /\ reqs'[q].at = "copying" \/ (reqs'[q].at = "creating" /\ reqs[q].kind = "snapshot") => disk[q] = "marked"
              /\ reqs[q].at \notin Early => reqs'[q].at \notin Early
  PROVE  CopyInv'
PROOF
  <1> USE DEF CopyInv
  <1>1. DeletedLate'
    BY DEF DeletedLate, Running, Ended
  <1>2. HereIsDone'
    BY DEF HereIsDone, Running
  <1>3. OpensItsOwn' /\ RestoresOne'
    BY DEF OpensItsOwn, RestoresOne, Running
  <1>4. CopiesForSnapshots' /\ MarkedFirst'
    BY DEF CopiesForSnapshots, MarkedFirst
  <1>5. \A w \in Requests : Past(w) => Past(w)'
    BY DEF Past, Ended, Early, Running
  <1>6. Listed' /\ OnDiskIsPast'
    BY <1>5 DEF Listed, OnDiskIsPast
  <1>7. Copied'
    BY DEF Copied
  <1> QED BY <1>1, <1>2, <1>3, <1>4, <1>5, <1>6, <1>7

\* A step that leaves the processes, the pool and the daemon alone, and gives
\* nobody a client.
LEMMA ProcFrame ==
  ASSUME ProcInv, UNCHANGED <<procs, pool, life>>,
         \A q \in Requests : /\ reqs'[q].client \in {0, reqs[q].client}
                             /\ sessions'[q].client \in {0, sessions[q].client}
                             /\ reqs'[q].at \in Clientless => reqs'[q].client = 0
  PROVE  ProcInv'
PROOF
  <1> USE DEF ProcInv
  <1>1. NoneStopped'
    BY DEF NoneStopped
  <1>2. UpIsKnown' /\ StartIsKnown' /\ DaemonEnds'
    BY DEF UpIsKnown, StartIsKnown, DaemonEnds
  <1>3. StartIsNew'
    BY DEF StartIsNew
  <1>4. OverIsFree'
    BY DEF OverIsFree
  <1> QED BY <1>1, <1>2, <1>3, <1>4

\* A step that stops processes nobody has.
LEMMA ProcStops ==
  ASSUME TypeOK, ProcInv, NEW ps, procs' = Stopping(ps), UNCHANGED <<pool, life, reqs>>,
         \A q \in Requests : sessions'[q].client \in {0, sessions[q].client},
         \A p \in ps : life.at \in {"up", "draining"} => \A q \in Requests : reqs[q].client # p /\ sessions'[q].client # p
  PROVE  ProcInv'
PROOF
  <1> USE DEF ProcInv
  <1>1. \A p \in Procs : procs'[p].at = IF p \in ps /\ Alive(p) THEN "stopping" ELSE procs[p].at
    BY StoppingFacts
  <1>2. pool.current \in Procs \cup {0} /\ pool.starting \in Procs \cup {0} /\ pool.retired \subseteq Procs
    BY TypeParts DEF Pools
  <1>3. \A q \in Requests : reqs[q].client \in Procs \cup {0} /\ sessions[q].client \in Procs \cup {0}
    BY TypeParts DEF RequestRecords, SessionRecords
  <1>4. NoneStopped'
    BY <1>1, <1>3 DEF NoneStopped
  <1>5. UpIsKnown' /\ StartIsKnown'
    BY <1>1 DEF UpIsKnown, StartIsKnown
  <1>6. DaemonEnds'
    BY <1>1 DEF DaemonEnds, Alive
  <1>7. StartIsNew'
    BY <1>1, <1>2 DEF StartIsNew
  <1>8. OverIsFree'
    BY DEF OverIsFree
  <1> QED BY <1>4, <1>5, <1>6, <1>7, <1>8

LEMMA TypesNext ==
  ASSUME procs' \in [Procs -> ProcRecords], pool' \in Pools, def' \in Nat,
         reqs' \in [Requests -> RequestRecords], sessions' \in [Requests -> SessionRecords],
         disk' \in [Requests -> {"none", "dir", "marked"}],
         removals' \in [Requests -> {"none", "removing", "failed"}],
         gc' \in Passes, life' \in Lives
  PROVE  TypeOK'
PROOF BY DEF TypeOK, ProcRecords, Pools, RequestRecords, SessionRecords, Passes, Lives

-----------------------------------------------------------------------------
(* Opens and restores *)

LEMMA OpensKeeps ==
  ASSUME PoolInv, NEW r \in Requests, Opens(r) \/ \E s \in Requests : Restores(r, s)
  PROVE  PoolInv'
PROOF
  <1> USE DEF PoolInv
  <1>1. /\ reqs \in [Requests -> RequestRecords] /\ reqs[r] = NoRequest
        /\ UNCHANGED <<procs, pool, def, sessions, disk, removals, gc, life, used>>
    BY TypeParts DEF Opens, Restores
  <1>2. \E kind \in {"direct", "snapshot", "restore"}, s \in Requests :
          /\ reqs' = [reqs EXCEPT ![r] = [at |-> "asked", kind |-> kind, of |-> s, client |-> 0]]
          /\ kind # "restore" => s = r
          /\ kind = "restore" => sessions[s].here
    BY DEF Opens, Restores
  <1>3. PICK kind \in {"direct", "snapshot", "restore"}, s \in Requests :
          /\ reqs' = [reqs EXCEPT ![r] = [at |-> "asked", kind |-> kind, of |-> s, client |-> 0]]
          /\ kind # "restore" => s = r
          /\ kind = "restore" => sessions[s].here
    BY <1>2
  <1> DEFINE new == [at |-> "asked", kind |-> kind, of |-> s, client |-> 0]
  <1>4. new \in RequestRecords /\ new.at = "asked" /\ new.kind = kind /\ new.of = s /\ new.client = 0
    BY DEF RequestRecords, Steps
  <1>5. reqs' = [reqs EXCEPT ![r] = new]
    BY <1>3
  <1> HIDE DEF new
  <1>6. /\ reqs' \in [Requests -> RequestRecords] /\ \A q \in Requests \ {r} : reqs'[q] = reqs[q]
        /\ reqs'[r].at = "asked" /\ reqs'[r].kind = kind /\ reqs'[r].of = s /\ reqs'[r].client = 0
    BY <1>1, <1>4, <1>5
  <1>7. TypeOK'
    BY <1>1, <1>6, TypesNext, TypeParts
  <1>8. reqs[r].at = "idle" /\ reqs[r].kind = "direct"
    BY <1>1 DEF NoRequest
  <1>9. CopyInv'
    <2> USE DEF CopyInv
    <2>1. DeletedLate' /\ HereIsDone' /\ CopiesForSnapshots' /\ MarkedFirst' /\ Copied'
      BY <1>1, <1>6, <1>8 DEF DeletedLate, HereIsDone, CopiesForSnapshots, MarkedFirst, Copied, Ended, CopySteps
    <2>2. OpensItsOwn' /\ RestoresOne'
      BY <1>1, <1>3, <1>6 DEF OpensItsOwn, RestoresOne, Running
    <2>3. \A w \in Requests : Past(w) => Past(w)'
      BY <1>1, <1>6, <1>8 DEF Past, Ended, Early
    <2>4. OnDiskIsPast' /\ Listed'
      BY <1>1, <2>3 DEF OnDiskIsPast, Listed
    <2> QED BY <2>1, <2>2, <2>4
  <1>10. ProcInv'
    BY <1>1, <1>6, ProcFrame DEF ProcInv, OverIsFree
  <1> QED BY <1>7, <1>9, <1>10

LEMMA GetsClientKeeps == ASSUME PoolInv, NEW r \in Requests, GetsClient(r) PROVE PoolInv'
PROOF
  <1> USE DEF PoolInv
  <1>1. /\ reqs[r].at = "asked" /\ UNCHANGED <<def, sessions, disk, removals, gc, life, used>>
        /\ \A q \in Requests \ {r} : reqs'[q] = reqs[q]
        /\ reqs' \in [Requests -> RequestRecords] /\ reqs'[r].kind = reqs[r].kind /\ reqs'[r].of = reqs[r].of
        /\ pool' \in Pools /\ procs' \in [Procs -> ProcRecords]
    BY GetsClientFacts
  <1>2. \/ /\ reqs'[r].at \in {"done", "joined", "waits"} /\ reqs'[r].client \in {0, reqs[r].client}
           /\ reqs'[r].at = "done" => reqs'[r].client = 0
        \/ /\ pool.current # 0 /\ procs[pool.current].at = "up"
           /\ reqs'[r].at = (IF reqs[r].kind = "snapshot" THEN "measuring" ELSE "creating")
           /\ reqs'[r].client = pool.current
           /\ UNCHANGED <<procs, pool>>
    BY GetsClientFacts
  <1>3. PICK left \in Pools :
              /\ left.starting = pool.starting
              /\ \/ left = pool
                 \/ /\ pool.current # 0 /\ procs[pool.current].at = "up"
                    /\ left.current = 0 /\ left.retired = pool.retired \cup {pool.current}
              /\ \/ UNCHANGED <<procs, pool>>
                 \/ pool.starting # 0 /\ pool' = left /\ UNCHANGED procs
                 \/ /\ pool.starting = 0 /\ life.at = "up"
                    /\ pool.current = 0 \/ procs[pool.current].at # "up" \/ left # pool
                    /\ \E p \in Free :
                         /\ \A q \in Procs \ {p} : procs'[q] = procs[q]
                         /\ procs'[p].at = "starting"
                         /\ pool'.starting = p /\ pool'.current = left.current /\ pool'.retired = left.retired
    BY GetsClientFacts
  <1>4. TypeOK'
    BY <1>1, TypesNext, TypeParts
  <1>5. CopyInv'
    BY <1>1, <1>2, CopyMoves, TypeParts DEF Running, Ended, Early, CopySteps, RequestRecords
  <1>6. /\ pool.current \in Procs \cup {0} /\ pool.starting \in Procs \cup {0} /\ pool.retired \subseteq Procs
        /\ \A q \in Requests : reqs[q].client \in Procs \cup {0} /\ sessions[q].client \in Procs \cup {0}
    BY TypeParts DEF Pools, RequestRecords, SessionRecords
  <1>7. OverIsFree'
    BY <1>1, <1>2 DEF ProcInv, OverIsFree, Clientless, Ended
  <1>8. CASE UNCHANGED <<procs, pool>>
    <2> USE DEF ProcInv
    <2>1. NoneStopped'
      BY <1>1, <1>2, <1>6, <1>8 DEF NoneStopped
    <2>2. StartIsNew'
      BY <1>1, <1>2, <1>6, <1>8 DEF StartIsNew
    <2>3. UpIsKnown' /\ StartIsKnown' /\ DaemonEnds'
      BY <1>1, <1>8 DEF UpIsKnown, StartIsKnown, DaemonEnds
    <2> QED BY <1>4, <1>5, <1>7, <2>1, <2>2, <2>3
  <1>9. CASE ~ (UNCHANGED <<procs, pool>>) /\ pool.starting # 0
    <2> USE DEF ProcInv
    <2>1. pool' = left /\ UNCHANGED procs
      BY <1>3, <1>9
    <2>2. reqs'[r].client \in {0, reqs[r].client}
      BY <1>2, <1>9
    <2>3. NoneStopped'
      BY <1>1, <1>6, <2>1, <2>2 DEF NoneStopped
    <2>4. UpIsKnown'
      BY <1>3, <2>1 DEF UpIsKnown
    <2>5. StartIsKnown'
      BY <1>3, <2>1 DEF StartIsKnown
    <2>6. StartIsNew'
      BY <1>1, <1>3, <1>9, <2>1, <2>2 DEF StartIsNew
    <2>7. DaemonEnds'
      BY <1>1, <1>3, <1>9, <2>1 DEF DaemonEnds
    <2> QED BY <1>4, <1>5, <1>7, <2>3, <2>4, <2>5, <2>6, <2>7
  <1>10. CASE ~ (UNCHANGED <<procs, pool>>) /\ pool.starting = 0
    <2> USE DEF ProcInv
    <2>1. /\ life.at = "up"
          /\ pool.current = 0 \/ procs[pool.current].at # "up" \/ left # pool
          /\ \E p \in Free :
                         /\ \A q \in Procs \ {p} : procs'[q] = procs[q]
                         /\ procs'[p].at = "starting"
                         /\ pool'.starting = p /\ pool'.current = left.current /\ pool'.retired = left.retired
      BY <1>3, <1>10
    <2>2. PICK p \in Free : /\ \A q \in Procs \ {p} : procs'[q] = procs[q]
                            /\ procs'[p].at = "starting"
                            /\ pool'.starting = p /\ pool'.current = left.current /\ pool'.retired = left.retired
      BY <2>1
    <2>3. /\ p \in Procs /\ procs[p].at = "gone"
          /\ p \notin pool.retired /\ p # pool.current
          /\ \A q \in Requests : p # reqs[q].client /\ p # sessions[q].client
      BY <2>2 DEF Free
    <2>4. reqs'[r].client \in {0, reqs[r].client}
      BY <1>2, <1>10
    <2>5. p # 0
      BY <2>3 DEF Procs
    <2>6. NoneStopped'
      BY <1>1, <1>6, <2>2, <2>4 DEF NoneStopped
    <2>7. UpIsKnown'
      BY <1>3, <2>2 DEF UpIsKnown
    <2>8. StartIsKnown'
      BY <1>10, <2>2 DEF StartIsKnown, Procs
    <2>9. StartIsNew'
      <3>1. left.current = 0 \/ procs[left.current].at # "up"
        BY <1>3, <2>1
      <3>2. left.current \in Procs \cup {0} /\ p # left.current /\ p \notin left.retired
        BY <1>3, <1>6, <2>3, <2>5
      <3>3. \A q \in Requests : reqs'[q].client # p /\ sessions'[q].client # p
        BY <1>1, <2>3, <2>4, <2>5
      <3> QED BY <2>2, <2>3, <3>1, <3>2, <3>3 DEF StartIsNew
    <2>10. DaemonEnds'
      BY <1>1, <2>1 DEF DaemonEnds
    <2> QED BY <1>4, <1>5, <1>7, <2>6, <2>7, <2>8, <2>9, <2>10
  <1> QED BY <1>8, <1>9, <1>10

-----------------------------------------------------------------------------
(* The processes *)

\* Those that waited for a start that is over go on.
LEMMA SettledKeepsCopies ==
  ASSUME PoolInv, NEW p \in Procs \cup {0}, reqs' = Settled(p), UNCHANGED <<sessions, disk, removals, gc>>
  PROVE  CopyInv'
PROOF
  <1> USE DEF PoolInv
  <1>1. ASSUME NEW q \in Requests, reqs'[q] # reqs[q]
        PROVE  /\ Running(q)
               /\ reqs'[q].kind = reqs[q].kind /\ reqs'[q].of = reqs[q].of
               /\ reqs[q].at \in {"joined", "waits"}
               /\ reqs'[q].at \in {"asked", "done", "measuring", "creating"}
               /\ reqs'[q].at = "measuring" => reqs[q].kind = "snapshot"
               /\ reqs'[q].at = "creating" => reqs[q].kind # "snapshot"
    <2>1. reqs[q].at \in {"joined", "waits"}
      BY <1>1, SettledFacts
    <2>2. reqs[q] \in RequestRecords
      BY TypeParts
    <2>3. CASE reqs[q].at = "joined" /\ p # 0
      <3>1. reqs'[q] = With(p, reqs[q])
        BY <2>3, SettledFacts
      <3> QED BY <2>2, <2>3, <3>1, WithFacts DEF Running
    <2>4. CASE reqs[q].at = "joined" /\ p = 0
      BY <2>4, SettledFacts DEF Running
    <2>5. CASE reqs[q].at = "waits"
      BY <2>5, SettledFacts DEF Running
    <2> QED BY <2>1, <2>3, <2>4, <2>5
  <1>2. \A q \in Requests :
           \/ reqs'[q] = reqs[q]
           \/ /\ Running(q)
              /\ reqs'[q].kind = reqs[q].kind /\ reqs'[q].of = reqs[q].of
              /\ reqs'[q].at # "idle"
              /\ reqs[q].at = "removing" => reqs'[q].at \in Ended
              /\ reqs'[q].at \in CopySteps => reqs[q].kind = "snapshot"
              /\ reqs'[q].at = "copying" \/ (reqs'[q].at = "creating" /\ reqs[q].kind = "snapshot") => disk[q] = "marked"
              /\ reqs[q].at \notin Early => reqs'[q].at \notin Early
    BY <1>1 DEF Early, Ended, CopySteps
  <1> QED BY <1>2, CopyMoves

\* The start under way comes to nothing.
LEMMA StartIsOver ==
  ASSUME PoolInv, NEW p \in Procs, pool.starting = p, life.at # "down",
         procs' = [procs EXCEPT ![p].at = "gone"],
         pool' = [pool EXCEPT !.starting = 0], reqs' = Settled(0),
         UNCHANGED <<def, sessions, disk, removals, gc, life>>
  PROVE  PoolInv'
PROOF
  <1> USE DEF PoolInv
  <1>1. /\ procs \in [Procs -> ProcRecords] /\ pool \in Pools /\ pool.current \in Procs \cup {0}
    BY TypeParts DEF Pools
  <1>2. /\ procs' \in [Procs -> ProcRecords] /\ procs'[p].at = "gone"
        /\ \A q \in Procs \ {p} : procs'[q] = procs[q]
    BY <1>1 DEF ProcRecords
  <1>3. /\ pool' \in Pools /\ pool'.starting = 0 /\ pool'.current = pool.current /\ pool'.retired = pool.retired
    BY <1>1, PoolFacts
  <1>4. reqs' \in [Requests -> RequestRecords] /\ \A q \in Requests : reqs'[q].client = reqs[q].client
    <2>1. reqs' \in [Requests -> RequestRecords]
      BY SettledFacts
    <2>2. ASSUME NEW q \in Requests PROVE reqs'[q].client = reqs[q].client
      BY SettledFacts
    <2> QED BY <2>1, <2>2
  <1>5. TypeOK'
    BY <1>2, <1>3, <1>4, TypesNext, TypeParts
  <1>6. CopyInv'
    BY SettledKeepsCopies
  <1>7. OverIsFree'
    <2> SUFFICES ASSUME NEW q \in Requests, reqs'[q].at \in Clientless PROVE reqs'[q].client = 0
      BY DEF OverIsFree
    <2>1. reqs[q].at \in Clientless
      BY SettledFacts DEF Clientless
    <2> QED BY <1>4, <2>1 DEF ProcInv, OverIsFree
  <1>8. NoneStopped' /\ StartIsNew' /\ DaemonEnds'
    BY <1>2, <1>3, <1>4 DEF ProcInv, NoneStopped, StartIsNew, DaemonEnds
  <1>9. UpIsKnown' /\ StartIsKnown'
    BY <1>2, <1>3 DEF ProcInv, UpIsKnown, StartIsKnown
  <1> QED BY <1>5, <1>6, <1>7, <1>8, <1>9 DEF ProcInv

\* A process that is not being started is gone.
LEMMA ProcIsGone ==
  ASSUME PoolInv, NEW p \in Procs, pool.starting # p, life.at # "down",
         procs' = [procs EXCEPT ![p].at = "gone"],
         UNCHANGED <<pool, def, reqs, sessions, disk, removals, gc, life>>
  PROVE  PoolInv'
PROOF
  <1> USE DEF PoolInv
  <1>1. procs \in [Procs -> ProcRecords] /\ pool.current \in Procs \cup {0} /\ pool.starting \in Procs \cup {0}
    BY TypeParts DEF Pools
  <1>2. /\ procs' \in [Procs -> ProcRecords] /\ procs'[p].at = "gone"
        /\ \A q \in Procs \ {p} : procs'[q] = procs[q]
    BY <1>1 DEF ProcRecords
  <1>3. TypeOK'
    BY <1>2, TypesNext, TypeParts
  <1>4. CopyInv'
    BY CopyFrame
  <1>5. \A q \in Requests : reqs[q].client \in Procs \cup {0} /\ sessions[q].client \in Procs \cup {0}
    BY TypeParts DEF RequestRecords, SessionRecords
  <1>6. NoneStopped'
    BY <1>2, <1>5 DEF ProcInv, NoneStopped
  <1>7. UpIsKnown' /\ StartIsKnown'
    BY <1>2 DEF ProcInv, UpIsKnown, StartIsKnown
  <1>8. StartIsNew' /\ OverIsFree' /\ DaemonEnds'
    BY <1>1, <1>2 DEF ProcInv, StartIsNew, OverIsFree, DaemonEnds
  <1> QED BY <1>3, <1>4, <1>6, <1>7, <1>8 DEF ProcInv

LEMMA EndsKeeps == ASSUME PoolInv, NEW p \in Procs, Ends(p) \/ Exits(p) PROVE PoolInv'
PROOF
  <1>1. /\ procs' = [procs EXCEPT ![p].at = "gone"] /\ life.at # "down"
        /\ UNCHANGED <<def, sessions, disk, removals, gc, life>>
        /\ IF pool.starting = p THEN pool' = [pool EXCEPT !.starting = 0] /\ reqs' = Settled(0)
                                ELSE UNCHANGED <<pool, reqs>>
    BY DEF Ends, Exits
  <1> QED BY <1>1, StartIsOver, ProcIsGone

LEMMA StartsKeeps == ASSUME PoolInv, NEW p \in Procs, Starts(p) PROVE PoolInv'
PROOF
  <1> USE DEF PoolInv
  <1>1. /\ pool.starting = p /\ procs[p].at = "starting" /\ life.at # "down"
        /\ UNCHANGED <<def, sessions, disk, removals, gc, life, used>>
    BY DEF Starts
  <1>2. p # 0
    BY DEF Procs
  <1>3. CASE /\ procs' = [procs EXCEPT ![p].at = "up"]
             /\ pool' = [pool EXCEPT !.current = p, !.starting = 0]
             /\ reqs' = Settled(p)
    <2> DEFINE mid == [pool EXCEPT !.current = p]
    <2>1. /\ procs \in [Procs -> ProcRecords] /\ pool \in Pools /\ pool.current \in Procs \cup {0}
      BY TypeParts DEF Pools
    <2>2. /\ procs' \in [Procs -> ProcRecords] /\ procs'[p].at = "up"
          /\ \A q \in Procs \ {p} : procs'[q] = procs[q]
      BY <1>3, <2>1 DEF ProcRecords
    <2>3. mid \in Pools /\ mid.current = p /\ mid.retired = pool.retired
      BY <2>1 DEF Pools
    <2>4. pool' = [mid EXCEPT !.starting = 0]
      BY <1>3
    <2> HIDE DEF mid
    <2>5. /\ pool' \in Pools /\ pool'.starting = 0 /\ pool'.current = p /\ pool'.retired = pool.retired
      BY <2>3, <2>4, PoolFacts
    <2>6. reqs' \in [Requests -> RequestRecords]
      BY <1>3, SettledFacts
    <2>7. ASSUME NEW q \in Requests
          PROVE  /\ reqs'[q].client \in {p, reqs[q].client}
                 /\ reqs'[q].at \in Clientless => reqs'[q].client = 0
      <3>1. reqs[q] \in RequestRecords
        BY TypeParts
      <3>2. CASE reqs[q].at = "joined"
        <4>1. reqs'[q] = With(p, reqs[q])
          BY <1>2, <1>3, <3>2, SettledFacts
        <4> QED BY <3>1, <4>1, WithFacts DEF Clientless, Ended
      <3>3. CASE reqs[q].at = "waits"
        BY <1>3, <3>3, SettledFacts DEF ProcInv, OverIsFree, Clientless
      <3>4. CASE reqs[q].at \notin {"joined", "waits"}
        BY <1>3, <3>4, SettledFacts DEF ProcInv, OverIsFree
      <3> QED BY <3>2, <3>3, <3>4
    <2>8. TypeOK'
      BY <1>1, <2>2, <2>5, <2>6, TypesNext, TypeParts
    <2>9. CopyInv'
      BY <1>1, <1>3, SettledKeepsCopies
    <2>10. OverIsFree'
      BY <2>7 DEF OverIsFree
    <2>11. \A q \in Requests : reqs[q].client \in Procs \cup {0} /\ sessions[q].client \in Procs \cup {0}
      BY TypeParts DEF RequestRecords, SessionRecords
    <2>12. NoneStopped'
      BY <1>1, <2>2, <2>7, <2>11 DEF ProcInv, NoneStopped
    <2>13. UpIsKnown' /\ StartIsKnown'
      <3>1. pool.current = 0 \/ procs[pool.current].at # "up"
        BY <1>1, <1>2 DEF ProcInv, StartIsNew
      <3> QED BY <1>1, <2>2, <2>5, <3>1 DEF ProcInv, UpIsKnown, StartIsKnown, Procs
    <2>14. StartIsNew' /\ DaemonEnds'
      BY <1>1, <2>5 DEF ProcInv, StartIsNew, DaemonEnds
    <2> QED BY <2>8, <2>9, <2>10, <2>12, <2>13, <2>14 DEF ProcInv
  <1>4. CASE procs' = Stopping({p}) /\ UNCHANGED <<pool, reqs>>
    <2>1. TypeOK'
      BY <1>1, <1>4, StoppingFacts, TypesNext, TypeParts
    <2>2. CopyInv'
      BY <1>1, <1>4, CopyFrame
    <2>3. \A q \in Requests : reqs[q].client # p /\ sessions[q].client # p
      BY <1>1, <1>2 DEF ProcInv, StartIsNew
    <2>4. ProcInv'
      BY <1>1, <1>4, <2>3, ProcStops
    <2> QED BY <2>1, <2>2, <2>4
  <1> QED BY <1>3, <1>4 DEF Starts

LEMMA ExitLockedKeeps == ASSUME PoolInv, NEW s \in Requests, ExitLocked(s) PROVE PoolInv'
PROOF
  <1> USE DEF PoolInv
  <1>1. /\ sessions' = [sessions EXCEPT ![s].client = 0]
        /\ UNCHANGED <<procs, pool, def, reqs, disk, removals, gc, life, used>>
    BY DEF ExitLocked
  <1>2. /\ sessions' \in [Requests -> SessionRecords]
        /\ \A q \in Requests : /\ sessions'[q].here = sessions[q].here /\ sessions'[q].copy = sessions[q].copy
                               /\ sessions'[q].client \in {0, sessions[q].client}
    BY <1>1, SessionFacts
  <1>3. TypeOK'
    BY <1>1, <1>2, TypesNext, TypeParts
  <1>4. CopyInv'
    BY <1>1, <1>2, CopyFrame
  <1>5. ProcInv'
    BY <1>1, <1>2, ProcFrame DEF ProcInv, OverIsFree
  <1> QED BY <1>3, <1>4, <1>5

LEMMA UpdatesKeeps == ASSUME PoolInv, Updates PROVE PoolInv'
PROOF
  <1> USE DEF PoolInv
  <1>1. UNCHANGED <<procs, pool, reqs, sessions, disk, removals, gc, life, used>> /\ def' = def + 1
    BY DEF Updates
  <1>2. def' \in Nat
    BY <1>1, TypeParts
  <1>3. TypeOK'
    BY <1>1, <1>2, TypesNext, TypeParts
  <1>4. CopyInv' /\ ProcInv'
    BY <1>1, CopyFrame, ProcFrame DEF ProcInv, OverIsFree
  <1> QED BY <1>3, <1>4

-----------------------------------------------------------------------------
(* Snapshot copies *)

\* One request goes on and nothing else happens, but to a bound.
LEMMA MovesKeep ==
  ASSUME PoolInv, NEW r \in Requests, NEW at \in Steps, Becomes(r, at),
         UNCHANGED <<procs, pool, def, sessions, disk, removals, gc, life>>,
         Running(r), reqs[r].at \notin Clientless,
         at \notin Clientless \ Ended,
         reqs[r].at = "removing" => at \in Ended,
         at \in CopySteps => reqs[r].kind = "snapshot",
         at = "copying" \/ (at = "creating" /\ reqs[r].kind = "snapshot") => disk[r] = "marked",
         reqs[r].at \notin Early => at \notin Early
  PROVE  PoolInv'
PROOF
  <1> USE DEF PoolInv
  <1>1. /\ reqs' \in [Requests -> RequestRecords]
        /\ \A q \in Requests \ {r} : reqs'[q] = reqs[q]
        /\ reqs'[r].at = at /\ reqs'[r].kind = reqs[r].kind /\ reqs'[r].of = reqs[r].of
        /\ reqs'[r].client = IF at \in Ended THEN 0 ELSE reqs[r].client
    BY BecomesFacts
  <1>2. TypeOK'
    BY <1>1, TypesNext, TypeParts
  <1>3. at # "idle"
    BY DEF Clientless, Ended
  <1>4. CopyInv'
    BY <1>1, <1>3, CopyMoves
  <1>5. ProcInv'
    <2>1. \A q \in Requests : /\ reqs'[q].client \in {0, reqs[q].client}
                              /\ reqs'[q].at \in Clientless => reqs'[q].client = 0
      BY <1>1 DEF ProcInv, OverIsFree
    <2> QED BY <2>1, ProcFrame
  <1> QED BY <1>2, <1>4, <1>5

LEMMA MeasuresKeeps == ASSUME PoolInv, NEW r \in Requests, Measures(r) PROVE PoolInv'
PROOF
  <1>1. /\ reqs[r].at = "measuring" /\ UNCHANGED <<procs, pool, def, sessions, disk, removals, gc, life, used>>
        /\ \E at \in {"making", "done"} : Becomes(r, at)
    BY DEF Measures
  <1>2. reqs[r].kind = "snapshot"
    BY <1>1 DEF PoolInv, CopyInv, CopiesForSnapshots, CopySteps
  <1>3. PICK at \in {"making", "done"} : Becomes(r, at)
    BY <1>1
  <1>4. /\ at \in Steps /\ Running(r) /\ reqs[r].at \notin Clientless /\ at \notin Clientless \ Ended
        /\ at # "copying" /\ at # "creating" /\ reqs[r].at # "removing" /\ reqs[r].at \in Early
    BY <1>1 DEF Steps, Running, Clientless, Ended, Early
  <1> QED BY <1>1, <1>2, <1>3, <1>4, MovesKeep

LEMMA CopiesKeeps == ASSUME PoolInv, NEW r \in Requests, Copies(r) PROVE PoolInv'
PROOF
  <1> USE DEF PoolInv
  <1>1. UNCHANGED <<procs, pool, def, sessions, removals, gc, life, used>>
    BY DEF Copies
  <1>2. CASE reqs[r].at = "copying" /\ UNCHANGED disk /\ Becomes(r, "creating")
    <2>1. disk[r] = "marked"
      BY <1>2 DEF CopyInv, MarkedFirst
    <2>2. /\ "creating" \in Steps /\ Running(r) /\ reqs[r].at \notin Clientless /\ "creating" \notin Clientless
          /\ "creating" \notin CopySteps /\ reqs[r].at # "removing" /\ "creating" \notin Early
      BY <1>2 DEF Steps, Running, Clientless, Ended, Early, CopySteps
    <2> QED BY <1>1, <1>2, <2>1, <2>2, MovesKeep
  <1>3. CASE \/ reqs[r].at = "making" /\ disk' = [disk EXCEPT ![r] = "dir"] /\ Becomes(r, "marking")
             \/ reqs[r].at = "marking" /\ disk' = [disk EXCEPT ![r] = "marked"] /\ Becomes(r, "copying")
    <2>1. \E at \in {"marking", "copying"}, on \in {"dir", "marked"} :
            /\ Becomes(r, at) /\ disk' = [disk EXCEPT ![r] = on]
            /\ at = "copying" => on = "marked"
      BY <1>3
    <2>2. PICK at \in {"marking", "copying"}, on \in {"dir", "marked"} :
            /\ Becomes(r, at) /\ disk' = [disk EXCEPT ![r] = on]
            /\ at = "copying" => on = "marked"
      BY <2>1
    <2>3. at \in Steps /\ at \notin Ended
      BY DEF Steps, Ended
    <2>4. /\ reqs' \in [Requests -> RequestRecords]
          /\ \A q \in Requests \ {r} : reqs'[q] = reqs[q]
          /\ reqs'[r].at = at /\ reqs'[r].kind = reqs[r].kind /\ reqs'[r].of = reqs[r].of
          /\ reqs'[r].client = reqs[r].client
      BY <2>2, <2>3, BecomesFacts
    <2>5. /\ disk' \in [Requests -> {"none", "dir", "marked"}] /\ disk'[r] = on
          /\ \A q \in Requests \ {r} : disk'[q] = disk[q]
      BY <2>2, TypeParts
    <2>6. TypeOK'
      BY <1>1, <2>4, <2>5, TypesNext, TypeParts
    <2>7. reqs[r].at \in {"making", "marking"} /\ reqs[r].kind = "snapshot"
      BY <1>3 DEF CopyInv, CopiesForSnapshots, CopySteps
    <2>8. CopyInv'
      <3> USE DEF CopyInv
      <3>1. DeletedLate'
        BY <1>1, <2>4, <2>7 DEF DeletedLate, Ended
      <3>2. HereIsDone' /\ ~ sessions[r].here
        BY <1>1, <2>4, <2>7 DEF HereIsDone
      <3>3. OpensItsOwn' /\ RestoresOne'
        BY <1>1, <2>4, <2>7 DEF OpensItsOwn, RestoresOne, Running
      <3>4. CopiesForSnapshots' /\ MarkedFirst'
        BY <2>2, <2>4, <2>5, <2>7 DEF CopiesForSnapshots, MarkedFirst
      <3>5. Past(r)' /\ \A w \in Requests : Past(w) => Past(w)'
        BY <2>4, <2>7 DEF Past, Ended, Early
      <3>6. Listed' /\ OnDiskIsPast'
        BY <1>1, <2>5, <3>5 DEF Listed, OnDiskIsPast
      <3>7. Copied'
        BY <1>1, <2>5, <3>2 DEF Copied
      <3> QED BY <3>1, <3>2, <3>3, <3>4, <3>6, <3>7
    <2>9. ProcInv'
      <3>1. at \notin Clientless
        BY DEF Clientless, Ended
      <3>2. \A q \in Requests : /\ reqs'[q].client \in {0, reqs[q].client}
                                /\ reqs'[q].at \in Clientless => reqs'[q].client = 0
        BY <2>4, <3>1 DEF ProcInv, OverIsFree
      <3> QED BY <1>1, <3>2, ProcFrame
    <2> QED BY <2>6, <2>8, <2>9
  <1> QED BY <1>2, <1>3 DEF Copies

LEMMA CopyFailsKeeps == ASSUME PoolInv, NEW r \in Requests, CopyFails(r) PROVE PoolInv'
PROOF
  <1>1. /\ reqs[r].at \in {"making", "marking", "copying"} /\ Becomes(r, "clearing")
        /\ UNCHANGED <<procs, pool, def, sessions, disk, removals, gc, life>>
    BY DEF CopyFails
  <1>2. reqs[r].kind = "snapshot"
    BY <1>1 DEF PoolInv, CopyInv, CopiesForSnapshots, CopySteps
  <1>3. /\ "clearing" \in Steps /\ Running(r) /\ reqs[r].at \notin Clientless /\ "clearing" \notin Clientless
        /\ reqs[r].at # "removing" /\ "clearing" \notin Early
    BY <1>1 DEF Steps, Running, Clientless, Ended, Early
  <1> QED BY <1>1, <1>2, <1>3, MovesKeep

LEMMA ClearsKeeps == ASSUME PoolInv, NEW r \in Requests, Clears(r) PROVE PoolInv'
PROOF
  <1> USE DEF PoolInv
  <1>1. reqs[r].at = "clearing" /\ UNCHANGED <<procs, pool, def, sessions, removals, gc, life>>
    BY DEF Clears
  <1>2. /\ {"done", "left"} \subseteq Steps /\ Running(r) /\ reqs[r].at \notin Clientless
        /\ reqs[r].at # "removing"
        /\ \A at \in Ended : at \notin Clientless \ Ended /\ at \notin CopySteps /\ at \notin Early
                             /\ at \notin {"copying", "creating"}
    BY <1>1 DEF Steps, Running, Clientless, Ended, Early, CopySteps
  <1>3. CASE Becomes(r, "left") /\ UNCHANGED disk
    <2>1. "left" \in Ended
      BY DEF Ended
    <2> QED BY <1>1, <1>2, <1>3, <2>1, MovesKeep
  <1>4. CASE Becomes(r, "done") /\ disk' = [disk EXCEPT ![r] = "none"]
    <2>1. "done" \in Steps /\ "done" \in Ended
      BY DEF Steps, Ended
    <2>2. /\ reqs' \in [Requests -> RequestRecords]
          /\ \A q \in Requests \ {r} : reqs'[q] = reqs[q]
          /\ reqs'[r].at = "done" /\ reqs'[r].kind = reqs[r].kind /\ reqs'[r].of = reqs[r].of
          /\ reqs'[r].client = 0
      BY <1>4, <2>1, BecomesFacts
    <2>3. /\ disk' \in [Requests -> {"none", "dir", "marked"}] /\ disk'[r] = "none"
          /\ \A q \in Requests \ {r} : disk'[q] = disk[q]
      BY <1>4, TypeParts
    <2>4. TypeOK'
      BY <1>1, <2>2, <2>3, TypesNext, TypeParts
    <2>5. CopyInv'
      <3> USE DEF CopyInv
      <3>1. DeletedLate' /\ HereIsDone' /\ CopiesForSnapshots' /\ MarkedFirst'
        BY <1>1, <2>2, <2>3 DEF DeletedLate, HereIsDone, CopiesForSnapshots, MarkedFirst, Ended, CopySteps
      <3>2. ~ sessions[r].here
        BY <1>1 DEF HereIsDone
      <3>3. OpensItsOwn' /\ RestoresOne'
        BY <1>1, <2>2 DEF OpensItsOwn, RestoresOne, Running
      <3>4. \A w \in Requests : Past(w) => Past(w)'
        BY <2>2 DEF Past, Ended
      <3>5. Listed' /\ OnDiskIsPast'
        BY <1>1, <2>3, <3>4 DEF Listed, OnDiskIsPast
      <3>6. Copied'
        BY <1>1, <2>3, <3>2 DEF Copied
      <3> QED BY <3>1, <3>3, <3>5, <3>6
    <2>6. ProcInv'
      <3>1. \A q \in Requests : /\ reqs'[q].client \in {0, reqs[q].client}
                                /\ reqs'[q].at \in Clientless => reqs'[q].client = 0
        BY <2>2 DEF ProcInv, OverIsFree
      <3> QED BY <1>1, <3>1, ProcFrame
    <2> QED BY <2>4, <2>5, <2>6
  <1>5. CASE Unmarks(r) /\ UNCHANGED reqs
    <2>1. /\ disk[r] = "marked" /\ disk' \in [Requests -> {"none", "dir", "marked"}] /\ disk'[r] = "dir"
          /\ \A q \in Requests \ {r} : disk'[q] = disk[q]
      BY <1>5, TypeParts DEF Unmarks
    <2>2. TypeOK'
      BY <1>1, <1>5, <2>1, TypesNext, TypeParts
    <2>3. CopyInv'
      <3> USE DEF CopyInv
      <3>1. ~ sessions[r].here
        BY <1>1 DEF HereIsDone
      <3>2. DeletedLate' /\ HereIsDone' /\ OpensItsOwn' /\ RestoresOne' /\ CopiesForSnapshots'
        BY <1>1, <1>5 DEF DeletedLate, HereIsDone, OpensItsOwn, RestoresOne, CopiesForSnapshots, Running
      <3>3. MarkedFirst'
        BY <1>1, <1>5, <2>1 DEF MarkedFirst
      <3>4. Listed' /\ OnDiskIsPast'
        BY <1>1, <1>5, <2>1 DEF Listed, OnDiskIsPast, Past
      <3>5. Copied'
        BY <1>1, <2>1, <3>1 DEF Copied
      <3> QED BY <3>2, <3>3, <3>4, <3>5
    <2>4. ProcInv'
      BY <1>1, <1>5, ProcFrame DEF ProcInv, OverIsFree
    <2> QED BY <2>2, <2>3, <2>4
  <1> QED BY <1>3, <1>4, <1>5 DEF Clears

LEMMA RegistersKeeps == ASSUME PoolInv, NEW r \in Requests, Registers(r) PROVE PoolInv'
PROOF
  <1> USE DEF PoolInv
  <1> DEFINE s == reqs[r].of
  <1>1. /\ reqs[r].at = "creating" /\ procs[reqs[r].client].at = "up" /\ life.at # "down"
        /\ reqs' \in [Requests -> RequestRecords]
        /\ \A q \in Requests \ {r} : reqs'[q] = reqs[q]
        /\ reqs'[r].at = "done" /\ reqs'[r].client = 0
        /\ sessions' \in [Requests -> SessionRecords]
        /\ \A q \in Requests \ {s} : sessions'[q] = sessions[q]
        /\ UNCHANGED <<procs, pool, def, disk, removals, gc, life, used>>
    BY RegistersFacts
  <1>2. Running(r)
    BY <1>1 DEF Running
  <1>3. s \in Requests /\ (reqs[r].kind = "restore" => sessions[s].here) /\ (reqs[r].kind # "restore" => s = r)
    BY <1>2 DEF CopyInv, OpensItsOwn, RestoresOne
  <1>4. /\ sessions'[s].here /\ sessions'[s].client = reqs[r].client
        /\ sessions'[s].copy = IF reqs[r].kind = "restore" THEN sessions[s].copy ELSE reqs[r].kind = "snapshot"
    BY <1>3, RegistersFacts
  <1>5. TypeOK'
    BY <1>1, TypesNext, TypeParts
  <1>6. CopyInv'
    <2> USE DEF CopyInv
    <2>1. removals[r] = "none"
      BY <1>1 DEF DeletedLate, Ended
    <2>2. DeletedLate' /\ CopiesForSnapshots' /\ MarkedFirst'
      BY <1>1 DEF DeletedLate, CopiesForSnapshots, MarkedFirst, Ended, CopySteps
    <2>3. HereIsDone'
      <3>1. reqs'[s].at = "done"
        BY <1>1, <1>3 DEF HereIsDone
      <3> QED BY <1>1, <3>1 DEF HereIsDone
    <2>4. OpensItsOwn' /\ RestoresOne'
      BY <1>1, <1>3, <1>4 DEF OpensItsOwn, RestoresOne, Running
    <2>5. \A w \in Requests : Past(w) => Past(w)'
      BY <1>1 DEF Past, Ended
    <2>6. Listed' /\ OnDiskIsPast'
      BY <1>1, <2>5 DEF Listed, OnDiskIsPast
    <2>7. Copied'
      <3>1. sessions'[s].copy => disk[s] = "marked" /\ removals[s] = "none"
        BY <1>1, <1>3, <1>4, <2>1 DEF Copied, MarkedFirst
      <3> QED BY <1>1, <3>1 DEF Copied
    <2> QED BY <2>2, <2>3, <2>4, <2>6, <2>7
  <1>7. ProcInv'
    <2> USE DEF ProcInv
    <2>1. reqs[r].client \in Procs \cup {0} /\ pool.starting \in Procs \cup {0}
      BY TypeParts DEF RequestRecords, Pools
    <2>2. NoneStopped'
      BY <1>1, <1>3, <1>4 DEF NoneStopped
    <2>3. UpIsKnown' /\ StartIsKnown' /\ DaemonEnds'
      BY <1>1 DEF UpIsKnown, StartIsKnown, DaemonEnds
    <2>4. StartIsNew'
      BY <1>1, <1>3, <1>4 DEF StartIsNew
    <2>5. OverIsFree'
      BY <1>1 DEF OverIsFree
    <2> QED BY <2>2, <2>3, <2>4, <2>5
  <1> QED BY <1>5, <1>6, <1>7

LEMMA CreateFailsKeeps == ASSUME PoolInv, NEW r \in Requests, CreateFails(r) PROVE PoolInv'
PROOF
  <1> USE DEF PoolInv
  <1>1. /\ reqs[r].at = "creating"
        /\ reqs' \in [Requests -> RequestRecords]
        /\ \A q \in Requests \ {r} : reqs'[q] = reqs[q]
        /\ reqs'[r].at = (IF reqs[r].kind = "snapshot" THEN "discarding" ELSE "done")
        /\ reqs'[r].kind = reqs[r].kind /\ reqs'[r].of = reqs[r].of /\ reqs'[r].client = 0
        /\ UNCHANGED <<procs, pool, def, sessions, disk, removals, gc, life, used>>
    BY CreateFailsFacts
  <1>2. TypeOK'
    BY <1>1, TypesNext, TypeParts
  <1>3. CopyInv'
    BY <1>1, CopyMoves DEF Running, Ended, Early, CopySteps
  <1>4. ProcInv'
    BY <1>1, ProcFrame DEF ProcInv, OverIsFree
  <1> QED BY <1>2, <1>3, <1>4

\* A copy's deletion begins, once its request is over and its record gone.
LEMMA RemovingFacts ==
  ASSUME TypeOK, NEW ws
  PROVE  /\ Removing(ws) \in [Requests -> {"none", "removing", "failed"}]
         /\ \A q \in Requests : Removing(ws)[q] = IF q \in ws THEN "removing" ELSE removals[q]
PROOF BY TypeParts DEF Removing

LEMMA DiscardsKeeps == ASSUME PoolInv, NEW r \in Requests, Discards(r) PROVE PoolInv'
PROOF
  <1> USE DEF PoolInv
  <1>1. UNCHANGED <<procs, pool, def, sessions, disk, gc, life, used>>
    BY DEF Discards
  <1>2. CASE reqs[r].at = "removing" /\ Becomes(r, "done") /\ UNCHANGED removals
    <2>1. /\ "done" \in Steps /\ Running(r) /\ reqs[r].at \notin Clientless /\ "done" \in Ended
          /\ "done" \notin CopySteps /\ "done" \notin Early
      BY <1>2 DEF Steps, Running, Clientless, Ended, Early, CopySteps
    <2> QED BY <1>1, <1>2, <2>1, MovesKeep
  <1>3. CASE reqs[r].at = "discarding" /\ Becomes(r, "removing") /\ removals' = Removing({r})
    <2>1. "removing" \in Steps /\ "removing" \notin Ended /\ "removing" \notin Clientless
      BY DEF Steps, Ended, Clientless
    <2>2. /\ reqs' \in [Requests -> RequestRecords]
          /\ \A q \in Requests \ {r} : reqs'[q] = reqs[q]
          /\ reqs'[r].at = "removing" /\ reqs'[r].kind = reqs[r].kind /\ reqs'[r].of = reqs[r].of
          /\ reqs'[r].client = reqs[r].client
      BY <1>3, <2>1, BecomesFacts
    <2>3. /\ removals' \in [Requests -> {"none", "removing", "failed"}]
          /\ \A q \in Requests \ {r} : removals'[q] = removals[q]
      BY <1>3, RemovingFacts
    <2>4. TypeOK'
      BY <1>1, <2>2, <2>3, TypesNext, TypeParts
    <2>5. CopyInv'
      <3> USE DEF CopyInv
      <3>1. DeletedLate'
        BY <2>2, <2>3 DEF DeletedLate
      <3>2. HereIsDone' /\ ~ sessions[r].here
        BY <1>1, <1>3, <2>2 DEF HereIsDone
      <3>3. OpensItsOwn' /\ RestoresOne'
        BY <1>1, <1>3, <2>2 DEF OpensItsOwn, RestoresOne, Running
      <3>4. CopiesForSnapshots' /\ MarkedFirst'
        BY <1>1, <1>3, <2>2 DEF CopiesForSnapshots, MarkedFirst, CopySteps
      <3>5. \A w \in Requests : Past(w) => Past(w)'
        BY <1>3, <2>2 DEF Past, Ended, Early
      <3>6. Listed' /\ OnDiskIsPast'
        BY <1>1, <3>5 DEF Listed, OnDiskIsPast
      <3>7. Copied'
        BY <1>1, <2>3, <3>2 DEF Copied
      <3> QED BY <3>1, <3>2, <3>3, <3>4, <3>6, <3>7
    <2>6. ProcInv'
      <3>1. \A q \in Requests : /\ reqs'[q].client \in {0, reqs[q].client}
                                /\ reqs'[q].at \in Clientless => reqs'[q].client = 0
        BY <2>1, <2>2 DEF ProcInv, OverIsFree
      <3> QED BY <1>1, <3>1, ProcFrame
    <2> QED BY <2>4, <2>5, <2>6
  <1> QED BY <1>2, <1>3 DEF Discards

LEMMA ClosesKeeps == ASSUME PoolInv, NEW s \in Requests, Closes(s) PROVE PoolInv'
PROOF
  <1> USE DEF PoolInv
  <1>1. /\ sessions[s].here /\ Quiet(s)
        /\ sessions' = [sessions EXCEPT ![s] = NoSession]
        /\ removals' = Removing({w \in {s} : sessions[w].copy})
        /\ UNCHANGED <<procs, pool, def, reqs, disk, gc, life, used>>
    BY DEF Closes
  <1>2. NoSession \in SessionRecords /\ ~ NoSession.here /\ NoSession.client = 0
    BY DEF NoSession, SessionRecords
  <1>3. /\ sessions' \in [Requests -> SessionRecords] /\ ~ sessions'[s].here /\ sessions'[s].client = 0
        /\ \A q \in Requests \ {s} : sessions'[q] = sessions[q]
    BY <1>1, <1>2, TypeParts
  <1>4. /\ removals' \in [Requests -> {"none", "removing", "failed"}]
        /\ \A q \in Requests \ {s} : removals'[q] = removals[q]
    BY <1>1, RemovingFacts
  <1>5. TypeOK'
    BY <1>1, <1>3, <1>4, TypesNext, TypeParts
  <1>6. CopyInv'
    <2> USE DEF CopyInv
    <2>1. reqs[s].at = "done"
      BY <1>1 DEF HereIsDone
    <2>2. DeletedLate'
      BY <1>1, <1>4, <2>1 DEF DeletedLate, Ended
    <2>3. HereIsDone' /\ Copied'
      BY <1>1, <1>3, <1>4 DEF HereIsDone, Copied
    <2>4. OpensItsOwn' /\ RestoresOne'
      BY <1>1, <1>3 DEF OpensItsOwn, RestoresOne, Running, Quiet
    <2>5. CopiesForSnapshots' /\ MarkedFirst'
      BY <1>1 DEF CopiesForSnapshots, MarkedFirst
    <2>6. Listed' /\ OnDiskIsPast'
      BY <1>1 DEF Listed, OnDiskIsPast, Past
    <2> QED BY <2>2, <2>3, <2>4, <2>5, <2>6
  <1>7. ProcInv'
    BY <1>1, <1>3, ProcFrame DEF ProcInv, OverIsFree
  <1> QED BY <1>5, <1>6, <1>7

LEMMA RemovesKeeps == ASSUME PoolInv, NEW w \in Requests, Removes(w) PROVE PoolInv'
PROOF
  <1> USE DEF PoolInv
  <1>1. /\ removals[w] = "removing" /\ UNCHANGED <<procs, pool, def, reqs, sessions, gc, life>>
        /\ UNCHANGED removals \/ \E to \in {"none", "failed"} : removals' = [removals EXCEPT ![w] = to]
        /\ \/ UNCHANGED disk
           \/ disk' = [disk EXCEPT ![w] = "none"]
           \/ disk[w] = "marked" /\ disk' = [disk EXCEPT ![w] = "dir"]
    BY DEF Removes, Unmarks
  <1>2. /\ removals' \in [Requests -> {"none", "removing", "failed"}]
        /\ \A q \in Requests \ {w} : removals'[q] = removals[q]
    BY <1>1, TypeParts
  <1>3. /\ disk' \in [Requests -> {"none", "dir", "marked"}]
        /\ \A q \in Requests : \/ disk'[q] = disk[q]
                               \/ q = w /\ (disk'[q] = "none" \/ (disk'[q] = "dir" /\ disk[q] = "marked"))
    BY <1>1, TypeParts
  <1>4. TypeOK'
    BY <1>1, <1>2, <1>3, TypesNext, TypeParts
  <1>5. CopyInv'
    <2> USE DEF CopyInv
    <2>1. reqs[w].at \in Ended \cup {"removing"}
      BY <1>1 DEF DeletedLate
    <2>2. DeletedLate'
      BY <1>1, <1>2, <2>1 DEF DeletedLate
    <2>3. HereIsDone' /\ OpensItsOwn' /\ RestoresOne' /\ CopiesForSnapshots'
      BY <1>1 DEF HereIsDone, OpensItsOwn, RestoresOne, CopiesForSnapshots, Running
    <2>4. MarkedFirst'
      BY <1>1, <1>3, <2>1 DEF MarkedFirst, Ended
    <2>5. Listed' /\ OnDiskIsPast'
      BY <1>1, <1>3 DEF Listed, OnDiskIsPast, Past
    <2>6. Copied'
      BY <1>1, <1>2, <1>3 DEF Copied
    <2> QED BY <2>2, <2>3, <2>4, <2>5, <2>6
  <1>6. ProcInv'
    BY <1>1, ProcFrame DEF ProcInv, OverIsFree
  <1> QED BY <1>4, <1>5, <1>6

-----------------------------------------------------------------------------
(* The maintenance pass *)

\* The pass goes on and nothing else happens.
LEMMA PassMoves ==
  ASSUME PoolInv, gc' \in Passes, UNCHANGED <<procs, pool, def, reqs, sessions, disk, removals, life>>,
         \/ gc'.at \notin {"listed", "reclaim", "reclaiming"}
         \/ gc.at \in {"listed", "reclaim", "reclaiming"} /\ gc'.todo \subseteq gc.todo
         \/ gc'.todo \subseteq {w \in Requests : disk[w] # "none"}
  PROVE  PoolInv'
PROOF
  <1> USE DEF PoolInv
  <1>1. TypeOK'
    BY TypesNext, TypeParts
  <1>2. ProcInv'
    BY ProcFrame DEF ProcInv, OverIsFree
  <1>3. CASE gc'.todo \subseteq {w \in Requests : disk[w] # "none"}
    <2> USE DEF CopyInv
    <2>1. Listed'
      BY <1>3 DEF Listed, OnDiskIsPast, Past
    <2>2. DeletedLate' /\ HereIsDone' /\ CopiesForSnapshots' /\ MarkedFirst' /\ Copied'
      BY DEF DeletedLate, HereIsDone, CopiesForSnapshots, MarkedFirst, Copied
    <2>3. OpensItsOwn' /\ RestoresOne' /\ OnDiskIsPast'
      BY DEF OpensItsOwn, RestoresOne, Running, OnDiskIsPast, Past
    <2> QED BY <1>1, <1>2, <2>1, <2>2, <2>3
  <1>4. CASE ~ (gc'.todo \subseteq {w \in Requests : disk[w] # "none"})
    BY <1>1, <1>2, <1>4, CopyFrame
  <1> QED BY <1>3, <1>4

LEMMA PassAlone ==
  ASSUME PoolInv, Begins \/ SessionsDone \/ Retried \/ Lists \/ Reclaimed
  PROVE  PoolInv'
PROOF
  <1> USE DEF PoolInv
  <1>1. gc \in Passes /\ UNCHANGED <<procs, pool, def, reqs, sessions, disk, removals, life>>
    BY TypeParts DEF Begins, SessionsDone, Retried, Lists, Reclaimed
  <1>2. gc.todo \in SUBSET (Requests \cup Procs)
    BY <1>1 DEF Passes
  <1>3. CASE \E at \in {"sessions", "retry"}, todo \in SUBSET (Requests \cup Procs) : To(at, todo)
    <2>1. PICK at \in {"sessions", "retry"}, todo \in SUBSET (Requests \cup Procs) : To(at, todo)
      BY <1>3
    <2>2. at \in Stages
      BY DEF Stages
    <2>3. gc' \in Passes /\ gc'.at = at
      BY <1>1, <2>1, <2>2, PassFacts
    <2> QED BY <1>1, <2>3, PassMoves
  <1>4. CASE Lists
    <2>1. PICK at \in {"listed", "reclaim"}, todo \in SUBSET Requests :
            /\ To(at, todo)
            /\ \/ todo \subseteq {w \in Requests : disk[w] # "none"}
               \/ gc.at = "listed" /\ todo \subseteq gc.todo
      <3>1. CASE gc.at = "listing"
        BY <1>4, <3>1 DEF Lists
      <3>2. CASE gc.at = "listed"
        <4>1. gc.todo \subseteq Requests
          BY <3>2 DEF CopyInv, Listed
        <4>2. To("reclaim", {w \in gc.todo : disk[w] = "marked"})
          BY <1>4, <3>2 DEF Lists
        <4> QED BY <3>2, <4>1, <4>2
      <3> QED BY <1>4, <3>1, <3>2 DEF Lists
    <2>2. at \in Stages /\ todo \in SUBSET (Requests \cup Procs)
      BY DEF Stages
    <2>3. gc' \in Passes /\ gc'.at = at /\ gc'.todo = todo
      BY <1>1, <2>1, <2>2, PassFacts
    <2> QED BY <1>1, <2>1, <2>3, PassMoves
  <1>5. CASE Reclaimed
    <2>1. gc.at = "reclaiming" /\ To("reclaim", gc.todo) /\ "reclaim" \in Stages
      BY <1>5 DEF Reclaimed, Removed, Stages
    <2>2. gc' \in Passes /\ gc'.at = "reclaim" /\ gc'.todo = gc.todo
      BY <1>1, <1>2, <2>1, PassFacts
    <2> QED BY <1>1, <2>1, <2>2, PassMoves
  <1>6. {w \in Requests : removals[w] # "none"} \in SUBSET (Requests \cup Procs) /\ {} \in SUBSET (Requests \cup Procs)
    OBVIOUS
  <1> QED BY <1>2, <1>3, <1>4, <1>5, <1>6 DEF Begins, SessionsDone, Retried

\* A copy nobody refers to, or one whose deletion failed, is deleted.
LEMMA DeletionKeeps ==
  ASSUME PoolInv, NEW w \in Requests, NEW at \in {"retrying", "reclaiming"}, Awaits(at, w), removals' = Removing({w}),
         UNCHANGED <<procs, pool, def, reqs, sessions, disk, life>>,
         at = "reclaiming" => gc.at = "reclaim",
         reqs[w].at \in Ended \cup {"removing"}, ~ (sessions[w].here /\ sessions[w].copy)
  PROVE  PoolInv'
PROOF
  <1> USE DEF PoolInv
  <1>1. gc \in Passes /\ at \in Stages
    BY TypeParts DEF Stages
  <1>2. gc' \in Passes /\ gc'.at = at /\ gc'.todo \subseteq gc.todo
    BY <1>1, PassFacts
  <1>3. /\ removals' \in [Requests -> {"none", "removing", "failed"}]
        /\ \A q \in Requests \ {w} : removals'[q] = removals[q]
    BY RemovingFacts
  <1>4. TypeOK'
    BY <1>2, <1>3, TypesNext, TypeParts
  <1>5. CopyInv'
    <2> USE DEF CopyInv
    <2>1. DeletedLate' /\ Copied'
      BY <1>3 DEF DeletedLate, Copied
    <2>2. HereIsDone' /\ OpensItsOwn' /\ RestoresOne' /\ CopiesForSnapshots' /\ MarkedFirst'
      BY DEF HereIsDone, OpensItsOwn, RestoresOne, CopiesForSnapshots, MarkedFirst, Running
    <2>3. Listed' /\ OnDiskIsPast'
      BY <1>2 DEF Listed, OnDiskIsPast, Past
    <2> QED BY <2>1, <2>2, <2>3
  <1>6. ProcInv'
    BY ProcFrame DEF ProcInv, OverIsFree
  <1> QED BY <1>4, <1>5, <1>6

LEMMA RetriesKeeps == ASSUME PoolInv, Retries PROVE PoolInv'
PROOF
  <1> USE DEF PoolInv
  <1>1. gc \in Passes /\ UNCHANGED <<procs, pool, def, reqs, sessions, disk, life>>
    BY TypeParts DEF Retries
  <1>2. CASE UNCHANGED removals /\ \E at \in {"listing", "current", "retry"}, todo \in SUBSET (Requests \cup Procs) : To(at, todo)
    <2>1. PICK at \in {"listing", "current", "retry"}, todo \in SUBSET (Requests \cup Procs) : To(at, todo)
      BY <1>2
    <2>2. at \in Stages
      BY DEF Stages
    <2>3. gc' \in Passes /\ gc'.at = at
      BY <1>1, <2>1, <2>2, PassFacts
    <2> QED BY <1>1, <1>2, <2>3, PassMoves
  <1>3. ASSUME NEW w \in gc.todo, ToRetry(w), removals' = Removing({w}), Awaits("retrying", w) PROVE PoolInv'
    <2>1. removals[w] = "failed"
      BY <1>3 DEF ToRetry
    <2>2. CASE w \in Requests
      <3>1. reqs[w].at \in Ended \cup {"removing"} /\ ~ (sessions[w].here /\ sessions[w].copy)
        BY <2>1, <2>2 DEF CopyInv, DeletedLate, Copied
      <3> QED BY <1>1, <1>3, <2>2, <3>1, DeletionKeeps
    <2>3. CASE w \notin Requests
      <3>1. removals' = removals
        <4>1. removals' \in [Requests -> {"none", "removing", "failed"}]
          BY <1>3, RemovingFacts
        <4>2. \A q \in Requests : removals'[q] = removals[q]
          BY <1>3, <2>3, RemovingFacts
        <4> QED BY <4>1, <4>2, TypeParts
      <3>2. w \in Requests \cup Procs \cup {0} /\ "retrying" \in Stages
        BY <1>1 DEF Passes, Stages
      <3>3. gc' \in Passes /\ gc'.at = "retrying"
        BY <1>1, <1>3, <3>2, PassFacts
      <3> QED BY <1>1, <3>1, <3>3, PassMoves
    <2> QED BY <2>2, <2>3
  <1>4. \A w : gc.todo \ {w} \in SUBSET (Requests \cup Procs)
    BY <1>1 DEF Passes
  <1> QED BY <1>2, <1>3, <1>4 DEF Retries

LEMMA ReclaimsKeeps == ASSUME PoolInv, Reclaims PROVE PoolInv'
PROOF
  <1> USE DEF PoolInv
  <1>1. gc \in Passes /\ gc.at = "reclaim" /\ UNCHANGED <<procs, pool, def, reqs, sessions, disk, life>>
    BY TypeParts DEF Reclaims
  <1>2. CASE UNCHANGED removals /\ To("current", {})
    <2>1. gc' \in Passes /\ gc'.at = "current"
      BY <1>1, <1>2, PassFacts DEF Stages
    <2> QED BY <1>1, <1>2, <2>1, PassMoves
  <1>3. ASSUME NEW w \in gc.todo, UNCHANGED removals, To("reclaim", gc.todo \ {w}) PROVE PoolInv'
    <2>1. gc.todo \ {w} \in SUBSET (Requests \cup Procs) /\ "reclaim" \in Stages
      BY <1>1 DEF Passes, Stages
    <2>2. gc' \in Passes /\ gc'.at = "reclaim" /\ gc'.todo \subseteq gc.todo
      BY <1>1, <1>3, <2>1, PassFacts
    <2> QED BY <1>1, <1>3, <2>2, PassMoves
  <1>4. ASSUME NEW w \in gc.todo, MayReclaim(w), removals' = Removing({w}), Awaits("reclaiming", w) PROVE PoolInv'
    <2>1. w \in Requests /\ Past(w)
      BY <1>1 DEF CopyInv, Listed
    <2>2. ~ sessions[w].here /\ WorkspaceOpens = {}
      BY <1>4 DEF MayReclaim
    \* No open is under way, so the request of this copy is over.
    <2>3. reqs[w].at \in Ended
      BY <2>1, <2>2 DEF Past, WorkspaceOpens, Running, Ended, Early
    <2> QED BY <1>1, <1>4, <2>1, <2>2, <2>3, DeletionKeeps
  <1> QED BY <1>2, <1>3, <1>4 DEF Reclaims

\* A process nobody has, and nobody is about to have, is not in use.
LEMMA UnusedFacts ==
  ASSUME PoolInv, NEW ss, NEW p, p # 0, ~ InUse(ss, p)
  PROVE  \A q \in Requests : ss[q].client # p /\ reqs[q].client # p
PROOF
  <1>1. \A q \in Requests : ss[q].client # p /\ ~ Running(q)
    BY DEF InUse
  <1>2. \A q \in Requests : reqs[q].client = 0
    BY <1>1 DEF Running, PoolInv, ProcInv, OverIsFree, Clientless, Ended
  <1> QED BY <1>1, <1>2

LEMMA UnloadsKeeps == ASSUME PoolInv, NEW s \in Requests, Unloads(s) PROVE PoolInv'
PROOF
  <1> USE DEF PoolInv
  <1> DEFINE p == sessions[s].client
             after == [sessions EXCEPT ![s].client = 0]
  <1>1. /\ gc.at = "sessions" /\ Alive(p) /\ sessions' = after
        /\ UNCHANGED <<pool, def, reqs, disk, removals, life, used>>
        /\ IF InUse(after, p) THEN UNCHANGED <<procs, gc>> ELSE procs' = Stopping({p}) /\ Awaits("unloading", p)
    BY DEF Unloads
  <1>2. /\ sessions' \in [Requests -> SessionRecords]
        /\ \A q \in Requests : /\ sessions'[q].here = sessions[q].here /\ sessions'[q].copy = sessions[q].copy
                               /\ sessions'[q].client \in {0, sessions[q].client}
    BY <1>1, SessionFacts
  <1>3. gc \in Passes /\ p \in Requests \cup Procs \cup {0} /\ "unloading" \in Stages
    BY TypeParts DEF SessionRecords, Stages
  <1> HIDE DEF p, after
  <1>4. CASE InUse(after, p)
    <2>1. TypeOK'
      BY <1>1, <1>2, <1>4, TypesNext, TypeParts
    <2>2. CopyInv'
      BY <1>1, <1>2, <1>4, CopyFrame
    <2>3. ProcInv'
      BY <1>1, <1>2, <1>4, ProcFrame DEF ProcInv, OverIsFree
    <2> QED BY <2>1, <2>2, <2>3
  <1>5. CASE ~ InUse(after, p)
    <2>1. procs' = Stopping({p}) /\ gc' \in Passes /\ gc'.at = "unloading"
      BY <1>1, <1>3, <1>5, PassFacts
    <2>2. TypeOK'
      BY <1>1, <1>2, <2>1, StoppingFacts, TypesNext, TypeParts
    <2>3. CopyInv'
      BY <1>1, <1>2, <2>1, CopyFrame
    <2>4. \A q \in Requests : reqs[q].client # p /\ sessions'[q].client # p
      BY <1>1, <1>5, UnusedFacts DEF Alive
    <2>5. ProcInv'
      BY <1>1, <1>2, <2>1, <2>4, ProcStops
    <2> QED BY <2>2, <2>3, <2>5
  <1> QED BY <1>4, <1>5

\* The process the pass stopped is gone, and forgotten.
LEMMA StoppedKeeps == ASSUME PoolInv, Unloaded \/ CurrentStopped \/ RetiredStopped PROVE PoolInv'
PROOF
  <1> USE DEF PoolInv
  <1> DEFINE p == gc.one
  <1>1. /\ procs[p].at = "gone"
        /\ UNCHANGED <<procs, def, reqs, sessions, disk, removals, life, used>>
        /\ \E at \in {"sessions", "retired"}, todo \in {{}, pool.retired, gc.todo} : To(at, todo)
        /\ \/ pool' = [Forget(p) EXCEPT !.retired = @ \ {p}]
           \/ pool' = Forget(p)
           \/ pool' = pool
    BY DEF Unloaded, CurrentStopped, RetiredStopped, Stopped
  <1>2. gc \in Passes /\ pool \in Pools
    BY TypeParts
  <1>3. {{}, pool.retired, gc.todo} \subseteq SUBSET (Requests \cup Procs) /\ {"sessions", "retired"} \subseteq Stages
    BY <1>2 DEF Passes, Pools, Stages
  <1>4. gc' \in Passes /\ gc'.at \notin {"listed", "reclaim", "reclaiming"}
    BY <1>1, <1>2, <1>3, PassFacts
  <1>5. /\ Forget(p) \in Pools /\ Forget(p).current = IF pool.current = p THEN 0 ELSE pool.current
        /\ Forget(p).retired = pool.retired /\ Forget(p).starting = pool.starting
    BY <1>2, RetireFacts
  <1>6. /\ pool' \in Pools /\ pool'.starting = pool.starting
        /\ pool'.current = pool.current \/ (pool.current = p /\ pool'.current = 0)
        /\ pool'.retired \in {pool.retired, pool.retired \ {p}}
    <2>1. CASE pool' = [Forget(p) EXCEPT !.retired = @ \ {p}]
      <3>1. pool' = [Forget(p) EXCEPT !.retired = Forget(p).retired \ {p}]
        BY <2>1
      <3>2. /\ pool' \in Pools /\ pool'.starting = Forget(p).starting /\ pool'.current = Forget(p).current
            /\ pool'.retired = Forget(p).retired \ {p}
        BY <1>5, <3>1, PoolFacts
      <3> QED BY <1>5, <3>2
    <2>2. CASE pool' = Forget(p) \/ pool' = pool
      BY <1>2, <1>5, <2>2
    <2> QED BY <1>1, <2>1, <2>2
  <1> HIDE DEF p
  <1>7. TypeOK'
    BY <1>1, <1>4, <1>6, TypesNext, TypeParts
  <1>8. CopyInv'
    BY <1>1, <1>4, CopyFrame
  <1>9. ProcInv'
    <2> USE DEF ProcInv
    <2>1. NoneStopped' /\ OverIsFree' /\ StartIsKnown'
      BY <1>1, <1>6 DEF NoneStopped, OverIsFree, StartIsKnown
    <2>2. UpIsKnown'
      BY <1>1, <1>6 DEF UpIsKnown
    <2>3. StartIsNew'
      BY <1>1, <1>6 DEF StartIsNew
    <2>4. DaemonEnds'
      BY <1>1, <1>6 DEF DaemonEnds
    <2> QED BY <2>1, <2>2, <2>3, <2>4
  <1> QED BY <1>7, <1>8, <1>9

LEMMA StopsCurrentKeeps == ASSUME PoolInv, StopsCurrent PROVE PoolInv'
PROOF
  <1> USE DEF PoolInv
  <1>1. gc \in Passes /\ pool \in Pools /\ UNCHANGED <<pool, def, reqs, sessions, disk, removals, life, used>>
    BY TypeParts DEF StopsCurrent
  <1>2. pool.retired \in SUBSET (Requests \cup Procs) /\ pool.current \in Requests \cup Procs \cup {0}
        /\ {"retired", "stopping"} \subseteq Stages
    BY <1>1 DEF Pools, Stages
  <1>3. CASE pool.current = 0 \/ InUse(sessions, pool.current)
    <2>1. UNCHANGED procs /\ gc' \in Passes /\ gc'.at = "retired"
      BY <1>1, <1>2, <1>3, PassFacts DEF StopsCurrent
    <2> QED BY <1>1, <2>1, PassMoves
  <1>4. CASE ~ (pool.current = 0 \/ InUse(sessions, pool.current))
    <2>1. procs' = Stopping({pool.current}) /\ gc' \in Passes /\ gc'.at = "stopping"
      BY <1>1, <1>2, <1>4, PassFacts DEF StopsCurrent
    <2>2. TypeOK'
      BY <1>1, <2>1, StoppingFacts, TypesNext, TypeParts
    <2>3. CopyInv'
      BY <1>1, <2>1, CopyFrame
    <2>4. \A q \in Requests : reqs[q].client # pool.current /\ sessions[q].client # pool.current
      BY <1>4, UnusedFacts
    <2>5. ProcInv'
      BY <1>1, <2>1, <2>4, ProcStops
    <2> QED BY <2>2, <2>3, <2>5
  <1> QED BY <1>3, <1>4

LEMMA StopsRetiredKeeps == ASSUME PoolInv, StopsRetired PROVE PoolInv'
PROOF
  <1> USE DEF PoolInv
  <1>1. gc \in Passes /\ pool \in Pools /\ gc.at = "retired"
        /\ UNCHANGED <<def, reqs, sessions, disk, removals, life, used>>
    BY TypeParts DEF StopsRetired
  <1>2. CASE gc' = NoPass /\ UNCHANGED <<procs, pool>>
    <2>1. NoPass \in Passes /\ NoPass.at = "idle"
      BY DEF NoPass, Passes, Stages
    <2> QED BY <1>1, <1>2, <2>1, PassMoves
  <1>3. ASSUME NEW p \in gc.todo, To("retired", gc.todo \ {p}), UNCHANGED <<procs, pool>> PROVE PoolInv'
    <2>1. gc.todo \ {p} \in SUBSET (Requests \cup Procs) /\ "retired" \in Stages
      BY <1>1 DEF Passes, Stages
    <2>2. gc' \in Passes /\ gc'.at = "retired"
      BY <1>1, <1>3, <2>1, PassFacts
    <2> QED BY <1>1, <1>3, <2>2, PassMoves
  <1>4. ASSUME NEW p \in gc.todo, ~ (Alive(p) /\ InUse(sessions, p)),
               procs' = Stopping({p}), Awaits("retiring", p),
               pool' = [pool EXCEPT !.retired = @ \ {p}]
        PROVE  PoolInv'
    <2>1. p \in Requests \cup Procs \cup {0} /\ "retiring" \in Stages
      BY <1>1 DEF Passes, Stages
    <2>2. gc' \in Passes /\ gc'.at = "retiring"
      BY <1>1, <1>4, <2>1, PassFacts
    <2>3. /\ pool' \in Pools /\ pool'.retired = pool.retired \ {p}
          /\ pool'.current = pool.current /\ pool'.starting = pool.starting
      BY <1>1, <1>4, PoolFacts
    <2>4. TypeOK'
      BY <1>1, <1>4, <2>2, <2>3, StoppingFacts, TypesNext, TypeParts
    <2>5. CopyInv'
      BY <1>1, <2>2, CopyFrame
    <2>6. \A q \in Procs : procs'[q].at = IF q = p /\ Alive(q) THEN "stopping" ELSE procs[q].at
      BY <1>4, StoppingFacts
    <2>7. Alive(p) => \A q \in Requests : reqs[q].client # p /\ sessions[q].client # p
      BY <1>4, UnusedFacts DEF Alive
    <2>8. \A q \in Requests : reqs[q].client \in Procs \cup {0} /\ sessions[q].client \in Procs \cup {0}
      BY TypeParts DEF RequestRecords, SessionRecords
    <2>9. pool.current \in Procs \cup {0} /\ pool.starting \in Procs \cup {0}
      BY <1>1 DEF Pools
    <2>10. ProcInv'
      <3> USE DEF ProcInv
      <3>1. NoneStopped'
        BY <1>1, <2>6, <2>7, <2>8 DEF NoneStopped
      <3>2. UpIsKnown'
        <4> SUFFICES ASSUME NEW q \in Procs, procs'[q].at = "up"
                     PROVE  q = pool'.current \/ q \in pool'.retired
          BY DEF UpIsKnown
        <4>1. procs[q].at = "up" /\ ~ (q = p /\ Alive(q))
          BY <2>6
        <4>2. q # p
          BY <4>1 DEF Alive, Procs
        <4> QED BY <2>3, <4>1, <4>2 DEF UpIsKnown
      <3>3. StartIsKnown'
        BY <2>3, <2>6 DEF StartIsKnown
      <3>4. StartIsNew'
        BY <1>1, <2>3, <2>6, <2>9 DEF StartIsNew
      <3>5. OverIsFree'
        BY <1>1 DEF OverIsFree
      <3>6. DaemonEnds'
        BY <1>1, <2>3, <2>6 DEF DaemonEnds, Alive
      <3> QED BY <3>1, <3>2, <3>3, <3>4, <3>5, <3>6
    <2> QED BY <2>4, <2>5, <2>10
  <1> QED BY <1>2, <1>3, <1>4 DEF StopsRetired

LEMMA PassKeeps == ASSUME PoolInv, Pass PROVE PoolInv'
PROOF BY PassAlone, UnloadsKeeps, RetriesKeeps, ReclaimsKeeps, StoppedKeeps, StopsCurrentKeeps, StopsRetiredKeeps DEF Pass

-----------------------------------------------------------------------------
(* The daemon *)

LEMMA ShutsDownKeeps == ASSUME PoolInv, ShutsDown PROVE PoolInv'
PROOF
  <1> USE DEF PoolInv
  <1>1. life \in Lives /\ life.at = "up" /\ life' = [life EXCEPT !.at = "draining"]
        /\ UNCHANGED <<procs, pool, def, reqs, sessions, disk, removals, gc>>
    BY TypeParts DEF ShutsDown
  <1>2. life' \in Lives /\ life'.at = "draining" /\ life'.left = life.left
    BY <1>1 DEF Lives
  <1>3. TypeOK'
    BY <1>1, <1>2, TypesNext, TypeParts
  <1>4. CopyInv'
    BY <1>1, CopyFrame
  <1>5. ProcInv'
    <2> USE DEF ProcInv
    <2>1. NoneStopped' /\ OverIsFree'
      BY <1>1, <1>2 DEF NoneStopped, OverIsFree
    <2>2. UpIsKnown' /\ StartIsKnown' /\ StartIsNew'
      BY <1>1 DEF UpIsKnown, StartIsKnown, StartIsNew
    <2>3. DaemonEnds'
      BY <1>1, <1>2 DEF DaemonEnds
    <2> QED BY <2>1, <2>2, <2>3
  <1> QED BY <1>3, <1>4, <1>5

\* Nothing starts any more once the daemon stops its clients.
LEMMA StopsAllKeeps == ASSUME PoolInv, StopsAll PROVE PoolInv'
PROOF
  <1> USE DEF PoolInv
  <1> DEFINE ps == pool.retired \cup {pool.current}
  <1>1. life \in Lives /\ life' = [life EXCEPT !.at = "stopping"] /\ pool.starting = 0
        /\ procs' = Stopping(ps)
        /\ UNCHANGED <<pool, def, reqs, sessions, disk, removals, gc>>
    BY TypeParts DEF StopsAll, StartsLanded
  <1>2. life' \in Lives /\ life'.at = "stopping" /\ life'.left = life.left
    BY <1>1 DEF Lives
  <1>3. /\ procs' \in [Procs -> ProcRecords]
        /\ \A p \in Procs : procs'[p].at = IF p \in ps /\ Alive(p) THEN "stopping" ELSE procs[p].at
    BY <1>1, StoppingFacts
  <1> HIDE DEF ps
  <1>4. TypeOK'
    BY <1>1, <1>2, <1>3, TypesNext, TypeParts
  <1>5. CopyInv'
    BY <1>1, CopyFrame
  <1>6. ProcInv'
    <2> USE DEF ProcInv
    <2>1. NoneStopped' /\ OverIsFree'
      BY <1>1, <1>2 DEF NoneStopped, OverIsFree
    <2>2. UpIsKnown' /\ StartIsKnown' /\ StartIsNew'
      BY <1>1, <1>3 DEF UpIsKnown, StartIsKnown, StartIsNew
    <2>3. DaemonEnds'
      BY <1>1, <1>2 DEF DaemonEnds
    <2> QED BY <2>1, <2>2, <2>3
  <1> QED BY <1>4, <1>5, <1>6

\* A daemon is gone, with every process it had: what it wrote is there.
LEMMA DownKeeps ==
  ASSUME PoolInv, NEW kept \in SUBSET Here, Down(kept, {})
  PROVE  PoolInv'
PROOF
  <1> USE DEF PoolInv
  <1>1. kept \in SUBSET Requests /\ \A s \in kept : sessions[s].here
    BY DEF Here
  <1>2. /\ life' \in Lives /\ life'.at = "down" /\ life'.left = {}
        /\ procs' \in [Procs -> ProcRecords] /\ \A p \in Procs : procs'[p].at = "gone"
        /\ pool' \in Pools /\ pool'.current = 0 /\ pool'.retired = {} /\ pool'.starting = 0
        /\ reqs' \in [Requests -> RequestRecords]
        /\ \A r \in Requests :
             /\ reqs[r].at = "idle" => reqs'[r] = reqs[r]
             /\ reqs[r].at # "idle" => reqs'[r].at \in Ended /\ reqs'[r].client = 0
                                       /\ (r \in kept => reqs'[r].at = "done")
        /\ sessions' \in [Requests -> SessionRecords]
        /\ \A s \in Requests :
             /\ sessions'[s].client = 0
             /\ s \in kept => sessions'[s].here = sessions[s].here /\ sessions'[s].copy = sessions[s].copy
             /\ s \notin kept => ~ sessions'[s].here
        /\ removals' \in [Requests -> {"none", "removing", "failed"}]
        /\ \A r \in Requests : removals'[r] = "none"
        /\ gc' \in Passes /\ gc'.at = "idle"
        /\ UNCHANGED <<def, disk>>
    BY <1>1, DownFacts, ZenonT(40)
  <1>3. TypeOK'
    BY <1>2, TypesNext, TypeParts
  <1>4. \A r \in Requests : ~ Running(r)'
    BY <1>2 DEF Running, Ended
  <1>5. \A r \in Requests : reqs'[r].at \in {"idle"} \cup Ended
    BY <1>2
  <1>6. CopyInv'
    <2> USE DEF CopyInv
    <2>1. DeletedLate'
      BY <1>2 DEF DeletedLate
    <2>2. HereIsDone'
      <3> SUFFICES ASSUME NEW s \in Requests, sessions'[s].here PROVE reqs'[s].at = "done"
        BY DEF HereIsDone
      <3>1. s \in kept /\ reqs[s].at = "done"
        BY <1>1, <1>2 DEF HereIsDone
      <3> QED BY <1>2, <3>1
    <2>3. OpensItsOwn' /\ RestoresOne'
      BY <1>4 DEF OpensItsOwn, RestoresOne
    <2>4. CopiesForSnapshots' /\ MarkedFirst'
      BY <1>5 DEF CopiesForSnapshots, MarkedFirst, CopySteps, Ended
    <2>5. Listed'
      BY <1>2 DEF Listed
    <2>6. OnDiskIsPast'
      BY <1>2 DEF OnDiskIsPast, Past, Early
    <2>7. Copied'
      BY <1>1, <1>2 DEF Copied
    <2> QED BY <2>1, <2>2, <2>3, <2>4, <2>5, <2>6, <2>7
  <1>7. ProcInv'
    <2> USE DEF ProcInv
    <2>1. NoneStopped' /\ UpIsKnown' /\ StartIsKnown' /\ StartIsNew' /\ DaemonEnds'
      BY <1>2 DEF NoneStopped, UpIsKnown, StartIsKnown, StartIsNew, DaemonEnds
    <2>2. OverIsFree'
      BY <1>2 DEF OverIsFree, Clientless
    <2> QED BY <2>1, <2>2
  <1> QED BY <1>3, <1>6, <1>7

\* A shutdown ends with no process left: each was in the pool, and is gone.
LEMMA LeavesKeeps == ASSUME PoolInv, Leaves PROVE PoolInv'
PROOF
  <1>1. life.at = "stopping" /\ \A p \in pool.retired \cup {pool.current} : p # 0 => procs[p].at = "gone"
    BY DEF Leaves
  <1>2. pool.starting = 0
    BY <1>1 DEF PoolInv, ProcInv, DaemonEnds
  <1>3. \A p \in Procs : p # 0
    BY DEF Procs
  <1>4. \A p \in Procs : ~ Alive(p)
    BY <1>1, <1>2, <1>3 DEF PoolInv, ProcInv, UpIsKnown, StartIsKnown, Alive
  <1>5. Down(Here, {})
    <2>1. {p \in Procs : Alive(p)} = {}
      BY <1>4
    <2> QED BY <2>1 DEF Leaves
  <1> QED BY <1>5, DownKeeps

LEMMA DiesKeeps == ASSUME PoolInv, Dies PROVE PoolInv'
PROOF BY DownKeeps DEF Dies

LEMMA RestartsKeeps == ASSUME PoolInv, Restarts PROVE PoolInv'
PROOF
  <1> USE DEF PoolInv
  <1>1. /\ life.at = "down" /\ life' = [at |-> "up", left |-> {}] /\ To("sessions", {})
        /\ UNCHANGED <<procs, pool, def, reqs, sessions, disk, removals>>
    BY DEF Restarts
  <1>2. gc \in Passes /\ "sessions" \in Stages /\ {} \in SUBSET (Requests \cup Procs)
    BY TypeParts DEF Stages
  <1>3. gc' \in Passes /\ gc'.at = "sessions"
    BY <1>1, <1>2, PassFacts
  <1>4. life' \in Lives /\ life'.at = "up" /\ life'.left = {}
    BY <1>1 DEF Lives
  <1>5. TypeOK'
    BY <1>1, <1>3, <1>4, TypesNext, TypeParts
  <1>6. CopyInv'
    BY <1>1, <1>3, CopyFrame
  <1>7. ProcInv'
    <2> USE DEF ProcInv
    <2>1. \A p \in Procs : procs[p].at = "gone"
      BY <1>1 DEF DaemonEnds
    <2>2. \A r \in Requests : reqs[r].client \in Procs \cup {0} /\ sessions[r].client \in Procs \cup {0}
      BY TypeParts DEF RequestRecords, SessionRecords
    <2>3. NoneStopped'
      BY <1>1, <2>1, <2>2 DEF NoneStopped
    <2>4. UpIsKnown' /\ StartIsKnown' /\ StartIsNew' /\ OverIsFree'
      BY <1>1 DEF UpIsKnown, StartIsKnown, StartIsNew, OverIsFree
    <2>5. DaemonEnds'
      BY <1>4 DEF DaemonEnds
    <2> QED BY <2>3, <2>4, <2>5
  <1> QED BY <1>5, <1>6, <1>7

-----------------------------------------------------------------------------
(* The invariant *)

LEMMA StartInv == Init => PoolInv
PROOF
  <1> SUFFICES ASSUME Init PROVE PoolInv
    OBVIOUS
  <1>1. /\ \A p \in Procs : procs[p].at = "gone"
        /\ pool.current = 0 /\ pool.starting = 0
        /\ \A r \in Requests : /\ reqs[r].at = "idle" /\ reqs[r].client = 0
                               /\ ~ sessions[r].here /\ sessions[r].client = 0
                               /\ disk[r] = "none" /\ removals[r] = "none"
        /\ gc.at = "idle" /\ life.at = "up" /\ life.left = {}
    BY DEF Init, Empty, NoRequest, NoSession, NoPass
  <1>2. TypeOK
    BY StartTypes
  <1>3. CopyInv
    BY <1>1 DEF CopyInv, DeletedLate, HereIsDone, OpensItsOwn, RestoresOne, CopiesForSnapshots, MarkedFirst,
                Listed, OnDiskIsPast, Copied, Running, CopySteps
  <1>4. ProcInv
    BY <1>1 DEF ProcInv, NoneStopped, UpIsKnown, StartIsKnown, StartIsNew, OverIsFree, DaemonEnds
  <1> QED BY <1>2, <1>3, <1>4 DEF PoolInv

LEMMA StepInv == PoolInv /\ [Next]_vars => PoolInv'
PROOF
  <1> SUFFICES ASSUME PoolInv, [Next]_vars PROVE PoolInv'
    OBVIOUS
  <1>1. ASSUME NEW r \in Requests, Opens(r) PROVE PoolInv'
    BY <1>1, OpensKeeps
  <1>2. ASSUME NEW r \in Requests, NEW s \in Requests, Restores(r, s) PROVE PoolInv'
    BY <1>2, OpensKeeps
  <1>3. ASSUME NEW r \in Requests, Request(r) PROVE PoolInv'
    BY <1>3, GetsClientKeeps, MeasuresKeeps, CopiesKeeps, CopyFailsKeeps, ClearsKeeps, RegistersKeeps,
       CreateFailsKeeps, DiscardsKeeps DEF Request
  <1>4. ASSUME NEW r \in Requests, Removes(r) \/ Closes(r) \/ ExitLocked(r) PROVE PoolInv'
    BY <1>4, RemovesKeeps, ClosesKeeps, ExitLockedKeeps
  <1>5. ASSUME NEW p \in Procs, Starts(p) \/ Ends(p) \/ Exits(p) PROVE PoolInv'
    BY <1>5, StartsKeeps, EndsKeeps
  <1>6. CASE Updates \/ Begins \/ Pass
    BY <1>6, UpdatesKeeps, PassAlone, PassKeeps
  <1>7. CASE ShutsDown \/ StopsAll \/ Leaves \/ Dies \/ Restarts
    BY <1>7, ShutsDownKeeps, StopsAllKeeps, LeavesKeeps, DiesKeeps, RestartsKeeps
  <1>8. CASE UNCHANGED vars
    BY <1>8 DEF vars, PoolInv, TypeOK, CopyInv, DeletedLate, HereIsDone, OpensItsOwn, RestoresOne,
                CopiesForSnapshots, MarkedFirst, Listed, OnDiskIsPast, Copied, Running, Past, ProcInv,
                NoneStopped, UpIsKnown, StartIsKnown, StartIsNew, OverIsFree, DaemonEnds
  <1> QED BY <1>1, <1>2, <1>3, <1>4, <1>5, <1>6, <1>7, <1>8 DEF Next

LEMMA PoolStands == Spec => []PoolInv
PROOF BY StartInv, StepInv, PTL DEF Spec

\* For any number of requests, processes, updates, failures and deaths: no process
\* is stopped while a session, or an open or restore, has it; every process that
\* runs is known to the pool; and a shutdown leaves none untold (getClient,
\* #clientInUse, #runMaintenance, unloadSession, shutdown).
THEOREM ProvidersKept == Spec => []ProvidersAreKept
PROOF
  <1>1. PoolInv => ProvidersAreKept
    BY DEF PoolInv, ProcInv, NoneStopped, UpIsKnown, StartIsKnown, DaemonEnds, ProvidersAreKept
  <1> QED BY <1>1, PoolStands, PTL

\* For any number of opens, closes, deletes that fail and maintenance passes: a
\* session's copy is on disk and marked, and nobody deletes it, nor that of an
\* open on its way (createSnapshot, #reconcileWorkspaces, removeSnapshot).
THEOREM CopiesKept == Spec => []CopiesAreKept
PROOF
  <1>1. ASSUME PoolInv PROVE CopiesAreKept
    <2>1. \A s \in Here : sessions[s].copy => disk[s] = "marked" /\ removals[s] = "none"
      BY <1>1 DEF PoolInv, CopyInv, Copied, Here
    <2>2. \A r \in Requests : reqs[r].at \in {"marking", "copying", "creating", "discarding"} => removals[r] = "none"
      BY <1>1 DEF PoolInv, CopyInv, DeletedLate, Ended, TypeOK
    <2> QED BY <2>1, <2>2 DEF CopiesAreKept
  <1> QED BY <1>1, PoolStands, PTL

-----------------------------------------------------------------------------
(* The budget of the copies *)

\* The steps at which a snapshot open has been let in and is not over.
Underway == {"making", "marking", "copying", "clearing", "creating", "discarding", "removing"}

\* The copies the daemon answers for: those of its sessions, those on their way,
\* and those on disk that are being deleted; not what a dead daemon, or a failed
\* clean-up, left behind.
Owns(w) ==
  /\ reqs[w].at # "left"
  /\ \/ sessions[w].here /\ sessions[w].copy
     \/ reqs[w].kind = "snapshot" /\ reqs[w].at \in Underway
     \/ removals[w] # "none" /\ disk[w] # "none"
Owned == {w \in Requests : Owns(w)}

\* A copy on disk whose open is over, or waits for its deletion, is a session's or
\* one being deleted: nothing on disk escapes the count.
Accounted ==
  \A w \in Requests : disk[w] # "none" /\ reqs[w].at \in {"done", "removing"} =>
    IF sessions[w].here THEN sessions[w].copy ELSE removals[w] # "none"

BudgetInv == Accounted /\ Cardinality(Owned) <= MaxCopies

\* Every copy the budget limits is one the daemon answers for.
LEMMA OnDiskIsOwned ==
  ASSUME PoolInv, Accounted
  PROVE  \A w \in Requests : disk[w] # "none" /\ reqs[w].at # "left" => Owns(w)
PROOF
  <1> SUFFICES ASSUME NEW w \in Requests, disk[w] # "none", reqs[w].at # "left" PROVE Owns(w)
    OBVIOUS
  <1>1. reqs[w].at = "done" \/ (reqs[w].kind = "snapshot" /\ reqs[w].at \notin Early \cup Ended)
    BY DEF PoolInv, CopyInv, OnDiskIsPast, Past, Ended
  <1>2. CASE reqs[w].at = "done"
    BY <1>2 DEF Accounted, Owns
  <1>3. CASE reqs[w].kind = "snapshot" /\ reqs[w].at \notin Early \cup Ended
    <2>1. reqs[w].at \in Steps
      BY TypeParts DEF PoolInv, RequestRecords
    <2> QED BY <1>3, <2>1 DEF Owns, Underway, Steps, Early, Ended
  <1> QED BY <1>1, <1>2, <1>3

\* A step after which the daemon answers for no other copy.
LEMMA OwnsNoMore ==
  ASSUME BudgetInv, Accounted', \A w \in Requests : Owns(w)' => Owns(w)
  PROVE  BudgetInv'
PROOF
  <1>1. Owned' \in SUBSET Owned
    BY DEF Owned
  <1>2. Owned \in SUBSET Requests /\ IsFiniteSet(Requests) /\ MaxCopies \in Nat
    BY PoolAssumption DEF Owned
  <1>3. IsFiniteSet(Owned)
    BY <1>2, FS_Subset
  <1>4. IsFiniteSet(Owned') /\ Cardinality(Owned') <= Cardinality(Owned)
    BY <1>1, <1>3, FS_Subset
  <1>5. Cardinality(Owned) \in Nat /\ Cardinality(Owned') \in Nat
    BY <1>3, <1>4, FS_CardinalityType
  <1>6. Cardinality(Owned') <= MaxCopies
    BY <1>2, <1>4, <1>5 DEF BudgetInv
  <1> QED BY <1>6 DEF BudgetInv

\* A step of requests: none begins a copy, and none that is over has one on disk.
LEMMA RequestsOwnNoMore ==
  ASSUME BudgetInv, UNCHANGED <<disk, removals>>,
         \A q \in Requests : sessions'[q].here = sessions[q].here /\ sessions'[q].copy = sessions[q].copy,
         \A q \in Requests :
           \/ reqs'[q] = reqs[q]
           \/ /\ reqs[q].at \notin Ended
              /\ reqs'[q].kind = "snapshot" /\ reqs'[q].at \in Underway =>
                   reqs[q].kind = "snapshot" /\ reqs[q].at \in Underway
              /\ reqs'[q].at \in {"done", "removing"} => disk[q] = "none" \/ reqs[q].at = "removing"
  PROVE  BudgetInv'
PROOF
  <1>1. Accounted'
    BY DEF BudgetInv, Accounted
  <1>2. \A w \in Requests : Owns(w)' => Owns(w)
    BY DEF Owns, Ended
  <1> QED BY <1>1, <1>2, OwnsNoMore

\* A step of the processes, the pool, the pass or the clock of the daemon.
LEMMA ElsewhereOwnsNoMore ==
  ASSUME BudgetInv, UNCHANGED <<reqs, disk, removals>>,
         \A q \in Requests : sessions'[q].here = sessions[q].here /\ sessions'[q].copy = sessions[q].copy
  PROVE  BudgetInv'
PROOF BY RequestsOwnNoMore

\* An open or a restore that has no copy yet has none on disk.
LEMMA EarlyIsBare ==
  ASSUME PoolInv, NEW q \in Requests, disk[q] # "none"
  PROVE  reqs[q].at \in Ended \/ (reqs[q].kind = "snapshot" /\ reqs[q].at \notin Early)
PROOF BY DEF PoolInv, CopyInv, OnDiskIsPast, Past

LEMMA OpensBudget ==
  ASSUME PoolInv, BudgetInv, NEW r \in Requests, Opens(r) \/ \E s \in Requests : Restores(r, s)
  PROVE  BudgetInv'
PROOF
  <1>1. /\ reqs[r] = NoRequest /\ UNCHANGED <<sessions, disk, removals>>
        /\ \E kind \in {"direct", "snapshot", "restore"}, s \in Requests :
             reqs' = [reqs EXCEPT ![r] = [at |-> "asked", kind |-> kind, of |-> s, client |-> 0]]
    BY DEF Opens, Restores
  <1>2. /\ \A q \in Requests \ {r} : reqs'[q] = reqs[q]
        /\ reqs'[r].at = "asked" /\ reqs[r].at = "idle"
    BY <1>1, TypeParts DEF PoolInv, NoRequest
  <1> QED BY <1>1, <1>2, RequestsOwnNoMore DEF Ended, Underway

LEMMA GetsClientBudget ==
  ASSUME PoolInv, BudgetInv, NEW r \in Requests, GetsClient(r)
  PROVE  BudgetInv'
PROOF
  <1>1. /\ reqs[r].at = "asked" /\ UNCHANGED <<sessions, disk, removals>>
        /\ \A q \in Requests \ {r} : reqs'[q] = reqs[q]
        /\ reqs'[r].kind = reqs[r].kind
        /\ reqs'[r].at \in {"done", "joined", "waits", "measuring"} \/ (reqs'[r].at = "creating" /\ reqs[r].kind # "snapshot")
    BY GetsClientFacts DEF PoolInv
  <1>2. disk[r] = "none" /\ reqs[r].at \notin Ended
    BY <1>1, EarlyIsBare DEF Early, Ended
  <1> QED BY <1>1, <1>2, RequestsOwnNoMore DEF Underway

\* The starts that settle: who joined goes on, or is over with nothing on disk.
LEMMA SettledBudget ==
  ASSUME PoolInv, BudgetInv, NEW p \in Procs \cup {0}, reqs' = Settled(p), UNCHANGED <<sessions, disk, removals>>
  PROVE  BudgetInv'
PROOF
  <1>1. ASSUME NEW q \in Requests
        PROVE  \/ reqs'[q] = reqs[q]
               \/ /\ reqs[q].at \notin Ended
                  /\ reqs'[q].kind = "snapshot" /\ reqs'[q].at \in Underway =>
                       reqs[q].kind = "snapshot" /\ reqs[q].at \in Underway
                  /\ reqs'[q].at \in {"done", "removing"} => disk[q] = "none" \/ reqs[q].at = "removing"
    <2>1. CASE reqs[q].at = "joined"
      <3>1. disk[q] = "none" /\ reqs[q].at \notin Ended
        BY <2>1, EarlyIsBare DEF Early, Ended
      <3>2. reqs'[q].at = "done" \/ reqs'[q] = With(p, reqs[q])
        BY <2>1, SettledFacts DEF PoolInv
      <3>3. reqs[q] \in RequestRecords
        BY TypeParts DEF PoolInv
      <3>4. reqs'[q].kind = "snapshot" => reqs'[q].at \in {"done", "measuring"}
        BY <3>2, <3>3, WithFacts
      <3> QED BY <3>1, <3>4 DEF Underway
    <2>2. CASE reqs[q].at = "waits"
      <3>1. reqs'[q].at = "asked"
        BY <2>2, SettledFacts DEF PoolInv
      <3> QED BY <2>2, <3>1 DEF Ended, Underway
    <2>3. CASE reqs[q].at \notin {"joined", "waits"}
      BY <2>3, SettledFacts DEF PoolInv
    <2> QED BY <2>1, <2>2, <2>3
  <1> QED BY <1>1, RequestsOwnNoMore

LEMMA ProcessesBudget ==
  ASSUME PoolInv, BudgetInv, NEW p \in Procs, Starts(p) \/ Ends(p) \/ Exits(p)
  PROVE  BudgetInv'
PROOF
  <1>1. UNCHANGED <<sessions, disk, removals>> /\ (UNCHANGED reqs \/ \E q \in {0, p} : reqs' = Settled(q))
    BY DEF Starts, Ends, Exits
  <1> QED BY <1>1, SettledBudget, ElsewhereOwnsNoMore

\* createSnapshot measures and counts before it makes anything.
LEMMA MeasuresBudget ==
  ASSUME PoolInv, BudgetInv, NEW r \in Requests, Measures(r)
  PROVE  BudgetInv'
PROOF
  <1>1. /\ reqs[r].at = "measuring" /\ UNCHANGED <<sessions, disk, removals>>
        /\ Becomes(r, IF Cardinality(Charged) < MaxCopies THEN "making" ELSE "done")
    BY DEF Measures
  <1>2. disk[r] = "none" /\ reqs[r].at \notin Ended /\ TypeOK
    BY <1>1, EarlyIsBare DEF Early, Ended, PoolInv
  <1>3. CASE ~ (Cardinality(Charged) < MaxCopies)
    <2>1. Becomes(r, "done") /\ "done" \in Steps
      BY <1>1, <1>3 DEF Steps
    <2>2. reqs'[r].at = "done" /\ \A q \in Requests \ {r} : reqs'[q] = reqs[q]
      BY <1>2, <2>1, BecomesFacts
    <2> QED BY <1>1, <1>2, <2>2, RequestsOwnNoMore DEF Underway
  <1>4. CASE Cardinality(Charged) < MaxCopies
    <2>1. Becomes(r, "making") /\ "making" \in Steps
      BY <1>1, <1>4 DEF Steps
    <2>2. reqs'[r].at = "making" /\ \A q \in Requests \ {r} : reqs'[q] = reqs[q]
      BY <1>2, <2>1, BecomesFacts
    <2>3. Accounted'
      BY <1>1, <2>2 DEF BudgetInv, Accounted
    <2>4. Owned' \subseteq Charged \cup {r}
      <3> SUFFICES ASSUME NEW w \in Requests, w # r, Owns(w)' PROVE w \in Charged
        BY DEF Owned
      <3>1. Owns(w)
        BY <1>1, <2>2 DEF Owns
      <3> QED BY <3>1 DEF Owns, Charged, Here, WorkspaceOpens, Running, Underway
    <2>5. IsFiniteSet(Charged) /\ MaxCopies \in Nat
      <3>1. Charged \in SUBSET Requests /\ IsFiniteSet(Requests)
        BY PoolAssumption DEF Charged, Here, WorkspaceOpens
      <3> QED BY <3>1, PoolAssumption, FS_Subset
    <2>6. /\ IsFiniteSet(Charged \cup {r})
          /\ Cardinality(Charged \cup {r}) <= Cardinality(Charged) + 1
          /\ Cardinality(Charged) \in Nat
      BY <2>5, FS_AddElement, FS_CardinalityType
    <2>7. IsFiniteSet(Owned') /\ Cardinality(Owned') <= Cardinality(Charged \cup {r})
      BY <2>4, <2>6, FS_Subset
    <2>8. Cardinality(Owned') \in Nat /\ Cardinality(Charged \cup {r}) \in Nat
      BY <2>6, <2>7, FS_CardinalityType
    <2>9. Cardinality(Owned') <= MaxCopies
      BY <1>4, <2>5, <2>6, <2>7, <2>8
    <2> QED BY <2>3, <2>9 DEF BudgetInv
  <1> QED BY <1>3, <1>4

LEMMA CopiesBudget ==
  ASSUME PoolInv, BudgetInv, NEW r \in Requests, Copies(r) \/ CopyFails(r)
  PROVE  BudgetInv'
PROOF
  <1>1. /\ reqs[r].at \in {"making", "marking", "copying"} /\ UNCHANGED <<sessions, removals>>
        /\ \E at \in {"marking", "copying", "creating", "clearing"} : Becomes(r, at)
        /\ UNCHANGED disk \/ \E d \in {"dir", "marked"} : disk' = [disk EXCEPT ![r] = d]
    BY DEF Copies, CopyFails
  <1>2. TypeOK /\ reqs[r].kind = "snapshot"
    BY <1>1 DEF PoolInv, CopyInv, CopiesForSnapshots, CopySteps
  <1>3. PICK at \in {"marking", "copying", "creating", "clearing"} : Becomes(r, at)
    BY <1>1
  <1>4. at \in Steps
    BY DEF Steps
  <1>5. reqs'[r].at = at /\ \A q \in Requests \ {r} : reqs'[q] = reqs[q]
    BY <1>2, <1>3, <1>4, BecomesFacts
  <1>6. \A q \in Requests \ {r} : disk'[q] = disk[q]
    BY <1>1, <1>2, TypeParts
  <1>7. Accounted'
    BY <1>1, <1>5, <1>6 DEF BudgetInv, Accounted
  <1>8. \A w \in Requests : Owns(w)' => Owns(w)
    BY <1>1, <1>2, <1>5, <1>6 DEF Owns, Underway
  <1> QED BY <1>7, <1>8, OwnsNoMore

LEMMA ClearsBudget ==
  ASSUME PoolInv, BudgetInv, NEW r \in Requests, Clears(r)
  PROVE  BudgetInv'
PROOF
  <1>1. /\ reqs[r].at = "clearing" /\ UNCHANGED <<sessions, removals>>
        /\ \/ disk' = [disk EXCEPT ![r] = "none"] /\ Becomes(r, "done")
           \/ UNCHANGED disk /\ Becomes(r, "left")
           \/ disk[r] = "marked" /\ disk' = [disk EXCEPT ![r] = "dir"] /\ UNCHANGED reqs
    BY DEF Clears, Unmarks
  <1>2. TypeOK /\ reqs[r].kind = "snapshot" /\ {"done", "left"} \subseteq Steps
    BY <1>1 DEF PoolInv, CopyInv, CopiesForSnapshots, CopySteps, Steps
  <1>3. \A q \in Requests \ {r} : reqs'[q] = reqs[q] /\ disk'[q] = disk[q]
    BY <1>1, <1>2, BecomesFacts, TypeParts
  <1>4. \/ reqs'[r].at = "left"
        \/ reqs'[r].at = "done" /\ disk'[r] = "none"
        \/ reqs'[r] = reqs[r] /\ disk[r] = "marked"
    BY <1>1, <1>2, BecomesFacts, TypeParts
  <1>5. Accounted'
    BY <1>1, <1>3, <1>4 DEF BudgetInv, Accounted
  <1>6. \A w \in Requests : Owns(w)' => Owns(w)
    BY <1>1, <1>2, <1>3, <1>4 DEF Owns, Underway
  <1> QED BY <1>5, <1>6, OwnsNoMore

\* The copy passes from the open to its session.
LEMMA RegistersBudget ==
  ASSUME PoolInv, BudgetInv, NEW r \in Requests, Registers(r)
  PROVE  BudgetInv'
PROOF
  <1> DEFINE s == reqs[r].of
  <1>1. /\ reqs[r].at = "creating" /\ UNCHANGED <<disk, removals>>
        /\ \A q \in Requests \ {r} : reqs'[q] = reqs[q]
        /\ reqs'[r].at = "done"
        /\ \A q \in Requests \ {s} : sessions'[q] = sessions[q]
        /\ s \in Requests =>
             /\ sessions'[s].here
             /\ sessions'[s].copy = IF reqs[r].kind = "restore" THEN sessions[s].copy ELSE reqs[r].kind = "snapshot"
    BY RegistersFacts DEF PoolInv
  <1>2. Running(r) /\ ~ sessions[r].here
    BY <1>1 DEF Running, PoolInv, CopyInv, HereIsDone
  <1>3. CASE reqs[r].kind = "restore"
    <2>1. s \in Requests /\ sessions[s].here /\ s # r
      BY <1>2, <1>3 DEF PoolInv, CopyInv, RestoresOne
    <2>2. disk[r] = "none"
      BY <1>1, <1>3, EarlyIsBare DEF Ended
    <2>3. \A q \in Requests : sessions'[q].here = sessions[q].here /\ sessions'[q].copy = sessions[q].copy
      <3>1. sessions'[s].copy = sessions[s].copy /\ sessions'[s].here = sessions[s].here
        <4>1. sessions[s] \in SessionRecords /\ sessions'[s] \in SessionRecords
          BY <2>1, RegistersFacts, TypeParts DEF PoolInv
        <4>2. sessions[s].here \in BOOLEAN /\ sessions'[s].here \in BOOLEAN
          BY <4>1 DEF SessionRecords
        <4> QED BY <1>1, <1>3, <2>1, <4>2
      <3> QED BY <1>1, <3>1
    <2> QED BY <1>1, <2>2, <2>3, RequestsOwnNoMore DEF Ended, Underway
  <1>4. CASE reqs[r].kind # "restore"
    <2>1. s = r
      BY <1>2, <1>4 DEF PoolInv, CopyInv, OpensItsOwn
    <2>2. sessions'[r].here /\ (sessions'[r].copy = (reqs[r].kind = "snapshot"))
      BY <1>1, <1>4, <2>1
    <2>3. reqs[r].kind # "snapshot" => disk[r] = "none"
      BY <1>1, EarlyIsBare DEF Ended
    <2>4. Accounted'
      BY <1>1, <2>1, <2>2, <2>3 DEF BudgetInv, Accounted
    <2>5. \A w \in Requests : Owns(w)' => Owns(w)
      BY <1>1, <2>1, <2>2, <2>3, ZenonT(30) DEF Owns, Underway
    <2> QED BY <2>4, <2>5, OwnsNoMore
  <1> QED BY <1>3, <1>4

LEMMA CreateFailsBudget ==
  ASSUME PoolInv, BudgetInv, NEW r \in Requests, CreateFails(r)
  PROVE  BudgetInv'
PROOF
  <1>1. /\ reqs[r].at = "creating" /\ UNCHANGED <<sessions, disk, removals>>
        /\ \A q \in Requests \ {r} : reqs'[q] = reqs[q]
        /\ reqs'[r].at = (IF reqs[r].kind = "snapshot" THEN "discarding" ELSE "done")
    BY CreateFailsFacts DEF PoolInv
  <1>2. reqs[r].kind # "snapshot" => disk[r] = "none"
    BY <1>1, EarlyIsBare DEF Ended
  <1> QED BY <1>1, <1>2, RequestsOwnNoMore DEF Ended, Underway

LEMMA DiscardsBudget ==
  ASSUME PoolInv, BudgetInv, NEW r \in Requests, Discards(r)
  PROVE  BudgetInv'
PROOF
  <1>1. TypeOK /\ UNCHANGED <<sessions, disk>> /\ {"removing", "done"} \subseteq Steps
    BY DEF PoolInv, Discards, Steps
  <1>2. CASE reqs[r].at = "removing" /\ Becomes(r, "done") /\ UNCHANGED removals
    <2>1. reqs'[r].at = "done" /\ \A q \in Requests \ {r} : reqs'[q] = reqs[q]
      BY <1>1, <1>2, BecomesFacts
    <2> QED BY <1>1, <1>2, <2>1, RequestsOwnNoMore DEF Ended, Underway
  <1>3. CASE reqs[r].at = "discarding" /\ Becomes(r, "removing") /\ removals' = Removing({r})
    <2>1. reqs'[r].at = "removing" /\ \A q \in Requests \ {r} : reqs'[q] = reqs[q]
      BY <1>1, <1>3, BecomesFacts
    <2>2. removals'[r] = "removing" /\ \A q \in Requests \ {r} : removals'[q] = removals[q]
      BY <1>1, <1>3, RemovingFacts
    <2>3. reqs[r].kind = "snapshot" /\ ~ sessions[r].here
      BY <1>3 DEF PoolInv, CopyInv, CopiesForSnapshots, HereIsDone, CopySteps
    <2>4. Accounted'
      BY <1>1, <2>1, <2>2, <2>3 DEF BudgetInv, Accounted
    <2>5. \A w \in Requests : Owns(w)' => Owns(w)
      BY <1>1, <1>3, <2>1, <2>2, <2>3 DEF Owns, Underway
    <2> QED BY <2>4, <2>5, OwnsNoMore
  <1> QED BY <1>2, <1>3 DEF Discards

\* A record that goes leaves its copy to be deleted, and counted until it is.
LEMMA ClosesBudget ==
  ASSUME PoolInv, BudgetInv, NEW s \in Requests, Closes(s)
  PROVE  BudgetInv'
PROOF
  <1>1. /\ sessions[s].here /\ UNCHANGED <<reqs, disk>>
        /\ sessions' = [sessions EXCEPT ![s] = NoSession]
        /\ removals' = Removing({w \in {s} : sessions[w].copy})
    BY DEF Closes
  <1>2. /\ ~ sessions'[s].here
        /\ \A q \in Requests \ {s} : sessions'[q] = sessions[q]
    BY <1>1, TypeParts DEF PoolInv, NoSession
  <1>3. /\ sessions[s].copy => removals'[s] = "removing"
        /\ ~ sessions[s].copy => removals'[s] = removals[s]
        /\ \A q \in Requests \ {s} : removals'[q] = removals[q]
    BY <1>1, RemovingFacts DEF PoolInv
  <1>4. reqs[s].at = "done"
    BY <1>1 DEF PoolInv, CopyInv, HereIsDone
  <1>5. ~ sessions[s].copy => disk[s] = "none"
    BY <1>1, <1>4 DEF BudgetInv, Accounted
  <1>6. Accounted'
    BY <1>1, <1>2, <1>3, <1>5 DEF BudgetInv, Accounted
  <1>7. \A w \in Requests : Owns(w)' => Owns(w)
    BY <1>1, <1>2, <1>3, <1>4, <1>5 DEF Owns
  <1> QED BY <1>6, <1>7, OwnsNoMore

\* A deletion that fails leaves the copy counted.
LEMMA RemovesBudget ==
  ASSUME PoolInv, BudgetInv, NEW w \in Requests, Removes(w)
  PROVE  BudgetInv'
PROOF
  <1>1. /\ removals[w] = "removing" /\ UNCHANGED <<reqs, sessions>>
        /\ \/ disk' = [disk EXCEPT ![w] = "none"] /\ removals' = [removals EXCEPT ![w] = "none"]
           \/ removals' = [removals EXCEPT ![w] = "failed"] /\ UNCHANGED disk
           \/ disk[w] = "marked" /\ disk' = [disk EXCEPT ![w] = "dir"] /\ UNCHANGED removals
    BY DEF Removes, Unmarks
  <1>2. \A q \in Requests \ {w} : removals'[q] = removals[q] /\ disk'[q] = disk[q]
    BY <1>1, TypeParts DEF PoolInv
  <1>3. \/ disk'[w] = "none"
        \/ removals'[w] = "failed" /\ disk'[w] = disk[w]
        \/ removals'[w] = "removing" /\ disk[w] = "marked"
    BY <1>1, TypeParts DEF PoolInv
  <1>4. Accounted'
    BY <1>1, <1>2, <1>3 DEF BudgetInv, Accounted
  <1>5. \A q \in Requests : Owns(q)' => Owns(q)
    BY <1>1, <1>2, <1>3 DEF Owns
  <1> QED BY <1>4, <1>5, OwnsNoMore

\* A pass deletes what a deletion failed for, and what nobody answers for: the
\* first was counted, and the second still is not.
LEMMA DeletionBudget ==
  ASSUME PoolInv, BudgetInv, NEW w, removals' = Removing({w}), UNCHANGED <<reqs, sessions, disk>>,
         w \in Requests /\ disk[w] # "none" /\ reqs[w].at # "left" => removals[w] # "none"
  PROVE  BudgetInv'
PROOF
  <1>1. \A q \in Requests : removals'[q] = IF q = w THEN "removing" ELSE removals[q]
    BY RemovingFacts DEF PoolInv
  <1>2. Accounted'
    BY <1>1 DEF BudgetInv, Accounted
  <1>3. \A q \in Requests : Owns(q)' => Owns(q)
    BY <1>1 DEF Owns
  <1> QED BY <1>2, <1>3, OwnsNoMore

LEMMA PassBudget == ASSUME PoolInv, BudgetInv, Pass PROVE BudgetInv'
PROOF
  <1>1. ASSUME NEW s \in Requests, Unloads(s) PROVE BudgetInv'
    <2>1. UNCHANGED <<reqs, disk, removals>> /\ sessions' = [sessions EXCEPT ![s].client = 0]
      BY <1>1 DEF Unloads
    <2>2. \A q \in Requests : sessions'[q].here = sessions[q].here /\ sessions'[q].copy = sessions[q].copy
      BY <2>1, SessionFacts DEF PoolInv
    <2> QED BY <2>1, <2>2, ElsewhereOwnsNoMore
  <1>2. CASE Retries
    <2>1. CASE UNCHANGED removals
      BY <1>2, <2>1, ElsewhereOwnsNoMore DEF Retries
    <2>2. ASSUME NEW w \in gc.todo, ToRetry(w), removals' = Removing({w}) PROVE BudgetInv'
      BY <1>2, <2>2, DeletionBudget DEF Retries, ToRetry
    <2> QED BY <1>2, <2>1, <2>2 DEF Retries
  <1>3. CASE Reclaims
    <2>1. CASE UNCHANGED removals
      BY <1>3, <2>1, ElsewhereOwnsNoMore DEF Reclaims
    <2>2. ASSUME NEW w \in gc.todo, MayReclaim(w), removals' = Removing({w}) PROVE BudgetInv'
      <3>1. UNCHANGED <<reqs, sessions, disk>> /\ ~ sessions[w].here /\ removals[w] = "none" /\ WorkspaceOpens = {}
        BY <1>3, <2>2 DEF Reclaims, MayReclaim
      <3>2. ASSUME w \in Requests, disk[w] # "none", reqs[w].at # "left" PROVE FALSE
        <4>1. Owns(w)
          BY <3>2, OnDiskIsOwned DEF BudgetInv
        <4>2. reqs[w].kind = "snapshot" /\ reqs[w].at \in Underway
          BY <3>1, <4>1 DEF Owns
        <4> QED BY <3>1, <3>2, <4>2 DEF WorkspaceOpens, Running, Underway
      <3> QED BY <2>2, <3>1, <3>2, DeletionBudget
    <2> QED BY <1>3, <2>1, <2>2 DEF Reclaims
  <1>4. CASE Unloaded \/ SessionsDone \/ Retried \/ Lists \/ Reclaimed
             \/ StopsCurrent \/ CurrentStopped \/ StopsRetired \/ RetiredStopped
    <2>1. UNCHANGED <<reqs, sessions, disk, removals>>
      BY <1>4 DEF Unloaded, SessionsDone, Retried, Lists, Reclaimed, StopsCurrent, CurrentStopped, StopsRetired, RetiredStopped
    <2> QED BY <2>1, ElsewhereOwnsNoMore
  <1> QED BY <1>1, <1>2, <1>3, <1>4 DEF Pass

\* What a daemon leaves that wrote no record of it is not counted any more; what
\* it did write is a session's.
LEMMA DownBudget ==
  ASSUME PoolInv, BudgetInv, NEW kept \in SUBSET Here, NEW left \in SUBSET Procs, Down(kept, left)
  PROVE  BudgetInv'
PROOF
  <1>1. kept \in SUBSET Requests /\ \A s \in kept : sessions[s].here
    BY DEF Here
  <1>2. /\ \A r \in Requests :
             /\ reqs[r].at = "idle" => reqs'[r] = reqs[r]
             /\ reqs[r].at # "idle" => reqs'[r].at \in Ended
        /\ \A s \in Requests :
             /\ s \in kept => sessions'[s].here = sessions[s].here /\ sessions'[s].copy = sessions[s].copy
             /\ s \notin kept => ~ sessions'[s].here
        /\ \A r \in Requests : removals'[r] = "none"
        /\ disk' = disk
    <2>1. TypeOK /\ kept \in SUBSET Requests
      BY <1>1 DEF PoolInv
    <2>2. Down(kept, left) /\ left \in SUBSET Procs
      OBVIOUS
    <2>3. \A r \in Requests : /\ reqs[r].at = "idle" => reqs'[r] = reqs[r]
                              /\ reqs[r].at # "idle" => reqs'[r].at \in Ended
      BY <2>1, <2>2, DownFacts
    <2>4. \A s \in Requests :
            /\ sessions'[s].client = 0
            /\ s \in kept => sessions'[s].here = sessions[s].here /\ sessions'[s].copy = sessions[s].copy
            /\ s \notin kept => ~ sessions'[s].here
      BY <2>1, <2>2, DownFacts
    <2>5. \A r \in Requests : removals'[r] = "none"
      BY <2>1, <2>2, DownFacts
    <2>6. disk' = disk
      BY DEF Down
    <2> QED BY <2>3, <2>4, <2>5, <2>6
  <1>3. \A r \in Requests : reqs[r].at # "idle" /\ disk[r] # "none" /\ r \notin kept => reqs'[r].at = "left"
    BY DEF Down, NoRequest
  <1>4. \A r \in kept : reqs[r].at = "done" /\ (disk[r] # "none" => sessions[r].copy)
    BY <1>1 DEF PoolInv, CopyInv, HereIsDone, BudgetInv, Accounted
  <1>5. \A r \in Requests : reqs'[r].at \in {"done", "removing"} /\ disk[r] # "none" => r \in kept
    BY <1>2, <1>3
  <1>6. Accounted'
    BY <1>1, <1>2, <1>4, <1>5 DEF Accounted
  <1>7. \A w \in Requests : Owns(w)' => Owns(w)
    <2> SUFFICES ASSUME NEW w \in Requests, Owns(w)' PROVE Owns(w)
      OBVIOUS
    <2>1. reqs'[w].at \notin Underway
      BY <1>2 DEF Underway, Ended
    <2>2. sessions'[w].here /\ sessions'[w].copy
      BY <1>2, <2>1 DEF Owns
    <2>3. w \in kept
      BY <1>2, <2>2
    <2> QED BY <1>1, <1>2, <1>4, <2>2, <2>3 DEF Owns
  <1> QED BY <1>6, <1>7, OwnsNoMore

LEMMA StartBudget == Init => BudgetInv
PROOF
  <1> SUFFICES ASSUME Init PROVE BudgetInv
    OBVIOUS
  <1>1. \A r \in Requests : reqs[r].at = "idle" /\ ~ sessions[r].here /\ disk[r] = "none" /\ removals[r] = "none"
    BY DEF Init, NoRequest, NoSession
  <1>2. Owned = {}
    BY <1>1 DEF Owned, Owns, Underway
  <1> QED BY <1>1, <1>2, FS_EmptySet, PoolAssumption DEF BudgetInv, Accounted

LEMMA StepBudget == PoolInv /\ BudgetInv /\ [Next]_vars => BudgetInv'
PROOF
  <1> SUFFICES ASSUME PoolInv, BudgetInv, [Next]_vars PROVE BudgetInv'
    OBVIOUS
  <1>1. ASSUME NEW r \in Requests, Opens(r) PROVE BudgetInv'
    BY <1>1, OpensBudget
  <1>2. ASSUME NEW r \in Requests, NEW s \in Requests, Restores(r, s) PROVE BudgetInv'
    BY <1>2, OpensBudget
  <1>3. ASSUME NEW r \in Requests, Request(r) PROVE BudgetInv'
    BY <1>3, GetsClientBudget, MeasuresBudget, CopiesBudget, ClearsBudget, RegistersBudget,
       CreateFailsBudget, DiscardsBudget DEF Request
  <1>4. ASSUME NEW s \in Requests, ExitLocked(s) PROVE BudgetInv'
    <2>1. UNCHANGED <<reqs, disk, removals>> /\ sessions' = [sessions EXCEPT ![s].client = 0]
      BY <1>4 DEF ExitLocked
    <2>2. \A q \in Requests : sessions'[q].here = sessions[q].here /\ sessions'[q].copy = sessions[q].copy
      BY <2>1, SessionFacts DEF PoolInv
    <2> QED BY <2>1, <2>2, ElsewhereOwnsNoMore
  <1>5. ASSUME NEW r \in Requests, Removes(r) \/ Closes(r) PROVE BudgetInv'
    BY <1>5, RemovesBudget, ClosesBudget
  <1>6. ASSUME NEW p \in Procs, Starts(p) \/ Ends(p) \/ Exits(p) PROVE BudgetInv'
    BY <1>6, ProcessesBudget
  <1>7. CASE Updates \/ Begins \/ ShutsDown \/ StopsAll \/ Restarts \/ UNCHANGED vars
    <2>1. UNCHANGED <<reqs, sessions, disk, removals>>
      BY <1>7 DEF Updates, Begins, ShutsDown, StopsAll, Restarts, vars
    <2> QED BY <2>1, ElsewhereOwnsNoMore
  <1>8. CASE Pass
    BY <1>8, PassBudget
  <1>9. CASE Leaves \/ Dies
    <2>1. \E kept \in SUBSET Here, left \in SUBSET Procs : Down(kept, left)
      <3>1. CASE Leaves
        <4>1. Here \in SUBSET Here /\ {p \in Procs : Alive(p)} \in SUBSET Procs
          OBVIOUS
        <4> QED BY <3>1, <4>1 DEF Leaves
      <3>2. CASE Dies
        <4>1. {} \in SUBSET Procs
          OBVIOUS
        <4> QED BY <3>2, <4>1 DEF Dies
      <3> QED BY <1>9, <3>1, <3>2
    <2> QED BY <2>1, DownBudget
  <1> QED BY <1>1, <1>2, <1>3, <1>4, <1>5, <1>6, <1>7, <1>8, <1>9 DEF Next

\* For any budget and any number of opens, closes, deletions that fail, passes and
\* deaths: the copies on disk, those of sessions, of opens on their way and of
\* deletions still to come, are never more than the budget; only what a dead
\* daemon or a failed clean-up left is beyond it (#admitSnapshotBytes, createSnapshot).
THEOREM CopiesWithinBudget == Spec => []BudgetHolds
PROOF
  <1>1. ASSUME PoolInv, BudgetInv PROVE BudgetHolds
    <2> DEFINE limited == {w \in Requests : disk[w] # "none" /\ reqs[w].at # "left"}
    <2>1. limited \subseteq Owned
      BY <1>1, OnDiskIsOwned DEF BudgetInv, Owned
    <2>2. Owned \in SUBSET Requests /\ IsFiniteSet(Requests) /\ MaxCopies \in Nat
      BY PoolAssumption DEF Owned
    <2> HIDE DEF limited
    <2>3. IsFiniteSet(Owned)
      BY <2>2, FS_Subset
    <2>4. IsFiniteSet(limited) /\ Cardinality(limited) <= Cardinality(Owned)
      BY <2>1, <2>3, FS_Subset
    <2>5. Cardinality(limited) \in Nat /\ Cardinality(Owned) \in Nat
      BY <2>3, <2>4, FS_CardinalityType
    <2>6. Cardinality(limited) <= MaxCopies
      BY <1>1, <2>2, <2>4, <2>5 DEF BudgetInv
    <2> QED BY <2>6 DEF BudgetHolds, limited
  <1>2. Init => BudgetInv
    BY StartBudget
  <1>3. PoolInv /\ BudgetInv /\ [Next]_vars => BudgetInv'
    BY StepBudget
  <1> QED BY <1>1, <1>2, <1>3, PoolStands, PTL DEF Spec
=============================================================================
