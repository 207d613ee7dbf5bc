----------------------------- MODULE BuildQueue -----------------------------
(***************************************************************************)
(* The queue of index builds: every discovery pass submits a build for     *)
(* each live generation without an index, unless the queue counts as       *)
(* stalled, and a forget for each generation it ends.  The one dbworker    *)
(* takes the jobs in order and answers them in order.                      *)
(***************************************************************************)
EXTENDS Generations, Sequences, SequencesExt

CONSTANTS
    JobCap,     \* dbJobChCapacity
    StallAfter  \* buildSoftStall, in passes

ASSUME QueueAssumption == JobCap \in Nat \ {0} /\ StallAfter \in Nat

VARIABLES
    idxState,   \* "idle", "building", "ready", "failed"
    queuedFor,  \* passes since idxQueuedAt, while building, up to StallAfter + 1
    dbJobCh, dbResultCh,
    buildQueueStalled

vars == <<status, endedFor, idxState, queuedFor, dbJobCh, dbResultCh, buildQueueStalled>>

Init ==
    /\ GenerationsInit
    /\ idxState = [g \in Gens |-> "idle"]
    /\ queuedFor = [g \in Gens |-> 0]
    /\ dbJobCh = <<>> /\ dbResultCh = <<>>
    /\ buildQueueStalled = FALSE

Smaller(a, b) == IF a < b THEN a ELSE b

(* submitDBJob for every generation of gs, in map order: a send never       *)
(* blocks, and one that finds the channel full fails.  These are the        *)
(* channels that can result.                                                *)
Sends(ch, kind, gs) ==
    LET fits == {F \in SUBSET gs : Cardinality(F) = Smaller(JobCap - Len(ch), Cardinality(gs))}
    IN {ch \o [i \in 1..Len(q) |-> [kind |-> kind, g |-> q[i]]] : q \in UNION {SetToSeqs(F) : F \in fits}}

Jobs(ch, kind) == {ch[i].g : i \in {j \in 1..Len(ch) : ch[j].kind = kind}}

-----------------------------------------------------------------------------
(* checkBuildQueueHealth: some remembered generation, live or ended, has    *)
(* been in state building for longer than buildSoftStall.                   *)
QueueStalled(st) ==
    \E g \in WithStatus(st, "live") \cup WithStatus(st, "ended") :
        idxState[g] = "building" /\ queuedFor[g] > StallAfter

(* Mutant: builds are submitted again while one is in progress.             *)
WantBuild_Twice(st) ==
    IF QueueStalled(st) THEN {} ELSE {g \in WithStatus(st, "live") : idxState[g] # "ready"}

(* maybeSubmitBuild: the generations it submits a build for.                *)
WantBuild(st) ==
    IF QueueStalled(st) THEN {} ELSE {g \in WithStatus(st, "live") : idxState[g] \in {"idle", "failed"}}

(* applyDiscoveryResult of a pass that found the containers cur:            *)
(* reconcileGenerations sends the forgets, dispatchWork the builds.         *)
ApplyDiscoveryResult(cur) ==
    LET st == Reconciled(cur) IN
    \E forgets \in Sends(dbJobCh, "forget", WithStatus(status, "live") \cap WithStatus(st, "ended")) :
    \E ch \in Sends(forgets, "build", WantBuild(st)) :
        LET submitted == WantBuild(st) \cap Jobs(ch, "build") IN
        /\ Turnover(cur)
        /\ buildQueueStalled' = QueueStalled(st)
        /\ idxState' = [g \in Gens |-> IF g \in submitted THEN "building" ELSE idxState[g]]
        /\ queuedFor' = [g \in Gens |-> IF g \notin submitted /\ idxState[g] = "building"
                                        THEN Smaller(queuedFor[g], StallAfter) + 1 ELSE 0]
        /\ dbJobCh' = ch
        /\ UNCHANGED dbResultCh

Discovery == \E cur \in Sightings : ApplyDiscoveryResult(cur)

(* applySampleResult: a sample of another root gives a ready index up.      *)
IndexGivenUp(g) ==
    /\ status[g] = "live" /\ idxState[g] = "ready"
    /\ idxState' = [idxState EXCEPT ![g] = "idle"]
    /\ UNCHANGED <<generationVars, queuedFor, dbJobCh, dbResultCh, buildQueueStalled>>

(* runDBWorker does the next job and queues its result.                     *)
DBWork ==
    /\ dbJobCh # <<>> /\ Len(dbResultCh) < JobCap
    /\ dbResultCh' = Append(dbResultCh, Head(dbJobCh))
    /\ dbJobCh' = Tail(dbJobCh)
    /\ UNCHANGED <<generationVars, idxState, queuedFor, buildQueueStalled>>

(* Mutant: the result of a build that failed is not written down.           *)
ApplyDBResult_FailureLost ==
    /\ dbResultCh # <<>>
    /\ LET res == Head(dbResultCh) IN
       \E as \in {"ready", "building"} :
          idxState' = IF res.kind = "build" /\ status[res.g] = "live" THEN [idxState EXCEPT ![res.g] = as] ELSE idxState
    /\ dbResultCh' = Tail(dbResultCh)
    /\ UNCHANGED <<generationVars, queuedFor, dbJobCh, buildQueueStalled>>

(* applyDBResult, applyBuildResult: the result of a generation that has     *)
(* ended, or is forgotten, is discarded.                                    *)
ApplyDBResult ==
    /\ dbResultCh # <<>>
    /\ LET res == Head(dbResultCh) IN
       \E as \in {"ready", "failed"} :
          idxState' = IF res.kind = "build" /\ status[res.g] = "live" THEN [idxState EXCEPT ![res.g] = as] ELSE idxState
    /\ dbResultCh' = Tail(dbResultCh)
    /\ UNCHANGED <<generationVars, queuedFor, dbJobCh, buildQueueStalled>>

-----------------------------------------------------------------------------
Next == Discovery \/ (\E g \in Gens : IndexGivenUp(g)) \/ DBWork \/ ApplyDBResult

Spec == Init /\ [][Next]_vars

(* The sample ticker keeps passes coming, also when no container starts or  *)
(* ends; the dbworker and the loop keep taking from their channels; and     *)
(* Go's random map order does not pass over the same generation for ever    *)
(* when there is room.                                                      *)
QuietPass == ApplyDiscoveryResult(WithStatus(status, "live"))

FairSpec ==
    /\ Spec
    /\ WF_vars(QuietPass) /\ WF_vars(DBWork) /\ WF_vars(ApplyDBResult)
    /\ \A g \in Gens : SF_vars(QuietPass /\ idxState[g] # "building" /\ idxState'[g] = "building")

-----------------------------------------------------------------------------
(* A live generation is in state building exactly while its one build is at *)
(* the dbworker or its result unread: no build is submitted twice, and none *)
(* is waited for in vain (maybeSubmitBuild, applyBuildResult).              *)
BuildingMeansOneBuild ==
    LET jobs == dbResultCh \o dbJobCh IN
    \A g \in WithStatus(status, "live") :
        Cardinality({i \in 1..Len(jobs) : jobs[i] = [kind |-> "build", g |-> g]})
            = IF idxState[g] = "building" THEN 1 ELSE 0

(* The parser is told to forget a generation only after its last build, so  *)
(* no index outlives the generation it was built for, unless the forget was *)
(* dropped at a full channel (endGeneration).                               *)
ForgetComesLast ==
    LET jobs == dbResultCh \o dbJobCh IN
    \A i, j \in 1..Len(jobs) : i < j /\ jobs[i].g = jobs[j].g => jobs[i].kind = "build" /\ jobs[j].kind = "forget"

(* An index that is wanted is built or tried in the end, whatever stalls,   *)
(* ends or is forgotten in between (maybeSubmitBuild).                      *)
EveryoneBuilt == \A g \in Gens : status[g] = "live" ~> (idxState[g] \in {"ready", "failed"} \/ status[g] # "live")
=============================================================================
