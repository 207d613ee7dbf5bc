--------------------------- MODULE SampleDispatch ---------------------------
(***************************************************************************)
(* How a Sensor session shares the sample worker slots among container     *)
(* generations.  Every discovery pass starts workers oldest-verified-first *)
(* while slots are free; a worker that overruns its budget is given up on  *)
(* but keeps its slot until it returns.                                    *)
(***************************************************************************)
EXTENDS Generations

CONSTANTS
    Slow,       \* generations whose samples may for ever overrun the budget, or find every process gone
    Slots       \* maxConcurrentSampleWorkers

ASSUME SampleAssumption == Slow \subseteq Gens /\ Slots \in Nat \ {0}

VARIABLES
    sampleAlive, sampleStalled, \* the generation's side of the ledger
    aliveSampleWorkers,         \* the session's side
    lastVerifiedAt, \* rank of the last sample that confirmed the generation, 0 for never
    sample      \* the worker itself: "none", "running", "late" (over its budget)

sampleVars == <<status, endedFor, sampleAlive, sampleStalled, aliveSampleWorkers, lastVerifiedAt, sample>>

SampleInit ==
    /\ GenerationsInit
    /\ sampleAlive = [g \in Gens |-> FALSE]
    /\ sampleStalled = [g \in Gens |-> FALSE]
    /\ aliveSampleWorkers = 0
    /\ lastVerifiedAt = [g \in Gens |-> 0]
    /\ sample = [g \in Gens |-> "none"]

-----------------------------------------------------------------------------
(* The generations dispatchWork may start a worker for. *)
Candidates(st) == {g \in WithStatus(st, "live") : ~ sampleAlive[g]}

(* Mutant: in map order.                                                    *)
Started_MapOrder(st) ==
    {S \in SUBSET Candidates(st) :
        /\ S # {} => aliveSampleWorkers + Cardinality(S) <= Slots
        /\ S # Candidates(st) => aliveSampleWorkers + Cardinality(S) >= Slots}

(* The workers dispatchWork starts: oldest-verified-first, ties in any      *)
(* order, until no slot is free or nobody is left.                          *)
Started(st) ==
    {S \in SUBSET Candidates(st) :
        /\ S # {} => aliveSampleWorkers + Cardinality(S) <= Slots
        /\ S # Candidates(st) => aliveSampleWorkers + Cardinality(S) >= Slots
        /\ \A g \in S, h \in Candidates(st) \ S : lastVerifiedAt[g] <= lastVerifiedAt[h]}

(* applyDiscoveryResult of a pass that found the containers cur:            *)
(* reconcileGenerations, and the samples dispatchWork starts.               *)
DispatchSamples(cur) ==
    \E S \in Started(Reconciled(cur)) :
        /\ Turnover(cur)
        /\ sample' = [g \in Gens |-> IF g \in S THEN "running" ELSE sample[g]]
        /\ sampleAlive' = [g \in Gens |-> g \in S \/ sampleAlive[g]]
        /\ aliveSampleWorkers' = aliveSampleWorkers + Cardinality(S)
        /\ UNCHANGED <<sampleStalled, lastVerifiedAt>>

SamplePass == \E cur \in Sightings : DispatchSamples(cur)

-----------------------------------------------------------------------------
(* handleSampleEnvelope.  The envelope of a pruned generation is dropped    *)
(* whole: the slot it held is never given back.                             *)

(* lastVerifiedAt becomes now.  Only the order of these times matters, so   *)
(* they are ranks, kept dense.                                              *)
Verified(g) ==
    LET others == {h \in Gens \ {g} : lastVerifiedAt[h] # 0} IN
    [h \in Gens |->
        IF h = g THEN Cardinality(others) + 1
        ELSE IF lastVerifiedAt[h] = 0 THEN 0
        ELSE Cardinality({k \in others : lastVerifiedAt[k] <= lastVerifiedAt[h]})]

GiveBackSlot(g) ==
    IF status[g] = "pruned" THEN UNCHANGED <<sampleAlive, aliveSampleWorkers>>
    ELSE /\ sampleAlive' = [sampleAlive EXCEPT ![g] = FALSE]
         /\ aliveSampleWorkers' = aliveSampleWorkers - 1

(* sampleEnvTimeout *)
SampleTimeout(g) ==
    /\ sample[g] = "running" /\ g \in Slow
    /\ sample' = [sample EXCEPT ![g] = "late"]
    /\ sampleStalled' = [sampleStalled EXCEPT ![g] = @ \/ status[g] = "live"]
    /\ UNCHANGED <<generationVars, sampleAlive, aliveSampleWorkers, lastVerifiedAt>>

(* Mutant: a worker that returns late is accepted as a fresh sample.        *)
SampleFinished_Clears(g) ==
    /\ sample[g] = "late"
    /\ sample' = [sample EXCEPT ![g] = "none"]
    /\ sampleStalled' = [sampleStalled EXCEPT ![g] = FALSE]
    /\ GiveBackSlot(g)
    /\ UNCHANGED <<generationVars, lastVerifiedAt>>

(* Mutant: the slot of a worker given up on is not given back.              *)
SampleFinished_KeepsSlot(g) ==
    /\ sample[g] = "late"
    /\ sample' = [sample EXCEPT ![g] = "none"]
    /\ sampleAlive' = [sampleAlive EXCEPT ![g] = FALSE]
    /\ UNCHANGED <<generationVars, sampleStalled, aliveSampleWorkers, lastVerifiedAt>>

(* sampleEnvFinished *)
SampleFinished(g) ==
    /\ sample[g] = "late"
    /\ sample' = [sample EXCEPT ![g] = "none"]
    /\ GiveBackSlot(g)
    /\ UNCHANGED <<generationVars, sampleStalled, lastVerifiedAt>>

(* sampleEnvResult, then applySampleResult if the generation is live.       *)
SampleResult(g, confirmed) ==
    /\ sample[g] = "running"
    /\ g \in Slow \/ confirmed
    /\ sample' = [sample EXCEPT ![g] = "none"]
    /\ sampleStalled' = [sampleStalled EXCEPT ![g] = @ /\ status[g] = "pruned"]
    /\ lastVerifiedAt' = IF status[g] = "live" /\ confirmed THEN Verified(g) ELSE lastVerifiedAt
    /\ GiveBackSlot(g)
    /\ UNCHANGED generationVars

WorkerStep(g) ==
    \/ SampleTimeout(g)
    \/ SampleFinished(g)
    \/ \E confirmed \in BOOLEAN : SampleResult(g, confirmed)

-----------------------------------------------------------------------------
SampleNext == SamplePass \/ \E g \in Gens : WorkerStep(g)

SampleSpec == SampleInit /\ [][SampleNext]_sampleVars

(* The sample ticker keeps passes coming, also when no container starts or  *)
(* ends, and a worker comes back sooner or later: its reads of procfs end.  *)
FairSampleSpec ==
    /\ SampleSpec
    /\ WF_sampleVars(DispatchSamples(WithStatus(status, "live")))
    /\ \A g \in Gens : WF_sampleVars(WorkerStep(g))

-----------------------------------------------------------------------------
(* The ledger is well formed.                                               *)
LedgerTypeOK ==
    /\ status \in [Gens -> {"unseen", "live", "ended", "pruned"}]
    /\ endedFor \in [Gens -> Nat]
    /\ sampleAlive \in [Gens -> BOOLEAN]
    /\ sampleStalled \in [Gens -> BOOLEAN]
    /\ aliveSampleWorkers \in Nat
    /\ lastVerifiedAt \in [Gens -> Nat]
    /\ sample \in [Gens -> {"none", "running", "late"}]

Workers == {g \in Gens : sample[g] # "none"}

(* At no time do more sample workers exist than there are slots, those      *)
(* given up on included (maxConcurrentSampleWorkers).                       *)
SlotsBounded == Cardinality(Workers) <= Slots

(* While a generation is remembered, its flag says whether its worker       *)
(* exists; a worker never lacks its flag; and the session's count is the    *)
(* number of flags set, at most Slots.  So no slot is lost before its       *)
(* generation is forgotten, and no generation ever gets a second worker.    *)
LedgerExact ==
    /\ \A g \in Gens : status[g] # "pruned" => (sampleAlive[g] <=> g \in Workers)
    /\ \A g \in Workers : sampleAlive[g]
    /\ aliveSampleWorkers = Cardinality({g \in Gens : sampleAlive[g]})
    /\ aliveSampleWorkers <= Slots

(* A generation stays marked stalled until a sample taken within the budget *)
(* is applied: neither the late return of the worker nor the start of the   *)
(* next one clears it (handleSampleEnvelope).                               *)
StalledUntilTimely ==
    [][\A g \in Gens : sampleStalled[g] /\ ~ sampleStalled'[g] => sample[g] = "running" /\ sample'[g] = "none"]_sampleVars

(* dispatchWork's comment: oldest-verified-first gives every container its  *)
(* turn, again and again, when there are more of them than slots.  It does  *)
(* not hold when as many generations as slots never verify.                 *)
EventuallyATurn == \A g \in Gens : status[g] = "live" ~> (g \in Workers \/ status[g] # "live")

(* What does hold: every container gets its turn while some slot is neither *)
(* lost with a forgotten generation (handleSampleEnvelope drops its return) *)
(* nor claimed by one whose samples never confirm it.                       *)
SlotToSpare == Cardinality(Slow \cup {g \in Gens : status[g] = "pruned" /\ sampleAlive[g]}) < Slots

TurnsWhileSlotsLast ==
    \A g \in Gens : status[g] = "live" ~> (g \in Workers \/ status[g] # "live" \/ ~ SlotToSpare)
=============================================================================
