-------------------------- MODULE GenerationIndex --------------------------
(***************************************************************************)
(* One container generation inside a Sensor session: its package-database  *)
(* index (built by the dbworker goroutine through init's root), the        *)
(* samples and the eBPF usage events whose files are looked up in it, and  *)
(* what the generation claims about them.                                  *)
(*                                                                         *)
(* The loop, the dbworker and the sample worker run concurrently and share *)
(* only channels.  Meanwhile init may change its root (chroot, unshare)    *)
(* without a new PID, which is why an index carries a basis and an epoch.  *)
(* An observation (one event, or the files of one sample) is a number.     *)
(* Other generations only take their share of the channels and of the      *)
(* worker slots, and appear as nondeterminism.  The two sticky flags       *)
(* incomplete and candidatesLostPermanently, which are only ever published *)
(* as one, are one here.                                                   *)
(***************************************************************************)
EXTENDS Naturals, Sequences, Functions

CONSTANTS
    MaxItems,  \* bound: observations received
    MaxRoots,  \* bound: roots init has in its life
    JobCap,    \* dbJobChCapacity, of dbJobCh and of dbResultCh
    QueueCap,  \* maxQueuedCandidateBatches
    PendCap,   \* maxPendingEventsPerGeneration, maxPendingMountViewEvents
    SampleKinds, \* the outcomes a sample can have, of AllSampleKinds
    RootsMayMix \* whether a process can stay in, or already be in, another root than init's

(* What a sample of the container's processes can come back with.  "clean"  *)
(* and "partial" hold files resolved in init's root, the latter not all of  *)
(* them; "empty" has none; in "denied" no process could be read; in "gone"  *)
(* none was left; in "rootless" init's root could not be opened.            *)
AllSampleKinds == {"clean", "partial", "empty", "denied", "gone", "rootless"}

ASSUME IndexAssumption ==
    /\ MaxItems \in Nat /\ MaxRoots \in Nat \ {0}
    /\ JobCap \in Nat \ {0} /\ QueueCap \in Nat \ {0} /\ PendCap \in Nat \ {0}
    /\ SampleKinds \subseteq AllSampleKinds
    /\ RootsMayMix \in BOOLEAN

VARIABLES
    root,      \* init's current root
    gen,       \* generationState
    worker,    \* this generation's sample worker
    dbJobCh,   \* jobs to the dbworker
    dbResultCh,\* its answers
    epochByGenKey, \* the dbworker's epoch of the index it last built
    loaded,    \* root of the index the parser holds for this generation, 0 for none
    items,     \* history: observations received so far
    owed,      \* history: observations the loop took in whose lookup has not been answered and applied
    wrong,     \* history: files credited to a package of another root's index, or from another lookup's answer
    sampleSeen \* history: a sample begun on the ready index has been attributed

workVars == <<dbJobCh, dbResultCh, epochByGenKey, loaded>>
histVars == <<items, owed, wrong, sampleSeen>>
vars == <<root, gen, worker, workVars, histVars>>

NoLookup == [seq |-> 0, batches |-> <<>>]
NoResult == [basis |-> 0, kind |-> "none", verified |-> <<>>, gone |-> <<>>]
NoWorker == [at |-> "none", ready |-> FALSE, events |-> <<>>, res |-> NoResult]

Init ==
    /\ root = 1
    /\ gen = [ended |-> FALSE, idx |-> "idle", db |-> "none", basis |-> 0, epoch |-> 0,
              postIndexConfirmed |-> FALSE, parseFailed |-> FALSE, forceParseFailed |-> FALSE,
              incomplete |-> FALSE,
              sampleAlive |-> FALSE, sampleStalled |-> FALSE, denied |-> FALSE,
              view |-> 0, lookup |-> NoLookup, queued |-> <<>>, nextSeq |-> 0,
              pending |-> <<>>, held |-> <<>>]
    /\ worker = NoWorker
    /\ dbJobCh = <<>> /\ dbResultCh = <<>> /\ epochByGenKey = 0 /\ loaded = 0
    /\ items = 0 /\ owed = {} /\ wrong = {} /\ sampleSeen = FALSE

Live == ~ gen.ended /\ ~ gen.forceParseFailed

(* Init changes its own root; its PID and start time stay.                  *)
ChangeRoot ==
    /\ Live
    /\ root < MaxRoots
    /\ root' = root + 1
    /\ UNCHANGED <<gen, worker, workVars, histVars>>

-----------------------------------------------------------------------------
(* The handlers of the loop are functions on what they share: the           *)
(* generation and the job channel.                                          *)

(* The members of a queue that are in a set, in their order.                *)
Kept(q, S) ==
    LET kept[i \in 0..Len(q)] ==
          IF i = 0 THEN <<>> ELSE IF q[i] \in S THEN Append(kept[i - 1], q[i]) ELSE kept[i - 1]
    IN kept[Len(q)]

Ids(q) == {b.id : b \in Range(q)}

Batch(id, src, r, epoch) == [id |-> id, src |-> src, root |-> r, epoch |-> epoch]

Shared(g, ch) == [g |-> g, ch |-> ch]

(* submitCandidateBatches, with submitDBJob's non-blocking send.            *)
SubmitBatches(s, batches) ==
    LET seq == s.g.nextSeq + 1 IN
    IF Len(s.ch) < JobCap
    THEN Shared([s.g EXCEPT !.nextSeq = seq, !.lookup = [seq |-> seq, batches |-> batches]],
                Append(s.ch, [kind |-> "lookup", epoch |-> s.g.epoch, seq |-> seq,
                              ids |-> Ids(batches)]))
    ELSE Shared([s.g EXCEPT !.nextSeq = seq, !.incomplete = TRUE], s.ch)

(* Mutant: a batch that finds the queue full is forgotten.                  *)
SubmitOrQueue_DropsQuietly(s, b) ==
    IF s.g.lookup = NoLookup THEN SubmitBatches(s, <<b>>)
    ELSE IF Len(s.g.queued) < QueueCap
         THEN [s EXCEPT !.g.queued = Append(@, b)]
         ELSE s

(* The tail of applySampleResult and of submitEventCandidate: a batch waits *)
(* behind an outstanding lookup, if there is room.                          *)
SubmitOrQueue(s, b) ==
    IF s.g.lookup = NoLookup THEN SubmitBatches(s, <<b>>)
    ELSE IF Len(s.g.queued) < QueueCap
         THEN [s EXCEPT !.g.queued = Append(@, b)]
         ELSE [s EXCEPT !.g.incomplete = TRUE]

(* recordPendingEvent, recordPendingMountViewEvent: at the cap the event is *)
(* lost, and the loss recorded.                                             *)
Hold(g, q, e) ==
    IF Len(g[q]) < PendCap THEN [g EXCEPT ![q] = Append(@, e)] ELSE [g EXCEPT !.incomplete = TRUE]

DispatchUsageEvent(s, e, src) ==
    IF s.g.view = 0 THEN [s EXCEPT !.g = Hold(@, "held", e)]
    ELSE IF s.g.view # e.root THEN [s EXCEPT !.g.incomplete = TRUE]
    ELSE IF s.g.idx # "ready" THEN [s EXCEPT !.g = Hold(@, "pending", e)]
    ELSE SubmitOrQueue(s, Batch(e.id, src, e.root, s.g.epoch))

(* The events of a queue, one after the other.                              *)
DispatchAll(s, q, src) ==
    LET after[i \in 0..Len(q)] ==
          IF i = 0 THEN s ELSE DispatchUsageEvent(after[i - 1], q[i], src)
    IN after[Len(q)]

(* A usage event already routed to this generation (exec, or a library      *)
(* mapped) is handed over.                                                  *)
UsageEvent ==
    /\ Live
    /\ items < MaxItems
    /\ \E r \in IF RootsMayMix THEN 1..MaxRoots ELSE {root} :
          LET s == DispatchUsageEvent(Shared(gen, dbJobCh), [id |-> items + 1, root |-> r], "event")
          IN gen' = s.g /\ dbJobCh' = s.ch
    /\ items' = items + 1
    /\ owed' = owed \cup {items + 1}
    /\ UNCHANGED <<root, worker, dbResultCh, epochByGenKey, loaded, wrong, sampleSeen>>

-----------------------------------------------------------------------------
(* A discovery pass: reconcileGenerations, then dispatchWork. *)

Drop(q, n) == SubSeq(q, n + 1, Len(q))

(* The three expire* calls of dispatchWork; how much is past its TTL is     *)
(* chosen by the caller.                                                    *)
Expire(g, nPending, nHeld, expireLookup) ==
    [g EXCEPT !.pending = Drop(@, nPending), !.held = Drop(@, nHeld),
              !.incomplete = @ \/ nPending + nHeld > 0 \/ (expireLookup /\ g.lookup # NoLookup),
              !.lookup = IF expireLookup THEN NoLookup ELSE @,
              !.queued = IF expireLookup THEN <<>> ELSE @]

(* startSampleWorker *)
StartSample(g) ==
    [NoWorker EXCEPT !.at = "running", !.ready = g.idx = "ready",
                     !.events = IF g.idx = "ready" THEN g.pending ELSE <<>>]

(* Mutant: the job does not carry the generation's epoch.                   *)
MaybeSubmitBuild_NoEpoch(s, stalledQueue) ==
    IF s.g.idx \in {"idle", "failed"} /\ ~ stalledQueue /\ Len(s.ch) < JobCap
    THEN Shared([s.g EXCEPT !.idx = "building"],
                Append(s.ch, [kind |-> "build", epoch |-> 0, seq |-> 0, ids |-> {}]))
    ELSE s

(* maybeSubmitBuild *)
MaybeSubmitBuild(s, stalledQueue) ==
    IF s.g.idx \in {"idle", "failed"} /\ ~ stalledQueue /\ Len(s.ch) < JobCap
    THEN Shared([s.g EXCEPT !.idx = "building"],
                Append(s.ch, [kind |-> "build", epoch |-> s.g.epoch, seq |-> 0, ids |-> {}]))
    ELSE s

Dispatch(nPending, nHeld, expireLookup, slot, stalledQueue) ==
    /\ Live
    /\ LET g == Expire(gen, nPending, nHeld, expireLookup)
           start == ~ g.sampleAlive /\ slot
           s == MaybeSubmitBuild(Shared([g EXCEPT !.sampleAlive = @ \/ start], dbJobCh), stalledQueue)
       IN /\ worker' = IF start THEN StartSample(g) ELSE worker
          /\ gen' = s.g /\ dbJobCh' = s.ch
    /\ UNCHANGED <<root, dbResultCh, epochByGenKey, loaded, histVars>>

DiscoveryPass ==
    \E nPending \in 0..Len(gen.pending), nHeld \in 0..Len(gen.held),
       expireLookup, slot, stalledQueue \in BOOLEAN :
       Dispatch(nPending, nHeld, expireLookup, slot, stalledQueue)

(* The container is gone: endGeneration, whose forget job is best effort.   *)
EndGeneration ==
    /\ Live
    /\ gen' = [gen EXCEPT !.ended = TRUE]
    /\ dbJobCh' = IF Len(dbJobCh) < JobCap
                  THEN Append(dbJobCh, [kind |-> "forget", epoch |-> 0, seq |-> 0, ids |-> {}])
                  ELSE dbJobCh
    /\ UNCHANGED <<root, worker, dbResultCh, epochByGenKey, loaded, histVars>>

-----------------------------------------------------------------------------
(* The sample worker: runSampleWorker and the goroutine that waits for it. *)

(* Nothing is left of a container that has ended.                           *)
WorkerReads ==
    /\ worker.at = "running"
    /\ \/ ~ gen.ended /\ \E kind \in SampleKinds \ {"rootless"}, keep \in SUBSET Range(worker.events) :
            worker' = [worker EXCEPT !.at = "read",
                !.res = [basis |-> root, kind |-> kind,
                         verified |-> Kept(worker.events, keep),
                         gone |-> Kept(worker.events, Range(worker.events) \ keep)]]
       \/ \E kind \in IF gen.ended THEN {"gone"} ELSE SampleKinds \cap {"rootless", "denied", "gone"} :
            worker' = [worker EXCEPT !.at = "read", !.res = [NoResult EXCEPT !.kind = kind]]
    /\ UNCHANGED <<root, gen, workVars, histVars>>

(* sampleEnvTimeout: the loop no longer waits for this worker.              *)
SampleTimeout ==
    /\ worker.at = "running"
    /\ worker' = [worker EXCEPT !.at = "abandoned"]
    /\ gen' = IF Live THEN [gen EXCEPT !.sampleStalled = TRUE] ELSE gen
    /\ UNCHANGED <<root, workVars, histVars>>

(* sampleEnvFinished: the abandoned worker returns; its result is thrown    *)
(* away.                                                                    *)
SampleFinished ==
    /\ worker.at = "abandoned"
    /\ worker' = NoWorker
    /\ gen' = [gen EXCEPT !.sampleAlive = FALSE]
    /\ UNCHANGED <<root, workVars, histVars>>

(* drainPendingMountViewEvents, on the first sample that confirms the view. *)
ConfirmView(s, basis) ==
    IF s.g.view # 0 \/ basis = 0 THEN s
    ELSE DispatchAll(Shared([s.g EXCEPT !.view = basis, !.held = <<>>], s.ch), s.g.held, "held")

Mismatch(g, basis) == g.idx = "ready" /\ g.basis # 0 /\ basis # 0 /\ g.basis # basis

(* Events a sample re-checked are submitted one after the other.            *)
SubmitVerified(s, q, basis) ==
    LET after[i \in 0..Len(q)] ==
          IF i = 0 THEN s
          ELSE SubmitOrQueue(after[i - 1], Batch(q[i].id, "pending", basis, after[i - 1].g.epoch))
    IN after[Len(q)]

(* applyEventVerificationResult: what the sample re-checked is submitted or *)
(* lost, unless it was dropped in the meantime; the first late events of    *)
(* the queue are past their TTL and left to the next discovery pass.        *)
VerifyPending(s, res, late) ==
    LET still == Range(Drop(s.g.pending, late))
        t == SubmitVerified(s, Kept(res.verified, still), res.basis)
        done == (Range(res.verified) \cup Range(res.gone)) \cap still
    IN Shared([t.g EXCEPT !.pending = Kept(@, Range(@) \ done),
                          !.incomplete = @ \/ Range(res.gone) \cap still # {}], t.ch)

HasFiles(res) == res.kind \in {"clean", "partial"}
Confirmed(res) == res.kind \in {"clean", "partial", "empty", "denied", "rootless"}

(* Mutant: the files of a sample are submitted before its root is compared  *)
(* with the index's.                                                        *)
UseSample_SubmitsFirst(s, ready, res, id) ==
    IF ~ ready THEN s
    ELSE IF ~ HasFiles(res)
         THEN [s EXCEPT !.g.postIndexConfirmed = @ \/ (Confirmed(res) /\ s.g.idx = "ready" /\ s.g.db = "ok")]
    ELSE IF s.g.idx = "ready" /\ s.g.db = "ok"
         THEN SubmitOrQueue(s, Batch(id, "sample", res.basis, s.g.epoch))
    ELSE s

(* The last part of applySampleResult: files are looked up only when the    *)
(* sample began on a ready index of the same root; another root invalidates *)
(* the index.                                                               *)
UseSample(s, ready, res, id) ==
    IF ~ ready THEN s
    ELSE IF Mismatch(s.g, res.basis)
         THEN Shared([s.g EXCEPT !.idx = "idle", !.incomplete = TRUE,
                                 !.postIndexConfirmed = FALSE, !.epoch = @ + 1], s.ch)
    ELSE IF ~ HasFiles(res)
         THEN [s EXCEPT !.g.postIndexConfirmed = @ \/ (Confirmed(res) /\ s.g.idx = "ready" /\ s.g.db = "ok")]
    ELSE IF s.g.idx = "ready" /\ s.g.db = "ok"
         THEN SubmitOrQueue(s, Batch(id, "sample", res.basis, s.g.epoch))
    ELSE s

ApplySampleResult(s, ready, res, id, late) ==
    LET t == ConfirmView([s EXCEPT !.g.incomplete = @ \/ res.kind \in {"partial", "denied", "rootless"}],
                         res.basis)
        v == IF Mismatch(t.g, res.basis) THEN t ELSE VerifyPending(t, res, late)
        w == IF Confirmed(res) THEN [v EXCEPT !.g.denied = res.kind = "denied"] ELSE v
    IN UseSample(w, ready, res, id)

(* sampleEnvResult *)
HandleSampleResult(late) ==
    /\ worker.at = "read"
    /\ LET takes == Live /\ worker.ready /\ HasFiles(worker.res) /\ gen.db = "ok"
           g == [gen EXCEPT !.sampleAlive = FALSE, !.sampleStalled = FALSE]
           s == IF Live THEN ApplySampleResult(Shared(g, dbJobCh), worker.ready, worker.res, items + 1, late)
                        ELSE Shared(g, dbJobCh)
       IN /\ takes => items < MaxItems
          /\ items' = IF takes THEN items + 1 ELSE items
          /\ owed' = IF takes THEN owed \cup {items + 1} ELSE owed
          /\ gen' = s.g /\ dbJobCh' = s.ch
          /\ sampleSeen' = (sampleSeen \/ (/\ Live /\ worker.ready /\ ~ HasFiles(worker.res) /\ Confirmed(worker.res)
                                           /\ s.g.idx = "ready" /\ s.g.db = "ok"))
    /\ worker' = NoWorker
    /\ UNCHANGED <<root, dbResultCh, epochByGenKey, loaded, wrong>>

SampleResult == \E late \in 0..Len(gen.pending) : HandleSampleResult(late)

-----------------------------------------------------------------------------
(* runDBWorker: one job at a time; the answer waits until the loop takes it. *)

Answer(kind, seq, outcome, basis, ids) ==
    [kind |-> kind, seq |-> seq, outcome |-> outcome, basis |-> basis, ids |-> ids]

(* handleBuildJob reads through the root init has now.  A build that fails  *)
(* leaves the parser with the index it had, with the new one, or none.  The *)
(* root of an ended container cannot be opened.                             *)
BuildOutcomes ==
    IF gen.ended THEN {[as |-> "noChange", loaded |-> loaded]}
    ELSE {[as |-> "ok", loaded |-> root], [as |-> "settled", loaded |-> loaded]}
         \cup [as : {"failed"}, loaded : {0, loaded, root}]
         \cup [as : {"noChange"}, loaded : {loaded, root}]

DBBuild ==
    /\ dbJobCh # <<>> /\ Len(dbResultCh) < JobCap
    /\ Head(dbJobCh).kind = "build"
    /\ epochByGenKey' = Head(dbJobCh).epoch
    /\ \E o \in BuildOutcomes :
          /\ loaded' = o.loaded
          /\ dbResultCh' = Append(dbResultCh, Answer("build", 0, o.as, root, {}))
    /\ dbJobCh' = Tail(dbJobCh)
    /\ UNCHANGED <<root, gen, worker, histVars>>

(* handleLookupJob.  "truncated" stands for an answer that lacks a path or  *)
(* has its owners cut short.                                                *)
DBLookup ==
    /\ dbJobCh # <<>> /\ Len(dbResultCh) < JobCap
    /\ Head(dbJobCh).kind = "lookup"
    /\ \E outcome \in IF Head(dbJobCh).epoch # epochByGenKey THEN {"epochStale"}
                      ELSE {"answered", "truncated", "failed"} :
          dbResultCh' = Append(dbResultCh, Answer("lookup", Head(dbJobCh).seq, outcome, loaded, Head(dbJobCh).ids))
    /\ dbJobCh' = Tail(dbJobCh)
    /\ UNCHANGED <<root, gen, worker, epochByGenKey, loaded, histVars>>

DBForget ==
    /\ dbJobCh # <<>> /\ Len(dbResultCh) < JobCap
    /\ Head(dbJobCh).kind = "forget"
    /\ epochByGenKey' = 0 /\ loaded' = 0
    /\ dbResultCh' = Append(dbResultCh, Answer("forget", 0, "ok", 0, {}))
    /\ dbJobCh' = Tail(dbJobCh)
    /\ UNCHANGED <<root, gen, worker, histVars>>

(* The parser dies under a job: the loop takes the earlier answers, then    *)
(* ends the session with every generation parse_failed                      *)
(* (writeParseFailedAndExit).                                               *)
ParserDies ==
    /\ Live
    /\ dbJobCh # <<>> /\ dbResultCh = <<>>
    /\ gen' = [gen EXCEPT !.forceParseFailed = TRUE, !.sampleAlive = FALSE]
    /\ dbJobCh' = <<>> /\ worker' = NoWorker /\ loaded' = 0
    /\ UNCHANGED <<root, dbResultCh, epochByGenKey, histVars>>

-----------------------------------------------------------------------------
(* applyDBResult *)

(* Mutant: queued batches are left for a later lookup's answer.             *)
Flush_Waits(s) == s

(* flushQueuedCandidates: batches of another epoch are lost.                *)
Flush(s) ==
    LET current == {b \in Range(s.g.queued) : b.epoch = s.g.epoch}
        t == Shared([s.g EXCEPT !.queued = <<>>, !.incomplete = @ \/ current # Range(s.g.queued)], s.ch)
    IN IF current = {} THEN t ELSE SubmitBatches(t, Kept(s.g.queued, current))

(* applyBuildResult *)
ApplyBuildResult ==
    /\ Live
    /\ dbResultCh # <<>> /\ Head(dbResultCh).kind = "build"
    /\ LET res == Head(dbResultCh) IN
       \/ /\ res.outcome = "settled"
          /\ gen' = [gen EXCEPT !.idx = "ready", !.db = "absent", !.basis = res.basis,
                                !.postIndexConfirmed = TRUE]
       \/ /\ res.outcome = "noChange"
          /\ gen' = [gen EXCEPT !.idx = "failed", !.db = "error"]
       \/ /\ res.outcome = "ok"
          /\ gen' = [gen EXCEPT !.idx = "ready", !.db = "ok", !.basis = res.basis,
                                !.postIndexConfirmed = FALSE, !.parseFailed = FALSE]
       \/ /\ res.outcome = "failed"
          /\ gen' = [gen EXCEPT !.idx = "failed", !.db = "error", !.parseFailed = TRUE]
    /\ sampleSeen' = FALSE
    /\ dbResultCh' = Tail(dbResultCh)
    /\ UNCHANGED <<root, worker, dbJobCh, epochByGenKey, loaded, items, owed, wrong>>

(* Recorded for the properties: the files recordOSPackage is given though   *)
(* the answering index is not of the root they were seen in, or the lookup  *)
(* was not theirs.                                                          *)
Miscredited(res, batches) ==
    IF res.outcome \notin {"answered", "truncated"} \/ res.basis = 0 THEN {}
    ELSE {[src |-> b.src, db |-> gen.db, why |-> "root"] : b \in {c \in Range(batches) : c.root # res.basis}}
         \cup {[src |-> b.src, db |-> gen.db, why |-> "lookup"] : b \in {c \in Range(batches) : c.id \notin res.ids}}

(* Mutant: the answer's seq is not compared with the outstanding lookup's.  *)
ApplyLookupResult_AnySeq ==
    /\ Live
    /\ dbResultCh # <<>> /\ Head(dbResultCh).kind = "lookup"
    /\ LET res == Head(dbResultCh)
           done == gen.lookup.batches
           g == [gen EXCEPT !.lookup = NoLookup]
           h == CASE res.outcome \in {"epochStale", "failed"} -> [g EXCEPT !.incomplete = TRUE]
                  [] res.outcome = "truncated" -> [g EXCEPT !.incomplete = TRUE, !.postIndexConfirmed = TRUE]
                  [] OTHER -> [g EXCEPT !.postIndexConfirmed = TRUE]
           s == Flush(Shared(h, dbJobCh))
       IN IF gen.lookup = NoLookup
          THEN UNCHANGED <<gen, dbJobCh, owed, wrong, sampleSeen>>
          ELSE /\ gen' = s.g /\ dbJobCh' = s.ch
               /\ owed' = owed \ (IF res.outcome = "answered" THEN Ids(done) ELSE {})
               /\ wrong' = wrong \cup Miscredited(res, done)
               /\ UNCHANGED sampleSeen
    /\ dbResultCh' = Tail(dbResultCh)
    /\ UNCHANGED <<root, worker, epochByGenKey, loaded, items>>

(* applyLookupResult *)
ApplyLookupResult ==
    /\ Live
    /\ dbResultCh # <<>> /\ Head(dbResultCh).kind = "lookup"
    /\ LET res == Head(dbResultCh)
           done == gen.lookup.batches
           g == [gen EXCEPT !.lookup = NoLookup]
           h == CASE res.outcome \in {"epochStale", "failed"} -> [g EXCEPT !.incomplete = TRUE]
                  [] res.outcome = "truncated" -> [g EXCEPT !.incomplete = TRUE, !.postIndexConfirmed = TRUE]
                  [] OTHER -> [g EXCEPT !.postIndexConfirmed = TRUE]
           s == Flush(Shared(h, dbJobCh))
       IN IF gen.lookup = NoLookup \/ res.seq # gen.lookup.seq
          THEN UNCHANGED <<gen, dbJobCh, owed, wrong, sampleSeen>>
          ELSE /\ gen' = s.g /\ dbJobCh' = s.ch
               /\ owed' = owed \ (IF res.outcome = "answered" THEN Ids(done) ELSE {})
               /\ wrong' = wrong \cup Miscredited(res, done)
               /\ sampleSeen' = (sampleSeen \/ (/\ res.outcome \in {"answered", "truncated"}
                                                /\ \E b \in Range(done) : b.src = "sample"))
    /\ dbResultCh' = Tail(dbResultCh)
    /\ UNCHANGED <<root, worker, epochByGenKey, loaded, items>>

(* The result of a forget, or of any job of an ended generation.            *)
IgnoreDBResult ==
    /\ dbResultCh # <<>>
    /\ ~ Live \/ Head(dbResultCh).kind = "forget"
    /\ dbResultCh' = Tail(dbResultCh)
    /\ UNCHANGED <<root, gen, worker, dbJobCh, epochByGenKey, loaded, histVars>>

-----------------------------------------------------------------------------
LoopStep == UsageEvent \/ DiscoveryPass \/ EndGeneration \/ SampleTimeout \/ SampleFinished
            \/ SampleResult \/ ApplyBuildResult \/ ApplyLookupResult \/ IgnoreDBResult

DBWorkerStep == DBBuild \/ DBLookup \/ DBForget \/ ParserDies

Next == ChangeRoot \/ LoopStep \/ WorkerReads \/ DBWorkerStep

Spec == Init /\ [][Next]_vars

(* Discovery passes recur on the sample ticker, and by then a TTL passes;   *)
(* the dbworker bounds each of its jobs (buildSoftCap, the parser's own     *)
(* timeouts); the loop takes whatever its channels hold.                    *)
Fairness ==
    /\ WF_vars(\E slot, stalledQueue \in BOOLEAN :
                  Dispatch(Len(gen.pending), Len(gen.held), TRUE, slot, stalledQueue))
    /\ WF_vars(DBWorkerStep)
    /\ WF_vars(ApplyBuildResult \/ ApplyLookupResult \/ IgnoreDBResult)
    /\ WF_vars(WorkerReads \/ SampleTimeout \/ SampleFinished)
    /\ WF_vars(SampleResult)

FairSpec == Spec /\ Fairness

-----------------------------------------------------------------------------
(* Properties *)

(* derivePublishedState *)
PublishedState ==
    CASE gen.ended -> "ended"
      [] gen.sampleStalled -> "stalled"
      [] gen.denied -> "denied"
      [] gen.parseFailed \/ gen.forceParseFailed -> "parse_failed"
      [] gen.idx # "ready" \/ ~ gen.postIndexConfirmed \/ gen.pending # <<>> -> "initializing"
      [] OTHER -> "observing"

(* toEvidence's Incomplete: something is lost, or still on its way.         *)
PublishedIncomplete ==
    \/ gen.incomplete \/ gen.lookup # NoLookup \/ gen.queued # <<>> \/ gen.held # <<>>

(* evidence.GenerationEligibleForNotObserved for an OS package: a snapshot  *)
(* built now would let the main body conclude not_observed.                 *)
Eligible == PublishedState = "observing" /\ ~ PublishedIncomplete /\ gen.db = "ok"

(* The main body may read "not observed" only when every observation the    *)
(* loop ever took in for this generation has been looked up and applied:    *)
(* none was dropped at a full channel or queue, expired, or swallowed by a  *)
(* rebuild without the generation withdrawing the claim.                    *)
NothingDroppedQuietly == Eligible => owed = {}

(* A file seen by a sample, or re-checked by one, is only ever credited     *)
(* from an index built from the very root the sample saw it in, while that  *)
(* root has a package database.                                             *)
SamplesMatchIndexRoot ==
    \A a \in wrong : ~ (a.src \in {"sample", "pending"} /\ a.db = "ok" /\ a.why = "root")

(* A batch is only credited from the answer to the lookup it was sent with: *)
(* the late answer of a lookup given up on is not taken for its             *)
(* successor's.                                                             *)
AnswersAreTheirOwn == \A a \in wrong : a.why # "lookup"

(* The lookups of a live generation always meet the index of their epoch,   *)
(* however builds, mismatches, rebuilds and time-outs follow one another.   *)
(* The comments at runDBWorker's epochByGenKey and in applyLookupResult     *)
(* tell of a lookup dequeued behind a newer build.  That case does not      *)
(* arise: the channel is first in, first out, and a rebuilding generation   *)
(* sends no lookup until the answer to its build.  The dbworker's check is  *)
(* a second line of defence, and candidatesLostPermanently is never set by  *)
(* it.                                                                      *)
LookupsMeetTheirEpoch == Live => \A res \in Range(dbResultCh) : res.outcome # "epochStale"

(* Every observation taken in is eventually attributed, or the generation   *)
(* stops claiming completeness, or it ends.                                 *)
EveryObservationSettles ==
    \A i \in 1..MaxItems :
        i \in owed ~> (i \notin owed \/ gen.incomplete \/ ~ Live)

(* What postIndexConfirmed's comment says: until a sample begun on the      *)
(* ready index has been attributed, the generation must not be taken for    *)
(* one that positively confirmed which packages are in use.  It does not    *)
(* hold: the lookup of an event confirms it as well (applyLookupResult).    *)
ObservingMeansSampled == Eligible => sampleSeen

(* What idxEpoch's comment says: a file observed in one root "can never be  *)
(* matched against an index later rebuilt from a different one".  It does   *)
(* not hold for events (dispatchUsageEvent); SamplesMatchIndexRoot does.    *)
EventsMatchIndexRoot == \A a \in wrong : ~ (a.src = "event" /\ a.why = "root")

(* What applySampleResult's comment says: nothing this sample confirmed     *)
(* under a new root is credited from the old root's index; the held events  *)
(* it releases included.  It does not hold for these.                       *)
HeldEventsMatchIndexRoot == \A a \in wrong : ~ (a.src = "held" /\ a.why = "root")
=============================================================================
