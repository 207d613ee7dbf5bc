# KestreLynx in TLA+

A verification project for the KestreLynx source tree: TLA+ modules translated
from the Go code, TLC runs on small instances, and TLAPS proofs for every size.
`PROJECT.json` lists the runs, the source lines of each definition, the mutants
that show each property can fail, the hazards and the theorems.

KestreLynx scans the images of running containers, judges the findings,
compares them with what it knew, and notifies. An optional *Sensor* watches the
containers on the host and tells the scanner which packages are really in use.

## 1. Inventory

### Sensor (`internal/sensor`, `internal/evidence`)

| part | state | operations | what is hard |
|---|---|---|---|
| session loop (`session.go`) | generations, channels, timers | one `select` over discovery, samples, db results, events, write reports | everything below meets here |
| generations (`generation.go`) | one record per life of a container | register, end, forget after `endedRetention` | results that arrive for a generation that has ended |
| sample workers (`sampleworker.go`) | slots, stalled marks | start oldest-verified-first, time out, return late | slots must be bounded and not leak |
| index builds (`dbworker.go`, `dbhandler.go`) | job and result channels, an index per generation | build, look up, forget | init changes its root between build, sample and lookup |
| usage events (`events.go`, `genconfirm.go`, `pathresolve.go`, `cgroupmap.go`) | pending queues, loss counters, coverage | attribute to a generation, retry, expire, evict | an event lost silently makes a later "not observed" false |
| writer (`writer.go`) | two one-slot channels | latest-wins hand-over, final write | never block the loop; last snapshot last |
| evidence file (`evidence/*`) | one file written in place | overwrite, read, retry, fall back | torn reads |

### Main body

| part | state | operations | what is hard |
|---|---|---|---|
| cycle (`runner`) | – | scan, judge, compare, deliver, save | any of them fails; the cycle is repeated from the saved state |
| comparison (`state`) | state file | `Compute`, retag pairing, carry-over | a failure must not look like a fix, a recovery not like news |
| judgement (`analyze`) | – | priorities, muting, inventory | priorities differ while feeds are out |
| delivery (`notify`) | Slack thread reference | send to every destination | one destination fails |
| scanner, intel, nodecore, pycore | caches | run Trivy, refresh feeds | stale caches |
| collection (`docker`, `kubernetes`, `inventory`) | – | list containers | – |
| fix planner (`remediation`) | – | plan updates | size, not concurrency |
| pull request stage (`remediation/pr_*.go`) | record file with operation log | reserve, intent, request, result, reconcile, replace | crash or unknown outcome of a GitHub write |
| plan delivery (`delivered.go`, `runner/plan.go`) | fingerprints per destination | send if changed, mark | one destination fails |
| tool cache (`toolfetch`) | blobs, index, holds | provide, evict | eviction while in use |
| work jobs (`docker/work*.go`, `kubework`, `worker`) | containers, Pods | create, feed, wait, collect, remove | lost answers, leftovers |

The parts meet in two places: the Sensor and the main body share only the
evidence file, and one cycle and the next share only the state file (and the
records of the plan and pull requests).

## 2. Modules

Definitions keep the names of the code where TLA+ allows it; an action stands
for a whole handler of the session loop, or for one step of a goroutine between
two points where another can run.

- **EvidenceWriter** – `submitSnapshot`, `submitFinalSnapshot`, `runWriter` and
  the loop's handling of reports. Draining a slot and sending to it are
  separate steps, because the other goroutine runs in between. A snapshot is
  its number. `SessionProofs` holds the theorems.
- **EvidenceFile** – `WriteFD` (pwrite block by block, ftruncate, fsync) against
  `FileProvider.Load` and `Reader.Read`. The file is a sequence of blocks; a
  checksum matches exactly when all blocks are of one snapshot. Writes may fail
  or stop half way. `EvidenceFileProofs` holds the theorems.
- **GenerationIndex** – one generation in full: builds and epochs, outstanding
  and queued lookups, samples, events held for the index or for the mount view,
  expiry, parser death, and the state and completeness it publishes. Other
  generations appear as nondeterminism in the channels and slots, the age of a
  pending event as the number of events at the front of its queue that are too
  old. `GenerationIndexProofs` holds the theorems.
- **Generations** – what a discovery pass does to the set of generations;
  shared by the next two.
- **SampleDispatch** – the sample worker slots of several generations:
  `dispatchWork`, `handleSampleEnvelope`. `SessionProofs` holds the theorems.
- **BuildQueue** – build and forget jobs of several generations through the
  bounded channels, `checkBuildQueueHealth`, results after the end.
  `BuildQueueProofs` holds the theorems.
- **EventRouting** – from the arrival of a kernel event, or of a loss counter, to
  the generation that uses it or is charged for it: the cgroup route table,
  `pendingRouteEvents`, the liveness checks of `genconfirm.go`, the path lookups
  of `pathresolve.go`, events held for the mount view, `pendingLossDeltas`,
  expiry in its three tiers, forced evictions with their watermark, and what a
  snapshot says of each generation meanwhile. Each handler of the loop is one
  action; the goroutines of a check and of a discovery pass have a step of their
  own. The world (container runs and the clock) is kept beside what the session
  knows of it, so that the properties can compare the two. **EventOwner** is the
  part of `resolveEventGeneration` that decides by start times; the theorems
  about it are in `SessionProofs`.
- **PullRequests** – the stage of `pr_stage.go`, `pr_reconcile.go` and
  `pr_replace.go` for the updates of one target. Every read and write of GitHub
  is a step, with the saves of the record file before and after it; between
  steps people merge, close, reopen, edit, push and delete, the process crashes,
  records get lost, an answer is lost after the write took place or before. The
  plan's candidate moves from any update to any other. Two constants say how
  updates relate: `Patch`, the patch number of the tag, and `Inherits`, the pairs
  in which the new update covers what the old one fixes; `replaceable` needs both.
  **UpdateProposals** is what the stage promises, on one page: each update is
  proposed once, and withdrawn only after one that supersedes it was proposed.
  `PullRequests!Abstract` maps the pull requests on GitHub to it, and
  ImplementsProposals is the refinement. `PullCycleProofs` has the inductive
  invariant and the steps up to the pull request, `PullRequestsProofs` the
  replacement steps and the theorems.
- **StateDiff** – `state.Compute` as operators: carry-over, change kinds, end of
  life, muting, the open count, and the pairing of `retag.go`. One package per
  reference, because `Compute` treats packages independently.
- **ScanCycle** – `RunOnce` and `sendDiff` around it: what a cycle can observe,
  when a message is due, delivery to several destinations, saving. A stop
  between delivery and save is the same as a failed save. Two history variables
  remember what the properties compare with: `settled`, and `news`, the date of
  the message that last called a package new. **MCScanCycle** gives
  the profiles, i.e. what a scan can find. The theorems are in
  `ScanCycleProofs` and `ScanAnnouncementProofs`.

## 3. Runs

| run | properties | instance |
|---|---|---|
| `evidence_writer` | SendNeverBlocks, WrittenInOrder, StreakIsTrue, FinalIsLast, ReportsMoveForward, FinalReturns, LatestIsWritten | 4 snapshots, the last one final |
| `evidence_file` | ReadsWholeSnapshot, QuietReadSucceeds, LoadsMoveForward | 3 snapshots of one or two body blocks, clock up to 2 |
| `index_claims` | NothingDroppedQuietly, EveryObservationSettles | 3 observations, one root, all caps 1 |
| `index_roots` | AnswersAreTheirOwn, SamplesMatchIndexRoot, LookupsMeetTheirEpoch | 2 observations, 2 roots, all caps 1 |
| `sample_slots` | LedgerExact, StalledUntilTimely, TurnsWhileSlotsLast | 3 generations, 1 slow, 2 slots |
| `build_queue` | BuildingMeansOneBuild, ForgetComesLast, EveryoneBuilt | 2 generations, channels of 2 |
| `event_routing` | KeptOnce, LossWithdrawsClaim, PendingWithdrawsClaim | 2 events or losses, 2 runs of a container, every queue and pool 1 |
| `event_settles` | UsedByItsOwner, EverySettles | 1 event or loss, 2 runs, ticks of 2 nanoseconds |
| `scan_failures` | NoFlap, AgedFromNews, ActNowIsTold, SilenceMeansClear | 1 reference with up to 2 entities, failed, partial and unpinned scans |
| `scan_delivery` | VisibleMeansTold, EventuallyTold | 2 destinations, failed scans, missing advisories, feed outages, unreadable state file |
| `scan_moves` | HistoryAccounted | 3 references of one repository, failed scans |
| `pull_requests` | ClosedHasSuccessor, CommentedOnce, NothingUnrecorded, ImplementsProposals, ClosedAsChecked, EventuallyProposed, OlderReplaced | 3 updates, 2 base commits, at most 2 open, any 2 faults or acts of people, any number of cycles |

All twelve pass. Type invariants are kept where a proof needs them (in the
proof modules, or in EvidenceWriter and SampleDispatch); elsewhere the
properties would fail, or TLC stop, on a value of the wrong shape.

**Bounds.** One-slot channels need three jobs to have one written, one held and
one queued; the fourth lets the final one meet all of these. Two body lengths
make a snapshot overwrite a longer and a shorter one. With every cap of a
generation at one, two observations are enough to fill and overflow the queues
of events, and a third overflows the queue of lookups as well; two roots are
enough for every mismatch, since only equality of roots is compared. Two slots
and three generations make a generation wait for a slot. With every queue and
pool of EventRouting at one, two events are enough to fill each and to evict
from it; two runs of one container give every answer of
`resolveEventGeneration`; three clock values let a run be seen alive, end, and
be followed by another. `event_routing` has ticks of one nanosecond, so that
the clock stays small; `event_settles` has a finer clock, in which an event
falls inside init's own start tick or after it. Of the three updates the
second replaces the first, and the third, the second's tag with another digest,
replaces neither: so there are a replacement, candidates that must not replace, a
candidate that goes back to an older patch, and a limit of two open pull requests
that is reached. Two base commits give an attempt overtaken by a push; two events
let a person act after a lost answer, or a crash follow one. A third reference gives a
workload two candidates to have moved to. `MaxClock` only distinguishes a new
date from an old one. Runs that say `CHECK_DEADLOCK FALSE` stop because a bound
is reached or a session has ended; elsewhere deadlock is checked.

**Fairness.** Goroutines that can run do run (writer, dbworker, sample workers,
the loop's `select`); the sample ticker keeps discovery passes coming, also when no
container starts or ends (the fairness is on a pass that finds the same
containers: nothing says that one must end); a read of procfs
ends, and jobs of the dbworker are bounded by its own limits. BuildQueue
assumes strong fairness for each generation's build being submitted when there
is room: Go's map order is random, so it does not always pass over the same one.
EventRouting assumes that checks and lookups are answered (each has its own
time limit) and their answers applied, that snapshots are built, that time
limits pass, and that not every discovery pass fails. Its `Fairness` says so with
conditions that hold again and again, each of which the weak or strong
fairness of the step that ends the condition implies. PullRequests assumes that
the cycle goes on; faults and people are bounded in number, so that eventually
the stage is left alone. `EventuallyTold` assumes that again and again a cycle
leaves everything saved and nothing failed (`Loop` does not stop on an error),
and speaks of executions in which deployments come to rest. Nothing is assumed
of containers, of failures or of timeouts.

### Where code and comments disagree

Each of these is stated as a definition in its module (except the fourth and the
last) and fails when it is added to a configuration:

- `SinceStartMeansSeen` (EventRouting, as in `event_routing`):
  `evidence/container.go:41` says that since_start means the collector "has not
  lost any events for it since". A loss counter carries no start time, and
  `resolveEventGeneration` (`events.go:901`) charges it to the run still counted
  as live. After a restart that no pass has seen yet the loss of the new run is
  charged to the old one, and the new run is registered with since_start and
  complete. The same happens to an event that expires while it waits for the
  old run's liveness check. LossWithdrawsClaim covers every other loss, and
  PendingWithdrawsClaim leaves out the events waiting for that check.
- `ReplacedSeenNoLater` (EventRouting, as in `event_routing`): an event that falls
  into the gap between two runs is given up at once because, as `events.go:1020`
  says, the earlier run "has already ended (a later generation is known to
  exist), so its own lastAliveNs can never advance again". It can:
  `applyGenConfirmResult` (`genconfirm.go:275`) takes the answer of a check
  that was under way when the run was replaced. An event given up meanwhile may
  be one this answer would have placed. It is counted as lost, so no claim
  becomes false; *GapUnlessLateAnswer* (section 4) shows that nothing else can
  undo a gap.
- `ObservingMeansSampled` (GenerationIndex; 1 observation): a generation counts
  as observing after a single event's lookup (`session.go:1530`), before any
  sample has used the index, as `generation.go:148` says one must.
- `checkBuildQueueHealth` (`session.go:1853`) also looks at ended generations: one
  that ends during its build stays "building" and holds back all builds until
  it is forgotten, although nothing is outstanding (`session.go:1846`).
  EveryoneBuilt holds all the same.
- `RecoveryIsQuiet` (ScanCycle; `OutageProfiles`, feed outages): the
  severity-only priority of a feed outage (`triage.go:114`) is saved as the
  baseline, and the recovery announces an escalation that never happened.
  Likewise the fallback lifts a muted critical finding to act_now, which is
  announced as unmuted.
- `ActNowIsTold` with feed outages: the fallback's act_now becomes the baseline
  and hides the real escalation after the outage. `scan_failures` checks it
  without outages.
- `TornWriteIsRetryable` (EvidenceFile; `BodyLens = {1, 3}`): a long snapshot
  half written over a short one shows no trailer, which `read.go:187` treats as
  invalid without a retry, although its comment says that no torn write looks
  like this.
- `EventsMatchIndexRoot` (GenerationIndex; two roots, `RootsMayMix = TRUE`): the
  mount view events are compared with is that of the first confirmed sample, so
  an event of the old root is looked up in the index of the new one
  (`events.go:1105`).
- `HeldEventsMatchIndexRoot` (GenerationIndex, as in `index_roots`): held events
  are submitted before the sample that releases them is compared with the index
  (`session.go:1222`).
- `EventuallyATurn` (SampleDispatch; as many slow generations as slots):
  generations that never verify sort first in every pass (`session.go:1751`).
  `TurnsWhileSlotsLast` is what does hold.
- `runDBWorker` (`dbworker.go:183`) and `applyLookupResult` (`session.go:1546`) tell of
  a lookup dequeued behind a newer build and therefore refused as stale
  (`epochStale`). Here the comments describe more than can happen, and
  LookupsMeetTheirEpoch says so: the channel is first in, first out, so a lookup
  sent before a build is taken before it, and while a build is on its way the
  index is not ready and no lookup is sent. The check in the dbworker is a second
  line of defence, and the branch of `applyLookupResult` behind it is not reached
  for a generation that has not ended.

Also seen, and not contradicted by the documentation: a slot held by the worker
of a generation that is forgotten is never given back (`handleSampleEnvelope`
drops the return); the late return of a sample leaves the stalled mark; a
cycle that is delivered but not saved, followed by a change back, does not
announce the finding again; a pull request merged between its last check and
its close is recorded as replaced; one that a person reopens after it was
replaced is closed again; a package that enters end of life is dated from the
message that says so, and keeps only that date when its ordinary findings are gone;
and after the loss of the records and a crash a
branch without a pull request can stay in the way of its attempt.

## 4. Proofs

**SessionProofs** has the three parts of a session that are small enough to be
taken together.

*Writer*, from `MaxSnapshots \in Nat \ {0}` alone: type correctness, and
SendNeverBlocks, WrittenInOrder, StreakIsTrue, FinalIsLast and
ReportsMoveForward for any number of snapshots. None of them is inductive by
itself. `IInv` adds *OrderInv* (log, held job, queued job and the snapshot just
built are in increasing order), *ReportInv* (a report in a channel is true of a
prefix of the log that the loop has not gone past) and *FinalInv* (where the
final job can be, and that nothing newer exists from then on).

*Sample slots*, for every finite set of generations and any number of
slots, from `GenerationsAssumption` and `SampleAssumption`: type correctness,
LedgerExact, SlotsBounded and StalledUntilTimely. `LedgerTypeOK /\ LedgerExact`
is inductive; SlotsBounded follows because every worker has its flag set and the
count of flags is bounded. The lemmas are about cardinalities: giving a slot back
takes one flag and one from the count, a pass adds as many flags as it counts.

*Owner of an event*, from `NsPerTick \in Nat \ {0}` alone, for any number of
runs that do not overlap and any part of them the session may know.
*ResolvedIsOwner*: an event that `resolveEventGeneration` resolves came from the
run it is resolved to, whatever order the generations are looked at in. The
argument: a start tick contains the real start, so an event after the tick and
before a moment at which init was seen alive lies within that run; in the tick
itself only init is accepted. UsedByItsOwner is this result, in the run with all
the queues around it. *GapUnlessLateAnswer*: an event that is answered with a gap
is answered so whatever restarts the session notices and whichever init samples
and checks see alive later, with one exception: a check of a run replaced since,
under way already, may still answer that this run was alive at the event. Nothing
else is given away by dropping the event at once. What the session may learn is
described by `LaterKnown`; that only such checks move the last moment alive of a
replaced run, and that none is begun for one, is `OnlyLateAnswersCount` of
EventRouting, which holds when it is added to `event_routing`.

**GenerationIndexProofs**, from `IndexAssumption`, for any number of observations
and roots, any capacity of the channel and the queues, and any outcomes of samples:
NothingDroppedQuietly, AnswersAreTheirOwn, SamplesMatchIndexRoot and
LookupsMeetTheirEpoch. One invariant carries all four. Its parts relate the
generation to both channels and to the dbworker, for a generation that has not
ended:

- *Own*: batches are queued only behind an outstanding lookup; a job or an answer
  with the number of that lookup is about its batches; no number on its way was
  not given out.
- *BuildLast*: a build is the last thing on its way, in either channel, and of the
  current epoch. This is why a lookup can never arrive after the build of the next
  epoch, which LookupsMeetTheirEpoch says.
- *Epochs* and *Roots*: a ready index has the dbworker's epoch, and the parser
  holds the index of its basis; what a sample saw is queued, submitted and answered
  with that basis. A queued batch of an older epoch is exempt: it is dropped when
  its turn comes.
- *SampleOK*: a sample that began on a ready index is applied while the index is
  ready, and what it confirms it saw in a root.
- *Accounted*: every observation taken in is applied, or still waits in a known
  place, or the generation says that it is incomplete.

A handler submits any number of events one after the other, as a fold of one
operator over a sequence. Each such operator has a lemma that one step takes a
state of the invariant to one, loses nothing it does not admit to, and changes only
what it may. The lemmas *Induct* and *Recursion* carry this over a sequence of any
length: the folds are defined over the prefixes of the sequence, so that the
induction is over numbers up to its length, for which the well-foundedness of the
natural numbers is enough.

**PullCycleProofs** and **PullRequestsProofs**, from `PRAssumption`, for any number of
updates, base commits, open pull requests, faults and acts of people.
The relation between updates is any `Patch` and `Inherits`, and the candidate moves at
will. ClosedHasSuccessor, CommentedOnce and NothingUnrecorded follow from an `IInv` with
three parts. *PullsOK* is about GitHub alone: the stage opened at most one pull
request for an update, what it closed has one of its own that supersedes it and that a
comment names, and no comment is made twice. *FileOK* is
about the records, on disk and in memory: each is of the pull request with its
number, a replacement past "pending" has its comment, and no pull request of the
stage is missing whose attempt is settled. *CycleOK* says what each step of a cycle
may rely on although people act in between: before it creates anything, that the
update has no pull request; before it comments, that the comment is not there; before
it closes, that it is. It has to hold of the disk as well, because a crash at any step
goes back to what is saved.

*ClosedAsCheckedHolds* needs one more invariant, *Closing*: from the second check of a
pair to the write that closes, unless a person acted since, both pull requests are as
the stage made them. It is kept because no step of the stage other than that write
closes anything.

*ImplementsProposalsHolds* is the refinement of UpdateProposals: each step leaves the
states of the stage's pull requests alone, or proposes one new update, or withdraws
one for one that supersedes it, or is the act of a person. It
uses the same `IInv`: an update is proposed only once because a cycle at *send* knows
that it has none. ProposedAtMostOnce and NeededStaysOpen are then what the promise
means for the stage: at most one pull request for an update, and, as long as nobody
has touched any, one open for every proposed update that no proposed one supersedes.

**EvidenceFileProofs**, from `FileAssumption`, for any number of snapshots of any
lengths: ReadsWholeSnapshot, QuietReadSucceeds and LoadsMoveForward. `IInv` adds to them *WriterInv* (the part of the file before
the write offset is the new snapshot; a file whose last write returned nil is
that snapshot), *QuietInv* (what an undisturbed Load has read so far is a prefix
of a file that does not change) and *ForwardInv* (the first block of the file is
never older than what was read or returned). The last is why no Load goes back:
a write begins at offset 0, so whatever a Load accepts is of the snapshot its
first block shows.

**BuildQueueProofs**, from `GenerationsAssumption` and `QueueAssumption`, for any
finite set of generations and any channel capacity: ForgetComesLast and
BuildingMeansOneBuild. The argument looks at the two channels as one sequence,
results first: a parser step leaves it as it is, the loop adds at one end and
takes from the other. `IInv` says of this sequence that a generation has at most
one build and one forget in it, in this order; that a forget is only there for a
generation that has ended; and that a build of a live generation is there exactly
while it is in state building.

**ScanCycleProofs**, from `DiffAssumption` and `CycleAssumption` (profiles of the
right shape, a repository for each reference, known fault kinds), for any
references, contents, workloads, CVEs, destinations and faults:
VisibleMeansTold, AgedFromNews, SilenceMeansClear and HistoryAccounted. The
first is inductive with `TypeInv` (records are of references and have priorities
of the triage table). So is the second, with dates that are numbers and not in the
future (*AgeInv*): records move together with their dates, and a record that takes
today's date is one of a package the same cycle calls new. The last two are
statements about one comparison from any well-typed state. The lemmas describe `Compute` piece by piece: what the next
state's records, images and mutings are, what the diff lists, and that the pairs
of `pairRefChanges` are a partial injection, so that no two records are moved to
one place.

**ScanAnnouncementProofs**, from the same assumptions. *ActNowAnnounced*
(ActNowIsTold) rests on `ActNowInv`: what the state has as act_now and muting does
not hide has been shown as act_now. *NothingFlaps* (NoFlap) rests on
`SettledInv`: once a complete judgement is saved, and until the next deployment,
the state has a record exactly for what a whole scan of what runs would show, with
the same CVEs, priority, fixability and muting. A scan that fails in part shows
less of the same thing, so that the records it is merged into do not change. Both
theorems assume `"outage" \notin Faults`, i.e. that the advisory data can be had:
in an outage the code judges by severity alone and saves these priorities as its
baseline, so that after it a priority may rise again or have risen silently
(section 3, RecoveryIsQuiet).
*NothingLooksFixed* is the half that does not need the assumption: with any
faults, nothing of a settled deployment is reported resolved, replaced or moved.

TLC agrees with each inductive invariant on the instances of section 3 (for
EvidenceFile with the block numbers of its type bounded).

Only model-checked:

- all liveness properties: fairness and ENABLED are out of the prover's reach;
- EventRouting (KeptOnce, LossWithdrawsClaim, PendingWithdrawsClaim,
  UsedByItsOwner): only the rule by which an event is given to a run is proved
  (*ResolvedIsOwner*). A handler of this module folds a long operator over all
  events of a queue or all generations of a container, and its invariant would
  relate five queues, two pools and the world; the argument of GenerationIndex
  applies in principle and has not been carried out.

## 5. Not modelled

- Within the modelled parts: language packages and executables of a generation
  and their caps; the content checks of `validateSnapshot`; the fix plan and
  `NotifyOnClean` in a cycle; ambiguous or unresolved image identity; the
  registry digests and `LastSeen` in the state file. The claims of
  GenerationIndex are about generations with a package database (`db = "ok"`).
- EventRouting: each run has a cgroup of its own (a run that keeps the cgroup of
  the last one is the case in which the route table knows it from the start);
  the cgroup directory of a running container can be read; a restart takes
  longer than a clock tick; the route table is never full (`cgroupmap.go:38`
  takes it so); ended generations are not forgotten, and what they claim is not
  tracked, since every reader refuses it; the clock and `/proc` are read in one
  step of a check, and in one step of a pass; a sample saw init alive at the
  latest moment it could; expiry in a pass compares with the time the pass is
  applied, the code with the time it began; the delay of a write for
  outstanding lookups (`requestWrite`).
- PullRequests: one target of one repository; which update covers which is a
  fixed relation between updates (`Inherits`), because a record keeps the fix
  targets, evidence and workloads its pull request was opened with and an update
  has one pull request; the operation log, its cap and its
  delivery (it is taken to have room); language and Kubernetes updates, texts
  and limits other than `OpenPRs`; a write whose answer was lost has taken place
  by the next cycle or never does; the objects of a commit are created in one
  step. A failed save is the crash it amounts to.
- Discovery's reading of `/proc`, the runtime verdict, intel caches, plan
  delivery, tool cache and work jobs: see the plan.
- Kernel probes, procfs and package database parsers, the sandbox, Trivy,
  advisory feeds, HTTP clients, rendering, configuration and the planners:
  sequential parsing, formatting or I/O without shared state. Their outcomes are
  inputs of the models. They are most of the source lines.

## 6. Plan

In order:

1. **WorkJob** and **ToolCache** – lost answers, leftovers and eviction.
2. **OperationLog** – the log of `pr_store.go` with its cap, between the stage and
   the notification.
3. **Plan delivery** – per-destination fingerprints added to ScanCycle.
4. **RuntimeVerdict** – the matching of evidence to packages as operators checked
   against a reference definition.
5. Proofs: EventRouting (KeptOnce, then UsedByItsOwner and the two claims about
   losses), handler by handler as in GenerationIndexProofs.
