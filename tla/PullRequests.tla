---------------------------- MODULE PullRequests ----------------------------
(***************************************************************************)
(* The pull request stage (internal/remediation: pr_stage.go,              *)
(* pr_reconcile.go, pr_replace.go, pr_store.go) for the updates of one     *)
(* target, the image locations of one file in one repository.             *)
(*                                                                         *)
(* Each cycle the stage reads its record file, checks it against GitHub,   *)
(* opens a pull request for the adopted candidate unless the update was    *)
(* proposed before, and closes older pull requests the new one replaces.   *)
(* Every write to GitHub comes between two saves of the record file.       *)
(* People work on the same pull requests and branches all the time.  A     *)
(* fault is a crash, a failed save, a failed read, a refused write or one   *)
(* whose answer is lost, or the loss of the record file.                   *)
(*                                                                         *)
(* A failed save ends all GitHub work and all saves of the cycle, so it    *)
(* leaves what a crash before it leaves (or, when only the sync of the     *)
(* directory failed, a crash after it).  The operation log is left out: it *)
(* is taken to have room for the events of every write.                    *)
(***************************************************************************)
EXTENDS Integers, Sequences, FiniteSets, FiniteSetsExt

CONSTANTS
    MaxUpdate,      \* the updates of the target: candidate tags with their digests
    Patch,          \* the patch number of each update's tag
    Inherits,       \* <<v, u>>: v affects what u does and resolves each of its fix targets
    MaxBase,        \* commits of the base branch
    OpenPRs,        \* PRLimits.OpenPRs
    MaxEvents       \* bound on faults and on what people do on GitHub

ASSUME PRAssumption ==
    /\ {MaxUpdate, MaxBase, OpenPRs} \subseteq Nat \ {0} /\ MaxEvents \in Nat
    /\ Patch \in [1..MaxUpdate -> Nat]
    /\ Inherits \subseteq (1..MaxUpdate) \X (1..MaxUpdate)

VARIABLES
    base,       \* the head of the base branch
    branch,     \* branch[k]: the commit the branch of attempt k points at
    pulls,      \* every pull request of a branch of this tool, by number
    want,       \* the candidate of the cycle's plan
    disk,       \* the record file
    mem,        \* the records of the running cycle
    pc,         \* the next step of the running cycle
    run,        \* what else the cycle knows (prRun, repoState); its since is history
    commits,    \* how many commits were created
    lost,       \* the record file was lost at some time
    faults, people

githubVars == <<base, branch, pulls, commits>>
vars == <<base, branch, pulls, want, disk, mem, pc, run, commits, lost, faults, people>>

-----------------------------------------------------------------------------
(* Keys.  An update is a candidate; an attempt (AttemptKey) adds the base   *)
(* commit it is built on, and names its branch (BranchName).                *)
Updates == 1..MaxUpdate

AttemptKey == Updates \X (1..MaxBase)

(* Commits are numbered; the branch of an attempt may also be missing, or   *)
(* be at a commit someone pushed.                                           *)
None == 0
Foreign == -1

(* AttemptRecord: its status ("none" without a record) and commit.  The     *)
(* statuses up to "tree_created" only say how far the commit got.           *)
NoAttempt == [status |-> "none", commit |-> None]

(* AttemptStatus.settled *)
Settled(a) == a.status \in {"none", "pr_created", "abandoned", "abandoned_without_pr"}

(* Mutant: a replacement once given up counts as in progress.               *)
Terminal_NotAbandoned(rp) == rp \in {"none", "done"}

(* Replacement.terminal *)
Terminal(rp) == rp \in {"none", "done", "abandoned"}

(* PRStoreFile: PRRecords by number, AttemptRecords by key.                 *)
NoFile == [found |-> FALSE, prs |-> <<>>, attempts |-> [k \in AttemptKey |-> NoAttempt]]

(* PRRecord.Replacing is a function from older pull requests to states.     *)
Record(k, head, state, modified, markerOnly) ==
    [key |-> k, head |-> head, state |-> state, modified |-> modified, markerOnly |-> markerOnly,
     replacing |-> <<>>]

Put(f, x, y) == [z \in DOMAIN f \cup {x} |-> IF z = x THEN y ELSE f[z]]

Replacing(rec, old) == IF old \in DOMAIN rec.replacing THEN rec.replacing[old] ELSE "none"

SetReplacing(f, new, old, st) == [f EXCEPT !.prs[new].replacing = Put(@, old, st)]

(* recordByUpdateKey: an open record first, then a merged one, then any.    *)
RecordsOf(f, u) == {n \in DOMAIN f.prs : f.prs[n].key[1] = u}
Rank(state) == CASE state = "open" -> 3 [] state = "merged" -> 2 [] OTHER -> 1
RecordByUpdateKey(f, u) ==
    LET best == Max({Rank(f.prs[n].state) : n \in RecordsOf(f, u)})
    IN Min({n \in RecordsOf(f, u) : Rank(f.prs[n].state) = best})

(* openCount *)
OpenCount(f) == Cardinality({n \in DOMAIN f.prs : f.prs[n].state = "open"})

(* Mutant: only the open pull requests of a branch are listed.              *)
BranchPulls_OpenOnly(k) == {n \in DOMAIN pulls : pulls[n].key = k /\ pulls[n].state = "open"}

BranchPulls(k) == {n \in DOMAIN pulls : pulls[n].key = k}

(* markModified: once changed by someone, always so.                        *)
MarkModified(rec, pull) == rec.modified \/ pull.head # rec.head

(* A record brought up to date with its pull request.                       *)
Observed(rec, pull) == [rec EXCEPT !.state = pull.state, !.modified = MarkModified(rec, pull)]

(* targetBlocked, with the target's entry in blockedTargets.                *)
TargetBlocked(f, r) == r.targetBlocked \/ \E k \in AttemptKey : f.attempts[k].status = "blocked"

-----------------------------------------------------------------------------
NoRun == [todo |-> {}, resumable |-> {}, targetBlocked |-> FALSE, canWrite |-> TRUE,
          key |-> <<1, 1>>, recorded |-> FALSE, pair |-> <<0, 0>>, since |-> 0]

Init ==
    /\ base = 1 /\ want = 1 /\ commits = 0
    /\ branch = [k \in AttemptKey |-> None]
    /\ pulls = <<>>
    /\ disk = NoFile /\ mem = NoFile
    /\ pc = "idle" /\ run = NoRun
    /\ lost = FALSE /\ faults = 0 /\ people = 0

Fault == faults + people < MaxEvents /\ faults' = faults + 1

NoFault == faults' = faults

(* The steps of a cycle leave GitHub to people, and the other way round.    *)
GitHubUnchanged == UNCHANGED githubVars

CycleOnly == UNCHANGED <<want, lost, people>>

Save(f) == mem' = f /\ disk' = f

Keep(f) == mem' = f /\ disk' = disk

Go(where, r) == pc' = where /\ run' = r

(* The cycle is over: the records in memory are gone.                       *)
End == pc' = "idle" /\ run' = NoRun /\ mem' = NoFile

-----------------------------------------------------------------------------
(* Reconciliation: the records against GitHub (pr_reconcile.go)             *)

(* recordFromPull: known by its marker only.                                *)
RecordFromPull(pull) == Record(pull.key, pull.marker, pull.state, pull.head # pull.marker, TRUE)

(* recoverAll, recoverRepo: without a record file every pull request must   *)
(* verify, or nothing is written this cycle.                                *)
RecoverAll ==
    /\ pc = "idle" /\ ~ disk.found
    /\ \A n \in DOMAIN pulls : pulls[n].marker # None
    /\ Save([NoFile EXCEPT !.found = TRUE, !.prs = [n \in DOMAIN pulls |-> RecordFromPull(pulls[n])]])
    /\ Go("list", NoRun)
    /\ NoFault /\ GitHubUnchanged /\ CycleOnly

(* Run: lock, load the records, read the repository.                        *)
Run ==
    /\ pc = "idle" /\ disk.found
    /\ mem' = disk /\ disk' = disk
    /\ Go("list", NoRun)
    /\ NoFault /\ GitHubUnchanged /\ CycleOnly

(* A read of the reconciliation fails: writes to the repository stop.       *)
(* What was found out before is saved, except by the first listing.  A      *)
(* rate limit or the deadline does not block the target, other errors do.   *)
ReconcileFails ==
    /\ pc \in {"list", "reread", "attempt", "ref", "closes"}
    /\ Fault
    /\ IF pc = "list" THEN Keep(mem) ELSE Save(mem)
    /\ \E blocked \in IF pc \in {"attempt", "ref"} THEN BOOLEAN ELSE {run.targetBlocked} :
          Go("unit", [run EXCEPT !.canWrite = FALSE, !.todo = {}, !.targetBlocked = blocked])
    /\ GitHubUnchanged /\ CycleOnly

(* The record of an open pull request that the listing shows: known, known  *)
(* by its marker, or of a settled attempt (so opened by someone else).      *)
Listed(f, n) ==
    LET a == f.attempts[pulls[n].key] IN
    CASE n \in DOMAIN f.prs -> Observed(f.prs[n], pulls[n])
      [] n \notin DOMAIN f.prs /\ a.status = "none" -> RecordFromPull(pulls[n])
      [] OTHER -> Record(pulls[n].key, a.commit, "open", TRUE, FALSE)

(* One of an unsettled attempt is left to reconcileAttempt.                 *)
Adopt(f, ns) ==
    LET known == {n \in ns : n \in DOMAIN f.prs \/ Settled(f.attempts[pulls[n].key])} IN
    [f EXCEPT !.prs = [n \in DOMAIN f.prs \cup known |-> IF n \in known THEN Listed(f, n) ELSE f.prs[n]]]

Unsettled(f) == {k \in AttemptKey : ~ Settled(f.attempts[k])}

(* reconcileRepo goes through the records that are open but not listed, the *)
(* unsettled attempts and the closes without an answer, then on to the unit. *)
ToCloses(f, r) ==
    LET unknown == {p \in (DOMAIN f.prs) \X (DOMAIN f.prs) : Replacing(f.prs[p[1]], p[2]) = "closed"}
    IN IF unknown = {} THEN Go("unit", [r EXCEPT !.key = NoRun.key]) ELSE Go("closes", [r EXCEPT !.key = NoRun.key, !.todo = unknown])

ToAttempts(f, r) ==
    IF r.todo = {} THEN ToCloses(f, r) ELSE Go("attempt", r)

ToReread(f, todo) ==
    IF todo = {} THEN Save(f) /\ ToAttempts(f, [run EXCEPT !.todo = Unsettled(f)])
    ELSE Keep(f) /\ Go("reread", [run EXCEPT !.todo = todo])

(* The open pull requests are listed, the latest first, up to one that is   *)
(* not in the records and does not verify, which stops writes.              *)
ListOpen ==
    /\ pc = "list"
    /\ LET open == {n \in DOMAIN pulls : pulls[n].state = "open"}
           bad == {n \in open : n \notin DOMAIN mem.prs /\ pulls[n].marker = None}
           f == Adopt(mem, {n \in open : \A m \in bad : n > m})
       IN \/ bad = {} /\ ToReread(f, {n \in DOMAIN f.prs : f.prs[n].state = "open"} \ open)
          \/ bad # {} /\ Keep(f) /\ Go("unit", [run EXCEPT !.canWrite = FALSE])
    /\ NoFault /\ GitHubUnchanged /\ CycleOnly

(* Records open until now are read again, then saved.                       *)
Reread ==
    /\ pc = "reread"
    /\ \E n \in run.todo :
          ToReread([mem EXCEPT !.prs[n] = Observed(@, pulls[n])], run.todo \ {n})
    /\ NoFault /\ GitHubUnchanged /\ CycleOnly

(* settleAttemptPulls: the pull requests of an attempt's branch, judged by  *)
(* the stored attempt.  One settles the attempt, several block it.          *)
SettleAttemptPulls(f, k, ns) ==
    LET a == f.attempts[k]
        several == Cardinality(ns) > 1
        Judged(n) == IF n \in DOMAIN f.prs THEN f.prs[n]
                     ELSE Record(k, a.commit, pulls[n].state,
                                 pulls[n].head # a.commit \/ pulls[n].marker # a.commit \/ a.commit = None, FALSE)
        prs == [n \in DOMAIN f.prs \cup ns |->
                   IF n \in ns THEN [Judged(n) EXCEPT !.modified = @ \/ several] ELSE f.prs[n]]
    IN [f EXCEPT !.prs = prs, !.attempts[k].status = IF several THEN "blocked" ELSE "pr_created"]

(* Mutant: the branch alone tells what became of an attempt.                *)
ReconcileAttempt_RefOnly ==
    /\ pc = "attempt"
    /\ \E k \in run.todo : Keep(mem) /\ Go("ref", [run EXCEPT !.key = k])
    /\ NoFault /\ GitHubUnchanged /\ CycleOnly

(* reconcileAttempt: first the pull requests of the branch are listed ...   *)
ReconcileAttempt ==
    /\ pc = "attempt"
    /\ \E k \in run.todo :
          LET f == SettleAttemptPulls(mem, k, BranchPulls(k)) IN
          \/ /\ BranchPulls(k) # {}
             /\ Save(f)
             /\ ToAttempts(f, [run EXCEPT !.todo = @ \ {k}, !.targetBlocked = @ \/ f.attempts[k].status = "blocked"])
          \/ BranchPulls(k) = {} /\ Keep(mem) /\ Go("ref", [run EXCEPT !.key = k])
    /\ NoFault /\ GitHubUnchanged /\ CycleOnly

(* Mutant: a missing branch counts as somebody else's.                      *)
RefStatus_MissingBlocks(ref, commit) == IF ref = commit THEN "ref_created" ELSE "blocked"

RefStatus(ref, commit) ==
    CASE ref = None -> "abandoned" [] ref # None /\ ref = commit -> "ref_created" [] OTHER -> "blocked"

(* ... then the branch is read.                                             *)
ReconcileRef ==
    /\ pc = "ref"
    /\ LET k == run.key
           status == RefStatus(branch[k], mem.attempts[k].commit)
           f == [mem EXCEPT !.attempts[k].status = status]
       IN /\ Save(f)
          /\ ToAttempts(f, [run EXCEPT !.todo = @ \ {k},
                                      !.resumable = IF status = "ref_created" THEN @ \cup {k} ELSE @,
                                      !.targetBlocked = @ \/ status = "blocked"])
    /\ NoFault /\ GitHubUnchanged /\ CycleOnly

(* Mutant: the comment is looked for under the wrong number.                *)
Superseded_WrongNumber(old, new) == \E i \in 1..Len(pulls[old].comments) : pulls[old].comments[i] = old

(* findSupersede *)
Superseded(old, new) == \E i \in 1..Len(pulls[old].comments) : pulls[old].comments[i] = new

(* settleClose: what became of a close whose answer was lost.               *)
SettleClose(f, new, old) ==
    CASE pulls[old].state = "merged" ->
            SetReplacing([f EXCEPT !.prs[old].state = "merged"], new, old, "abandoned")
      [] pulls[old].state = "closed" ->
            SetReplacing([f EXCEPT !.prs[old].state = IF Superseded(old, new) THEN "replaced" ELSE "closed"], new, old, "done")
      [] OTHER -> SetReplacing(f, new, old, "commented")

SettleCloses ==
    /\ pc = "closes"
    /\ \E p \in run.todo :
          LET f == SettleClose(mem, p[1], p[2]) IN
          \/ run.todo = {p} /\ Save(f) /\ Go("unit", [run EXCEPT !.todo = {}])
          \/ run.todo # {p} /\ Keep(f) /\ Go("closes", [run EXCEPT !.todo = @ \ {p}])
    /\ NoFault /\ GitHubUnchanged /\ CycleOnly

-----------------------------------------------------------------------------
(* Proposing the update (pr_stage.go)                                       *)

(* replaceable: a newer patch that inherits every fix target of the older   *)
(* one.  The targets are those verified when a pull request was opened, and *)
(* the stage opens one for an update, so they belong to the update.         *)
Supersedes == {p \in Inherits : Patch[p[2]] < Patch[p[1]]}

Replaceable(f, new, old) ==
    /\ old # new /\ f.prs[old].state = "open"
    /\ \A n \in {old, new} : ~ f.prs[n].modified /\ ~ f.prs[n].markerOnly
    /\ <<f.prs[new].key[1], f.prs[old].key[1]>> \in Supersedes

(* replacementOf *)
InReplacement(f, old) == \E n \in DOMAIN f.prs : ~ Terminal(Replacing(f.prs[n], old))

(* decideReplacements *)
DecideReplacements(f, new) ==
    LET olds == {old \in DOMAIN f.prs : Replaceable(f, new, old) /\ ~ InReplacement(f, old)} IN
    [f EXCEPT !.prs[new].replacing = [o \in DOMAIN @ \cup olds |-> IF o \in olds THEN "pending" ELSE @[o]]]

(* resumeReplacements visits each replacement in progress once.             *)
ToReplace(f, r) ==
    Go("replace", [r EXCEPT !.key = NoRun.key, !.recorded = FALSE, !.resumable = {},
                            !.todo = {p \in (DOMAIN f.prs) \X (DOMAIN f.prs) :
                                         r.canWrite /\ Replacing(f.prs[p[1]], p[2]) \in {"pending", "commented"}}])

Block(f, k) == [f EXCEPT !.attempts[k].status = "blocked"]

Advance(f, k, st) == [f EXCEPT !.attempts[k].status = st]

(* processUnit: the update is in the records, whatever became of it.        *)
UnitRecorded ==
    /\ pc = "unit" /\ RecordsOf(mem, want) # {}
    /\ LET new == RecordByUpdateKey(mem, want)
           rec == mem.prs[new]
           decide == rec.state = "open" /\ ~ rec.modified /\ ~ rec.markerOnly /\ ~ TargetBlocked(mem, run)
           f == IF decide THEN DecideReplacements(mem, new) ELSE mem
       IN /\ IF f # mem THEN Save(f) ELSE Keep(f)
          /\ ToReplace(f, run)
    /\ NoFault /\ GitHubUnchanged /\ CycleOnly

(* processUnit, createPull: not when writes are stopped, the target is      *)
(* blocked, enough pull requests are open, an attempt is left unsettled or  *)
(* the pull request of this one is not in the records.                      *)
MayCreate ==
    /\ run.canWrite /\ ~ run.targetBlocked /\ OpenCount(mem) < OpenPRs
    /\ Unsettled(mem) \subseteq run.resumable /\ mem.attempts[<<want, base>>].status # "pr_created"

UnitDeferred ==
    /\ pc = "unit" /\ RecordsOf(mem, want) = {}
    /\ ~ MayCreate
    /\ Keep(mem) /\ ToReplace(mem, run)
    /\ NoFault /\ GitHubUnchanged /\ CycleOnly

(* createPull: verified branches of other attempts are left without a pull  *)
(* request; this attempt goes on from its branch, or starts again.          *)
CreatePull ==
    /\ pc = "unit" /\ RecordsOf(mem, want) = {}
    /\ MayCreate
    /\ LET k == <<want, base>>
           others == run.resumable \ {k}
           f == [mem EXCEPT !.attempts = [j \in AttemptKey |-> IF j \in others THEN [mem.attempts[j] EXCEPT !.status = "abandoned_without_pr"] ELSE mem.attempts[j]]]
           a == f.attempts[k]
           kept == a.status = "abandoned_without_pr" /\ branch[k] = a.commit
           r == [run EXCEPT !.key = k, !.resumable = @ \cap {k}, !.recorded = a.status # "none"]
       IN \/ k \in run.resumable /\ Save(f) /\ Go("open", r)
          \/ kept /\ mem' = Advance(f, k, "ref_created") /\ disk' = f /\ Go("open", r)
          \/ /\ k \notin run.resumable /\ ~ kept
             /\ Save([f EXCEPT !.attempts[k] = [status |-> "intent", commit |-> None]])
             /\ Go("objects", r)
    /\ NoFault /\ GitHubUnchanged /\ CycleOnly

(* buildCommit: blobs, tree and commit, which nothing refers to yet.        *)
CreateObjects ==
    /\ pc = "objects"
    /\ commits' = commits + 1
    /\ Save([mem EXCEPT !.attempts[run.key] = [status |-> "commit_created", commit |-> commits']])
    /\ Go("branch", run)
    /\ NoFault /\ UNCHANGED <<base, branch, pulls>> /\ CycleOnly

(* buildCommit: the branch.  One that exists is used only at this commit,   *)
(* or, when the records knew nothing of the attempt, with the same change.  *)
CreateRef ==
    /\ pc = "branch"
    /\ LET k == run.key
           c == mem.attempts[k].commit
           there == branch[k]
           adopt == there = c \/ (~ run.recorded /\ there # Foreign)
       IN \/ /\ there = None
             /\ branch' = [branch EXCEPT ![k] = c]
             /\ Save(Advance(mem, k, "ref_created"))
             /\ Go("open", run)
          \/ /\ there # None /\ adopt
             /\ branch' = branch
             /\ Save([mem EXCEPT !.attempts[k] = [status |-> "ref_created", commit |-> there]])
             /\ Go("open", run)
          \/ /\ there # None /\ ~ adopt
             /\ branch' = branch
             /\ Save(Block(mem, k))
             /\ ToReplace(Block(mem, k), [run EXCEPT !.targetBlocked = TRUE])
    /\ NoFault /\ UNCHANGED <<base, pulls, commits>> /\ CycleOnly

(* openPull: the base, the branch and its pull requests are read again.     *)
OpenPull ==
    /\ pc = "open"
    /\ LET k == run.key
           found == BranchPulls(k)
           settled == SettleAttemptPulls(mem, k, found)
           asked == Advance(mem, k, "pr_requested")
       IN CASE base # k[2] -> Keep(mem) /\ ToReplace(mem, run)
            [] base = k[2] /\ branch[k] # mem.attempts[k].commit ->
                  Save(Block(mem, k)) /\ ToReplace(Block(mem, k), [run EXCEPT !.targetBlocked = TRUE])
            [] base = k[2] /\ branch[k] = mem.attempts[k].commit /\ found # {} ->
                  Save(settled) /\ ToReplace(settled, [run EXCEPT !.targetBlocked = @ \/ Cardinality(found) > 1])
            [] OTHER -> Save(asked) /\ Go("send", run)
    /\ NoFault /\ GitHubUnchanged /\ CycleOnly

(* GitHub takes a pull request from an existing branch that has none open.  *)
Opens(k) == branch[k] # None /\ \A n \in BranchPulls(k) : pulls[n].state # "open"

NewPull(k, marker, byTool) ==
    [key |-> k, head |-> branch[k], state |-> "open", marker |-> marker, byTool |-> byTool,
     closedByTool |-> FALSE, comments |-> <<>>]

(* openPull: the request is sent and answered.  The new record is saved;    *)
(* decideReplacements follows, as for a record found by processUnit.        *)
SendPull ==
    /\ pc = "send"
    /\ LET k == run.key
           c == mem.attempts[k].commit
           f == [Advance(mem, k, "pr_created") EXCEPT !.prs = Put(@, Len(pulls) + 1, Record(k, c, "open", branch[k] # c, FALSE))]
           refused == Advance(mem, k, "ref_created")
       IN IF Opens(k)
            THEN pulls' = Append(pulls, NewPull(k, c, TRUE)) /\ Save(f) /\ Go("unit", run)
            ELSE pulls' = pulls /\ Save(refused) /\ ToReplace(refused, run)
    /\ NoFault /\ UNCHANGED <<base, branch, commits>> /\ CycleOnly

-----------------------------------------------------------------------------
(* Replacing older pull requests (pr_replace.go)                            *)

(* The replacements still to visit, or the one in hand.                     *)
NoPair == NoRun.pair
Pairs == IF run.pair = NoPair THEN run.todo ELSE {run.pair}

NextPair(p) == Go("replace", [run EXCEPT !.todo = @ \ {p}, !.pair = NoPair, !.since = 0])

SamePair(where, p) == Go(where, [run EXCEPT !.pair = p])

(* The close is decided: since is what people had done when it was.         *)
ToClose(p) == Go("close", [run EXCEPT !.pair = p, !.since = people])

CycleEnds ==
    /\ pc = "replace" /\ Pairs = {}
    /\ End /\ disk' = disk
    /\ NoFault /\ GitHubUnchanged /\ CycleOnly

(* eligiblePair, on the records alone.                                      *)
EligiblePair(f, new, old) ==
    ~ TargetBlocked(f, run) /\ \A n \in {old, new} : ~ f.prs[n].modified /\ ~ f.prs[n].markerOnly

(* checkPair: what the records say after both pull requests were read, the  *)
(* new one first.                                                           *)
Good(f, n) == pulls[n].state = "open" /\ ~ MarkModified(f.prs[n], pulls[n])

Seen(f, n) ==
    IF pulls[n].state = "open" THEN [f EXCEPT !.prs[n].modified = TRUE]
    ELSE [f EXCEPT !.prs[n].state = pulls[n].state]

CheckedPair(f, new, old) ==
    CASE ~ Good(f, new) -> SetReplacing(Seen(f, new), new, old, "abandoned")
      [] Good(f, new) /\ ~ Good(f, old) -> SetReplacing(Seen(f, old), new, old, "abandoned")
      [] OTHER -> f

(* Mutant: the close does not wait for the comment.                         *)
CheckPair_NoComment ==
    /\ pc = "replace"
    /\ \E p \in Pairs :
          LET new == p[1]
              old == p[2]
              f == IF EligiblePair(mem, new, old) THEN CheckedPair(mem, new, old)
                   ELSE SetReplacing(mem, new, old, "abandoned")
              st == Replacing(f.prs[new], old)
          IN \/ st = "abandoned" /\ Save(f) /\ NextPair(p)
             \/ st # "abandoned" /\ Save(f) /\ ToClose(p)
    /\ NoFault /\ GitHubUnchanged /\ CycleOnly

(* Mutant: the pair is not checked again before the close.                  *)
CheckPair_Once ==
    /\ pc = "replace"
    /\ \E p \in Pairs :
          LET new == p[1]
              old == p[2]
              again == Replacing(mem.prs[new], old) = "commented"
              f == IF again THEN mem
                   ELSE IF EligiblePair(mem, new, old) THEN CheckedPair(mem, new, old)
                   ELSE SetReplacing(mem, new, old, "abandoned")
              st == Replacing(f.prs[new], old)
          IN \/ st = "abandoned" /\ Save(f) /\ NextPair(p)
             \/ /\ st = "pending" /\ Superseded(old, new)
                /\ Save(SetReplacing(f, new, old, "commented")) /\ SamePair("replace", p)
             \/ st = "pending" /\ ~ Superseded(old, new) /\ Save(f) /\ SamePair("comment", p)
             \/ st = "commented" /\ Save(f) /\ ToClose(p)
    /\ NoFault /\ GitHubUnchanged /\ CycleOnly

(* resumeReplacements, replace: the pair is checked before the comment and  *)
(* again before the close.                                                  *)
CheckPair ==
    /\ pc = "replace"
    /\ \E p \in Pairs :
          LET new == p[1]
              old == p[2]
              f == IF EligiblePair(mem, new, old) THEN CheckedPair(mem, new, old)
                   ELSE SetReplacing(mem, new, old, "abandoned")
              st == Replacing(f.prs[new], old)
          IN \/ st = "abandoned" /\ Save(f) /\ NextPair(p)
             \/ /\ st = "pending" /\ Superseded(old, new)
                /\ Save(SetReplacing(f, new, old, "commented")) /\ SamePair("replace", p)
             \/ st = "pending" /\ ~ Superseded(old, new) /\ Save(f) /\ SamePair("comment", p)
             \/ st = "commented" /\ Save(f) /\ ToClose(p)
    /\ NoFault /\ GitHubUnchanged /\ CycleOnly

Commented(ps, old, new) == [ps EXCEPT ![old].comments = Append(@, new)]

(* ClosePull: a pull request merged meanwhile stays merged.                 *)
Closed(ps, old) ==
    IF ps[old].state = "open" THEN [ps EXCEPT ![old].state = "closed", ![old].closedByTool = TRUE] ELSE ps

SendComment ==
    /\ pc = "comment"
    /\ pulls' = Commented(pulls, run.pair[2], run.pair[1])
    /\ Save(SetReplacing(mem, run.pair[1], run.pair[2], "commented"))
    /\ SamePair("replace", run.pair)
    /\ NoFault /\ UNCHANGED <<base, branch, commits>> /\ CycleOnly

SendClose ==
    /\ pc = "close"
    /\ pulls' = Closed(pulls, run.pair[2])
    /\ Save(SetReplacing([mem EXCEPT !.prs[run.pair[2]].state = "replaced"], run.pair[1], run.pair[2], "done"))
    /\ NextPair(run.pair)
    /\ NoFault /\ UNCHANGED <<base, branch, commits>> /\ CycleOnly

-----------------------------------------------------------------------------
(* Faults                                                                   *)

(* The answer to a write is lost, or the process dies before it saves the   *)
(* result: the write took place or not, and the cycle ends.  Only a close   *)
(* leaves a trace of its unknown outcome in the records.                    *)
WriteUnknown ==
    /\ pc \in {"objects", "branch", "send", "comment", "close"}
    /\ Fault
    /\ \E applied, answered \in BOOLEAN :
          /\ branch' = IF applied /\ pc = "branch" /\ branch[run.key] = None
                         THEN [branch EXCEPT ![run.key] = mem.attempts[run.key].commit] ELSE branch
          /\ pulls' = CASE applied /\ pc = "send" /\ Opens(run.key) ->
                              Append(pulls, NewPull(run.key, mem.attempts[run.key].commit, TRUE))
                        [] applied /\ pc = "comment" -> Commented(pulls, run.pair[2], run.pair[1])
                        [] applied /\ pc = "close" -> Closed(pulls, run.pair[2])
                        [] OTHER -> pulls
          /\ disk' = IF answered /\ pc = "close" THEN SetReplacing(mem, run.pair[1], run.pair[2], "closed") ELSE disk
    /\ End
    /\ UNCHANGED <<base, commits>> /\ CycleOnly

(* GitHub refuses a write: what depends on it stops, the cycle goes on.     *)
WriteRefused ==
    /\ pc \in {"objects", "branch", "send", "comment", "close"}
    /\ Fault
    /\ LET f == CASE pc = "send" -> Advance(mem, run.key, "ref_created")
                  [] pc \in {"comment", "close"} -> SetReplacing(mem, run.pair[1], run.pair[2], "abandoned")
                  [] OTHER -> mem
       IN /\ Save(f)
          /\ IF pc \in {"comment", "close"} THEN NextPair(run.pair) ELSE ToReplace(f, run)
    /\ GitHubUnchanged /\ CycleOnly

(* A read before a write fails, or the registry does not confirm the        *)
(* candidate: the update waits for the next cycle.                          *)
ReadFails ==
    /\ Fault
    /\ Keep(mem)
    /\ \/ pc = "unit" /\ RecordsOf(mem, want) = {} /\ MayCreate /\ ToReplace(mem, run)
       \/ pc = "open" /\ ToReplace(mem, run)
       \/ pc = "replace" /\ \E p \in Pairs : NextPair(p)
    /\ GitHubUnchanged /\ CycleOnly

(* The candidate tag was moved: the replacement is given up.                *)
CandidateMoved ==
    /\ pc = "replace"
    /\ Fault
    /\ \E p \in Pairs : Save(SetReplacing(mem, p[1], p[2], "abandoned")) /\ NextPair(p)
    /\ GitHubUnchanged /\ CycleOnly

Crash ==
    /\ pc # "idle"
    /\ Fault
    /\ End /\ disk' = disk
    /\ GitHubUnchanged /\ CycleOnly

LoseRecords ==
    /\ pc = "idle" /\ disk.found
    /\ Fault
    /\ disk' = NoFile /\ lost' = TRUE
    /\ GitHubUnchanged /\ UNCHANGED <<mem, pc, run, want, people>>

-----------------------------------------------------------------------------
(* What people do (external): merge, close, reopen, push, delete a branch,  *)
(* open a pull request from one, edit a description, commit to the base.    *)
People == faults + people < MaxEvents /\ people' = people + 1 /\ UNCHANGED <<want, disk, mem, pc, run, commits, lost, faults>>

Decide(n) ==
    /\ pulls[n].state = "open"
    /\ \E st \in {"merged", "closed"} : pulls' = [pulls EXCEPT ![n].state = st]
    /\ UNCHANGED <<base, branch>>

Reopen(n) ==
    /\ pulls[n].state = "closed" /\ pulls[n].head = branch[pulls[n].key] /\ Opens(pulls[n].key)
    /\ pulls' = [pulls EXCEPT ![n].state = "open", ![n].closedByTool = FALSE]
    /\ UNCHANGED <<base, branch>>

EditDescription(n) ==
    /\ pulls[n].marker # None
    /\ pulls' = [pulls EXCEPT ![n].marker = None]
    /\ UNCHANGED <<base, branch>>

Push(k) ==
    /\ branch[k] \notin {None, Foreign}
    /\ branch' = [branch EXCEPT ![k] = Foreign]
    /\ pulls' = [n \in DOMAIN pulls |-> IF n \in BranchPulls(k) /\ pulls[n].state = "open" THEN [pulls[n] EXCEPT !.head = Foreign] ELSE pulls[n]]
    /\ UNCHANGED base

DeleteBranch(k) ==
    /\ branch[k] # None
    /\ branch' = [branch EXCEPT ![k] = None]
    /\ pulls' = [n \in DOMAIN pulls |-> IF n \in BranchPulls(k) /\ pulls[n].state = "open" THEN [pulls[n] EXCEPT !.state = "closed"] ELSE pulls[n]]
    /\ UNCHANGED base

OpenByHand(k) ==
    /\ Opens(k)
    /\ pulls' = Append(pulls, NewPull(k, None, FALSE))
    /\ UNCHANGED <<base, branch>>

BaseMoves ==
    /\ \E b \in 1..MaxBase \ {base} : base' = b
    /\ UNCHANGED <<branch, pulls>>

OnGitHub ==
    /\ People
    /\ \/ \E n \in DOMAIN pulls : Decide(n) \/ Reopen(n) \/ EditDescription(n)
       \/ \E k \in AttemptKey : Push(k) \/ DeleteBranch(k) \/ OpenByHand(k)
       \/ BaseMoves

(* SelectPinned takes the highest patch of the tags listed now, and the     *)
(* digest it points at: from one cycle to the next the candidate may become *)
(* any other update, an earlier patch too when a tag was withdrawn.         *)
NewCandidate ==
    /\ pc = "idle" /\ \E u \in Updates \ {want} : want' = u
    /\ UNCHANGED <<base, branch, pulls, disk, mem, pc, run, commits, lost, faults, people>>

(* A cycle without records whose pull requests do not all verify.           *)
RecoveryBlocked ==
    /\ pc = "idle" /\ ~ disk.found /\ \E n \in DOMAIN pulls : pulls[n].marker = None
    /\ UNCHANGED vars

Cycle ==
    \/ RecoverAll \/ Run \/ ListOpen \/ Reread \/ ReconcileAttempt \/ ReconcileRef \/ SettleCloses
    \/ UnitRecorded \/ UnitDeferred \/ CreatePull \/ CreateObjects \/ CreateRef \/ OpenPull \/ SendPull
    \/ CycleEnds \/ CheckPair \/ SendComment \/ SendClose

Faults == ReconcileFails \/ WriteUnknown \/ WriteRefused \/ ReadFails \/ CandidateMoved \/ Crash \/ LoseRecords

Next == Cycle \/ Faults \/ OnGitHub \/ NewCandidate \/ RecoveryBlocked

Spec == Init /\ [][Next]_vars

(* The runner starts a cycle after every interval, and a cycle has a        *)
(* deadline, so each step of it happens.                                    *)
FairSpec == Spec /\ WF_vars(Cycle)

-----------------------------------------------------------------------------
ToolPulls(u) == {n \in DOMAIN pulls : pulls[n].byTool /\ pulls[n].key[1] = u}

(* The stage implements UpdateProposals: each update is proposed at most    *)
(* once, across crashes, lost answers and lost records, and one is closed   *)
(* by the stage only for a proposed one that supersedes it (createPull,     *)
(* reconcileAttempt, recoverAll, replace).                                  *)
Nth(S, i) == CHOOSE n \in S : Cardinality({m \in S : m <= n}) = i

Proposals == [u \in Updates |-> [i \in 1..Cardinality(ToolPulls(u)) |-> pulls[Nth(ToolPulls(u), i)].state]]

Abstract == INSTANCE UpdateProposals WITH proposals <- Proposals

ImplementsProposals == Abstract!Spec

(* What the stage closed carries its comment naming a pull request of the   *)
(* stage for a newer patch that covers it (replaceable, replace).           *)
ClosedHasSuccessor ==
    \A o \in DOMAIN pulls : pulls[o].closedByTool =>
        /\ pulls[o].byTool
        /\ \E n \in DOMAIN pulls :
              /\ Superseded(o, n) /\ pulls[n].byTool
              /\ <<pulls[n].key[1], pulls[o].key[1]>> \in Supersedes

(* As the tool left it: open, and at a commit of the tool.                  *)
Intact(n) == pulls[n].state = "open" /\ pulls[n].head # Foreign

(* When the stage closes a pull request, that one and one which supersedes  *)
(* it are as the stage made them, or someone acted after the last check:    *)
(* neither an edited pull request is closed, nor the last one that proposes *)
(* the fix, for what happened before (checkPair, twice in replace).         *)
ClosedAsChecked ==
    [][\A o \in DOMAIN pulls : ~ pulls[o].closedByTool /\ pulls'[o].closedByTool =>
          \/ people # run.since
          \/ /\ Intact(o)
             /\ \E n \in DOMAIN pulls :
                   /\ Intact(n) /\ pulls[n].byTool
                   /\ <<pulls[n].key[1], pulls[o].key[1]>> \in Supersedes]_vars

(* The comment of a replacement is posted once, however often its answer    *)
(* was lost (findSupersede).                                                *)
CommentedOnce ==
    \A o \in DOMAIN pulls : \A i, j \in DOMAIN pulls[o].comments :
        pulls[o].comments[i] = pulls[o].comments[j] => i = j

(* A pull request of the stage is in the record file, or the attempt that   *)
(* opened it is there unsettled, for as long as there is a file (write,     *)
(* writePull).                                                              *)
NothingUnrecorded ==
    disk.found => \A n \in DOMAIN pulls : pulls[n].byTool => n \in DOMAIN disk.prs \/ ~ Settled(disk.attempts[pulls[n].key])

(* From some time on the plan keeps its candidate.                          *)
PlanStays == <>[][want' = want]_vars

(* While nobody touches GitHub and the plan keeps its candidate, the        *)
(* candidate gets its pull request, whatever failed before (reconcileRepo,  *)
(* createPull), unless as many are open as the limit allows.  Only after    *)
(* the records were lost may a branch of unknown origin be left, which      *)
(* blocks the target until someone deletes it.                              *)
EventuallyProposed ==
    PlanStays => []<>(\/ people > 0 \/ ToolPulls(want) # {} \/ OpenCount(disk) >= OpenPRs
                      \/ lost /\ \E k \in AttemptKey : disk.attempts[k].status = "blocked")

(* ... and in the end none it supersedes is open beside it, unless the      *)
(* records were lost: those rebuilt from markers are not enough to replace  *)
(* anything (replaceable, resumeReplacements, settleClose).                 *)
OlderReplaced ==
    PlanStays => []<>(\/ people > 0 \/ lost
                      \/ \A n \in ToolPulls(want), o \in DOMAIN pulls :
                            pulls[n].state = "open" /\ <<want, pulls[o].key[1]>> \in Supersedes =>
                                pulls[o].state # "open")

=============================================================================
