-------------------------- MODULE PullCycleProofs --------------------------
(***************************************************************************)
(* The inductive invariant of the pull request stage, and the steps of a   *)
(* cycle up to its pull request that keep it: recovery, reconciliation     *)
(* with GitHub, and the way of one update to its pull request.             *)
(***************************************************************************)
EXTENDS PullRequests, WellFoundedInduction, TLAPS

PullStates == {"open", "closed", "merged"}
RecordStates == PullStates \cup {"replaced"}
ReplacementStates == {"pending", "commented", "closed", "done", "abandoned"}
AttemptStatuses == {"none", "intent", "commit_created", "ref_created", "pr_requested", "pr_created",
                    "blocked", "abandoned", "abandoned_without_pr"}
Attempt == [status : AttemptStatuses, commit : Nat]

Pull == [key : AttemptKey, head : Int, state : PullStates, marker : Nat, byTool : BOOLEAN,
         closedByTool : BOOLEAN, comments : Seq(Nat)]

IsRun(r) ==
    r \in [todo : {r.todo}, resumable : SUBSET AttemptKey, targetBlocked : BOOLEAN, canWrite : BOOLEAN,
           key : AttemptKey, recorded : BOOLEAN, pair : Nat \X Nat, since : Nat]

Steps == {"idle", "list", "reread", "attempt", "ref", "closes", "unit", "objects", "branch", "open", "send",
          "replace", "comment", "close"}

IsRecord(r) ==
    r \in [key : AttemptKey, head : Nat, state : RecordStates, modified : BOOLEAN, markerOnly : BOOLEAN,
           replacing : [DOMAIN r.replacing -> ReplacementStates]]

IsFile(f) ==
    /\ f \in [found : BOOLEAN, prs : {f.prs}, attempts : [AttemptKey -> Attempt]]
    /\ f.prs = [n \in DOMAIN f.prs |-> f.prs[n]]
    /\ \A n \in DOMAIN f.prs : IsRecord(f.prs[n])

\* The pull request o of ps carries the comment that names n.
Names(ps, o, n) == \E i \in 1..Len(ps[o].comments) : ps[o].comments[i] = n

\* A record is of the pull request with its number, and one that says neither
\* "modified" nor "by its marker only" is of a pull request of the stage.
TrueRecords(f, ps) ==
    \A n \in DOMAIN f.prs :
        /\ n \in DOMAIN ps /\ f.prs[n].key = ps[n].key
        /\ ps[n].byTool \/ f.prs[n].modified \/ f.prs[n].markerOnly

\* A replacement is of an update it supersedes, and past "pending" only with a comment.
TruePrs(prs, ps) ==
    \A n \in DOMAIN prs : \A o \in DOMAIN prs[n].replacing :
        /\ o \in DOMAIN prs /\ <<prs[n].key[1], prs[o].key[1]>> \in Supersedes
        /\ prs[n].replacing[o] \in {"commented", "closed"} => Names(ps, o, n)

TrueReplacements(f, ps) == TruePrs(f.prs, ps)

\* No pull request of the stage is missing.
Accounts(f, ps) ==
    \A n \in DOMAIN ps : ps[n].byTool => n \in DOMAIN f.prs \/ ~ Settled(f.attempts[ps[n].key])

FileInv(f, ps) == TrueRecords(f, ps) /\ TrueReplacements(f, ps) /\ (f.found => Accounts(f, ps))

\* What holds of the pull requests ps: only those of the stage have a marker, it
\* opened at most one for an update, and CommentedOnce and ClosedHasSuccessor.
OnePull(ps) ==
    \A m, n \in DOMAIN ps : ps[m].byTool /\ ps[n].byTool /\ ps[m].key[1] = ps[n].key[1] => m = n

Once(ps) ==
    \A o \in DOMAIN ps : \A i, j \in 1..Len(ps[o].comments) :
        ps[o].comments[i] = ps[o].comments[j] => i = j

Succeeded(ps) ==
    \A o \in DOMAIN ps : ps[o].closedByTool =>
        /\ ps[o].byTool
        /\ \E n \in DOMAIN ps : Names(ps, o, n) /\ ps[n].byTool /\ <<ps[n].key[1], ps[o].key[1]>> \in Supersedes

PullsOK(ps) ==
    /\ ps \in Seq(Pull)
    /\ \A n \in DOMAIN ps : ~ ps[n].byTool => ps[n].marker = None
    /\ OnePull(ps) /\ Once(ps) /\ Succeeded(ps)

\* The replacement p is in the records.
InFile(f, p) == p = <<p[1], p[2]>> /\ p[1] \in DOMAIN f.prs /\ p[2] \in DOMAIN f.prs[p[1]].replacing

\* Every pull request of the stage from the branch of k is in the records.
Recorded(f, ps, k) == \A n \in DOMAIN ps : ps[n].byTool /\ ps[n].key = k => n \in DOMAIN f.prs

Unproposed(ps, u) == \A n \in DOMAIN ps : ps[n].byTool => ps[n].key[1] # u

Creating == {"objects", "branch", "open", "send"}
Replacements == {"replace", "comment", "close"}

\* What a cycle knows at its step w, with r as run, f and d as the records in
\* memory and on disk, the pull requests ps and the candidate u.
Working(w, r, f, d, ps, u) ==
    /\ w # "idle" => d.found /\ f.found
    /\ \A k \in r.resumable : Recorded(f, ps, k)
    /\ w = "reread" => r.todo \subseteq DOMAIN f.prs
    /\ w \in {"attempt", "ref"} => r.todo \subseteq AttemptKey
    /\ w = "ref" => \A n \in DOMAIN ps : ps[n].byTool => ps[n].key # r.key
    /\ w = "closes" => \A p \in r.todo : InFile(f, p) /\ f.prs[p[1]].replacing[p[2]] = "closed"
    /\ w \in Creating => r.key[1] = u /\ Unproposed(ps, u)
    /\ w = "send" => d.attempts[r.key].status = "pr_requested"

Replaces(w, r, f, ps) ==
    /\ w \notin Replacements => r.pair = NoPair
    /\ w \in Replacements => \A p \in r.todo : InFile(f, p)
    /\ r.pair # NoPair => InFile(f, r.pair)
    /\ w \in {"comment", "close"} => r.pair # NoPair /\ ps[r.pair[1]].byTool /\ ps[r.pair[2]].byTool
    /\ w = "comment" => ~ Names(ps, r.pair[2], r.pair[1])
    /\ w = "close" => Names(ps, r.pair[2], r.pair[1])

CycleOK(w, r, f, d, ps, u) == w \in Steps /\ IsRun(r) /\ Working(w, r, f, d, ps, u) /\ Replaces(w, r, f, ps)

TypeOK ==
    /\ base \in 1..MaxBase /\ branch \in [AttemptKey -> Nat \cup {Foreign}] /\ want \in Updates
    /\ commits \in Nat /\ lost \in BOOLEAN /\ faults \in Nat /\ people \in Nat

FileOK(f, ps) == IsFile(f) /\ FileInv(f, ps)

\* The inductive invariant.
IInv ==
    /\ TypeOK /\ PullsOK(pulls) /\ FileOK(disk, pulls) /\ FileOK(mem, pulls)
    /\ CycleOK(pc, run, mem, disk, pulls, want)

-----------------------------------------------------------------------------
(* Files.  A change of the records keeps what FileInv says when it keeps    *)
(* the keys, forgets no record and no replacement, and clears no mark.      *)

\* g is f with more records, replacements or marks.
Grown(f, g) ==
    /\ g.found = f.found /\ DOMAIN f.prs \subseteq DOMAIN g.prs
    /\ \A n \in DOMAIN f.prs : DOMAIN f.prs[n].replacing \subseteq DOMAIN g.prs[n].replacing

WithPrs(f, prs) == [f EXCEPT !.prs = prs]
WithRecord(f, n, r) == [f EXCEPT !.prs[n] = r]
WithState(f, n, st) == [f EXCEPT !.prs[n].state = st]
WithAttempts(f, ats) == [f EXCEPT !.attempts = ats]
WithAttempt(f, k, a) == [f EXCEPT !.attempts[k] = a]

\* A file that differs in its records.
LEMMA PrsChanged ==
    ASSUME NEW f, NEW prs, IsFile(f), prs = [n \in DOMAIN prs |-> prs[n]],
           \A n \in DOMAIN prs : IsRecord(prs[n]), NEW g, g = WithPrs(f, prs)
    PROVE  IsFile(g) /\ g.prs = prs /\ g.attempts = f.attempts /\ g.found = f.found
BY DEF IsFile, WithPrs

\* A file that differs in its attempts.
LEMMA AttemptsChanged ==
    ASSUME NEW f, NEW ats \in [AttemptKey -> Attempt], IsFile(f), NEW g, g = WithAttempts(f, ats)
    PROVE  IsFile(g) /\ g.prs = f.prs /\ g.attempts = ats /\ g.found = f.found
BY DEF IsFile, WithAttempts

\* The records of a file change: what is asked of the new ones.
LEMMA PrsKept ==
    ASSUME NEW f, NEW ps, FileOK(f, ps), NEW prs, prs = [n \in DOMAIN prs |-> prs[n]],
           DOMAIN f.prs \subseteq DOMAIN prs,
           \A n \in DOMAIN prs : IsRecord(prs[n]),
           \A n \in DOMAIN prs : /\ n \in DOMAIN ps /\ prs[n].key = ps[n].key
                                 /\ ps[n].byTool \/ prs[n].modified \/ prs[n].markerOnly,
           \A n \in DOMAIN f.prs : DOMAIN f.prs[n].replacing \subseteq DOMAIN prs[n].replacing,
           TruePrs(prs, ps), NEW g, g = WithPrs(f, prs)
    PROVE  FileOK(g, ps) /\ Grown(f, g) /\ g.prs = prs /\ g.attempts = f.attempts
<1>1. IsFile(g) /\ g.prs = prs /\ g.attempts = f.attempts /\ g.found = f.found
  BY PrsChanged DEF FileOK
<1>2. TrueRecords(g, ps)
  BY <1>1 DEF TrueRecords
<1>3. TrueReplacements(g, ps)
  BY <1>1 DEF TrueReplacements, TruePrs
<1>4. g.found => Accounts(g, ps)
  BY <1>1 DEF Accounts, FileOK, FileInv
<1>5. Grown(f, g)
  BY <1>1 DEF Grown
<1>6. FileOK(g, ps)
  BY <1>1, <1>2, <1>3, <1>4 DEF FileOK, FileInv
<1>. QED
  BY <1>1, <1>5, <1>6

\* The replacements of a record change.
LEMMA ReplacingSet ==
    ASSUME NEW r, IsRecord(r), NEW D, NEW rp \in [D -> ReplacementStates]
    PROVE  LET q == [r EXCEPT !.replacing = rp] IN
           /\ IsRecord(q) /\ q.key = r.key /\ q.markerOnly = r.markerOnly
           /\ q.modified = r.modified /\ q.replacing = rp
<1> DEFINE q == [r EXCEPT !.replacing = rp]
<1>1. /\ q.key = r.key /\ q.markerOnly = r.markerOnly /\ q.modified = r.modified
      /\ q.replacing = rp /\ DOMAIN rp = D
  BY DEF IsRecord
<1>2. q \in [key : AttemptKey, head : Nat, state : RecordStates, modified : BOOLEAN, markerOnly : BOOLEAN,
             replacing : [D -> ReplacementStates]]
  BY DEF IsRecord
<1> HIDE DEF q
<1>3. IsRecord(q)
  BY <1>1, <1>2 DEF IsRecord
<1>. QED
  BY <1>1, <1>3 DEF q

\* g has the records of f, perhaps with more in them, and the same attempts.
Kept(f, g, ps) ==
    FileOK(g, ps) /\ Grown(f, g) /\ g.attempts = f.attempts /\ DOMAIN g.prs = DOMAIN f.prs

\* r may take the place of the record n.
Succeeds(f, ps, n, r) ==
    /\ n \in DOMAIN f.prs /\ IsRecord(r)
    /\ r.key = f.prs[n].key /\ r.markerOnly = f.prs[n].markerOnly
    /\ f.prs[n].modified => r.modified
    /\ DOMAIN f.prs[n].replacing \subseteq DOMAIN r.replacing
    /\ \A o \in DOMAIN r.replacing :
          /\ o \in DOMAIN f.prs /\ <<f.prs[n].key[1], f.prs[o].key[1]>> \in Supersedes
          /\ r.replacing[o] \in {"commented", "closed"} => Names(ps, o, n)

\* One record changes.
LEMMA OneKept ==
    ASSUME NEW f, NEW ps, FileOK(f, ps), NEW n, NEW r, Succeeds(f, ps, n, r),
           NEW g, g = WithRecord(f, n, r)
    PROVE  Kept(f, g, ps) /\ g.prs[n] = r /\ \A m \in DOMAIN f.prs : m # n => g.prs[m] = f.prs[m]
<1> DEFINE prs == [f.prs EXCEPT ![n] = r]
<1>0. IsFile(f) /\ TrueRecords(f, ps) /\ TrueReplacements(f, ps) /\ n \in DOMAIN f.prs
  BY DEF FileOK, FileInv, Succeeds
<1>1. /\ DOMAIN prs = DOMAIN f.prs /\ prs[n] = r
      /\ prs = [m \in DOMAIN prs |-> prs[m]]
      /\ \A m \in DOMAIN f.prs : m # n => prs[m] = f.prs[m]
  BY <1>0 DEF IsFile
<1>8. g = WithPrs(f, prs)
  BY DEF WithPrs, WithRecord
<1> HIDE DEF prs
<1>2. \A m \in DOMAIN prs : IsRecord(prs[m])
  BY <1>0, <1>1 DEF IsFile, Succeeds
<1>3. \A m \in DOMAIN prs : prs[m].key = f.prs[m].key
  BY <1>1 DEF Succeeds
<1>4. \A m \in DOMAIN prs : /\ m \in DOMAIN ps /\ prs[m].key = ps[m].key
                            /\ ps[m].byTool \/ prs[m].modified \/ prs[m].markerOnly
  BY <1>0, <1>1 DEF TrueRecords, Succeeds
<1>5. TruePrs(prs, ps)
  BY <1>0, <1>1, <1>3 DEF TrueReplacements, TruePrs, Succeeds
<1>6. \A m \in DOMAIN f.prs : DOMAIN f.prs[m].replacing \subseteq DOMAIN prs[m].replacing
  BY <1>1 DEF Succeeds
<1>9. DOMAIN f.prs \subseteq DOMAIN prs
  BY <1>1
<1>7. FileOK(g, ps) /\ Grown(f, g) /\ g.prs = prs /\ g.attempts = f.attempts
  BY ONLY FileOK(f, ps), <1>1, <1>2, <1>4, <1>5, <1>6, <1>8, <1>9, PrsKept
<1>. QED
  BY <1>1, <1>7 DEF Kept

\* r is q with another head or state, or marked as modified.
Revises(r, q) ==
    /\ IsRecord(r) /\ r.key = q.key /\ r.markerOnly = q.markerOnly /\ r.replacing = q.replacing
    /\ q.modified => r.modified

\* The three ways a record is revised (Observed, settleClose, checkPair).
LEMMA Revisions ==
    ASSUME NEW q, IsRecord(q)
    PROVE  /\ \A st \in RecordStates : Revises([q EXCEPT !.state = st], q)
           /\ Revises([q EXCEPT !.modified = TRUE], q)
           /\ \A pull \in Pull : Revises(Observed(q, pull), q)
<1>1. \A st \in RecordStates : Revises([q EXCEPT !.state = st], q)
  BY DEF Revises, IsRecord
<1>2. Revises([q EXCEPT !.modified = TRUE], q)
  BY ZenonT(30) DEF Revises, IsRecord
<1>3. ASSUME NEW pull \in Pull
      PROVE  Revises(Observed(q, pull), q)
  <2> DEFINE r == Observed(q, pull)
  <2>1. pull.state \in RecordStates /\ MarkModified(q, pull) \in BOOLEAN /\ (q.modified => MarkModified(q, pull))
    BY DEF Pull, RecordStates, MarkModified, IsRecord
  <2>2. /\ IsRecord(r) /\ r.key = q.key /\ r.markerOnly = q.markerOnly /\ r.replacing = q.replacing
        /\ r.modified = MarkModified(q, pull)
    BY <2>1, ZenonT(30) DEF Observed, IsRecord
  <2> HIDE DEF r
  <2>3. q.modified => r.modified
    BY <2>1, <2>2
  <2>4. Revises(r, q)
    BY <2>2, <2>3 DEF Revises
  <2>. QED
    BY <2>4 DEF r
<1>. QED
  BY <1>1, <1>2, <1>3

\* A record is revised.
LEMMA RevisionKept ==
    ASSUME NEW f, NEW ps, FileOK(f, ps), NEW n \in DOMAIN f.prs, NEW r, Revises(r, f.prs[n]),
           NEW g, g = WithRecord(f, n, r)
    PROVE  Kept(f, g, ps) /\ \A m \in DOMAIN f.prs : g.prs[m].replacing = f.prs[m].replacing
<1>1. Succeeds(f, ps, n, r)
  BY DEF FileOK, FileInv, TrueReplacements, TruePrs, Succeeds, Revises
<1>2. Kept(f, g, ps) /\ g.prs[n] = r /\ \A m \in DOMAIN f.prs : m # n => g.prs[m] = f.prs[m]
  BY <1>1, OneKept
<1>. QED
  BY <1>2 DEF Revises

\* The state of a record changes, as GitHub reports it or a close makes it.
LEMMA StateKept ==
    ASSUME NEW f, NEW ps, FileOK(f, ps), NEW n \in DOMAIN f.prs, NEW st \in RecordStates, NEW g,
           g = WithState(f, n, st)
    PROVE  Kept(f, g, ps) /\ \A m \in DOMAIN f.prs : g.prs[m].replacing = f.prs[m].replacing
<1> DEFINE r == [f.prs[n] EXCEPT !.state = st]
<1>1. g = WithRecord(f, n, r)
  BY DEF WithRecord, WithState
<1>2. Revises(r, f.prs[n])
  BY Revisions, ZenonT(30) DEF FileOK, IsFile
<1> HIDE DEF r
<1>. QED
  BY <1>1, <1>2, RevisionKept

\* SetReplacing: the replacement of a record is given a state.
LEMMA SetReplacingKept ==
    ASSUME NEW f, NEW ps, FileOK(f, ps), NEW new \in DOMAIN f.prs, NEW old \in DOMAIN f.prs,
           <<f.prs[new].key[1], f.prs[old].key[1]>> \in Supersedes, NEW st \in ReplacementStates,
           st \in {"commented", "closed"} => Names(ps, old, new),
           NEW g, g = SetReplacing(f, new, old, st)
    PROVE  /\ Kept(f, g, ps)
           /\ g.prs[new].replacing = Put(f.prs[new].replacing, old, st)
           /\ \A m \in DOMAIN f.prs : m # new => g.prs[m].replacing = f.prs[m].replacing
<1> DEFINE rp == Put(f.prs[new].replacing, old, st)
           r == [f.prs[new] EXCEPT !.replacing = rp]
<1>1. IsRecord(f.prs[new]) /\ TrueReplacements(f, ps)
  BY DEF FileOK, FileInv, IsFile
<1>2. /\ rp \in [DOMAIN f.prs[new].replacing \cup {old} -> ReplacementStates]
      /\ DOMAIN rp = DOMAIN f.prs[new].replacing \cup {old} /\ rp[old] = st
      /\ \A o \in DOMAIN f.prs[new].replacing : o # old => rp[o] = f.prs[new].replacing[o]
  BY <1>1 DEF Put, IsRecord
<1>3. g = WithRecord(f, new, r)
  BY DEF SetReplacing, WithRecord
<1> HIDE DEF rp
<1>4. /\ IsRecord(r) /\ r.key = f.prs[new].key /\ r.markerOnly = f.prs[new].markerOnly
      /\ r.modified = f.prs[new].modified /\ r.replacing = rp
  BY <1>1, <1>2, ReplacingSet
<1> HIDE DEF r
<1>5. \A o \in DOMAIN r.replacing :
        /\ o \in DOMAIN f.prs /\ <<f.prs[new].key[1], f.prs[o].key[1]>> \in Supersedes
        /\ r.replacing[o] \in {"commented", "closed"} => Names(ps, o, new)
  BY <1>1, <1>2, <1>4 DEF TrueReplacements, TruePrs
<1>6. DOMAIN f.prs[new].replacing \subseteq DOMAIN r.replacing
  BY <1>2, <1>4
<1>7. Succeeds(f, ps, new, r)
  BY <1>4, <1>5, <1>6 DEF Succeeds
<1>8. Kept(f, g, ps) /\ g.prs[new] = r /\ \A m \in DOMAIN f.prs : m # new => g.prs[m] = f.prs[m]
  BY <1>3, <1>7, OneKept
<1>. QED
  BY <1>4, <1>8 DEF rp

\* The parts of a pull request.
LEMMA PullParts ==
    ASSUME NEW ps \in Seq(Pull), NEW n \in DOMAIN ps
    PROVE  /\ ps[n] \in Pull /\ ps[n].key \in AttemptKey /\ ps[n].state \in PullStates
           /\ ps[n].byTool \in BOOLEAN /\ ps[n].closedByTool \in BOOLEAN /\ ps[n].comments \in Seq(Nat)
           /\ ps[n].head \in Int /\ ps[n].marker \in Nat /\ n \in Nat /\ n <= Len(ps) /\ n >= 1
<1>1. ps[n] \in Pull /\ n \in 1..Len(ps)
  OBVIOUS
<1>. QED
  BY <1>1 DEF Pull

\* Seen: what checkPair writes down about a pull request is a revision.
LEMMA SeenRevises ==
    ASSUME NEW f, IsFile(f), pulls \in Seq(Pull), NEW n \in DOMAIN f.prs, n \in DOMAIN pulls
    PROVE  \E r : Revises(r, f.prs[n]) /\ Seen(f, n) = WithRecord(f, n, r)
<1>1. IsRecord(f.prs[n])
  BY DEF IsFile
<1>2. pulls[n].state \in RecordStates
  BY PullParts DEF RecordStates
<1>3. CASE pulls[n].state = "open"
  <2>1. Seen(f, n) = WithRecord(f, n, [f.prs[n] EXCEPT !.modified = TRUE])
    BY <1>3 DEF Seen, WithRecord
  <2>. QED
    BY <1>1, <2>1, Revisions, ZenonT(30)
<1>4. CASE pulls[n].state # "open"
  <2>1. Seen(f, n) = WithRecord(f, n, [f.prs[n] EXCEPT !.state = pulls[n].state])
    BY <1>4 DEF Seen, WithRecord
  <2>. QED
    BY <1>1, <1>2, <2>1, Revisions, ZenonT(30)
<1>. QED
  BY <1>3, <1>4

\* A record that checkPair finds changed.
LEMMA SeenKept ==
    ASSUME NEW f, FileOK(f, pulls), pulls \in Seq(Pull), NEW n \in DOMAIN f.prs, n \in DOMAIN pulls
    PROVE  Kept(f, Seen(f, n), pulls)
<1>1. PICK r : Revises(r, f.prs[n]) /\ Seen(f, n) = WithRecord(f, n, r)
  BY SeenRevises DEF FileOK
<1>. QED
  BY <1>1, RevisionKept

\* Kept files keep the keys, and one change may follow another.
LEMMA KeptTwice ==
    ASSUME NEW f, NEW g, NEW h, NEW ps, FileOK(f, ps), Kept(f, g, ps), Kept(g, h, ps)
    PROVE  Kept(f, h, ps)
BY DEF Kept, Grown

\* A kept record keeps its key.
LEMMA KeptKeys ==
    ASSUME NEW f, NEW g, NEW ps, FileOK(f, ps), Kept(f, g, ps)
    PROVE  \A n \in DOMAIN f.prs : g.prs[n].key = f.prs[n].key
BY DEF Kept, FileOK, FileInv, TrueRecords

\* The pair of a replacement in the records: one supersedes the other.
LEMMA PairFacts ==
    ASSUME NEW f, NEW ps, FileOK(f, ps), NEW p, InFile(f, p)
    PROVE  /\ p[1] \in DOMAIN f.prs /\ p[2] \in DOMAIN f.prs
           /\ p[1] \in DOMAIN ps /\ p[2] \in DOMAIN ps
           /\ <<f.prs[p[1]].key[1], f.prs[p[2]].key[1]>> \in Supersedes /\ <<ps[p[1]].key[1], ps[p[2]].key[1]>> \in Supersedes
           /\ f.prs[p[1]].replacing[p[2]] \in ReplacementStates
           /\ f.prs[p[1]].replacing[p[2]] \in {"commented", "closed"} => Names(ps, p[2], p[1])
<1>1. p[1] \in DOMAIN f.prs /\ p[2] \in DOMAIN f.prs[p[1]].replacing
  BY DEF InFile
<1>2. /\ p[2] \in DOMAIN f.prs /\ <<f.prs[p[1]].key[1], f.prs[p[2]].key[1]>> \in Supersedes
      /\ f.prs[p[1]].replacing[p[2]] \in {"commented", "closed"} => Names(ps, p[2], p[1])
  BY <1>1 DEF FileOK, FileInv, TrueReplacements, TruePrs
<1>3. /\ p[1] \in DOMAIN ps /\ p[2] \in DOMAIN ps
      /\ f.prs[p[1]].key = ps[p[1]].key /\ f.prs[p[2]].key = ps[p[2]].key
  BY <1>1, <1>2 DEF FileOK, FileInv, TrueRecords
<1>4. f.prs[p[1]].replacing[p[2]] \in ReplacementStates
  BY <1>1, ZenonT(30) DEF FileOK, IsFile, IsRecord
<1>. QED
  BY <1>1, <1>2, <1>3, <1>4

\* A state is set for a replacement that is in the records.
LEMMA SetPair ==
    ASSUME NEW f, NEW ps, FileOK(f, ps), NEW p, InFile(f, p), NEW st \in ReplacementStates,
           st \in {"commented", "closed"} => Names(ps, p[2], p[1]),
           NEW g, g = SetReplacing(f, p[1], p[2], st)
    PROVE  /\ Kept(f, g, ps) /\ g.prs[p[1]].replacing[p[2]] = st /\ InFile(g, p)
           /\ \A q : InFile(f, q) => InFile(g, q)
           /\ \A q : InFile(f, q) /\ q # p => g.prs[q[1]].replacing[q[2]] = f.prs[q[1]].replacing[q[2]]
<1>1. /\ p[1] \in DOMAIN f.prs /\ p[2] \in DOMAIN f.prs
      /\ <<f.prs[p[1]].key[1], f.prs[p[2]].key[1]>> \in Supersedes
  BY PairFacts
<1>2. /\ Kept(f, g, ps)
      /\ g.prs[p[1]].replacing = Put(f.prs[p[1]].replacing, p[2], st)
      /\ \A m \in DOMAIN f.prs : m # p[1] => g.prs[m].replacing = f.prs[m].replacing
  BY <1>1, SetReplacingKept
<1>3. p = <<p[1], p[2]>> /\ p[2] \in DOMAIN f.prs[p[1]].replacing
  BY DEF InFile
<1>4. g.prs[p[1]].replacing[p[2]] = st
  BY <1>2, <1>3 DEF Put
<1>5. \A q : InFile(f, q) => InFile(g, q)
  BY <1>2 DEF InFile, Kept, Grown
<1>6. ASSUME NEW q, InFile(f, q), q # p
      PROVE  g.prs[q[1]].replacing[q[2]] = f.prs[q[1]].replacing[q[2]]
  <2>1. q = <<q[1], q[2]>> /\ q[1] \in DOMAIN f.prs /\ q[2] \in DOMAIN f.prs[q[1]].replacing
    BY <1>6 DEF InFile
  <2>2. q[1] # p[1] \/ q[2] # p[2]
    BY <1>3, <1>6, <2>1, ZenonT(30)
  <2>3. CASE q[1] # p[1]
    BY <1>2, <2>1, <2>3
  <2>4. CASE q[1] = p[1] /\ q[2] # p[2]
    BY <1>2, <2>1, <2>4 DEF Put
  <2>. QED
    BY <2>2, <2>3, <2>4
<1>. QED
  BY <1>2, <1>4, <1>5, <1>6

\* A replacement in the records stays there.
LEMMA KeptPairs ==
    ASSUME NEW f, NEW g, Grown(f, g), NEW p, InFile(f, p)
    PROVE  InFile(g, p)
BY ZenonT(30) DEF Grown, InFile

\* settleClose, for a replacement whose close has no answer.
LEMMA SettleCloseKept ==
    ASSUME NEW f, FileOK(f, pulls), pulls \in Seq(Pull), NEW p, InFile(f, p),
           f.prs[p[1]].replacing[p[2]] = "closed", NEW g, g = SettleClose(f, p[1], p[2])
    PROVE  /\ Kept(f, g, pulls)
           /\ \A q : InFile(f, q) /\ q # p => g.prs[q[1]].replacing[q[2]] = f.prs[q[1]].replacing[q[2]]
<1> DEFINE new == p[1]
           old == p[2]
<1>1. new \in DOMAIN f.prs /\ old \in DOMAIN f.prs /\ Names(pulls, old, new)
  BY PairFacts
<1>2. ASSUME NEW st \in RecordStates, NEW rp \in {"abandoned", "done"},
             g = SetReplacing(WithState(f, old, st), new, old, rp)
      PROVE  /\ Kept(f, g, pulls)
             /\ \A q : InFile(f, q) /\ q # p => g.prs[q[1]].replacing[q[2]] = f.prs[q[1]].replacing[q[2]]
  <2>1. PICK h : h = WithState(f, old, st)
    OBVIOUS
  <2>2. Kept(f, h, pulls) /\ \A m \in DOMAIN f.prs : h.prs[m].replacing = f.prs[m].replacing
    BY <1>1, <2>1, StateKept
  <2>3. FileOK(h, pulls) /\ \A q : InFile(f, q) => InFile(h, q)
    BY <2>2 DEF Kept, InFile
  <2>4. g = SetReplacing(h, p[1], p[2], rp)
    BY <1>2, <2>1
  <2>5. rp \in ReplacementStates /\ rp \notin {"commented", "closed"}
    BY DEF ReplacementStates
  <2>6. /\ Kept(h, g, pulls)
        /\ \A q : InFile(h, q) /\ q # p => g.prs[q[1]].replacing[q[2]] = h.prs[q[1]].replacing[q[2]]
    BY <2>3, <2>4, <2>5, SetPair
  <2>7. Kept(f, g, pulls)
    BY <2>2, <2>6, KeptTwice
  <2>. QED
    BY <2>2, <2>3, <2>6, <2>7 DEF InFile
<1>3. CASE pulls[old].state = "merged"
  BY <1>2, <1>3, ZenonT(30) DEF SettleClose, WithState, RecordStates, PullStates
<1>4. CASE pulls[old].state = "closed"
  <2>1. PICK st \in RecordStates : st = IF Superseded(old, new) THEN "replaced" ELSE "closed"
    BY DEF RecordStates, PullStates
  <2>2. g = SetReplacing(WithState(f, old, st), new, old, "done")
    BY <1>4, <2>1, ZenonT(30) DEF SettleClose, WithState
  <2>. QED
    BY <1>2, <2>2
<1>5. CASE pulls[old].state \notin {"merged", "closed"}
  <2>1. g = SetReplacing(f, p[1], p[2], "commented")
    BY <1>5 DEF SettleClose
  <2>2. "commented" \in ReplacementStates
    BY DEF ReplacementStates
  <2>. QED
    BY <1>1, <2>1, <2>2, SetPair
<1>. QED
  BY <1>3, <1>4, <1>5

\* checkPair: a pair that fails the check is given up.
LEMMA CheckedPairKept ==
    ASSUME NEW f, FileOK(f, pulls), pulls \in Seq(Pull), NEW p, InFile(f, p),
           NEW g, g = CheckedPair(f, p[1], p[2])
    PROVE  /\ Kept(f, g, pulls)
           /\ \/ g = f /\ Good(f, p[1]) /\ Good(f, p[2])
              \/ Replacing(g.prs[p[1]], p[2]) = "abandoned"
<1> DEFINE new == p[1]
           old == p[2]
<1>1. /\ new \in DOMAIN f.prs /\ old \in DOMAIN f.prs
      /\ new \in DOMAIN pulls /\ old \in DOMAIN pulls
  BY PairFacts
<1>2. ASSUME NEW n \in {new, old}, g = SetReplacing(Seen(f, n), new, old, "abandoned")
      PROVE  Kept(f, g, pulls) /\ Replacing(g.prs[new], old) = "abandoned"
  <2>1. PICK h : h = Seen(f, n)
    OBVIOUS
  <2>2. Kept(f, h, pulls)
    BY <1>1, <2>1, SeenKept
  <2>3. FileOK(h, pulls) /\ InFile(h, p)
    BY <2>2, KeptPairs DEF Kept
  <2>4. g = SetReplacing(h, p[1], p[2], "abandoned")
    BY <1>2, <2>1
  <2>5. "abandoned" \in ReplacementStates /\ "abandoned" \notin {"commented", "closed"}
    BY DEF ReplacementStates
  <2>6. Kept(h, g, pulls) /\ g.prs[p[1]].replacing[p[2]] = "abandoned" /\ InFile(g, p)
    BY <2>3, <2>4, <2>5, SetPair
  <2>7. Kept(f, g, pulls)
    BY <2>2, <2>6, KeptTwice
  <2>. QED
    BY <2>6, <2>7 DEF Replacing, InFile
<1>3. Kept(f, f, pulls)
  BY DEF Kept, Grown
<1>4. CASE ~ Good(f, new)
  BY <1>2, <1>4 DEF CheckedPair
<1>5. CASE Good(f, new) /\ ~ Good(f, old)
  BY <1>2, <1>5 DEF CheckedPair
<1>6. CASE Good(f, new) /\ Good(f, old)
  BY <1>3, <1>6 DEF CheckedPair
<1>. QED
  BY <1>4, <1>5, <1>6

\* A record as it is made, of the attempt k.
Fresh(r, k) == IsRecord(r) /\ r.key = k /\ DOMAIN r.replacing = {}

\* A record as it is first written.
LEMMA NewRecord ==
    ASSUME NEW k \in AttemptKey, NEW head \in Nat, NEW st \in RecordStates
    PROVE  /\ \A m \in BOOLEAN : /\ Fresh(Record(k, head, st, m, FALSE), k)
                                /\ Record(k, head, st, m, FALSE).modified = m
           /\ \A m \in BOOLEAN : /\ Fresh(Record(k, head, st, m, TRUE), k)
                                /\ Record(k, head, st, m, TRUE).markerOnly
           /\ Fresh(Record(k, head, st, TRUE, FALSE), k) /\ Record(k, head, st, TRUE, FALSE).modified
<1>1. DOMAIN <<>> = {} /\ <<>> \in [{} -> ReplacementStates]
  OBVIOUS
<1>. QED
  BY <1>1 DEF Record, IsRecord, Fresh

\* An attempt changes: it is settled only when no pull request is missing.
LEMMA AttemptKept ==
    ASSUME NEW f, NEW ps \in Seq(Pull), FileOK(f, ps), NEW k \in AttemptKey, NEW a \in Attempt,
           Settled(a) => Recorded(f, ps, k),
           NEW g, g = WithAttempt(f, k, a)
    PROVE  /\ FileOK(g, ps) /\ Grown(f, g) /\ g.prs = f.prs
           /\ g.attempts[k] = a /\ \A j \in AttemptKey : j # k => g.attempts[j] = f.attempts[j]
<1> DEFINE ats == [f.attempts EXCEPT ![k] = a]
<1>1. IsFile(f) /\ ats \in [AttemptKey -> Attempt]
  BY DEF FileOK, IsFile
<1>2. g = WithAttempts(f, ats)
  BY DEF WithAttempts, WithAttempt
<1>3. ats[k] = a /\ \A j \in AttemptKey : j # k => ats[j] = f.attempts[j]
  BY <1>1 DEF IsFile
<1> HIDE DEF ats
<1>4. IsFile(g) /\ g.prs = f.prs /\ g.attempts = ats /\ g.found = f.found
  BY ONLY <1>1, <1>2, AttemptsChanged
<1>5. TrueRecords(g, ps) /\ TrueReplacements(g, ps)
  BY <1>4 DEF FileOK, FileInv, TrueRecords, TrueReplacements, TruePrs
<1>6. ASSUME g.found, NEW n \in DOMAIN ps, ps[n].byTool
      PROVE  n \in DOMAIN g.prs \/ ~ Settled(g.attempts[ps[n].key])
  <2>1. n \in DOMAIN f.prs \/ ~ Settled(f.attempts[ps[n].key])
    BY <1>4, <1>6 DEF FileOK, FileInv, Accounts
  <2>2. ps[n].key \in AttemptKey
    BY PullParts
  <2>3. CASE ps[n].key = k
    BY <1>3, <1>4, <1>6, <2>3 DEF Recorded
  <2>4. CASE ps[n].key # k
    BY <1>3, <1>4, <2>1, <2>2, <2>4
  <2>. QED
    BY <2>3, <2>4
<1>7. FileOK(g, ps)
  BY <1>4, <1>5, <1>6 DEF FileOK, FileInv, Accounts
<1>. QED
  BY <1>3, <1>4, <1>7 DEF Grown

\* An attempt is given another status: a settled one only when it hides no
\* pull request.
LEMMA StatusKept ==
    ASSUME NEW f, NEW ps \in Seq(Pull), FileOK(f, ps), NEW k \in AttemptKey, NEW st \in AttemptStatuses,
           st \in {"none", "pr_created", "abandoned", "abandoned_without_pr"} => Recorded(f, ps, k),
           NEW g, g = Advance(f, k, st)
    PROVE  /\ FileOK(g, ps) /\ Grown(f, g) /\ g.prs = f.prs
           /\ g.attempts[k].status = st /\ \A j \in AttemptKey : j # k => g.attempts[j] = f.attempts[j]
<1> DEFINE a == [f.attempts[k] EXCEPT !.status = st]
<1>1. f.attempts \in [AttemptKey -> Attempt]
  BY DEF FileOK, IsFile
<1>2. a \in Attempt /\ a.status = st
  BY <1>1 DEF Attempt
<1>3. g = WithAttempt(f, k, a)
  BY DEF WithAttempt, Advance
<1> HIDE DEF a
<1>4. Settled(a) => Recorded(f, ps, k)
  BY <1>2 DEF Settled
<1>5. ps \in Seq(Pull) /\ FileOK(f, ps) /\ k \in AttemptKey
  OBVIOUS
<1>6. /\ FileOK(g, ps) /\ Grown(f, g) /\ g.prs = f.prs
      /\ g.attempts[k] = a /\ \A j \in AttemptKey : j # k => g.attempts[j] = f.attempts[j]
  BY ONLY <1>2, <1>3, <1>4, <1>5, AttemptKept
<1>. QED
  BY <1>2, <1>6

\* Adopt: the open pull requests that were listed join the records.
LEMMA AdoptKept ==
    ASSUME NEW f, FileOK(f, pulls), pulls \in Seq(Pull), NEW ns \in SUBSET DOMAIN pulls,
           \A n \in ns : pulls[n].state = "open", NEW g, g = Adopt(f, ns)
    PROVE  FileOK(g, pulls) /\ Grown(f, g) /\ g.attempts = f.attempts
<1> DEFINE known == {n \in ns : n \in DOMAIN f.prs \/ Settled(f.attempts[pulls[n].key])}
           prs == [n \in DOMAIN f.prs \cup known |-> IF n \in known THEN Listed(f, n) ELSE f.prs[n]]
<1>1. g = WithPrs(f, prs)
  BY DEF Adopt, WithPrs
<1>2. /\ DOMAIN prs = DOMAIN f.prs \cup known /\ prs = [n \in DOMAIN prs |-> prs[n]]
      /\ \A n \in known : prs[n] = Listed(f, n) /\ n \in DOMAIN pulls
      /\ \A n \in DOMAIN f.prs : n \notin known => prs[n] = f.prs[n]
  OBVIOUS
<1>3. /\ f.attempts \in [AttemptKey -> Attempt] /\ TrueRecords(f, pulls) /\ TrueReplacements(f, pulls)
      /\ \A n \in DOMAIN f.prs : IsRecord(f.prs[n])
  BY DEF FileOK, IsFile, FileInv
<1>4. ASSUME NEW n \in DOMAIN pulls, n \in DOMAIN f.prs
      PROVE  Revises(Listed(f, n), f.prs[n])
  <2>1. Listed(f, n) = Observed(f.prs[n], pulls[n])
    BY <1>4, ZenonT(30) DEF Listed
  <2>2. pulls[n] \in Pull
    BY PullParts
  <2>. QED
    BY <1>3, <1>4, <2>1, <2>2, Revisions, ZenonT(30)
<1>5. ASSUME NEW n \in DOMAIN pulls, n \notin DOMAIN f.prs
      PROVE  Fresh(Listed(f, n), pulls[n].key) /\ (Listed(f, n).modified \/ Listed(f, n).markerOnly)
  <2>1. /\ pulls[n].key \in AttemptKey /\ pulls[n].state \in RecordStates
        /\ pulls[n].marker \in Nat /\ pulls[n].head \in Int
    BY PullParts DEF RecordStates
  <2>2. f.attempts[pulls[n].key].commit \in Nat
    BY <1>3, <2>1 DEF Attempt
  <2>3. (pulls[n].head # pulls[n].marker) \in BOOLEAN /\ "open" \in RecordStates
    BY DEF RecordStates, PullStates
  <2>4. CASE f.attempts[pulls[n].key].status = "none"
    <3>1. Listed(f, n) = Record(pulls[n].key, pulls[n].marker, pulls[n].state, pulls[n].head # pulls[n].marker, TRUE)
      BY <1>5, <2>4 DEF Listed, RecordFromPull
    <3>. QED
      BY <2>1, <2>3, <3>1, NewRecord, ZenonT(30)
  <2>5. CASE f.attempts[pulls[n].key].status # "none"
    <3>1. Listed(f, n) = Record(pulls[n].key, f.attempts[pulls[n].key].commit, "open", TRUE, FALSE)
      BY <1>5, <2>5 DEF Listed
    <3>. QED
      BY <2>1, <2>2, <2>3, <3>1, NewRecord, ZenonT(30)
  <2>. QED
    BY <2>4, <2>5
<1> HIDE DEF known, prs
<1>6. \A n \in DOMAIN f.prs : Revises(prs[n], f.prs[n])
  BY <1>2, <1>3, <1>4 DEF Revises
<1>7. \A n \in DOMAIN prs : IsRecord(prs[n])
  BY <1>2, <1>5, <1>6 DEF Revises, Fresh
<1>8. \A n \in DOMAIN prs : /\ n \in DOMAIN pulls /\ prs[n].key = pulls[n].key
                            /\ pulls[n].byTool \/ prs[n].modified \/ prs[n].markerOnly
  BY <1>2, <1>3, <1>5, <1>6 DEF TrueRecords, Revises, Fresh
<1>9. TruePrs(prs, pulls)
  BY <1>2, <1>3, <1>5, <1>6 DEF TrueReplacements, TruePrs, Revises, Fresh
<1>10. \A n \in DOMAIN f.prs : DOMAIN f.prs[n].replacing \subseteq DOMAIN prs[n].replacing
  BY <1>6 DEF Revises
<1>. QED
  BY <1>1, <1>2, <1>7, <1>8, <1>9, <1>10, PrsKept

\* settleAttemptPulls, with the pull requests of the attempt's branch.
LEMMA SettleAttemptKept ==
    ASSUME NEW f, FileOK(f, pulls), pulls \in Seq(Pull), NEW k \in AttemptKey, 
           \A n \in DOMAIN pulls : ~ pulls[n].byTool => pulls[n].marker = None,
           NEW g, g = SettleAttemptPulls(f, k, BranchPulls(k))
    PROVE  FileOK(g, pulls) /\ Grown(f, g)
<1> DEFINE ns == BranchPulls(k)
           a == f.attempts[k]
           several == Cardinality(ns) > 1
           strange(n) == pulls[n].head # a.commit \/ pulls[n].marker # a.commit \/ a.commit = None
           Judged(n) == IF n \in DOMAIN f.prs THEN f.prs[n] ELSE Record(k, a.commit, pulls[n].state, strange(n), FALSE)
           Marked(n) == [Judged(n) EXCEPT !.modified = @ \/ several]
           prs == [n \in DOMAIN f.prs \cup ns |-> IF n \in ns THEN Marked(n) ELSE f.prs[n]]
           st == IF several THEN "blocked" ELSE "pr_created"
<1>1. PICK h : h = WithPrs(f, prs)
  BY Zenon
<1>2. g = Advance(h, k, st)
  <2>1. g = [[f EXCEPT !.prs = prs] EXCEPT !.attempts[k].status = st]
    BY DEF SettleAttemptPulls
  <2>. QED
    BY <1>1, <2>1, ZenonT(30) DEF WithPrs, Advance
<1>3. /\ DOMAIN prs = DOMAIN f.prs \cup ns /\ prs = [n \in DOMAIN prs |-> prs[n]]
      /\ \A n \in ns : prs[n] = Marked(n) /\ n \in DOMAIN pulls /\ pulls[n].key = k
      /\ \A n \in DOMAIN f.prs : n \notin ns => prs[n] = f.prs[n]
  BY ZenonT(30) DEF BranchPulls
<1>4. /\ f.attempts \in [AttemptKey -> Attempt] /\ TrueRecords(f, pulls) /\ TrueReplacements(f, pulls)
      /\ \A n \in DOMAIN f.prs : IsRecord(f.prs[n])
  BY DEF FileOK, IsFile, FileInv
<1>5. a.commit \in Nat /\ several \in BOOLEAN /\ \A n \in ns : strange(n) \in BOOLEAN
  BY <1>4 DEF Attempt
<1>6. \A n \in ns : ~ pulls[n].byTool => strange(n)
  BY <1>3, ZenonT(30)
<1> HIDE DEF prs, st, ns, several
<1>7. ASSUME NEW q, IsRecord(q), NEW r, r = [q EXCEPT !.modified = @ \/ several]
      PROVE  Revises(r, q)
  <2>1. (q.modified \/ several) \in BOOLEAN
    OBVIOUS
  <2>2. r = [q EXCEPT !.modified = (q.modified \/ several)]
    BY <1>7
  <2>3. /\ IsRecord(r) /\ r.key = q.key /\ r.markerOnly = q.markerOnly /\ r.replacing = q.replacing
        /\ r.modified = (q.modified \/ several)
    BY <1>7, <2>1, <2>2, ZenonT(30) DEF IsRecord
  <2>. QED
    BY <2>3, ZenonT(30) DEF Revises
<1>8. \A n \in ns : n \in DOMAIN f.prs => Revises(prs[n], f.prs[n])
  BY <1>3, <1>4, <1>7, ZenonT(30)
<1>9. ASSUME NEW n \in ns, n \notin DOMAIN f.prs
      PROVE  Fresh(prs[n], k) /\ (pulls[n].byTool \/ prs[n].modified)
  <2>1. pulls[n].state \in RecordStates
    BY <1>3, PullParts, ZenonT(30) DEF RecordStates
  <2>2. PICK q : q = Record(k, a.commit, pulls[n].state, strange(n), FALSE)
    BY Zenon
  <2>3. Fresh(q, k) /\ q.modified = strange(n)
    BY <1>5, <2>1, <2>2, NewRecord, ZenonT(30)
  <2>4. prs[n] = [q EXCEPT !.modified = @ \/ several]
    BY <1>3, <1>9, <2>2, ZenonT(30)
  <2>5. Revises(prs[n], q)
    BY <1>7, <2>3, <2>4 DEF Fresh
  <2>6. Fresh(prs[n], k)
    BY <2>3, <2>5 DEF Fresh, Revises
  <2>7. pulls[n].byTool \/ prs[n].modified
    BY <1>6, <2>3, <2>5, ZenonT(30) DEF Revises
  <2>. QED
    BY <2>6, <2>7
<1>10. \A n \in DOMAIN f.prs : Revises(prs[n], f.prs[n])
  BY <1>3, <1>4, <1>8 DEF Revises
<1> HIDE DEF a, strange, Judged, Marked
<1>11. \A n \in DOMAIN prs : IsRecord(prs[n])
  BY <1>3, <1>9, <1>10 DEF Revises, Fresh
<1>12. \A n \in DOMAIN prs : /\ n \in DOMAIN pulls /\ prs[n].key = pulls[n].key
                             /\ pulls[n].byTool \/ prs[n].modified \/ prs[n].markerOnly
  BY <1>3, <1>4, <1>9, <1>10 DEF TrueRecords, Revises, Fresh
<1>13. TruePrs(prs, pulls)
  BY <1>3, <1>4, <1>9, <1>10 DEF TrueReplacements, TruePrs, Revises, Fresh
<1>14. \A n \in DOMAIN f.prs : DOMAIN f.prs[n].replacing \subseteq DOMAIN prs[n].replacing
  BY <1>10 DEF Revises
<1>15. FileOK(h, pulls) /\ Grown(f, h) /\ h.prs = prs
  BY <1>1, <1>3, <1>11, <1>12, <1>13, <1>14, PrsKept
<1>16. Recorded(h, pulls, k)
  BY <1>3, <1>15 DEF Recorded, ns, BranchPulls
<1>17. st \in AttemptStatuses
  BY DEF st, AttemptStatuses
<1>18. FileOK(g, pulls) /\ Grown(h, g)
  BY <1>2, <1>15, <1>16, <1>17, StatusKept
<1>. QED
  BY <1>15, <1>18 DEF Grown

\* A record is the replacement of those it supersedes (decideReplacements).
LEMMA DecideKept ==
    ASSUME NEW f, NEW ps, FileOK(f, ps), NEW new \in DOMAIN f.prs, NEW g, g = DecideReplacements(f, new)
    PROVE  FileOK(g, ps) /\ Grown(f, g) /\ g.attempts = f.attempts
<1> DEFINE olds == {old \in DOMAIN f.prs : Replaceable(f, new, old) /\ ~ InReplacement(f, old)}
           was == f.prs[new].replacing
           rp == [o \in DOMAIN was \cup olds |-> IF o \in olds THEN "pending" ELSE was[o]]
           r == [f.prs[new] EXCEPT !.replacing = rp]
<1>1. IsRecord(f.prs[new]) /\ TrueReplacements(f, ps)
  BY DEF FileOK, FileInv, IsFile
<1>2. g = WithRecord(f, new, r)
  BY DEF DecideReplacements, WithRecord
<1>3. \A o \in olds : o \in DOMAIN f.prs /\ <<f.prs[new].key[1], f.prs[o].key[1]>> \in Supersedes
  BY DEF Replaceable
<1> HIDE DEF olds
<1>4. /\ rp \in [DOMAIN was \cup olds -> ReplacementStates] /\ DOMAIN rp = DOMAIN was \cup olds
      /\ \A o \in olds : rp[o] = "pending"
      /\ \A o \in DOMAIN was : o \notin olds => rp[o] = was[o]
  BY <1>1 DEF IsRecord, ReplacementStates
<1> HIDE DEF rp
<1>5. /\ IsRecord(r) /\ r.key = f.prs[new].key /\ r.markerOnly = f.prs[new].markerOnly
      /\ r.modified = f.prs[new].modified /\ r.replacing = rp
  BY <1>1, <1>4, ReplacingSet
<1> HIDE DEF r
<1>6. \A o \in DOMAIN r.replacing :
        /\ o \in DOMAIN f.prs /\ <<f.prs[new].key[1], f.prs[o].key[1]>> \in Supersedes
        /\ r.replacing[o] \in {"commented", "closed"} => Names(ps, o, new)
  BY <1>1, <1>3, <1>4, <1>5, ZenonT(30) DEF TrueReplacements, TruePrs
<1>7. Succeeds(f, ps, new, r)
  BY <1>4, <1>5, <1>6 DEF Succeeds
<1>8. Kept(f, g, ps)
  BY <1>2, <1>7, OneKept
<1>. QED
  BY <1>8 DEF Kept

-----------------------------------------------------------------------------
(* Pull requests.  GitHub numbers them in order and forgets none.           *)

\* qs is ps later on: nothing that the records are about has changed.
Later(ps, qs) ==
    /\ DOMAIN ps \subseteq DOMAIN qs
    /\ \A n \in DOMAIN ps : qs[n].key = ps[n].key /\ qs[n].byTool = ps[n].byTool
    /\ \A n \in DOMAIN ps : \A m : Names(ps, n, m) => Names(qs, n, m)

\* The records stay true, as long as a new pull request of the stage is known.
LEMMA FileLater ==
    ASSUME NEW f, NEW ps, NEW qs, FileOK(f, ps), Later(ps, qs),
           f.found => \A n \in DOMAIN qs : n \notin DOMAIN ps /\ qs[n].byTool =>
                         n \in DOMAIN f.prs \/ ~ Settled(f.attempts[qs[n].key])
    PROVE  FileOK(f, qs)
<1>1. TrueRecords(f, qs)
  BY DEF FileOK, FileInv, TrueRecords, Later
<1>2. TrueReplacements(f, qs)
  BY DEF FileOK, FileInv, TrueReplacements, TruePrs, TrueRecords, Later
<1>3. f.found => Accounts(f, qs)
  BY DEF FileOK, FileInv, Accounts, Later
<1>. QED
  BY <1>1, <1>2, <1>3 DEF FileOK, FileInv

\* GitHub gives a new pull request the next number.
LEMMA Appended ==
    ASSUME NEW ps \in Seq(Pull), NEW p \in Pull, NEW qs, qs = Append(ps, p)
    PROVE  /\ qs \in Seq(Pull) /\ DOMAIN qs = DOMAIN ps \cup {Len(ps) + 1} /\ Len(ps) + 1 \notin DOMAIN ps
           /\ qs[Len(ps) + 1] = p /\ \A n \in DOMAIN ps : qs[n] = ps[n]
OBVIOUS

\* The comments of a pull request decide what it names.
LEMMA SameNames ==
    ASSUME NEW ps, NEW qs, NEW n, qs[n].comments = ps[n].comments
    PROVE  \A m : Names(qs, n, m) <=> Names(ps, n, m)
BY DEF Names

\* A pull request is opened.
LEMMA AppendedLater ==
    ASSUME NEW ps \in Seq(Pull), NEW p \in Pull, NEW qs, qs = Append(ps, p)
    PROVE  Later(ps, qs)
<1>1. DOMAIN ps \subseteq DOMAIN qs /\ \A n \in DOMAIN ps : qs[n] = ps[n]
  BY Appended
<1>. QED
  BY <1>1, SameNames, ZenonT(30) DEF Later

\* ps and qs differ only in heads, states, markers that were edited, and in
\* closes that were undone: what people do to pull requests that exist.
Touched(ps, qs) ==
    /\ qs \in Seq(Pull) /\ DOMAIN qs = DOMAIN ps
    /\ \A n \in DOMAIN ps :
          /\ qs[n].key = ps[n].key /\ qs[n].byTool = ps[n].byTool /\ qs[n].comments = ps[n].comments
          /\ qs[n].marker = ps[n].marker \/ qs[n].marker = None
          /\ qs[n].closedByTool => ps[n].closedByTool

\* Touched pull requests keep keys, authors and comments ...
LEMMA TouchedLater ==
    ASSUME NEW ps, NEW qs, Touched(ps, qs)
    PROVE  Later(ps, qs)
BY SameNames DEF Touched, Later

\* ... and what holds of pull requests.
LEMMA TouchedOK ==
    ASSUME NEW ps, NEW qs, PullsOK(ps), Touched(ps, qs)
    PROVE  PullsOK(qs)
<1>1. \A n, m : n \in DOMAIN ps => (Names(qs, n, m) <=> Names(ps, n, m))
  BY SameNames DEF Touched
<1>2. /\ qs \in Seq(Pull)
      /\ \A n \in DOMAIN qs : ~ qs[n].byTool => qs[n].marker = None
  BY DEF PullsOK, Touched
<1>3. OnePull(qs)
  BY DEF PullsOK, Touched, OnePull
<1>4. Once(qs)
  BY DEF PullsOK, Touched, Once
<1>5. Succeeded(qs)
  BY <1>1 DEF PullsOK, Touched, Succeeded
<1>. QED
  BY <1>2, <1>3, <1>4, <1>5 DEF PullsOK

\* A pull request is opened: by someone, or by the stage for an update that
\* has none.
LEMMA AppendedOK ==
    ASSUME NEW ps, NEW qs, PullsOK(ps), NEW p \in Pull, qs = Append(ps, p),
           ~ p.closedByTool, p.comments = <<>>,
           ~ p.byTool => p.marker = None,
           p.byTool => Unproposed(ps, p.key[1])
    PROVE  PullsOK(qs)
<1>1. ps \in Seq(Pull)
  BY DEF PullsOK
<1>2. /\ qs \in Seq(Pull) /\ DOMAIN qs = DOMAIN ps \cup {Len(ps) + 1} /\ Len(ps) + 1 \notin DOMAIN ps
      /\ qs[Len(ps) + 1] = p /\ \A n \in DOMAIN ps : qs[n] = ps[n]
  BY <1>1, Appended
<1>3. \A n, m : n \in DOMAIN ps => (Names(qs, n, m) <=> Names(ps, n, m))
  BY <1>2, SameNames, ZenonT(30)
<1>4. \A n \in DOMAIN qs : ~ qs[n].byTool => qs[n].marker = None
  BY <1>2 DEF PullsOK
<1>5. OnePull(qs)
  BY <1>2 DEF PullsOK, OnePull, Unproposed
<1>6. Once(qs)
  <2>1. Len(p.comments) = 0
    OBVIOUS
  <2>. QED
    BY <1>2, <2>1 DEF PullsOK, Once
<1>7. Succeeded(qs)
  <2>1. \A o \in DOMAIN ps : qs[o].closedByTool => ps[o].closedByTool
    BY <1>2
  <2>2. Succeeded(ps)
    BY DEF PullsOK
  <2>. QED
    BY <1>2, <1>3, <2>1, <2>2, ZenonT(30) DEF Succeeded
<1>. QED
  BY <1>2, <1>4, <1>5, <1>6, <1>7 DEF PullsOK

\* qs is ps but for the comments of o, or for the state of o.
Alike(ps, qs, o) ==
    /\ qs \in Seq(Pull) /\ DOMAIN qs = DOMAIN ps
    /\ \A n \in DOMAIN ps : n # o => qs[n] = ps[n]
    /\ \A n \in DOMAIN ps : qs[n].key = ps[n].key /\ qs[n].byTool = ps[n].byTool /\ qs[n].marker = ps[n].marker

CommentAdded(ps, qs, o, m) ==
    /\ Alike(ps, qs, o) /\ qs[o].comments = Append(ps[o].comments, m)
    /\ qs[o].state = ps[o].state /\ qs[o].closedByTool = ps[o].closedByTool

\* The comment is added.
LEMMA CommentedParts ==
    ASSUME NEW ps \in Seq(Pull), NEW o \in DOMAIN ps, NEW m \in Nat, NEW qs, qs = Commented(ps, o, m)
    PROVE  CommentAdded(ps, qs, o, m)
<1>1. ps[o] \in Pull /\ ps[o].comments \in Seq(Nat) /\ o \in 1..Len(ps)
  BY PullParts
<1>5. \A c \in Seq(Nat) : Append(c, m) \in Seq(Nat)
  OBVIOUS
<1>0. PICK cs \in Seq(Nat) : cs = Append(ps[o].comments, m)
  BY <1>1, <1>5, ZenonT(30)
<1> DEFINE q == [ps[o] EXCEPT !.comments = cs]
<1>2. /\ q \in Pull /\ q.comments = cs /\ q.key = ps[o].key /\ q.byTool = ps[o].byTool
      /\ q.marker = ps[o].marker /\ q.closedByTool = ps[o].closedByTool /\ q.state = ps[o].state
  BY <1>1, ZenonT(30) DEF Pull
<1>3. qs = [ps EXCEPT ![o] = q]
  BY <1>0 DEF Commented
<1> HIDE DEF q
<1>4. qs \in Seq(Pull) /\ DOMAIN qs = DOMAIN ps /\ qs[o] = q /\ \A n \in DOMAIN ps : n # o => qs[n] = ps[n]
  BY <1>1, <1>2, <1>3
<1>6. \A n \in DOMAIN ps : qs[n].key = ps[n].key /\ qs[n].byTool = ps[n].byTool /\ qs[n].marker = ps[n].marker
  BY <1>2, <1>4
<1>. QED
  BY <1>0, <1>2, <1>4, <1>6 DEF CommentAdded, Alike

\* A comment names one pull request more.
LEMMA CommentedNames ==
    ASSUME NEW ps \in Seq(Pull), NEW o \in DOMAIN ps, NEW m \in Nat, NEW qs, qs = Commented(ps, o, m)
    PROVE  /\ \A n \in DOMAIN ps : \A x : Names(qs, n, x) <=> Names(ps, n, x) \/ (n = o /\ x = m)
           /\ Names(qs, o, m)
<1>0. CommentAdded(ps, qs, o, m)
  BY CommentedParts
<1>1. /\ qs[o].comments = Append(ps[o].comments, m)
      /\ \A n \in DOMAIN ps : n # o => qs[n] = ps[n]
  BY <1>0 DEF CommentAdded, Alike
<1>2. ps[o].comments \in Seq(Nat)
  BY PullParts
<1>3. \A n \in DOMAIN ps : n # o => \A x : Names(qs, n, x) <=> Names(ps, n, x)
  BY <1>1, SameNames, ZenonT(30)
<1>4. /\ Len(qs[o].comments) = Len(ps[o].comments) + 1 /\ Len(ps[o].comments) \in Nat
      /\ qs[o].comments[Len(ps[o].comments) + 1] = m
      /\ \A i \in 1..Len(ps[o].comments) : qs[o].comments[i] = ps[o].comments[i]
  BY <1>1, <1>2
<1>5. ASSUME NEW x
      PROVE  Names(qs, o, x) <=> Names(ps, o, x) \/ x = m
  <2>1. ASSUME NEW i \in 1..Len(qs[o].comments), qs[o].comments[i] = x, x # m
        PROVE  Names(ps, o, x)
    <3>1. i \in 1..Len(ps[o].comments)
      BY <1>4, <2>1
    <3>. QED
      BY <1>4, <2>1, <3>1, ZenonT(30) DEF Names
  <2>2. Names(ps, o, x) => Names(qs, o, x)
    BY <1>4 DEF Names
  <2>3. x = m => Names(qs, o, x)
    BY <1>4 DEF Names
  <2>4. Names(qs, o, x) => Names(ps, o, x) \/ x = m
    BY <2>1 DEF Names
  <2>. QED
    BY <2>2, <2>3, <2>4
<1>. QED
  BY <1>3, <1>5

\* A comment that was not there yet keeps what holds of pull requests.
LEMMA CommentedOK ==
    ASSUME NEW ps, PullsOK(ps), NEW o \in DOMAIN ps, NEW m \in Nat, ~ Names(ps, o, m),
           NEW qs, qs = Commented(ps, o, m)
    PROVE  PullsOK(qs) /\ Later(ps, qs)
<1>1. ps \in Seq(Pull)
  BY DEF PullsOK
<1>0. CommentAdded(ps, qs, o, m)
  BY <1>1, CommentedParts
<1>2. /\ qs \in Seq(Pull) /\ DOMAIN qs = DOMAIN ps /\ qs[o].comments = Append(ps[o].comments, m)
      /\ \A n \in DOMAIN ps : n # o => qs[n] = ps[n]
      /\ \A n \in DOMAIN ps : /\ qs[n].key = ps[n].key /\ qs[n].byTool = ps[n].byTool
                              /\ qs[n].marker = ps[n].marker /\ qs[n].closedByTool = ps[n].closedByTool
  BY <1>0 DEF CommentAdded, Alike
<1>3. \A n \in DOMAIN ps : \A x : Names(ps, n, x) => Names(qs, n, x)
  BY <1>1, CommentedNames
<1>4. Later(ps, qs)
  BY <1>2, <1>3 DEF Later
<1>5. ps[o].comments \in Seq(Nat)
  BY <1>1, PullParts
<1>6. \A i, j \in 1..Len(qs[o].comments) : qs[o].comments[i] = qs[o].comments[j] => i = j
  <2>1. /\ Len(qs[o].comments) = Len(ps[o].comments) + 1 /\ Len(ps[o].comments) \in Nat
        /\ qs[o].comments[Len(ps[o].comments) + 1] = m
        /\ \A i \in 1..Len(ps[o].comments) : qs[o].comments[i] = ps[o].comments[i]
    BY <1>2, <1>5
  <2>2. \A i \in 1..Len(ps[o].comments) : ps[o].comments[i] # m
    BY DEF Names
  <2>3. \A i, j \in 1..Len(ps[o].comments) : ps[o].comments[i] = ps[o].comments[j] => i = j
    BY DEF PullsOK, Once
  <2>. QED
    BY ONLY <2>1, <2>2, <2>3, SMTT(30)
<1>7. Once(qs)
  <2>1. \A n \in DOMAIN ps : n # o => \A i, j \in 1..Len(qs[n].comments) : qs[n].comments[i] = qs[n].comments[j] => i = j
    BY <1>2 DEF PullsOK, Once
  <2>2. \A n \in DOMAIN ps : \A i, j \in 1..Len(qs[n].comments) : qs[n].comments[i] = qs[n].comments[j] => i = j
    BY ONLY <1>6, <2>1, ZenonT(30)
  <2>3. DOMAIN qs = DOMAIN ps
    BY <1>2
  <2>. QED
    BY ONLY <2>2, <2>3, ZenonT(30) DEF Once
<1>8. OnePull(qs)
  BY <1>2 DEF PullsOK, OnePull
<1>9. Succeeded(qs)
  BY <1>2, <1>3 DEF PullsOK, Succeeded
<1>. QED
  BY <1>2, <1>4, <1>7, <1>8, <1>9 DEF PullsOK

StateClosed(ps, qs, o) ==
    /\ Alike(ps, qs, o) /\ qs[o].comments = ps[o].comments
    /\ qs[o].state = IF ps[o].state = "open" THEN "closed" ELSE ps[o].state

\* A pull request that carries the comment is closed.
LEMMA ClosedParts ==
    ASSUME NEW ps \in Seq(Pull), NEW o \in DOMAIN ps, NEW qs, qs = Closed(ps, o)
    PROVE  StateClosed(ps, qs, o)
<1>1. CASE ps[o].state = "open"
  <2> DEFINE q == [ps[o] EXCEPT !.state = "closed", !.closedByTool = TRUE]
  <2>1. ps[o] \in Pull /\ o \in 1..Len(ps)
    BY PullParts
  <2>2. /\ q \in Pull /\ q.comments = ps[o].comments /\ q.key = ps[o].key /\ q.byTool = ps[o].byTool
        /\ q.marker = ps[o].marker /\ q.state = "closed"
    BY <2>1, ZenonT(30) DEF Pull, PullStates
  <2>3. qs = [ps EXCEPT ![o] = q]
    BY <1>1, ZenonT(30) DEF Closed
  <2> HIDE DEF q
  <2>4. qs \in Seq(Pull) /\ DOMAIN qs = DOMAIN ps /\ qs[o] = q /\ \A n \in DOMAIN ps : n # o => qs[n] = ps[n]
    BY <2>1, <2>2, <2>3
  <2>. QED
    BY <1>1, <2>2, <2>4 DEF StateClosed, Alike
<1>2. CASE ps[o].state # "open"
  BY <1>2 DEF Closed, StateClosed, Alike
<1>. QED
  BY <1>1, <1>2

\* A pull request of the stage with its successor named in a comment is closed.
LEMMA ClosedOK ==
    ASSUME NEW ps, PullsOK(ps), NEW o \in DOMAIN ps, NEW m \in DOMAIN ps, Names(ps, o, m),
           ps[o].byTool, ps[m].byTool, <<ps[m].key[1], ps[o].key[1]>> \in Supersedes, NEW qs, qs = Closed(ps, o)
    PROVE  PullsOK(qs) /\ Later(ps, qs)
<1>1. ps \in Seq(Pull)
  BY DEF PullsOK
<1>0. StateClosed(ps, qs, o)
  BY <1>1, ClosedParts
<1>2. /\ qs \in Seq(Pull) /\ DOMAIN qs = DOMAIN ps /\ \A n \in DOMAIN ps : n # o => qs[n] = ps[n]
      /\ \A n \in DOMAIN ps : /\ qs[n].key = ps[n].key /\ qs[n].byTool = ps[n].byTool
                              /\ qs[n].marker = ps[n].marker /\ qs[n].comments = ps[n].comments
  BY <1>0 DEF StateClosed, Alike
<1>3. \A n \in DOMAIN ps : \A x : Names(qs, n, x) <=> Names(ps, n, x)
  BY <1>2, SameNames
<1>4. Later(ps, qs)
  BY <1>2, <1>3 DEF Later
<1>5. Once(qs)
  BY <1>2 DEF PullsOK, Once
<1>6. OnePull(qs)
  BY <1>2 DEF PullsOK, OnePull
<1>7. Succeeded(qs)
  <2>1. Succeeded(ps) /\ \A n \in DOMAIN ps : n # o => qs[n].closedByTool = ps[n].closedByTool
    BY <1>2 DEF PullsOK
  <2>2. ASSUME NEW x \in DOMAIN qs, qs[x].closedByTool
        PROVE  /\ qs[x].byTool
               /\ \E n \in DOMAIN ps : Names(ps, x, n) /\ ps[n].byTool /\ <<ps[n].key[1], ps[x].key[1]>> \in Supersedes
    <3>1. CASE x = o
      BY <1>2, <3>1, ZenonT(30)
    <3>2. CASE x # o
      BY <1>2, <2>1, <2>2, <3>2, ZenonT(30) DEF Succeeded
    <3>. QED
      BY <3>1, <3>2
  <2>. QED
    BY <1>2, <1>3, <2>2, ZenonT(30) DEF Succeeded
<1>. QED
  BY <1>2, <1>4, <1>5, <1>6, <1>7 DEF PullsOK

-----------------------------------------------------------------------------
(* The cycle.                                                               *)

\* Attempts and their updates.
LEMMA Keys ==
    /\ \A k \in AttemptKey : k[1] \in Updates /\ k[1] \in Nat
    /\ \A u \in Updates : \A b \in 1..MaxBase : <<u, b>> \in AttemptKey /\ <<u, b>>[1] = u
    /\ <<1, 1>> \in AttemptKey /\ 1 \in Updates /\ Updates \subseteq Int
BY PRAssumption DEF AttemptKey, Updates

\* A cycle starts without any work.
LEMMA NoRunParts ==
    /\ IsRun(NoRun) /\ NoRun.resumable = {} /\ NoRun.todo = {} /\ NoRun.pair = NoPair /\ NoRun.key \in AttemptKey
BY Keys DEF IsRun, NoRun, NoPair

\* Without a record file nothing is recorded.
LEMMA NoFileOK ==
    /\ IsFile(NoFile) /\ ~ NoFile.found /\ DOMAIN NoFile.prs = {}
    /\ \A k \in AttemptKey : NoFile.attempts[k] = NoAttempt
    /\ \A ps : FileOK(NoFile, ps)
<1>1. DOMAIN <<>> = {} /\ <<>> = [n \in DOMAIN <<>> |-> <<>>[n]]
  OBVIOUS
<1>2. NoAttempt \in Attempt
  BY DEF NoAttempt, Attempt, AttemptStatuses, None
<1>3. /\ IsFile(NoFile) /\ ~ NoFile.found /\ DOMAIN NoFile.prs = {}
      /\ \A k \in AttemptKey : NoFile.attempts[k] = NoAttempt
  BY <1>1, <1>2 DEF NoFile, IsFile
<1>4. \A ps : FileOK(NoFile, ps)
  BY <1>3, ZenonT(30) DEF FileOK, FileInv, TrueRecords, TrueReplacements, TruePrs
<1>. QED
  BY <1>3, <1>4

\* The cycle works on records f, with no replacement in hand.
Ready(r, f, d, ps) ==
    IsRun(r) /\ r.pair = NoPair /\ f.found /\ d.found /\ \A k \in r.resumable : Recorded(f, ps, k)

\* Outside the replace stage a cycle has no replacement in hand.
LEMMA IsReady ==
    ASSUME NEW w, NEW r, NEW f, NEW d, NEW ps, NEW u, CycleOK(w, r, f, d, ps, u),
           w # "idle", w \notin Replacements
    PROVE  Ready(r, f, d, ps)
BY DEF Ready, CycleOK, Working, Replaces

\* What a cycle knows survives changes of its records.
LEMMA StillReady ==
    ASSUME NEW r, NEW f, NEW d, NEW ps, Ready(r, f, d, ps), NEW g, Grown(f, g), NEW e, e.found
    PROVE  Ready(r, g, e, ps)
BY DEF Ready, Grown, Recorded

\* The steps at which a cycle only goes on with its records.
LEMMA GoOn ==
    ASSUME NEW r, NEW f, NEW d, NEW ps, NEW u, Ready(r, f, d, ps)
    PROVE  /\ CycleOK("unit", r, f, d, ps, u) /\ CycleOK("list", r, f, d, ps, u)
           /\ r.todo \subseteq DOMAIN f.prs => CycleOK("reread", r, f, d, ps, u)
           /\ r.todo \subseteq AttemptKey => CycleOK("attempt", r, f, d, ps, u)
           /\ r.key[1] = u /\ Unproposed(ps, u) =>
                 \A w \in {"objects", "branch", "open"} : CycleOK(w, r, f, d, ps, u)
BY ZenonT(30) DEF Ready, CycleOK, Working, Replaces, Steps, Creating, Replacements

\* The cycle is over.
LEMMA Ended ==
    ASSUME NEW d, NEW ps, NEW u
    PROVE  CycleOK("idle", NoRun, NoFile, d, ps, u)
BY NoRunParts, ZenonT(30) DEF CycleOK, Working, Replaces, Steps, Creating, Replacements

\* The cycle goes on with replacements (resumeReplacements) ...
LEMMA ToReplaceOK ==
    ASSUME NEW r, NEW f, NEW d, NEW ps, NEW u, Ready(r, f, d, ps), ToReplace(f, r)
    PROVE  CycleOK(pc', run', f, d, ps, u)
<1> DEFINE todo == {p \in (DOMAIN f.prs) \X (DOMAIN f.prs) :
                       r.canWrite /\ Replacing(f.prs[p[1]], p[2]) \in {"pending", "commented"}}
<1>1. pc' = "replace" /\ run' = [r EXCEPT !.key = NoRun.key, !.recorded = FALSE, !.resumable = {}, !.todo = todo]
  BY DEF ToReplace, Go
<1>2. \A p \in todo : InFile(f, p)
  BY DEF InFile, Replacing
<1> HIDE DEF todo
<1>3. IsRun(run') /\ run'.resumable = {} /\ run'.todo = todo /\ run'.pair = NoPair
  BY <1>1, NoRunParts, ZenonT(30) DEF Ready, IsRun
<1>4. f.found /\ d.found
  BY DEF Ready
<1>. QED
  BY <1>1, <1>2, <1>3, <1>4 DEF CycleOK, Working, Replaces, Steps, Creating, Replacements

\* ... with closes whose outcome is unknown (settleClose) ...
LEMMA ToClosesOK ==
    ASSUME NEW r, NEW f, NEW d, NEW ps, NEW u, Ready(r, f, d, ps), ToCloses(f, r)
    PROVE  CycleOK(pc', run', f, d, ps, u)
<1> DEFINE unknown == {p \in (DOMAIN f.prs) \X (DOMAIN f.prs) : Replacing(f.prs[p[1]], p[2]) = "closed"}
<1>1. \/ pc' = "unit" /\ run' = [r EXCEPT !.key = NoRun.key]
      \/ pc' = "closes" /\ run' = [r EXCEPT !.key = NoRun.key, !.todo = unknown]
  BY DEF ToCloses, Go
<1>2. \A p \in unknown : InFile(f, p) /\ f.prs[p[1]].replacing[p[2]] = "closed"
  BY DEF InFile, Replacing
<1> HIDE DEF unknown
<1>3. CASE pc' = "unit" /\ run' = [r EXCEPT !.key = NoRun.key]
  <2>1. Ready(run', f, d, ps)
    BY <1>3, NoRunParts DEF Ready, IsRun
  <2>. QED
    BY <1>3, <2>1, GoOn
<1>4. CASE pc' = "closes" /\ run' = [r EXCEPT !.key = NoRun.key, !.todo = unknown]
  <2>1. Ready(run', f, d, ps) /\ run'.todo = unknown
    BY <1>4, NoRunParts, ZenonT(30) DEF Ready, IsRun
  <2>. QED
    BY <1>2, <1>4, <2>1 DEF Ready, CycleOK, Working, Replaces, Steps, Creating, Replacements
<1>. QED
  BY <1>1, <1>3, <1>4

\* ... with attempts (reconcileAttempt) ...
LEMMA ToAttemptsOK ==
    ASSUME NEW r, NEW f, NEW d, NEW ps, NEW u, Ready(r, f, d, ps), r.todo \subseteq AttemptKey, ToAttempts(f, r)
    PROVE  CycleOK(pc', run', f, d, ps, u)
<1>1. CASE r.todo = {}
  BY <1>1, ToClosesOK DEF ToAttempts
<1>2. CASE r.todo # {}
  <2>1. pc' = "attempt" /\ run' = r
    BY <1>2 DEF ToAttempts, Go
  <2>. QED
    BY <2>1, GoOn
<1>. QED
  BY <1>1, <1>2

\* ... or with pull requests to read again (reconcileRepo).
LEMMA ToRereadOK ==
    ASSUME NEW f, NEW todo, todo \subseteq DOMAIN f.prs, Ready(run, f, disk, pulls), NEW u, ToReread(f, todo)
    PROVE  CycleOK(pc', run', mem', disk', pulls, u) /\ mem' = f /\ (disk' = f \/ disk' = disk)
<1>1. CASE todo = {}
  <2> DEFINE r == [run EXCEPT !.todo = Unsettled(f)]
  <2>1. mem' = f /\ disk' = f /\ ToAttempts(f, r)
    BY <1>1 DEF ToReread, Save
  <2>2. Ready(r, f, f, pulls) /\ r.todo \subseteq AttemptKey
    BY DEF Ready, IsRun, Unsettled
  <2> HIDE DEF r
  <2>. QED
    BY <2>1, <2>2, ToAttemptsOK
<1>2. CASE todo # {}
  <2> DEFINE r == [run EXCEPT !.todo = todo]
  <2>1. mem' = f /\ disk' = disk /\ pc' = "reread" /\ run' = r
    BY <1>2 DEF ToReread, Keep, Go
  <2>2. Ready(r, f, disk, pulls) /\ r.todo \subseteq DOMAIN f.prs
    BY DEF Ready, IsRun
  <2> HIDE DEF r
  <2>. QED
    BY <2>1, <2>2, GoOn
<1>. QED
  BY <1>1, <1>2

-----------------------------------------------------------------------------
(* One lemma for each action.                                               *)

\* The parts of the invariant.
LEMMA InvParts ==
    ASSUME IInv
    PROVE  /\ TypeOK /\ PullsOK(pulls) /\ FileOK(disk, pulls) /\ FileOK(mem, pulls)
           /\ CycleOK(pc, run, mem, disk, pulls, want) /\ pulls \in Seq(Pull)
           /\ IsRun(run) /\ pc \in Steps /\ Working(pc, run, mem, disk, pulls, want) /\ Replaces(pc, run, mem, pulls)
BY DEF IInv, CycleOK, PullsOK

\* A step of the cycle that writes nothing to GitHub.
LEMMA QuietStep ==
    ASSUME IInv, GitHubUnchanged, CycleOnly, NoFault \/ Fault,
           FileOK(mem', pulls), FileOK(disk', pulls), CycleOK(pc', run', mem', disk', pulls, want)
    PROVE  IInv'
<1>1. pulls' = pulls /\ want' = want
  BY DEF GitHubUnchanged, githubVars, CycleOnly
<1>2. TypeOK'
  BY DEF IInv, TypeOK, GitHubUnchanged, githubVars, CycleOnly, NoFault, Fault
<1>. QED
  BY <1>1, <1>2 DEF IInv

\* recoverAll writes a record for every pull request, so that none is missing.
LEMMA RecoverAllInv == ASSUME IInv, RecoverAll PROVE IInv'
<1> DEFINE prs == [n \in DOMAIN pulls |-> RecordFromPull(pulls[n])]
           g == [NoFile EXCEPT !.found = TRUE, !.prs = prs]
<1>1. pulls \in Seq(Pull)
  BY InvParts
<1>2. /\ mem' = g /\ disk' = g /\ pc' = "list" /\ run' = NoRun
      /\ GitHubUnchanged /\ CycleOnly /\ NoFault
  BY DEF RecoverAll, Save, Go
<1>3. DOMAIN prs = DOMAIN pulls /\ prs = [n \in DOMAIN prs |-> prs[n]]
  OBVIOUS
<1>4. ASSUME NEW n \in DOMAIN pulls
      PROVE  Fresh(prs[n], pulls[n].key) /\ prs[n].markerOnly
  <2>1. pulls[n].key \in AttemptKey /\ pulls[n].state \in RecordStates /\ pulls[n].marker \in Nat
    BY <1>1, PullParts DEF RecordStates
  <2>2. prs[n] = Record(pulls[n].key, pulls[n].marker, pulls[n].state, pulls[n].head # pulls[n].marker, TRUE)
    BY DEF RecordFromPull
  <2>3. (pulls[n].head # pulls[n].marker) \in BOOLEAN
    OBVIOUS
  <2>. QED
    BY <2>1, <2>2, <2>3, NewRecord, ZenonT(30)
<1> HIDE DEF prs
<1>5. g.found /\ g.prs = prs /\ IsFile(g)
  <2>1. \A n \in DOMAIN prs : IsRecord(prs[n])
    BY <1>3, <1>4 DEF Fresh
  <2>2. IsFile(NoFile)
    BY NoFileOK
  <2>. QED
    BY <1>3, <2>1, <2>2, ZenonT(30) DEF IsFile
<1> HIDE DEF g
<1>6. FileOK(g, pulls)
  BY <1>3, <1>4, <1>5 DEF FileOK, FileInv, TrueRecords, TrueReplacements, TruePrs, Accounts, Fresh
<1>7. Ready(NoRun, g, g, pulls)
  BY <1>5, NoRunParts DEF Ready
<1>8. CycleOK("list", NoRun, g, g, pulls, want)
  BY <1>7, GoOn
<1>. QED
  BY <1>2, <1>6, <1>8, QuietStep

\* The cycle starts from the records on disk.
LEMMA RunInv == ASSUME IInv, Run PROVE IInv'
<1>1. /\ mem' = disk /\ disk' = disk /\ disk.found /\ pc' = "list" /\ run' = NoRun
      /\ GitHubUnchanged /\ CycleOnly /\ NoFault
  BY DEF Run, Go
<1>2. Ready(NoRun, disk, disk, pulls)
  BY <1>1, NoRunParts, ZenonT(30) DEF Ready
<1>3. CycleOK("list", NoRun, disk, disk, pulls, want) /\ FileOK(disk, pulls)
  BY <1>2, GoOn, InvParts
<1>. QED
  BY <1>1, <1>3, QuietStep

\* Without the list of pull requests the cycle writes nothing.
LEMMA ReconcileFailsInv == ASSUME IInv, ReconcileFails PROVE IInv'
<1>1. /\ pc \in {"list", "reread", "attempt", "ref", "closes"} /\ mem' = mem /\ (disk' = mem \/ disk' = disk)
      /\ GitHubUnchanged /\ CycleOnly /\ Fault /\ pc' = "unit"
  BY DEF ReconcileFails, Keep, Save, Go
<1>2. Ready(run, mem, disk, pulls) /\ FileOK(mem, pulls) /\ FileOK(disk, pulls)
  BY <1>1, IsReady, InvParts DEF Replacements
<1>3. PICK b \in BOOLEAN : run' = [run EXCEPT !.canWrite = FALSE, !.todo = {}, !.targetBlocked = b]
  BY <1>2, ZenonT(30) DEF ReconcileFails, Go, Ready, IsRun
<1>4. Ready(run', mem, disk', pulls)
  BY <1>1, <1>2, <1>3, ZenonT(30) DEF Ready, IsRun
<1>5. CycleOK("unit", run', mem, disk', pulls, want)
  BY <1>4, GoOn
<1>. QED
  BY <1>1, <1>2, <1>5, QuietStep

\* The open pull requests are adopted, with a mark on those of people.
LEMMA ListOpenInv == ASSUME IInv, ListOpen PROVE IInv'
<1> DEFINE open == {n \in DOMAIN pulls : pulls[n].state = "open"}
           bad == {n \in open : n \notin DOMAIN mem.prs /\ pulls[n].marker = None}
           ns == {n \in open : \A m \in bad : n > m}
           f == Adopt(mem, ns)
<1>1. /\ \/ ToReread(f, {n \in DOMAIN f.prs : f.prs[n].state = "open"} \ open)
         \/ mem' = f /\ disk' = disk /\ pc' = "unit" /\ run' = [run EXCEPT !.canWrite = FALSE]
      /\ GitHubUnchanged /\ CycleOnly /\ NoFault
  BY ZenonT(30) DEF ListOpen, Keep, Go
<1>2. /\ pulls \in Seq(Pull) /\ FileOK(mem, pulls) /\ FileOK(disk, pulls) /\ Ready(run, mem, disk, pulls)
  BY InvParts, IsReady DEF ListOpen, Replacements
<1>3. ns \in SUBSET DOMAIN pulls /\ \A n \in ns : pulls[n].state = "open"
  OBVIOUS
<1> HIDE DEF ns
<1>4. FileOK(f, pulls) /\ Grown(mem, f)
  BY <1>2, <1>3, AdoptKept
<1> HIDE DEF f, open
<1>5. Ready(run, f, disk, pulls)
  BY <1>2, <1>4, StillReady, ZenonT(30) DEF Ready
<1>6. CASE ToReread(f, {n \in DOMAIN f.prs : f.prs[n].state = "open"} \ open)
  <2>1. CycleOK(pc', run', mem', disk', pulls, want) /\ mem' = f /\ (disk' = f \/ disk' = disk)
    BY <1>5, <1>6, ToRereadOK
  <2>. QED
    BY <1>1, <1>2, <1>4, <2>1, QuietStep, ZenonT(30)
<1>7. CASE mem' = f /\ disk' = disk /\ pc' = "unit" /\ run' = [run EXCEPT !.canWrite = FALSE]
  <2>1. Ready(run', f, disk, pulls)
    BY <1>5, <1>7, ZenonT(30) DEF Ready, IsRun
  <2>2. CycleOK("unit", run', f, disk, pulls, want)
    BY <2>1, GoOn, ZenonT(30)
  <2>. QED
    BY <1>1, <1>2, <1>4, <1>7, <2>2, QuietStep
<1>. QED
  BY <1>1, <1>6, <1>7, ZenonT(30)

\* The records that are not in the list are read one by one.
LEMMA RereadInv == ASSUME IInv, Reread PROVE IInv'
<1>1. PICK n \in run.todo : ToReread([mem EXCEPT !.prs[n] = Observed(@, pulls[n])], run.todo \ {n})
  BY ZenonT(30) DEF Reread
<1>2. /\ pulls \in Seq(Pull) /\ FileOK(mem, pulls) /\ FileOK(disk, pulls) /\ Ready(run, mem, disk, pulls)
  BY InvParts, IsReady DEF Reread, Replacements
<1>3. run.todo \subseteq DOMAIN mem.prs /\ GitHubUnchanged /\ CycleOnly /\ NoFault
  BY InvParts DEF Reread, Working
<1>4. PICK r : r = Observed(mem.prs[n], pulls[n])
  OBVIOUS
<1>5. PICK g : g = WithRecord(mem, n, r)
  OBVIOUS
<1>6. ToReread(g, run.todo \ {n})
  BY <1>1, <1>4, <1>5 DEF WithRecord
<1>7. n \in DOMAIN mem.prs /\ n \in DOMAIN pulls /\ IsRecord(mem.prs[n])
  BY <1>2, <1>3, ZenonT(30) DEF FileOK, FileInv, TrueRecords, IsFile
<1>8. pulls[n] \in Pull
  BY <1>2, <1>7, PullParts
<1>9. Revises(r, mem.prs[n])
  BY <1>4, <1>7, <1>8, Revisions, ZenonT(30)
<1>10. Kept(mem, g, pulls)
  BY <1>2, <1>5, <1>7, <1>9, RevisionKept, ZenonT(30)
<1>11. FileOK(g, pulls) /\ Grown(mem, g) /\ run.todo \ {n} \subseteq DOMAIN g.prs
  BY <1>3, <1>10 DEF Kept, Grown
<1>12. Ready(run, g, disk, pulls)
  BY <1>2, <1>11, StillReady, ZenonT(30) DEF Ready
<1>13. CycleOK(pc', run', mem', disk', pulls, want) /\ mem' = g /\ (disk' = g \/ disk' = disk)
  BY <1>6, <1>11, <1>12, ToRereadOK
<1>. QED
  BY <1>2, <1>3, <1>11, <1>13, QuietStep

\* An attempt without an answer is settled by the pull requests of its branch.
LEMMA ReconcileAttemptInv == ASSUME IInv, ReconcileAttempt PROVE IInv'
<1>1. PICK k \in run.todo :
        LET f == SettleAttemptPulls(mem, k, BranchPulls(k)) IN
        \/ /\ BranchPulls(k) # {}
           /\ Save(f)
           /\ ToAttempts(f, [run EXCEPT !.todo = @ \ {k}, !.targetBlocked = @ \/ f.attempts[k].status = "blocked"])
        \/ BranchPulls(k) = {} /\ Keep(mem) /\ Go("ref", [run EXCEPT !.key = k])
  BY ZenonT(30) DEF ReconcileAttempt
<1>2. /\ pulls \in Seq(Pull) /\ FileOK(mem, pulls) /\ FileOK(disk, pulls) /\ Ready(run, mem, disk, pulls)
      /\ \A n \in DOMAIN pulls : ~ pulls[n].byTool => pulls[n].marker = None
  BY InvParts, IsReady DEF ReconcileAttempt, Replacements, PullsOK
<1>3. run.todo \subseteq AttemptKey /\ GitHubUnchanged /\ CycleOnly /\ NoFault
  BY InvParts DEF ReconcileAttempt, Working
<1>4. PICK f : f = SettleAttemptPulls(mem, k, BranchPulls(k))
  OBVIOUS
<1>5. FileOK(f, pulls) /\ Grown(mem, f)
  BY <1>2, <1>3, <1>4, SettleAttemptKept, ZenonT(30)
<1>6. CASE Save(f) /\ ToAttempts(f, [run EXCEPT !.todo = @ \ {k}, !.targetBlocked = @ \/ f.attempts[k].status = "blocked"])
  <2>1. PICK b \in BOOLEAN : b = (run.targetBlocked \/ f.attempts[k].status = "blocked")
    BY Zenon
  <2> DEFINE r == [run EXCEPT !.todo = run.todo \ {k}, !.targetBlocked = b]
  <2>2. ToAttempts(f, r)
    BY <1>6, <2>1
  <2>3. f.found
    BY <1>2, <1>5 DEF Ready, Grown
  <2>4. Ready(run, f, f, pulls)
    BY <1>2, <1>5, <2>3, StillReady
  <2>5. Ready(r, f, f, pulls) /\ r.todo \subseteq AttemptKey
    BY <1>3, <2>4, ZenonT(30) DEF Ready, IsRun
  <2> HIDE DEF r
  <2>6. CycleOK(pc', run', f, f, pulls, want)
    BY <2>2, <2>5, ToAttemptsOK
  <2>7. mem' = f /\ disk' = f
    BY <1>6 DEF Save
  <2>. QED
    BY <1>3, <1>5, <2>6, <2>7, QuietStep, ZenonT(30)
<1>7. CASE BranchPulls(k) = {} /\ Keep(mem) /\ Go("ref", [run EXCEPT !.key = k])
  <2>1. mem' = mem /\ disk' = disk /\ pc' = "ref" /\ run' = [run EXCEPT !.key = k]
    BY <1>7 DEF Keep, Go
  <2>2. Ready(run', mem, disk, pulls) /\ run'.key = k /\ run'.todo \subseteq AttemptKey
    BY <1>2, <1>3, <2>1 DEF Ready, IsRun
  <2>3. \A n \in DOMAIN pulls : pulls[n].byTool => pulls[n].key # k
    BY <1>7, ZenonT(30) DEF BranchPulls
  <2>4. CycleOK("ref", run', mem, disk, pulls, want)
    BY <2>2, <2>3 DEF Ready, CycleOK, Working, Replaces, Steps, Creating, Replacements
  <2>. QED
    BY <1>2, <1>3, <2>1, <2>4, QuietStep
<1>. QED
  BY <1>1, <1>4, <1>6, <1>7

\* Without any, it is resumed, blocked or given up by its branch.
LEMMA ReconcileRefInv == ASSUME IInv, ReconcileRef PROVE IInv'
<1> DEFINE k == run.key
           status == RefStatus(branch[k], mem.attempts[k].commit)
           f == Advance(mem, k, status)
           b == (run.targetBlocked \/ status = "blocked")
           r == [run EXCEPT !.todo = run.todo \ {k},
                            !.resumable = IF status = "ref_created" THEN run.resumable \cup {k} ELSE run.resumable,
                            !.targetBlocked = b]
<1>1. mem' = f /\ disk' = f /\ ToAttempts(f, r) /\ GitHubUnchanged /\ CycleOnly /\ NoFault
  BY DEF ReconcileRef, Save, Advance
<1>2. /\ pulls \in Seq(Pull) /\ FileOK(mem, pulls) /\ Ready(run, mem, disk, pulls)
      /\ run.todo \subseteq AttemptKey /\ k \in AttemptKey
      /\ \A n \in DOMAIN pulls : pulls[n].byTool => pulls[n].key # k
  BY InvParts, IsReady DEF ReconcileRef, Replacements, Working, IsRun
<1>3. status \in AttemptStatuses
  BY DEF RefStatus, AttemptStatuses
<1>4. Recorded(mem, pulls, k)
  BY <1>2, ZenonT(30) DEF Recorded
<1> HIDE DEF status, k
<1>5. FileOK(f, pulls) /\ Grown(mem, f) /\ f.prs = mem.prs
  BY <1>2, <1>3, <1>4, StatusKept
<1> HIDE DEF f
<1>6. f.found /\ Recorded(f, pulls, k)
  BY <1>2, <1>4, <1>5, ZenonT(30) DEF Ready, Grown, Recorded
<1>7. Ready(run, f, f, pulls)
  BY <1>2, <1>5, <1>6, StillReady
<1>8. b \in BOOLEAN
  OBVIOUS
<1> HIDE DEF b
<1>9. Ready(r, f, f, pulls) /\ r.todo \subseteq AttemptKey
  BY <1>2, <1>6, <1>7, <1>8, ZenonT(30) DEF Ready, IsRun
<1> HIDE DEF r
<1>10. CycleOK(pc', run', f, f, pulls, want)
  BY <1>1, <1>9, ToAttemptsOK
<1>. QED
  BY <1>1, <1>5, <1>10, QuietStep

\* A close without an answer is settled by the state of the pull request.
LEMMA SettleClosesInv == ASSUME IInv, SettleCloses PROVE IInv'
<1>1. PICK p \in run.todo :
        LET f == SettleClose(mem, p[1], p[2]) IN
        \/ run.todo = {p} /\ Save(f) /\ Go("unit", [run EXCEPT !.todo = {}])
        \/ run.todo # {p} /\ Keep(f) /\ Go("closes", [run EXCEPT !.todo = @ \ {p}])
  BY ZenonT(30) DEF SettleCloses
<1>2. /\ pulls \in Seq(Pull) /\ FileOK(mem, pulls) /\ FileOK(disk, pulls) /\ Ready(run, mem, disk, pulls)
      /\ \A q \in run.todo : InFile(mem, q) /\ mem.prs[q[1]].replacing[q[2]] = "closed"
  BY InvParts, IsReady DEF SettleCloses, Replacements, Working
<1>3. GitHubUnchanged /\ CycleOnly /\ NoFault
  BY DEF SettleCloses
<1>4. PICK f : f = SettleClose(mem, p[1], p[2])
  BY Zenon
<1>5. /\ Kept(mem, f, pulls)
      /\ \A q : InFile(mem, q) /\ q # p => f.prs[q[1]].replacing[q[2]] = mem.prs[q[1]].replacing[q[2]]
  BY <1>2, <1>4, SettleCloseKept
<1>6. FileOK(f, pulls) /\ Grown(mem, f) /\ f.found
  BY <1>2, <1>5 DEF Kept, Grown, Ready
<1>7. CASE Save(f) /\ Go("unit", [run EXCEPT !.todo = {}])
  <2>1. mem' = f /\ disk' = f /\ pc' = "unit" /\ run' = [run EXCEPT !.todo = {}]
    BY <1>7 DEF Save, Go
  <2>2. Ready(run, f, f, pulls)
    BY <1>2, <1>6, StillReady
  <2>3. Ready(run', f, f, pulls)
    BY <2>1, <2>2 DEF Ready, IsRun
  <2>4. CycleOK("unit", run', f, f, pulls, want)
    BY <2>3, GoOn
  <2>. QED
    BY <1>3, <1>6, <2>1, <2>4, QuietStep
<1>8. CASE Keep(f) /\ Go("closes", [run EXCEPT !.todo = @ \ {p}])
  <2>1. mem' = f /\ disk' = disk /\ pc' = "closes" /\ run' = [run EXCEPT !.todo = run.todo \ {p}]
    BY <1>8 DEF Keep, Go
  <2>2. Ready(run, f, disk, pulls)
    BY <1>2, <1>6, StillReady, ZenonT(30) DEF Ready
  <2>3. Ready(run', f, disk, pulls) /\ run'.todo = run.todo \ {p}
    BY <2>1, <2>2, ZenonT(30) DEF Ready, IsRun
  <2>4. \A q \in run'.todo : InFile(f, q) /\ f.prs[q[1]].replacing[q[2]] = "closed"
    BY <1>2, <1>5, <1>6, <2>3, KeptPairs, ZenonT(30)
  <2>5. CycleOK("closes", run', f, disk, pulls, want)
    BY <2>3, <2>4, ZenonT(30) DEF Ready, CycleOK, Working, Replaces, Steps, Creating, Replacements
  <2>. QED
    BY <1>2, <1>3, <1>6, <2>1, <2>5, QuietStep
<1>. QED
  BY <1>1, <1>4, <1>7, <1>8

\* The least of a set of numbers, and the rank of a state.
LEMMA LeastIn ==
    ASSUME NEW S \in SUBSET Nat, S # {}
    PROVE  Min(S) \in S
<1> DEFINE R == {xy \in Nat \X Nat : xy[1] < xy[2]}
<1>1. IsWellFoundedOn(R, Nat)
  BY NatLessThanWellFounded DEF OpToRel
<1>2. PICK x \in S : \A y \in S : ~ (<<y, x>> \in R)
  BY <1>1, WFMin, ZenonT(30)
<1>3. ASSUME NEW y \in S
      PROVE  x <= y
  <2>1. x \in Nat /\ y \in Nat
    OBVIOUS
  <2>2. y < x => <<y, x>> \in R
    BY <2>1
  <2>. QED
    BY <1>2, <2>1, <2>2
<1>. QED
  BY <1>3, ZenonT(30) DEF Min

\* Among states of records there is a best one.
LEMMA BestRank ==
    ASSUME NEW S \in SUBSET (1..3), S # {}
    PROVE  Max(S) \in S
<1>1. \E x \in S : \A y \in S : x >= y
  <2>1. CASE 3 \in S
    BY <2>1
  <2>2. CASE 3 \notin S /\ 2 \in S
    BY <2>2
  <2>3. CASE 3 \notin S /\ 2 \notin S
    <3>1. \A y \in S : y = 1
      BY <2>3
    <3>2. PICK x \in S : TRUE
      BY Zenon
    <3>3. x = 1 /\ \A y \in S : x >= y
      BY <3>1
    <3>. QED
      BY <3>3
  <2>. QED
    BY <2>1, <2>2, <2>3
<1>. QED
  BY <1>1, ZenonT(30) DEF Max

\* recordByUpdateKey returns a record, when there is one.
LEMMA RecordFound ==
    ASSUME NEW f, DOMAIN f.prs \subseteq Nat, NEW u, RecordsOf(f, u) # {}
    PROVE  RecordByUpdateKey(f, u) \in DOMAIN f.prs
<1> DEFINE ranks == {Rank(f.prs[n].state) : n \in RecordsOf(f, u)}
           best == {n \in RecordsOf(f, u) : Rank(f.prs[n].state) = Max(ranks)}
<1>1. ranks \in SUBSET (1..3) /\ ranks # {}
  BY DEF Rank
<1>2. Max(ranks) \in ranks
  BY <1>1, BestRank, ZenonT(30)
<1>3. best # {} /\ best \in SUBSET Nat /\ best \subseteq DOMAIN f.prs
  BY <1>2, ZenonT(30) DEF RecordsOf
<1>4. Min(best) \in best
  BY <1>3, LeastIn, ZenonT(30)
<1>5. RecordByUpdateKey(f, u) = Min(best)
  BY DEF RecordByUpdateKey
<1>. QED
  BY <1>3, <1>4, <1>5, ZenonT(30)

\* Records are of pull requests, which have numbers.
LEMMA RecordNumbers ==
    ASSUME NEW f, NEW ps \in Seq(Pull), FileOK(f, ps)
    PROVE  DOMAIN f.prs \subseteq Nat
BY PullParts DEF FileOK, FileInv, TrueRecords

\* An update in the records is not proposed again; its replacements are decided.
LEMMA UnitRecordedInv == ASSUME IInv, UnitRecorded PROVE IInv'
<1> DEFINE new == RecordByUpdateKey(mem, want)
<1>1. /\ pulls \in Seq(Pull) /\ FileOK(mem, pulls) /\ FileOK(disk, pulls) /\ Ready(run, mem, disk, pulls)
  BY InvParts, IsReady, ZenonT(30) DEF UnitRecorded, Replacements
<1>2. PICK f : /\ f = DecideReplacements(mem, new) \/ f = mem
               /\ mem' = f /\ (disk' = f \/ disk' = disk) /\ ToReplace(f, run)
  BY ZenonT(30) DEF UnitRecorded, Save, Keep
<1>3. new \in DOMAIN mem.prs
  BY <1>1, RecordNumbers, RecordFound, ZenonT(30) DEF UnitRecorded
<1> HIDE DEF new
<1>4. Grown(mem, mem)
  BY DEF Grown
<1>5. FileOK(f, pulls) /\ Grown(mem, f)
  BY <1>1, <1>2, <1>3, <1>4, DecideKept
<1>6. f.found /\ disk'.found
  BY <1>1, <1>2, <1>5, ZenonT(30) DEF Ready, Grown
<1>7. Ready(run, f, disk', pulls)
  BY <1>1, <1>5, <1>6, StillReady
<1>8. CycleOK(pc', run', f, disk', pulls, want)
  BY <1>2, <1>7, ToReplaceOK
<1>9. GitHubUnchanged /\ CycleOnly /\ NoFault
  BY ZenonT(30) DEF UnitRecorded
<1>. QED
  BY <1>1, <1>2, <1>5, <1>8, <1>9, QuietStep

\* An update that may not be proposed yet waits.
LEMMA UnitDeferredInv == ASSUME IInv, UnitDeferred PROVE IInv'
<1>1. FileOK(mem, pulls) /\ FileOK(disk, pulls) /\ Ready(run, mem, disk, pulls)
  BY InvParts, IsReady DEF UnitDeferred, Replacements
<1>2. mem' = mem /\ disk' = disk /\ ToReplace(mem, run) /\ GitHubUnchanged /\ CycleOnly /\ NoFault
  BY DEF UnitDeferred, Keep
<1>3. CycleOK(pc', run', mem, disk, pulls, want)
  BY <1>1, <1>2, ToReplaceOK
<1>. QED
  BY <1>1, <1>2, <1>3, QuietStep

\* When createPull goes on, the stage has no pull request for the candidate:
\* it would be in the records, or of an attempt that was found without one.
LEMMA CandidateUnproposed ==
    ASSUME IInv, pc = "unit", RecordsOf(mem, want) = {}, MayCreate
    PROVE  Unproposed(pulls, want)
<1>1. /\ pulls \in Seq(Pull) /\ FileOK(mem, pulls) /\ Ready(run, mem, disk, pulls)
  BY InvParts, IsReady DEF Replacements
<1>2. ASSUME NEW n \in DOMAIN pulls, pulls[n].byTool, pulls[n].key[1] = want
      PROVE  FALSE
  <2>1. pulls[n].key \in AttemptKey
    BY <1>1, PullParts, ZenonT(30)
  <2>2. n \notin DOMAIN mem.prs
    BY <1>1, <1>2, ZenonT(30) DEF RecordsOf, FileOK, FileInv, TrueRecords
  <2>3. ~ Settled(mem.attempts[pulls[n].key])
    BY <1>1, <1>2, <2>2 DEF FileOK, FileInv, Accounts, Ready
  <2>4. pulls[n].key \in run.resumable
    BY <2>1, <2>3, ZenonT(30) DEF MayCreate, Unsettled
  <2>. QED
    BY <1>1, <1>2, <2>2, <2>4, ZenonT(30) DEF Ready, Recorded
<1>. QED
  BY <1>2 DEF Unproposed

\* Attempts are given up whose branch has no pull request of the stage that is
\* not in the records.
LEMMA GivenUpKept ==
    ASSUME NEW f, NEW ps \in Seq(Pull), FileOK(f, ps), NEW ks, \A k \in ks : Recorded(f, ps, k),
           NEW ats \in [AttemptKey -> Attempt], \A j \in AttemptKey : j \notin ks => ats[j] = f.attempts[j],
           NEW g, g = WithAttempts(f, ats)
    PROVE  FileOK(g, ps) /\ Grown(f, g)
<1>1. IsFile(g) /\ g.prs = f.prs /\ g.attempts = ats /\ g.found = f.found
  BY AttemptsChanged DEF FileOK
<1>2. TrueRecords(g, ps) /\ TrueReplacements(g, ps)
  BY <1>1, ZenonT(30) DEF FileOK, FileInv, TrueRecords, TrueReplacements, TruePrs
<1>3. ASSUME g.found, NEW n \in DOMAIN ps, ps[n].byTool
      PROVE  n \in DOMAIN g.prs \/ ~ Settled(g.attempts[ps[n].key])
  <2>1. n \in DOMAIN f.prs \/ ~ Settled(f.attempts[ps[n].key])
    BY <1>1, <1>3 DEF FileOK, FileInv, Accounts
  <2>2. ps[n].key \in AttemptKey
    BY PullParts
  <2>3. CASE ps[n].key \in ks
    BY <1>1, <1>3, <2>3, ZenonT(30) DEF Recorded
  <2>4. CASE ps[n].key \notin ks
    BY <1>1, <2>1, <2>2, <2>4
  <2>. QED
    BY <2>3, <2>4
<1>. QED
  BY <1>1, <1>2, <1>3, ZenonT(30) DEF FileOK, FileInv, Accounts, Grown

\* createPull gives up the other resumable attempts and starts or resumes its own.
LEMMA CreatePullInv == ASSUME IInv, CreatePull PROVE IInv'
<1> DEFINE k == <<want, base>>
           others == run.resumable \ {k}
           ats == [j \in AttemptKey |-> IF j \in others THEN [mem.attempts[j] EXCEPT !.status = "abandoned_without_pr"] ELSE mem.attempts[j]]
           f == WithAttempts(mem, ats)
           b == f.attempts[k].status # "none"
           r == [run EXCEPT !.key = k, !.resumable = run.resumable \cap {k}, !.recorded = b]
           begun == [status |-> "intent", commit |-> None]
<1>1. \/ mem' = f /\ disk' = f /\ pc' = "open" /\ run' = r
      \/ mem' = Advance(f, k, "ref_created") /\ disk' = f /\ pc' = "open" /\ run' = r
      \/ mem' = WithAttempt(f, k, begun) /\ disk' = mem' /\ pc' = "objects" /\ run' = r
  BY ZenonT(30) DEF CreatePull, Save, Go, WithAttempts, WithAttempt
<1>2. /\ pulls \in Seq(Pull) /\ FileOK(mem, pulls) /\ Ready(run, mem, disk, pulls) /\ Unproposed(pulls, want)
      /\ want \in Updates /\ base \in 1..MaxBase
  BY InvParts, IsReady, CandidateUnproposed, ZenonT(30) DEF CreatePull, Replacements, TypeOK
<1>3. k \in AttemptKey /\ k[1] = want
  BY <1>2, Keys
<1>4. mem.attempts \in [AttemptKey -> Attempt] /\ "abandoned_without_pr" \in AttemptStatuses
  BY <1>2 DEF FileOK, IsFile, AttemptStatuses
<1>5. ats \in [AttemptKey -> Attempt] /\ \A j \in AttemptKey : j \notin others => ats[j] = mem.attempts[j]
  BY <1>4 DEF Attempt
<1>6. b \in BOOLEAN
  OBVIOUS
<1> HIDE DEF b, k
<1>7. \A j \in others : Recorded(mem, pulls, j)
  BY <1>2 DEF Ready
<1> HIDE DEF others, ats
<1>8. FileOK(f, pulls) /\ Grown(mem, f)
  BY <1>2, <1>5, <1>7, GivenUpKept, ZenonT(30)
<1> HIDE DEF f
<1>9. Ready(run, f, f, pulls) /\ f.found
  BY <1>2, <1>8, StillReady, ZenonT(30) DEF Ready, Grown
<1>10. Ready(r, f, f, pulls) /\ r.key = k
  BY <1>3, <1>6, <1>9, ZenonT(30) DEF Ready, IsRun
<1> HIDE DEF r
<1>11. GitHubUnchanged /\ CycleOnly /\ NoFault
  BY DEF CreatePull
<1>12. CASE mem' = f /\ disk' = f /\ pc' = "open" /\ run' = r
  <2>1. CycleOK("open", r, f, f, pulls, want)
    BY <1>2, <1>3, <1>10, GoOn
  <2>. QED
    BY <1>8, <1>11, <1>12, <2>1, QuietStep, ZenonT(30)
<1>13. CASE mem' = Advance(f, k, "ref_created") /\ disk' = f /\ pc' = "open" /\ run' = r
  <2>1. "ref_created" \in AttemptStatuses
    BY ZenonT(30) DEF AttemptStatuses
  <2>2. FileOK(mem', pulls) /\ Grown(f, mem')
    BY <1>2, <1>3, <1>8, <1>13, <2>1, StatusKept, ZenonT(30)
  <2>3. Ready(r, mem', f, pulls)
    BY <1>9, <1>10, <2>2, StillReady, ZenonT(30)
  <2>4. CycleOK("open", r, mem', f, pulls, want)
    BY <1>2, <1>3, <1>10, <2>3, GoOn
  <2>. QED
    BY <1>8, <1>11, <1>13, <2>2, <2>4, QuietStep, ZenonT(30)
<1>14. CASE mem' = WithAttempt(f, k, begun) /\ disk' = mem' /\ pc' = "objects" /\ run' = r
  <2>1. begun \in Attempt /\ ~ Settled(begun)
    BY DEF Attempt, AttemptStatuses, Settled, None
  <2> HIDE DEF begun
  <2>2. FileOK(mem', pulls) /\ Grown(f, mem')
    BY <1>2, <1>3, <1>8, <1>14, <2>1, AttemptKept
  <2>3. Ready(r, mem', mem', pulls)
    BY <1>9, <1>10, <2>2, StillReady, ZenonT(30) DEF Grown
  <2>4. CycleOK("objects", r, mem', mem', pulls, want)
    BY <1>2, <1>3, <1>10, <2>3, GoOn, ZenonT(30)
  <2>. QED
    BY <1>11, <1>14, <2>2, <2>4, QuietStep
<1>. QED
  BY <1>1, <1>12, <1>13, <1>14

\* A step that leaves the pull requests and the candidate alone.
LEMMA RecordStep ==
    ASSUME IInv, TypeOK', pulls' = pulls, want' = want,
           FileOK(mem', pulls), FileOK(disk', pulls), CycleOK(pc', run', mem', disk', pulls, want)
    PROVE  IInv'
BY InvParts DEF IInv

WithBlocked(r, b) == [r EXCEPT !.targetBlocked = b]

\* The target is blocked for the rest of the cycle.
LEMMA BlockedReady ==
    ASSUME NEW r, NEW f, NEW d, NEW ps, Ready(r, f, d, ps), NEW b \in BOOLEAN, NEW q, q = WithBlocked(r, b)
    PROVE  Ready(q, f, d, ps)
BY DEF Ready, IsRun, WithBlocked

\* The commit exists and the attempt says so.
LEMMA CreateObjectsInv == ASSUME IInv, CreateObjects PROVE IInv'
<1> DEFINE a == [status |-> "commit_created", commit |-> commits']
<1>1. /\ mem' = WithAttempt(mem, run.key, a) /\ disk' = mem' /\ pc' = "branch" /\ run' = run
      /\ pulls' = pulls /\ want' = want
  BY DEF CreateObjects, Save, Go, WithAttempt, CycleOnly
<1>2. /\ pulls \in Seq(Pull) /\ FileOK(mem, pulls) /\ Ready(run, mem, disk, pulls) /\ run.key \in AttemptKey
      /\ run.key[1] = want /\ Unproposed(pulls, want)
  BY InvParts, IsReady DEF CreateObjects, Replacements, Working, Creating, IsRun
<1>3. TypeOK' /\ commits' \in Nat
  BY InvParts DEF CreateObjects, TypeOK, CycleOnly, NoFault
<1>4. a \in Attempt /\ ~ Settled(a)
  BY <1>3, ZenonT(30) DEF Attempt, AttemptStatuses, Settled
<1> HIDE DEF a
<1>5. FileOK(mem', pulls) /\ Grown(mem, mem')
  BY <1>1, <1>2, <1>4, AttemptKept
<1>6. Ready(run, mem', mem', pulls)
  BY <1>2, <1>5, StillReady, ZenonT(30) DEF Ready, Grown
<1>7. CycleOK("branch", run, mem', mem', pulls, want)
  BY <1>2, <1>6, GoOn
<1>. QED
  BY <1>1, <1>3, <1>5, <1>7, RecordStep

\* The branch is made, adopted, or blocks the target.
LEMMA CreateRefInv == ASSUME IInv, CreateRef PROVE IInv'
<1> DEFINE k == run.key
           c == mem.attempts[k].commit
           a == [status |-> "ref_created", commit |-> branch[k]]
<1>1. /\ pulls' = pulls /\ want' = want
      /\ branch' = branch \/ branch' = [branch EXCEPT ![k] = c]
      /\ \/ mem' = Advance(mem, k, "ref_created") /\ disk' = mem' /\ pc' = "open" /\ run' = run
         \/ mem' = WithAttempt(mem, k, a) /\ disk' = mem' /\ pc' = "open" /\ run' = run
            /\ (branch[k] = c \/ branch[k] # Foreign)
         \/ mem' = Advance(mem, k, "blocked") /\ disk' = mem' /\ ToReplace(mem', WithBlocked(run, TRUE))
  BY DEF CreateRef, Save, Go, WithAttempt, CycleOnly, Block, Advance, WithBlocked
<1>2. /\ pulls \in Seq(Pull) /\ FileOK(mem, pulls) /\ Ready(run, mem, disk, pulls) /\ k \in AttemptKey
      /\ k[1] = want /\ Unproposed(pulls, want)
  BY InvParts, IsReady, ZenonT(30) DEF CreateRef, Replacements, Working, Creating, IsRun
<1>3. c \in Nat /\ branch[k] \in Nat \cup {Foreign}
  BY <1>2, InvParts DEF FileOK, IsFile, Attempt, TypeOK
<1>4. TypeOK'
  BY <1>1, <1>2, <1>3, InvParts, ZenonT(30) DEF CreateRef, TypeOK, CycleOnly, NoFault
<1>5. /\ branch[k] = c \/ branch[k] # Foreign => a \in Attempt
      /\ ~ Settled(a) /\ "ref_created" \in AttemptStatuses /\ "blocked" \in AttemptStatuses
  BY <1>3 DEF Attempt, AttemptStatuses, Settled
<1> HIDE DEF a, k, c
<1>6. FileOK(mem', pulls) /\ Grown(mem, mem')
  <2>1. CASE mem' = WithAttempt(mem, k, a) /\ (branch[k] = c \/ branch[k] # Foreign)
    BY <1>2, <1>5, <2>1, AttemptKept, ZenonT(30)
  <2>2. CASE mem' = Advance(mem, k, "ref_created")
    BY <1>2, <1>5, <2>2, StatusKept, ZenonT(30)
  <2>3. CASE mem' = Advance(mem, k, "blocked")
    BY <1>2, <1>5, <2>3, StatusKept
  <2>. QED
    BY <1>1, <2>1, <2>2, <2>3, ZenonT(30)
<1>7. Ready(run, mem', mem', pulls)
  BY <1>2, <1>6, StillReady, ZenonT(30) DEF Ready, Grown
<1>8. CycleOK(pc', run', mem', mem', pulls, want)
  <2>1. CASE pc' = "open" /\ run' = run
    BY <1>2, <1>7, <2>1, GoOn DEF k
  <2>2. CASE ToReplace(mem', WithBlocked(run, TRUE))
    <3>1. PICK r : r = WithBlocked(run, TRUE)
      BY Zenon
    <3>2. Ready(r, mem', mem', pulls)
      BY <1>7, <3>1, BlockedReady, ZenonT(30)
    <3>. QED
      BY <2>2, <3>1, <3>2, ToReplaceOK, ZenonT(30)
  <2>. QED
    BY <1>1, <2>1, <2>2, ZenonT(30)
<1>. QED
  BY <1>1, <1>4, <1>6, <1>8, RecordStep, ZenonT(30)

\* The attempt says that the request is about to be sent, before it is sent.
LEMMA OpenPullInv == ASSUME IInv, OpenPull PROVE IInv'
<1> DEFINE k == run.key
           b == (run.targetBlocked \/ Cardinality(BranchPulls(k)) > 1)
<1>1. /\ GitHubUnchanged /\ CycleOnly /\ NoFault
      /\ \/ mem' = mem /\ disk' = disk /\ ToReplace(mem, run)
         \/ mem' = Advance(mem, k, "blocked") /\ disk' = mem' /\ ToReplace(mem', WithBlocked(run, TRUE))
         \/ mem' = SettleAttemptPulls(mem, k, BranchPulls(k)) /\ disk' = mem' /\ ToReplace(mem', WithBlocked(run, b))
         \/ mem' = Advance(mem, k, "pr_requested") /\ disk' = mem' /\ pc' = "send" /\ run' = run
  BY DEF OpenPull, Save, Keep, Go, Block, Advance, WithBlocked
<1>2. /\ pulls \in Seq(Pull) /\ FileOK(mem, pulls) /\ FileOK(disk, pulls) /\ Ready(run, mem, disk, pulls)
      /\ k \in AttemptKey /\ k[1] = want /\ Unproposed(pulls, want)
      /\ \A n \in DOMAIN pulls : ~ pulls[n].byTool => pulls[n].marker = None
  BY InvParts, IsReady DEF OpenPull, Replacements, Working, Creating, IsRun, PullsOK
<1>3. "pr_requested" \in AttemptStatuses /\ "blocked" \in AttemptStatuses /\ b \in BOOLEAN
  BY DEF AttemptStatuses
<1> HIDE DEF k, b
<1>4. FileOK(mem', pulls) /\ Grown(mem, mem')
  <2>1. CASE mem' = mem
    BY <1>2, <2>1 DEF Grown
  <2>2. CASE mem' = Advance(mem, k, "blocked")
    BY <1>2, <1>3, <2>2, StatusKept, ZenonT(30)
  <2>3. CASE mem' = SettleAttemptPulls(mem, k, BranchPulls(k))
    BY <1>2, <2>3, SettleAttemptKept, ZenonT(30)
  <2>4. CASE mem' = Advance(mem, k, "pr_requested")
    BY <1>2, <1>3, <2>4, StatusKept
  <2>. QED
    BY <1>1, <2>1, <2>2, <2>3, <2>4, ZenonT(30)
<1>5. FileOK(disk', pulls) /\ disk'.found
  BY <1>1, <1>2, <1>4, ZenonT(30) DEF Ready, Grown
<1>6. Ready(run, mem', disk', pulls)
  BY <1>2, <1>4, <1>5, StillReady
<1>7. CycleOK(pc', run', mem', disk', pulls, want)
  <2>1. ASSUME NEW a \in BOOLEAN, ToReplace(mem', WithBlocked(run, a))
        PROVE  CycleOK(pc', run', mem', disk', pulls, want)
    <3>1. PICK r : r = WithBlocked(run, a)
      OBVIOUS
    <3>2. Ready(r, mem', disk', pulls)
      BY <1>6, <3>1, BlockedReady
    <3>. QED
      BY <2>1, <3>1, <3>2, ToReplaceOK
  <2>2. CASE mem' = mem /\ ToReplace(mem, run)
    BY <1>6, <2>2, ToReplaceOK
  <2>3. CASE mem' = Advance(mem, k, "pr_requested") /\ disk' = mem' /\ pc' = "send" /\ run' = run
    <3>1. disk'.attempts[k].status = "pr_requested"
      BY <1>2, <1>3, <2>3, StatusKept
    <3>. QED
      BY <1>2, <1>6, <2>3, <3>1, ZenonT(30) DEF k, Ready, CycleOK, Working, Replaces, Steps, Creating, Replacements
  <2>4. CASE ToReplace(mem', WithBlocked(run, TRUE))
    BY <2>1, <2>4, ZenonT(30)
  <2>. QED
    BY <1>1, <1>3, <2>1, <2>2, <2>3, <2>4, ZenonT(30)
<1>. QED
  BY <1>1, <1>4, <1>5, <1>7, QuietStep, ZenonT(30)

\* A step that changes pull requests, and one that also ends the cycle.
LEMMA PullStep ==
    ASSUME IInv, TypeOK', want' = want, PullsOK(pulls'), FileOK(mem', pulls'), FileOK(disk', pulls'),
           CycleOK(pc', run', mem', disk', pulls', want)
    PROVE  IInv'
BY DEF IInv

\* The cycle ends, and its records in memory are gone.
LEMMA EndStep ==
    ASSUME IInv, End, TypeOK', want' = want, PullsOK(pulls'), FileOK(disk', pulls')
    PROVE  IInv'
BY PullStep, Ended, NoFileOK DEF End

\* The request to open a pull request takes effect: it is the first of the
\* stage for its update, and the attempt on disk says that it was sent.
LEMMA OpenedOK ==
    ASSUME IInv, pc = "send", NEW qs, qs = Append(pulls, NewPull(run.key, mem.attempts[run.key].commit, TRUE))
    PROVE  /\ PullsOK(qs) /\ Later(pulls, qs) /\ FileOK(disk, qs)
           /\ DOMAIN qs = DOMAIN pulls \cup {Len(pulls) + 1} /\ Len(pulls) + 1 \notin DOMAIN pulls
           /\ \A n \in DOMAIN pulls : qs[n] = pulls[n]
           /\ qs[Len(pulls) + 1].key = run.key /\ qs[Len(pulls) + 1].byTool /\ qs[Len(pulls) + 1].state = "open"
           /\ qs \in Seq(Pull)
<1> DEFINE p == NewPull(run.key, mem.attempts[run.key].commit, TRUE)
<1>1. /\ pulls \in Seq(Pull) /\ FileOK(mem, pulls) /\ FileOK(disk, pulls) /\ run.key \in AttemptKey
      /\ run.key[1] = want /\ Unproposed(pulls, want) /\ PullsOK(pulls)
      /\ disk.attempts[run.key].status = "pr_requested" /\ branch[run.key] \in Int /\ want \in Int
  BY InvParts, Keys DEF Working, Creating, IsRun, TypeOK, Foreign
<1>2. mem.attempts[run.key].commit \in Nat
  BY <1>1 DEF FileOK, IsFile, Attempt
<1>3. <<>> \in Seq(Nat)
  OBVIOUS
<1>4. p \in Pull /\ ~ p.closedByTool /\ p.comments = <<>> /\ p.byTool /\ p.key = run.key /\ p.state = "open"
  BY <1>1, <1>2, <1>3, ZenonT(30) DEF NewPull, Pull, PullStates
<1> HIDE DEF p
<1>5. qs = Append(pulls, p)
  BY DEF p
<1>6. /\ qs \in Seq(Pull) /\ DOMAIN qs = DOMAIN pulls \cup {Len(pulls) + 1} /\ Len(pulls) + 1 \notin DOMAIN pulls
      /\ qs[Len(pulls) + 1] = p /\ \A n \in DOMAIN pulls : qs[n] = pulls[n]
  BY ONLY <1>1, <1>4, <1>5, Appended
<1>7. Later(pulls, qs)
  BY <1>1, <1>4, <1>5, AppendedLater, ZenonT(30)
<1>8. PullsOK(qs)
  <2>1. Unproposed(pulls, p.key[1])
    BY ONLY <1>1, <1>4
  <2>2. p \in Pull /\ ~ p.closedByTool /\ p.comments = <<>> /\ p.byTool
    BY ONLY <1>4
  <2>. QED
    BY ONLY <1>1, <1>5, <2>1, <2>2, AppendedOK, ZenonT(30)
<1>9. FileOK(disk, qs)
  BY <1>1, <1>4, <1>6, <1>7, FileLater, ZenonT(30) DEF Settled
<1>. QED
  BY <1>4, <1>6, <1>7, <1>8, <1>9, ZenonT(30)

\* ... and it is recorded.
LEMMA OpenedRecorded ==
    ASSUME IInv, pc = "send", NEW qs, qs = Append(pulls, NewPull(run.key, mem.attempts[run.key].commit, TRUE)),
           NEW m \in BOOLEAN, NEW f,
           f = [Advance(mem, run.key, "pr_created") EXCEPT
                   !.prs = Put(@, Len(pulls) + 1, Record(run.key, mem.attempts[run.key].commit, "open", m, FALSE))]
    PROVE  FileOK(f, qs) /\ Grown(mem, f) /\ Len(pulls) + 1 \in DOMAIN f.prs
<1> DEFINE k == run.key
           N == Len(pulls) + 1
           rec == Record(k, mem.attempts[k].commit, "open", m, FALSE)
           ats == [mem.attempts EXCEPT ![k].status = "pr_created"]
           prs == Put(mem.prs, N, rec)
           g == WithAttempts(mem, ats)
<1>1. pulls \in Seq(Pull) /\ FileOK(mem, pulls) /\ k \in AttemptKey /\ k[1] = want /\ Unproposed(pulls, want)
  BY InvParts DEF Working, Creating, IsRun
<1>2. /\ DOMAIN qs = DOMAIN pulls \cup {N} /\ N \notin DOMAIN pulls /\ qs[N].key = k /\ qs[N].byTool
      /\ \A n \in DOMAIN pulls : qs[n] = pulls[n]
  BY OpenedOK, ZenonT(30)
<1>3. IsFile(mem) /\ TrueRecords(mem, pulls) /\ TrueReplacements(mem, pulls) /\ (mem.found => Accounts(mem, pulls))
  BY <1>1 DEF FileOK, FileInv
<1>4. /\ ats \in [AttemptKey -> Attempt]
      /\ \A j \in AttemptKey : j # k => ats[j] = mem.attempts[j]
  <2>1. mem.attempts \in [AttemptKey -> Attempt]
    BY <1>3 DEF IsFile
  <2>2. \A x \in Attempt : [x EXCEPT !.status = "pr_created"] \in Attempt
    BY DEF Attempt, AttemptStatuses
  <2>. QED
    BY <1>1, <2>1, <2>2
<1>5. f = WithPrs(g, prs)
  BY <1>3 DEF Advance, WithPrs, WithAttempts, IsFile
<1>6. Fresh(rec, k)
  BY <1>1, <1>3, NewRecord, ZenonT(30) DEF IsFile, Attempt, RecordStates, PullStates
<1>7. /\ prs = [n \in DOMAIN prs |-> prs[n]] /\ DOMAIN prs = DOMAIN mem.prs \cup {N} /\ prs[N] = rec
      /\ \A n \in DOMAIN mem.prs : n # N => prs[n] = mem.prs[n]
  BY ZenonT(30) DEF Put
<1>8. N \notin DOMAIN mem.prs
  BY <1>2, <1>3 DEF TrueRecords
<1> HIDE DEF ats, prs, rec, N, k
<1>9. IsFile(g) /\ g.prs = mem.prs /\ g.attempts = ats /\ g.found = mem.found
  BY <1>3, <1>4, AttemptsChanged
<1> HIDE DEF g
<1>10. \A n \in DOMAIN prs : IsRecord(prs[n])
  BY ONLY <1>3, <1>6, <1>7, <1>8, ZenonT(30) DEF IsFile, Fresh
<1>11. IsFile(f) /\ f.prs = prs /\ f.attempts = ats /\ f.found = mem.found
  BY ONLY <1>5, <1>7, <1>9, <1>10, PrsChanged
<1>12. TrueRecords(f, qs)
  BY ONLY <1>2, <1>3, <1>6, <1>7, <1>8, <1>11, ZenonT(30) DEF TrueRecords, Fresh
<1>13. TrueReplacements(f, qs)
  <2>1. ASSUME NEW n \in DOMAIN mem.prs, NEW o \in DOMAIN mem.prs[n].replacing
        PROVE  /\ o \in DOMAIN f.prs /\ <<f.prs[n].key[1], f.prs[o].key[1]>> \in Supersedes
               /\ f.prs[n].replacing[o] \in {"commented", "closed"} => Names(qs, o, n)
    <3>1. /\ o \in DOMAIN mem.prs /\ o # N /\ n # N /\ o \in DOMAIN pulls /\ <<mem.prs[n].key[1], mem.prs[o].key[1]>> \in Supersedes
          /\ mem.prs[n].replacing[o] \in {"commented", "closed"} => Names(pulls, o, n)
      BY <1>3, <1>8 DEF TrueReplacements, TruePrs, TrueRecords
    <3>2. Names(qs, o, n) <=> Names(pulls, o, n)
      BY <1>2, <3>1, ZenonT(30) DEF Names
    <3>. QED
      BY <1>7, <1>11, <3>1, <3>2, ZenonT(30)
  <2>2. DOMAIN f.prs[N].replacing = {}
    BY <1>6, <1>7, <1>11, ZenonT(30) DEF Fresh
  <2>3. \A n \in DOMAIN f.prs : n # N => n \in DOMAIN mem.prs /\ f.prs[n] = mem.prs[n]
    BY <1>7, <1>11, ZenonT(30)
  <2>. QED
    BY <2>1, <2>2, <2>3, ZenonT(30) DEF TrueReplacements, TruePrs
<1>14. ASSUME f.found, NEW n \in DOMAIN qs, qs[n].byTool
       PROVE  n \in DOMAIN f.prs \/ ~ Settled(f.attempts[qs[n].key])
  <2>1. CASE n = N
    BY <1>7, <1>11, <2>1, ZenonT(30)
  <2>2. CASE n # N
    <3>1. n \in DOMAIN pulls /\ qs[n] = pulls[n]
      BY <1>2, <2>2, ZenonT(30)
    <3>2. pulls[n].key # k /\ pulls[n].key \in AttemptKey
      BY <1>1, <1>14, <3>1, PullParts, ZenonT(30) DEF Unproposed
    <3>3. n \in DOMAIN mem.prs \/ ~ Settled(mem.attempts[pulls[n].key])
      BY <1>3, <1>11, <1>14, <3>1, ZenonT(30) DEF Accounts
    <3>. QED
      BY <1>4, <1>7, <1>11, <3>1, <3>2, <3>3, ZenonT(30)
  <2>. QED
    BY <2>1, <2>2, ZenonT(30)
<1>15. Grown(mem, f)
  BY <1>7, <1>8, <1>11, ZenonT(30) DEF Grown
<1>. QED
  BY <1>7, <1>11, <1>12, <1>13, <1>14, <1>15, ZenonT(30) DEF FileOK, FileInv, Accounts, N

\* The request is answered and recorded, or refused.
LEMMA SendPullInv == ASSUME IInv, SendPull PROVE IInv'
<1>1. /\ FileOK(mem, pulls) /\ FileOK(disk, pulls) /\ Ready(run, mem, disk, pulls) /\ pulls \in Seq(Pull)
      /\ run.key \in AttemptKey /\ TypeOK /\ pc = "send"
  BY InvParts, IsReady DEF SendPull, Replacements, IsRun
<1>2. TypeOK' /\ want' = want
  BY <1>1, ZenonT(30) DEF SendPull, TypeOK, CycleOnly, NoFault
<1>3. CASE Opens(run.key)
  <2> DEFINE m == (branch[run.key] # mem.attempts[run.key].commit)
  <2>1. /\ pulls' = Append(pulls, NewPull(run.key, mem.attempts[run.key].commit, TRUE))
        /\ mem' = [Advance(mem, run.key, "pr_created") EXCEPT
                      !.prs = Put(@, Len(pulls) + 1, Record(run.key, mem.attempts[run.key].commit, "open", m, FALSE))]
        /\ disk' = mem' /\ pc' = "unit" /\ run' = run
    BY <1>3, ZenonT(30) DEF SendPull, Save, Go
  <2>2. m \in BOOLEAN
    OBVIOUS
  <2> HIDE DEF m
  <2>3. PICK qs : qs = pulls'
    OBVIOUS
  <2>4. PICK f : f = mem'
    OBVIOUS
  <2>5. /\ PullsOK(qs) /\ DOMAIN qs = DOMAIN pulls \cup {Len(pulls) + 1}
        /\ \A n \in DOMAIN pulls : qs[n] = pulls[n]
    BY <1>1, <2>1, <2>3, OpenedOK, ZenonT(30)
  <2>6. FileOK(f, qs) /\ Grown(mem, f) /\ Len(pulls) + 1 \in DOMAIN f.prs
    BY <1>1, <2>1, <2>2, <2>3, <2>4, OpenedRecorded, ZenonT(30)
  <2>7. Ready(run, f, f, qs)
    BY ONLY <1>1, <2>5, <2>6, ZenonT(30) DEF Ready, Recorded, Grown
  <2>8. CycleOK("unit", run, f, f, qs, want)
    BY ONLY <2>7, GoOn
  <2>. QED
    BY ONLY IInv, <1>2, <2>1, <2>3, <2>4, <2>5, <2>6, <2>8, PullStep, ZenonT(30)
<1>4. CASE ~ Opens(run.key)
  <2>1. mem' = Advance(mem, run.key, "ref_created") /\ disk' = mem' /\ ToReplace(mem', run) /\ pulls' = pulls
    BY <1>4 DEF SendPull, Save
  <2>2. "ref_created" \in AttemptStatuses
    BY DEF AttemptStatuses
  <2>3. FileOK(mem', pulls) /\ Grown(mem, mem')
    BY <1>1, <2>1, <2>2, StatusKept, ZenonT(30)
  <2>4. Ready(run, mem', disk', pulls)
    <3>1. disk'.found
      BY <1>1, <2>1, <2>3, ZenonT(30) DEF Ready, Grown
    <3>. QED
      BY <1>1, <2>3, <3>1, StillReady
  <2>5. CycleOK(pc', run', mem', disk', pulls, want)
    BY <2>1, <2>4, ToReplaceOK
  <2>. QED
    BY <1>2, <2>1, <2>3, <2>5, RecordStep
<1>. QED
  BY <1>3, <1>4

=============================================================================
