------------------------- MODULE PullRequestsProofs -------------------------
(***************************************************************************)
(* Proofs about the pull request stage, for any number of updates, base    *)
(* commits and open pull requests, and any number of faults and acts of    *)
(* people: the three invariants of PullRequests, its refinement of         *)
(* UpdateProposals, and what follows from that promise.                    *)
(***************************************************************************)
EXTENDS PullCycleProofs

\* What a cycle knows while it works on replacements.
Busy(r, f, d, ps) ==
    /\ IsRun(r) /\ f.found /\ d.found /\ \A k \in r.resumable : Recorded(f, ps, k)
    /\ \A p \in r.todo : InFile(f, p)

\* The replace stage knows its replacements ...
LEMMA IsBusy ==
    ASSUME IInv, pc \in Replacements
    PROVE  Busy(run, mem, disk, pulls)
BY InvParts DEF Busy, Working, Replaces, Replacements

\* ... and still does after changes of the records.
LEMMA StillBusy ==
    ASSUME NEW r, NEW f, NEW d, NEW ps, Busy(r, f, d, ps), NEW g, Grown(f, g), NEW e, e.found
    PROVE  Busy(r, g, e, ps)
BY KeptPairs, ZenonT(30) DEF Busy, Grown, Recorded

\* The next replacement, or the same one again.
LEMMA NextPairOK ==
    ASSUME NEW f, NEW d, NEW ps, NEW u, Busy(run, f, d, ps), NEW p, NextPair(p)
    PROVE  CycleOK(pc', run', f, d, ps, u)
<1>1. NoPair \in Nat \X Nat
  BY DEF NoPair, NoRun
<1>2. pc' = "replace" /\ run' = [run EXCEPT !.todo = run.todo \ {p}, !.pair = NoPair, !.since = 0]
  BY DEF NextPair, Go
<1>3. /\ IsRun(run') /\ run'.pair = NoPair /\ run'.todo = run.todo \ {p} /\ run'.resumable = run.resumable
  BY <1>1, <1>2, ZenonT(30) DEF Busy, IsRun
<1>. QED
  BY <1>2, <1>3 DEF Busy, CycleOK, Working, Replaces, Steps, Creating, Replacements

\* The replacement in hand stays, for its comment or its close ...
LEMMA InHandOK ==
    ASSUME NEW f, NEW d, NEW ps, NEW u, Busy(run, f, d, ps), NEW p, InFile(f, p),
           NEW w \in Replacements, pc' = w, IsRun(run'), run'.pair = p, run'.todo = run.todo,
           run'.resumable = run.resumable,
           w \in {"comment", "close"} => p # NoPair /\ ps[p[1]].byTool /\ ps[p[2]].byTool,
           w = "comment" => ~ Names(ps, p[2], p[1]),
           w = "close" => Names(ps, p[2], p[1])
    PROVE  CycleOK(pc', run', f, d, ps, u)
<1>1. pc' \in Steps
  BY DEF Steps, Replacements
<1>2. Working(pc', run', f, d, ps, u)
  BY DEF Busy, Working, Creating, Replacements
<1>3. Replaces(pc', run', f, ps)
  BY DEF Busy, Replaces
<1>. QED
  BY <1>1, <1>2, <1>3 DEF CycleOK

\* ... to be looked at again or commented ...
LEMMA SamePairOK ==
    ASSUME NEW f, NEW d, NEW ps, NEW u, Busy(run, f, d, ps), NEW p \in Nat \X Nat, InFile(f, p),
           NEW w \in {"replace", "comment"}, SamePair(w, p),
           w = "comment" => p # NoPair /\ ps[p[1]].byTool /\ ps[p[2]].byTool,
           w = "comment" => ~ Names(ps, p[2], p[1])
    PROVE  CycleOK(pc', run', f, d, ps, u)
<1>1. pc' = w /\ run' = [run EXCEPT !.pair = p]
  BY DEF SamePair, Go
<1>2. IsRun(run') /\ run'.pair = p /\ run'.todo = run.todo /\ run'.resumable = run.resumable
  BY <1>1 DEF Busy, IsRun
<1>3. w \in Replacements /\ w # "close"
  BY DEF Replacements
<1>. QED
  BY <1>1, <1>2, <1>3, InHandOK

\* ... or closed.
LEMMA ToCloseOK ==
    ASSUME NEW f, NEW d, NEW ps, NEW u, Busy(run, f, d, ps), NEW p \in Nat \X Nat, InFile(f, p), people \in Nat,
           ToClose(p), p # NoPair, ps[p[1]].byTool, ps[p[2]].byTool, Names(ps, p[2], p[1])
    PROVE  CycleOK(pc', run', f, d, ps, u)
<1>1. pc' = "close" /\ run' = [run EXCEPT !.pair = p, !.since = people]
  BY DEF ToClose, Go
<1>2. IsRun(run') /\ run'.pair = p /\ run'.todo = run.todo /\ run'.resumable = run.resumable
  BY <1>1 DEF Busy, IsRun
<1>3. "close" \in Replacements
  BY DEF Replacements
<1>. QED
  BY <1>1, <1>2, <1>3, InHandOK

\* The replacement in hand is in the records.
LEMMA PairInFile ==
    ASSUME IInv, pc \in Replacements, NEW p \in Pairs
    PROVE  /\ InFile(mem, p) /\ p \in Nat \X Nat /\ p # NoPair /\ p[1] \in DOMAIN pulls /\ p[2] \in DOMAIN pulls
           /\ p[1] \in Nat /\ <<pulls[p[1]].key[1], pulls[p[2]].key[1]>> \in Supersedes
<1>1. InFile(mem, p)
  BY InvParts DEF Replaces, Pairs
<1>2. p = <<p[1], p[2]>> /\ p[1] \in DOMAIN pulls /\ p[2] \in DOMAIN pulls /\ <<pulls[p[1]].key[1], pulls[p[2]].key[1]>> \in Supersedes
  BY <1>1, InvParts, PairFacts DEF InFile
<1>3. p[1] \in Nat /\ p[1] >= 1 /\ p[2] \in Nat
  BY <1>2, InvParts, PullParts
<1>4. p \in Nat \X Nat
  BY <1>2, <1>3
<1>5. NoPair[1] = 0
  BY DEF NoPair, NoRun
<1>. QED
  BY <1>1, <1>2, <1>3, <1>4, <1>5

\* No replacement is left.
LEMMA CycleEndsInv == ASSUME IInv, CycleEnds PROVE IInv'
<1>1. TypeOK' /\ want' = want /\ pulls' = pulls /\ disk' = disk /\ End
  BY InvParts DEF CycleEnds, TypeOK, GitHubUnchanged, githubVars, CycleOnly, NoFault
<1>. QED
  BY <1>1, InvParts, EndStep

\* checkPair: either the replacement is given up, or the records stay as they
\* are and both pull requests are of the stage.
LEMMA CheckedOK ==
    ASSUME IInv, pc = "replace", NEW p \in Pairs, NEW f,
           f = IF EligiblePair(mem, p[1], p[2]) THEN CheckedPair(mem, p[1], p[2])
               ELSE SetReplacing(mem, p[1], p[2], "abandoned")
    PROVE  /\ FileOK(f, pulls) /\ Grown(mem, f) /\ InFile(f, p)
           /\ \/ Replacing(f.prs[p[1]], p[2]) = "abandoned"
              \/ f = mem /\ pulls[p[1]].byTool /\ pulls[p[2]].byTool
<1>1. InFile(mem, p) /\ FileOK(mem, pulls) /\ pulls \in Seq(Pull)
  BY InvParts, PairInFile DEF Replacements
<1>2. CASE EligiblePair(mem, p[1], p[2])
  <2>1. f = CheckedPair(mem, p[1], p[2])
    BY <1>2
  <2>2. Kept(mem, f, pulls) /\ (f = mem \/ Replacing(f.prs[p[1]], p[2]) = "abandoned")
    BY <1>1, <2>1, CheckedPairKept
  <2>3. p[1] \in DOMAIN mem.prs /\ p[2] \in DOMAIN mem.prs
    BY <1>1, PairFacts
  <2>4. \A n \in {p[2], p[1]} : ~ mem.prs[n].modified /\ ~ mem.prs[n].markerOnly
    BY <1>2 DEF EligiblePair
  <2>5. pulls[p[1]].byTool /\ pulls[p[2]].byTool
    BY <1>1, <2>3, <2>4 DEF FileOK, FileInv, TrueRecords
  <2>6. InFile(f, p)
    BY <1>1, <2>2, KeptPairs DEF Kept
  <2>. QED
    BY <2>2, <2>5, <2>6 DEF Kept
<1>3. CASE ~ EligiblePair(mem, p[1], p[2])
  <2>1. f = SetReplacing(mem, p[1], p[2], "abandoned")
    BY <1>3
  <2>2. "abandoned" \in ReplacementStates
    BY ZenonT(30) DEF ReplacementStates
  <2>3. Kept(mem, f, pulls) /\ f.prs[p[1]].replacing[p[2]] = "abandoned" /\ InFile(f, p)
    BY <1>1, <2>1, <2>2, SetPair
  <2>. QED
    BY <2>3 DEF Kept, Replacing, InFile
<1>. QED
  BY <1>2, <1>3

\* The pair is checked again before each of the two writes.
LEMMA CheckPairInv == ASSUME IInv, CheckPair PROVE IInv'
<1>1. PICK p \in Pairs : \E f :
        /\ f = IF EligiblePair(mem, p[1], p[2]) THEN CheckedPair(mem, p[1], p[2])
               ELSE SetReplacing(mem, p[1], p[2], "abandoned")
        /\ \/ NextPair(p) /\ mem' = f
           \/ /\ mem' = SetReplacing(f, p[1], p[2], "commented") /\ Names(pulls, p[2], p[1])
              /\ SamePair("replace", p) /\ Replacing(f.prs[p[1]], p[2]) = "pending"
           \/ /\ Replacing(f.prs[p[1]], p[2]) = "pending" /\ ~ Names(pulls, p[2], p[1])
              /\ mem' = f /\ SamePair("comment", p)
           \/ Replacing(f.prs[p[1]], p[2]) = "commented" /\ mem' = f /\ ToClose(p)
        /\ disk' = mem'
  BY DEF CheckPair, Save, Superseded, Names
<1>2. PICK f :
        /\ f = IF EligiblePair(mem, p[1], p[2]) THEN CheckedPair(mem, p[1], p[2])
               ELSE SetReplacing(mem, p[1], p[2], "abandoned")
        /\ \/ NextPair(p) /\ mem' = f
           \/ /\ mem' = SetReplacing(f, p[1], p[2], "commented") /\ Names(pulls, p[2], p[1])
              /\ SamePair("replace", p) /\ Replacing(f.prs[p[1]], p[2]) = "pending"
           \/ /\ Replacing(f.prs[p[1]], p[2]) = "pending" /\ ~ Names(pulls, p[2], p[1])
              /\ mem' = f /\ SamePair("comment", p)
           \/ Replacing(f.prs[p[1]], p[2]) = "commented" /\ mem' = f /\ ToClose(p)
        /\ disk' = mem'
  BY <1>1
<1>3. pc = "replace" /\ pc \in Replacements /\ GitHubUnchanged /\ CycleOnly /\ NoFault
  BY DEF CheckPair, Replacements
<1>4. /\ FileOK(f, pulls) /\ Grown(mem, f) /\ InFile(f, p)
      /\ \/ Replacing(f.prs[p[1]], p[2]) = "abandoned"
         \/ f = mem /\ pulls[p[1]].byTool /\ pulls[p[2]].byTool
  BY <1>2, <1>3, CheckedOK
<1>5. Busy(run, mem, disk, pulls) /\ p \in Nat \X Nat /\ p # NoPair
  BY <1>3, IsBusy, PairInFile
<1>6. Busy(run, f, f, pulls)
  BY <1>4, <1>5, StillBusy, ZenonT(30) DEF Busy, Grown
<1>8. CASE NextPair(p) /\ mem' = f
  <2>1. CycleOK(pc', run', f, f, pulls, want)
    BY <1>6, <1>8, NextPairOK, ZenonT(30)
  <2>. QED
    BY <1>2, <1>3, <1>4, <1>8, <2>1, QuietStep, ZenonT(30)
<1>9. CASE /\ mem' = SetReplacing(f, p[1], p[2], "commented") /\ Names(pulls, p[2], p[1])
           /\ SamePair("replace", p)
  <2>1. PICK g : g = mem'
    OBVIOUS
  <2>2. "commented" \in ReplacementStates
    BY DEF ReplacementStates
  <2>3. Kept(f, g, pulls) /\ InFile(g, p)
    BY <1>4, <1>9, <2>1, <2>2, SetPair
  <2>4. Busy(run, g, g, pulls) /\ FileOK(g, pulls)
    BY <1>6, <2>3, StillBusy, ZenonT(30) DEF Busy, Kept, Grown
  <2>5. CycleOK(pc', run', g, g, pulls, want)
    BY <1>5, <1>9, <2>3, <2>4, SamePairOK, ZenonT(30)
  <2>. QED
    BY <1>2, <1>3, <2>1, <2>4, <2>5, QuietStep, ZenonT(30)
<1>10. CASE /\ Replacing(f.prs[p[1]], p[2]) = "pending" /\ ~ Names(pulls, p[2], p[1])
            /\ mem' = f /\ SamePair("comment", p)
  <2>1. pulls[p[1]].byTool /\ pulls[p[2]].byTool
    BY <1>4, <1>10
  <2>2. CycleOK(pc', run', f, f, pulls, want)
    BY <1>4, <1>5, <1>6, <1>10, <2>1, SamePairOK, ZenonT(30)
  <2>. QED
    BY <1>2, <1>3, <1>4, <1>10, <2>2, QuietStep, ZenonT(30)
<1>11. CASE Replacing(f.prs[p[1]], p[2]) = "commented" /\ mem' = f /\ ToClose(p)
  <2>1. pulls[p[1]].byTool /\ pulls[p[2]].byTool
    BY <1>4, <1>11
  <2>2. f.prs[p[1]].replacing[p[2]] = "commented"
    BY <1>4, <1>11 DEF Replacing, InFile
  <2>3. Names(pulls, p[2], p[1])
    BY <1>4, <2>2, PairFacts
  <2>4. CycleOK(pc', run', f, f, pulls, want)
    BY <1>4, <1>5, <1>6, <1>11, <2>1, <2>3, ToCloseOK, InvParts, ZenonT(30) DEF TypeOK
  <2>. QED
    BY <1>2, <1>3, <1>4, <1>11, <2>4, QuietStep, ZenonT(30)
<1>. QED
  BY <1>2, <1>8, <1>9, <1>10, <1>11, ZenonT(30)

\* Records and replacements in hand stay true of later pull requests.
LEMMA BusyLater ==
    ASSUME NEW r, NEW f, NEW d, NEW ps, Busy(r, f, d, ps), NEW qs, Later(ps, qs), DOMAIN qs = DOMAIN ps
    PROVE  Busy(r, f, d, qs)
BY DEF Busy, Later, Recorded

\* Records of pull requests that keep keys, authors and comments.
LEMMA FileSame ==
    ASSUME NEW f, NEW ps, FileOK(f, ps), NEW qs, Later(ps, qs), DOMAIN qs = DOMAIN ps
    PROVE  FileOK(f, qs)
BY FileLater

\* The replacement in hand at a write of the replace stage.
LEMMA InHand ==
    ASSUME IInv, pc \in {"comment", "close"}, NEW p, p = run.pair
    PROVE  /\ InFile(mem, p) /\ p \in Nat \X Nat /\ p[1] \in DOMAIN pulls /\ p[2] \in DOMAIN pulls /\ p[1] \in Nat
           /\ pulls[p[1]].byTool /\ pulls[p[2]].byTool /\ <<pulls[p[1]].key[1], pulls[p[2]].key[1]>> \in Supersedes
           /\ pc = "comment" => ~ Names(pulls, p[2], p[1])
           /\ pc = "close" => Names(pulls, p[2], p[1])
           /\ Busy(run, mem, disk, pulls)
<1>1. p # NoPair /\ p \in Pairs /\ pc \in Replacements
  BY InvParts DEF Replaces, Pairs, Replacements
<1>2. /\ pulls[p[1]].byTool /\ pulls[p[2]].byTool
      /\ pc = "comment" => ~ Names(pulls, p[2], p[1])
      /\ pc = "close" => Names(pulls, p[2], p[1])
  BY InvParts DEF Replaces
<1>. QED
  BY <1>1, <1>2, PairInFile, IsBusy

\* The comment takes effect: what was true stays true, and it is there.
LEMMA CommentTakes ==
    ASSUME IInv, pc = "comment", NEW p, p = run.pair, NEW qs, qs = Commented(pulls, p[2], p[1])
    PROVE  /\ PullsOK(qs) /\ Later(pulls, qs) /\ DOMAIN qs = DOMAIN pulls /\ Names(qs, p[2], p[1])
           /\ FileOK(mem, qs) /\ FileOK(disk, qs) /\ Busy(run, mem, disk, qs)
<1>1. /\ p[1] \in Nat /\ p[2] \in DOMAIN pulls /\ ~ Names(pulls, p[2], p[1]) /\ Busy(run, mem, disk, pulls)
  BY InHand
<1>2. pulls \in Seq(Pull) /\ PullsOK(pulls) /\ FileOK(mem, pulls) /\ FileOK(disk, pulls)
  BY InvParts
<1>3. PullsOK(qs) /\ Later(pulls, qs)
  BY <1>1, <1>2, CommentedOK
<1>4. DOMAIN qs = DOMAIN pulls
  <2>1. CommentAdded(pulls, qs, p[2], p[1])
    BY <1>1, <1>2, CommentedParts
  <2>. QED
    BY <2>1, ZenonT(30) DEF CommentAdded, Alike
<1>5. Names(qs, p[2], p[1])
  BY <1>1, <1>2, CommentedNames
<1>. QED
  BY <1>1, <1>2, <1>3, <1>4, <1>5, FileSame, BusyLater, ZenonT(30)

\* ... and so does the close.
LEMMA CloseTakes ==
    ASSUME IInv, pc = "close", NEW p, p = run.pair, NEW qs, qs = Closed(pulls, p[2])
    PROVE  /\ PullsOK(qs) /\ Later(pulls, qs) /\ DOMAIN qs = DOMAIN pulls /\ Names(qs, p[2], p[1])
           /\ FileOK(mem, qs) /\ FileOK(disk, qs) /\ Busy(run, mem, disk, qs)
<1>1. /\ p[1] \in DOMAIN pulls /\ p[2] \in DOMAIN pulls /\ Names(pulls, p[2], p[1]) /\ Busy(run, mem, disk, pulls)
      /\ pulls[p[1]].byTool /\ pulls[p[2]].byTool /\ <<pulls[p[1]].key[1], pulls[p[2]].key[1]>> \in Supersedes
  BY InHand
<1>2. pulls \in Seq(Pull) /\ PullsOK(pulls) /\ FileOK(mem, pulls) /\ FileOK(disk, pulls)
  BY InvParts
<1>3. PullsOK(qs) /\ Later(pulls, qs)
  BY <1>1, <1>2, ClosedOK, ZenonT(30)
<1>4. DOMAIN qs = DOMAIN pulls
  BY <1>1, <1>2, ClosedParts DEF StateClosed, Alike
<1>5. Names(qs, p[2], p[1])
  BY <1>1, <1>3 DEF Later
<1>. QED
  BY <1>1, <1>2, <1>3, <1>4, <1>5, FileSame, BusyLater, ZenonT(30)

\* The comment is posted and recorded.
LEMMA SendCommentInv == ASSUME IInv, SendComment PROVE IInv'
<1>1. PICK p : p = run.pair
  OBVIOUS
<1>2. PICK qs : qs = pulls'
  OBVIOUS
<1>3. /\ qs = Commented(pulls, p[2], p[1]) /\ mem' = SetReplacing(mem, p[1], p[2], "commented") /\ disk' = mem'
      /\ SamePair("replace", p) /\ pc = "comment"
  BY <1>1, <1>2 DEF SendComment, Save
<1>4. TypeOK' /\ want' = want
  BY InvParts DEF SendComment, TypeOK, CycleOnly, NoFault
<1>5. /\ PullsOK(qs) /\ Names(qs, p[2], p[1]) /\ FileOK(mem, qs) /\ Busy(run, mem, disk, qs)
  BY <1>1, <1>3, CommentTakes, ZenonT(30)
<1>6. InFile(mem, p) /\ p \in Nat \X Nat
  BY <1>1, <1>3, InHand
<1>7. "commented" \in ReplacementStates /\ "replace" \in Replacements
  BY DEF ReplacementStates, Replacements
<1>8. PICK g : g = mem'
  OBVIOUS
<1>9. Kept(mem, g, qs) /\ InFile(g, p)
  BY <1>3, <1>5, <1>6, <1>7, <1>8, SetPair
<1>10. Busy(run, g, g, qs) /\ FileOK(g, qs)
  BY <1>5, <1>9, StillBusy, ZenonT(30) DEF Busy, Kept, Grown
<1>11. CycleOK(pc', run', g, g, qs, want)
  BY <1>3, <1>6, <1>7, <1>9, <1>10, SamePairOK, ZenonT(30)
<1>. QED
  BY ONLY IInv, <1>2, <1>3, <1>4, <1>5, <1>8, <1>10, <1>11, PullStep, ZenonT(30)

\* The older pull request is closed and recorded as replaced.
LEMMA SendCloseInv == ASSUME IInv, SendClose PROVE IInv'
<1>1. PICK p : p = run.pair
  OBVIOUS
<1>2. PICK qs : qs = pulls'
  OBVIOUS
<1>12. PICK h : h = WithState(mem, p[2], "replaced")
  OBVIOUS
<1>8. PICK g : g = mem'
  OBVIOUS
<1>3. /\ qs = Closed(pulls, p[2]) /\ g = SetReplacing(h, p[1], p[2], "done") /\ disk' = mem'
      /\ NextPair(p) /\ pc = "close"
  BY <1>1, <1>2, <1>8, <1>12 DEF SendClose, Save, WithState
<1>4. TypeOK' /\ want' = want
  BY InvParts DEF SendClose, TypeOK, CycleOnly, NoFault
<1>5. /\ PullsOK(qs) /\ FileOK(mem, qs) /\ Busy(run, mem, disk, qs)
  BY <1>1, <1>3, CloseTakes, ZenonT(30)
<1>6. InFile(mem, p) /\ p \in Nat \X Nat /\ p[2] \in DOMAIN mem.prs
  BY <1>1, <1>3, InHand, InvParts, PairFacts
<1>7. "done" \in ReplacementStates /\ "replaced" \in RecordStates
  BY DEF ReplacementStates, RecordStates
<1>13. Kept(mem, h, qs)
  BY <1>5, <1>6, <1>7, <1>12, StateKept
<1>14. FileOK(h, qs) /\ InFile(h, p)
  BY <1>6, <1>13, KeptPairs, ZenonT(30) DEF Kept
<1>9. Kept(h, g, qs)
  BY <1>3, <1>7, <1>14, SetPair
<1>15. Kept(mem, g, qs)
  BY <1>5, <1>9, <1>13, KeptTwice
<1>10. Busy(run, g, g, qs) /\ FileOK(g, qs)
  BY <1>5, <1>15, StillBusy, ZenonT(30) DEF Busy, Kept, Grown
<1>11. CycleOK(pc', run', g, g, qs, want)
  BY <1>3, <1>10, NextPairOK
<1>. QED
  BY ONLY IInv, <1>2, <1>3, <1>4, <1>5, <1>8, <1>10, <1>11, PullStep, ZenonT(30)

-----------------------------------------------------------------------------
(* Faults                                                                   *)

\* A write whose answer is lost: what it did is in the records or can be found.
LEMMA WriteUnknownInv == ASSUME IInv, WriteUnknown PROVE IInv'
<1>1. PICK applied \in BOOLEAN, answered \in BOOLEAN :
          /\ branch' = IF applied /\ pc = "branch" /\ branch[run.key] = None
                         THEN [branch EXCEPT ![run.key] = mem.attempts[run.key].commit] ELSE branch
          /\ pulls' = CASE applied /\ pc = "send" /\ Opens(run.key) ->
                              Append(pulls, NewPull(run.key, mem.attempts[run.key].commit, TRUE))
                        [] applied /\ pc = "comment" -> Commented(pulls, run.pair[2], run.pair[1])
                        [] applied /\ pc = "close" -> Closed(pulls, run.pair[2])
                        [] OTHER -> pulls
          /\ disk' = IF answered /\ pc = "close" THEN SetReplacing(mem, run.pair[1], run.pair[2], "closed") ELSE disk
  BY ZenonT(30) DEF WriteUnknown
<1>2. PICK qs : qs = pulls'
  OBVIOUS
<1>3. PICK p : p = run.pair
  OBVIOUS
<1>4. \/ pc = "send" /\ qs = Append(pulls, NewPull(run.key, mem.attempts[run.key].commit, TRUE)) /\ disk' = disk
      \/ pc = "comment" /\ qs = Commented(pulls, p[2], p[1]) /\ disk' = disk
      \/ /\ pc = "close" /\ (qs = Closed(pulls, p[2]) \/ qs = pulls)
         /\ disk' = disk \/ disk' = SetReplacing(mem, p[1], p[2], "closed")
      \/ qs = pulls /\ disk' = disk
  BY <1>1, <1>2, <1>3, ZenonT(30)
<1>5. mem.attempts[run.key].commit \in Nat /\ run.key \in AttemptKey
  BY InvParts DEF FileOK, IsFile, Attempt, IsRun
<1>6. TypeOK' /\ want' = want /\ End
  <2>1. branch' \in [AttemptKey -> Nat \cup {Foreign}]
    BY ONLY <1>1, <1>5, InvParts, IInv DEF TypeOK
  <2>. QED
    BY <2>1, InvParts DEF WriteUnknown, TypeOK, CycleOnly, Fault
<1>7. PullsOK(pulls) /\ FileOK(disk, pulls) /\ FileOK(mem, pulls)
  BY InvParts
<1>8. CASE pc = "send" /\ qs = Append(pulls, NewPull(run.key, mem.attempts[run.key].commit, TRUE)) /\ disk' = disk
  <2>1. PullsOK(qs) /\ FileOK(disk, qs)
    BY ONLY IInv, <1>8, OpenedOK, ZenonT(30)
  <2>. QED
    BY ONLY IInv, <1>2, <1>6, <1>8, <2>1, EndStep, ZenonT(30)
<1>9. CASE pc = "comment" /\ qs = Commented(pulls, p[2], p[1]) /\ disk' = disk
  <2>1. PullsOK(qs) /\ FileOK(disk, qs)
    BY ONLY IInv, <1>3, <1>9, CommentTakes
  <2>. QED
    BY ONLY IInv, <1>2, <1>6, <1>9, <2>1, EndStep, ZenonT(30)
<1>10. CASE /\ pc = "close" /\ (qs = Closed(pulls, p[2]) \/ qs = pulls)
            /\ disk' = disk \/ disk' = SetReplacing(mem, p[1], p[2], "closed")
  <2>1. InFile(mem, p) /\ Names(pulls, p[2], p[1])
    BY ONLY IInv, <1>3, <1>10, InHand, ZenonT(30)
  <2>2. PullsOK(qs) /\ FileOK(mem, qs) /\ FileOK(disk, qs) /\ Names(qs, p[2], p[1])
    BY ONLY IInv, <1>3, <1>7, <1>10, <2>1, CloseTakes, ZenonT(30)
  <2>3. "closed" \in ReplacementStates
    BY DEF ReplacementStates
  <2>4. ASSUME NEW g, g = SetReplacing(mem, p[1], p[2], "closed")
        PROVE  FileOK(g, qs)
    BY ONLY <2>1, <2>2, <2>3, <2>4, SetPair DEF Kept
  <2>5. FileOK(disk', qs)
    BY ONLY <1>10, <2>2, <2>4
  <2>. QED
    BY ONLY IInv, <1>2, <1>6, <2>2, <2>5, EndStep, ZenonT(30)
<1>11. CASE qs = pulls /\ disk' = disk
  BY ONLY IInv, <1>2, <1>6, <1>7, <1>11, EndStep, ZenonT(30)
<1>. QED
  BY ONLY <1>4, <1>8, <1>9, <1>10, <1>11, ZenonT(30)

\* A write that is refused.
LEMMA WriteRefusedInv == ASSUME IInv, WriteRefused PROVE IInv'
<1>1. PICK p : p = run.pair
  OBVIOUS
<1>2. /\ pc \in {"objects", "branch", "send", "comment", "close"} /\ disk' = mem'
      /\ GitHubUnchanged /\ CycleOnly /\ Fault
      /\ pc \in {"comment", "close"} => mem' = SetReplacing(mem, p[1], p[2], "abandoned") /\ NextPair(p)
      /\ pc \notin {"comment", "close"} =>
            ToReplace(mem', run) /\ (mem' = mem \/ mem' = Advance(mem, run.key, "ref_created"))
  BY <1>1 DEF WriteRefused, Save
<1>3. pulls \in Seq(Pull) /\ FileOK(mem, pulls) /\ run.key \in AttemptKey
  BY InvParts DEF IsRun
<1>4. CASE pc \in {"comment", "close"}
  <2>1. InFile(mem, p) /\ Busy(run, mem, disk, pulls)
    BY <1>1, <1>4, InHand
  <2>2. PICK g : g = mem'
    OBVIOUS
  <2>3. "abandoned" \in ReplacementStates
    BY DEF ReplacementStates
  <2>4. Kept(mem, g, pulls)
    BY <1>2, <1>3, <1>4, <2>1, <2>2, <2>3, SetPair, ZenonT(30)
  <2>5. Busy(run, g, g, pulls) /\ FileOK(g, pulls)
    BY <2>1, <2>4, StillBusy, ZenonT(30) DEF Busy, Kept, Grown
  <2>6. CycleOK(pc', run', g, g, pulls, want)
    BY <1>2, <1>4, <2>5, NextPairOK
  <2>. QED
    BY ONLY IInv, <1>2, <2>2, <2>5, <2>6, QuietStep, ZenonT(30)
<1>5. CASE pc \notin {"comment", "close"}
  <2>1. Ready(run, mem, disk, pulls)
    BY <1>2, <1>5, InvParts, IsReady DEF Replacements
  <2>2. "ref_created" \in AttemptStatuses
    BY DEF AttemptStatuses
  <2>3. ASSUME mem' = Advance(mem, run.key, "ref_created")
        PROVE  FileOK(mem', pulls) /\ Grown(mem, mem')
    BY <1>3, <2>2, <2>3, StatusKept
  <2>4. FileOK(mem', pulls) /\ Grown(mem, mem')
    <3>1. CASE mem' = mem
      BY <1>3, <3>1 DEF Grown
    <3>. QED
      BY <1>2, <1>5, <2>3, <3>1
  <2>5. mem'.found
    BY <2>1, <2>4 DEF Ready, Grown
  <2>6. Ready(run, mem', mem', pulls)
    BY <2>1, <2>4, <2>5, StillReady
  <2>7. CycleOK(pc', run', mem', mem', pulls, want)
    BY <1>2, <1>5, <2>6, ToReplaceOK, ZenonT(30)
  <2>. QED
    BY ONLY IInv, <1>2, <2>4, <2>7, QuietStep, ZenonT(30)
<1>. QED
  BY <1>4, <1>5

\* A read that fails before a write.
LEMMA ReadFailsInv == ASSUME IInv, ReadFails PROVE IInv'
<1>1. mem' = mem /\ disk' = disk /\ GitHubUnchanged /\ CycleOnly /\ Fault
  BY DEF ReadFails, Keep
<1>2. FileOK(mem, pulls) /\ FileOK(disk, pulls)
  BY InvParts
<1>3. CASE pc \in {"unit", "open"} /\ ToReplace(mem, run)
  <2>1. Ready(run, mem, disk, pulls)
    BY <1>3, InvParts, IsReady DEF Replacements
  <2>2. CycleOK(pc', run', mem, disk, pulls, want)
    BY <1>3, <2>1, ToReplaceOK, ZenonT(30)
  <2>. QED
    BY <1>1, <1>2, <2>2, QuietStep, ZenonT(30)
<1>4. CASE pc = "replace" /\ \E p \in Pairs : NextPair(p)
  <2>1. Busy(run, mem, disk, pulls)
    BY <1>4, IsBusy DEF Replacements
  <2>2. CycleOK(pc', run', mem, disk, pulls, want)
    BY <1>4, <2>1, NextPairOK
  <2>. QED
    BY <1>1, <1>2, <2>2, QuietStep
<1>. QED
  BY <1>3, <1>4 DEF ReadFails

\* The candidate tag was moved, and the replacement is given up.
LEMMA CandidateMovedInv == ASSUME IInv, CandidateMoved PROVE IInv'
<1>1. PICK p \in Pairs : mem' = SetReplacing(mem, p[1], p[2], "abandoned") /\ disk' = mem' /\ NextPair(p)
  BY DEF CandidateMoved, Save
<1>2. GitHubUnchanged /\ CycleOnly /\ Fault /\ pc \in Replacements
  BY DEF CandidateMoved, Replacements
<1>3. InFile(mem, p) /\ Busy(run, mem, disk, pulls) /\ FileOK(mem, pulls)
  BY <1>2, InvParts, PairInFile, IsBusy
<1>4. PICK g : g = mem'
  OBVIOUS
<1>5. "abandoned" \in ReplacementStates
  BY ZenonT(30) DEF ReplacementStates
<1>6. Kept(mem, g, pulls)
  BY <1>1, <1>3, <1>4, <1>5, SetPair
<1>7. Busy(run, g, g, pulls) /\ FileOK(g, pulls)
  BY <1>3, <1>6, StillBusy, ZenonT(30) DEF Busy, Kept, Grown
<1>8. CycleOK(pc', run', g, g, pulls, want)
  BY <1>1, <1>7, NextPairOK, ZenonT(30)
<1>. QED
  BY ONLY IInv, <1>1, <1>2, <1>4, <1>7, <1>8, QuietStep, ZenonT(30)

\* The process dies: what is on disk was saved before every write.
LEMMA CrashInv == ASSUME IInv, Crash PROVE IInv'
<1>1. TypeOK' /\ want' = want /\ pulls' = pulls /\ disk' = disk /\ End
  BY InvParts DEF Crash, TypeOK, GitHubUnchanged, githubVars, CycleOnly, Fault
<1>. QED
  BY <1>1, InvParts, EndStep

\* Without its records the stage claims nothing.
LEMMA LoseRecordsInv == ASSUME IInv, LoseRecords PROVE IInv'
<1>1. /\ pc = "idle" /\ pc' = pc /\ run' = run /\ mem' = mem /\ disk' = NoFile /\ want' = want /\ pulls' = pulls
  BY DEF LoseRecords, GitHubUnchanged, githubVars
<1>2. TypeOK'
  <2>1. TypeOK
    BY InvParts, ZenonT(30)
  <2>2. faults' \in Nat
    BY <2>1 DEF LoseRecords, Fault, TypeOK
  <2>3. lost' \in BOOLEAN /\ UNCHANGED <<base, branch, want, commits, people>>
    BY <2>1, ZenonT(30) DEF LoseRecords, GitHubUnchanged, githubVars, Fault, TypeOK
  <2>. QED
    BY <2>1, <2>2, <2>3, ZenonT(30) DEF TypeOK
<1>3. CycleOK(pc, run, mem, NoFile, pulls, want)
  BY <1>1, InvParts DEF CycleOK, Working
<1>. QED
  BY ONLY IInv, <1>1, <1>2, <1>3, InvParts, NoFileOK, RecordStep, ZenonT(30)

-----------------------------------------------------------------------------
(* What people do                                                           *)

\* q is the pull request p after someone touched it.
Variant(p, q) ==
    /\ q \in Pull /\ q.key = p.key /\ q.byTool = p.byTool /\ q.comments = p.comments
    /\ q.marker = p.marker \/ q.marker = None
    /\ q.closedByTool => p.closedByTool

\* The acts of people on one pull request.
LEMMA Variants ==
    ASSUME NEW p \in Pull
    PROVE  /\ Variant(p, p)
           /\ \A st \in PullStates : Variant(p, [p EXCEPT !.state = st])
           /\ Variant(p, [p EXCEPT !.state = "open", !.closedByTool = FALSE])
           /\ Variant(p, [p EXCEPT !.marker = None])
           /\ Variant(p, [p EXCEPT !.head = Foreign])
<1>1. Variant(p, p)
  BY DEF Variant
<1>2. \A st \in PullStates : Variant(p, [p EXCEPT !.state = st])
  BY DEF Variant, Pull
<1>3. Variant(p, [p EXCEPT !.state = "open", !.closedByTool = FALSE])
  BY ZenonT(30) DEF Variant, Pull, PullStates
<1>4. Variant(p, [p EXCEPT !.marker = None])
  BY DEF Variant, Pull, None
<1>5. Variant(p, [p EXCEPT !.head = Foreign])
  BY DEF Variant, Pull, Foreign
<1>. QED
  BY <1>1, <1>2, <1>3, <1>4, <1>5

\* People touch any number of pull requests ...
LEMMA AllTouched ==
    ASSUME NEW ps \in Seq(Pull), NEW qs, qs = [n \in DOMAIN ps |-> qs[n]], \A n \in DOMAIN ps : Variant(ps[n], qs[n])
    PROVE  Touched(ps, qs)
<1>1. DOMAIN ps = 1..Len(ps) /\ Len(ps) \in Nat
  OBVIOUS
<1>2. \A n \in DOMAIN ps : qs[n] \in Pull
  BY DEF Variant
<1>3. qs \in Seq(Pull) /\ DOMAIN qs = DOMAIN ps
  BY <1>1, <1>2
<1>. QED
  BY <1>3 DEF Touched, Variant

\* ... or one.
LEMMA OneTouched ==
    ASSUME NEW ps \in Seq(Pull), NEW n \in DOMAIN ps, NEW q, Variant(ps[n], q), NEW qs, qs = [ps EXCEPT ![n] = q]
    PROVE  Touched(ps, qs)
<1>1. qs = [m \in DOMAIN ps |-> qs[m]] /\ qs[n] = q /\ \A m \in DOMAIN ps : m # n => qs[m] = ps[m]
  BY ZenonT(30)
<1>2. \A m \in DOMAIN ps : Variant(ps[m], ps[m])
  BY Variants, PullParts, ZenonT(30)
<1>3. \A m \in DOMAIN ps : Variant(ps[m], qs[m])
  BY <1>1, <1>2
<1>. QED
  BY ONLY ps \in Seq(Pull), <1>1, <1>3, AllTouched

\* Nothing that a cycle knows is of what people change.
Outside(ps, qs) ==
    /\ DOMAIN ps \subseteq DOMAIN qs
    /\ \A n \in DOMAIN ps : qs[n].key = ps[n].key /\ qs[n].byTool = ps[n].byTool /\ qs[n].comments = ps[n].comments
    /\ \A n \in DOMAIN qs : n \notin DOMAIN ps => ~ qs[n].byTool

\* What a cycle knows holds of the pull requests after people's acts too.
LEMMA CycleOutside ==
    ASSUME NEW w, NEW r, NEW f, NEW d, NEW ps, NEW u, CycleOK(w, r, f, d, ps, u), FileOK(f, ps), NEW qs, Outside(ps, qs)
    PROVE  CycleOK(w, r, f, d, qs, u)
<1>1. \A k : Recorded(f, ps, k) => Recorded(f, qs, k)
  BY DEF Recorded, Outside
<1>2. \A x : Unproposed(ps, x) => Unproposed(qs, x)
  BY ZenonT(30) DEF Unproposed, Outside
<1>3. Working(w, r, f, d, qs, u)
  <2>1. Working(w, r, f, d, ps, u)
    BY ZenonT(30) DEF CycleOK
  <2>2. w = "ref" => \A n \in DOMAIN qs : qs[n].byTool => qs[n].key # r.key
    BY <2>1 DEF Working, Outside
  <2>. QED
    BY <1>1, <1>2, <2>1, <2>2, ZenonT(30) DEF Working
<1>4. Replaces(w, r, f, qs)
  <2>1. Replaces(w, r, f, ps)
    BY ZenonT(30) DEF CycleOK
  <2>2. CASE w \notin {"comment", "close"}
    BY <2>1, <2>2, ZenonT(30) DEF Replaces
  <2>3. CASE w \in {"comment", "close"}
    <3>1. InFile(f, r.pair)
      BY <2>1, <2>3, ZenonT(30) DEF Replaces
    <3>2. r.pair[1] \in DOMAIN ps /\ r.pair[2] \in DOMAIN ps
      BY <3>1, PairFacts, ZenonT(30)
    <3>3. /\ qs[r.pair[1]].byTool = ps[r.pair[1]].byTool /\ qs[r.pair[2]].byTool = ps[r.pair[2]].byTool
          /\ qs[r.pair[2]].comments = ps[r.pair[2]].comments
      BY <3>2, ZenonT(30) DEF Outside
    <3>4. Names(qs, r.pair[2], r.pair[1]) <=> Names(ps, r.pair[2], r.pair[1])
      BY <3>3, SameNames
    <3>. QED
      BY <2>1, <3>3, <3>4, ZenonT(30) DEF Replaces
  <2>. QED
    BY <2>2, <2>3
<1>. QED
  BY <1>3, <1>4 DEF CycleOK

\* The invariant survives what people do: pull requests that are touched ...
LEMMA TouchedInv ==
    ASSUME IInv, NEW qs, Touched(pulls, qs)
    PROVE  /\ PullsOK(qs) /\ FileOK(mem, qs) /\ FileOK(disk, qs)
           /\ CycleOK(pc, run, mem, disk, qs, want)
<1>1. /\ PullsOK(pulls) /\ FileOK(mem, pulls) /\ FileOK(disk, pulls) /\ CycleOK(pc, run, mem, disk, pulls, want)
  BY InvParts
<1>2. Later(pulls, qs) /\ DOMAIN qs = DOMAIN pulls /\ Outside(pulls, qs)
  BY TouchedLater DEF Touched, Outside
<1>. QED
  BY <1>1, <1>2, TouchedOK, FileSame, CycleOutside

\* ... or opened by hand.
LEMMA ByHandInv ==
    ASSUME IInv, NEW k \in AttemptKey, NEW qs, qs = Append(pulls, NewPull(k, None, FALSE))
    PROVE  /\ PullsOK(qs) /\ FileOK(mem, qs) /\ FileOK(disk, qs)
           /\ CycleOK(pc, run, mem, disk, qs, want)
           /\ Outside(pulls, qs) /\ \A n \in DOMAIN pulls : qs[n] = pulls[n]
<1> DEFINE p == NewPull(k, None, FALSE)
<1>1. /\ PullsOK(pulls) /\ FileOK(mem, pulls) /\ FileOK(disk, pulls) /\ CycleOK(pc, run, mem, disk, pulls, want)
      /\ pulls \in Seq(Pull) /\ branch[k] \in Int
  BY InvParts DEF TypeOK, Foreign
<1>2. <<>> \in Seq(Nat)
  OBVIOUS
<1>3. p \in Pull /\ ~ p.closedByTool /\ p.comments = <<>> /\ ~ p.byTool /\ p.marker = None
  BY <1>1, <1>2 DEF NewPull, Pull, PullStates, None
<1> HIDE DEF p
<1>4. qs = Append(pulls, p)
  BY DEF p
<1>5. /\ DOMAIN qs = DOMAIN pulls \cup {Len(pulls) + 1} /\ qs[Len(pulls) + 1] = p
      /\ \A n \in DOMAIN pulls : qs[n] = pulls[n]
  BY ONLY <1>1, <1>3, <1>4, Appended
<1>6. Later(pulls, qs) /\ PullsOK(qs)
  BY ONLY <1>1, <1>3, <1>4, AppendedLater, AppendedOK, ZenonT(30)
<1>7. Outside(pulls, qs)
  BY ONLY <1>3, <1>5, ZenonT(30) DEF Outside
<1>8. FileOK(mem, qs) /\ FileOK(disk, qs)
  BY ONLY <1>1, <1>6, <1>7, FileLater DEF Outside
<1>. QED
  BY ONLY <1>1, <1>5, <1>6, <1>7, <1>8, CycleOutside, ZenonT(30)

\* Merging, closing, reopening and editing touch one pull request.
LEMMA OnePullTouched ==
    ASSUME pulls \in Seq(Pull), NEW n \in DOMAIN pulls, Decide(n) \/ Reopen(n) \/ EditDescription(n)
    PROVE  Touched(pulls, pulls') /\ \A m \in DOMAIN pulls : m # n => pulls'[m] = pulls[m]
<1>1. \E q : Variant(pulls[n], q) /\ pulls' = [pulls EXCEPT ![n] = q]
  <2>1. pulls[n] \in Pull
    BY PullParts
  <2>2. CASE Decide(n)
    <3>1. PICK st \in {"merged", "closed"} : pulls' = [pulls EXCEPT ![n] = [pulls[n] EXCEPT !.state = st]]
      BY <2>2, ZenonT(30) DEF Decide
    <3>2. Variant(pulls[n], [pulls[n] EXCEPT !.state = st])
      BY <2>1, Variants, ZenonT(30) DEF PullStates
    <3>. QED
      BY <3>1, <3>2, ZenonT(30)
  <2>3. CASE Reopen(n)
    <3>1. pulls' = [pulls EXCEPT ![n] = [pulls[n] EXCEPT !.state = "open", !.closedByTool = FALSE]]
      BY <2>3, ZenonT(30) DEF Reopen
    <3>2. Variant(pulls[n], [pulls[n] EXCEPT !.state = "open", !.closedByTool = FALSE])
      BY <2>1, Variants, ZenonT(30)
    <3>. QED
      BY <3>1, <3>2, ZenonT(30)
  <2>4. CASE EditDescription(n)
    <3>1. pulls' = [pulls EXCEPT ![n] = [pulls[n] EXCEPT !.marker = None]]
      BY <2>4 DEF EditDescription
    <3>2. Variant(pulls[n], [pulls[n] EXCEPT !.marker = None])
      BY <2>1, Variants, ZenonT(30)
    <3>. QED
      BY <3>1, <3>2, ZenonT(30)
  <2>. QED
    BY <2>2, <2>3, <2>4
<1>2. PICK q : Variant(pulls[n], q) /\ pulls' = [pulls EXCEPT ![n] = q]
  BY <1>1, ZenonT(30)
<1>3. PICK qs : qs = pulls'
  OBVIOUS
<1>4. Touched(pulls, qs)
  BY ONLY pulls \in Seq(Pull), n \in DOMAIN pulls, <1>2, <1>3, OneTouched, ZenonT(30)
<1>. QED
  BY ONLY <1>2, <1>3, <1>4

\* A push and the deletion of a branch touch its pull requests.
LEMMA BranchTouched ==
    ASSUME pulls \in Seq(Pull), NEW k \in AttemptKey, Push(k) \/ DeleteBranch(k)
    PROVE  Touched(pulls, pulls') /\ \A m \in DOMAIN pulls : pulls[m].key # k => pulls'[m] = pulls[m]
<1>1. \A n \in DOMAIN pulls : /\ pulls[n] \in Pull /\ Variant(pulls[n], pulls[n])
                              /\ Variant(pulls[n], [pulls[n] EXCEPT !.head = Foreign])
                              /\ Variant(pulls[n], [pulls[n] EXCEPT !.state = "closed"])
  BY PullParts, Variants, ZenonT(30) DEF PullStates
<1>2. /\ pulls' = [n \in DOMAIN pulls |-> pulls'[n]]
      /\ \A n \in DOMAIN pulls : \/ pulls'[n] = pulls[n]
                                 \/ pulls[n].key = k /\ pulls'[n] = [pulls[n] EXCEPT !.head = Foreign]
                                 \/ pulls[n].key = k /\ pulls'[n] = [pulls[n] EXCEPT !.state = "closed"]
  BY DEF Push, DeleteBranch, BranchPulls
<1>3. PICK qs : qs = pulls'
  OBVIOUS
<1>4. qs = [n \in DOMAIN pulls |-> qs[n]]
  BY ONLY <1>2, <1>3
<1>5. \A n \in DOMAIN pulls : Variant(pulls[n], qs[n])
  BY <1>1, <1>2, <1>3, ZenonT(30)
<1>6. Touched(pulls, qs)
  BY ONLY pulls \in Seq(Pull), <1>4, <1>5, AllTouched, ZenonT(30)
<1>. QED
  BY <1>2, <1>3, <1>6

\* What people do, in one line each.
LEMMA PeopleActs ==
    ASSUME IInv, OnGitHub
    PROVE  \/ \E n \in DOMAIN pulls : Touched(pulls, pulls') /\ \A m \in DOMAIN pulls : m # n => pulls'[m] = pulls[m]
           \/ \E k \in AttemptKey : Touched(pulls, pulls') /\ \A m \in DOMAIN pulls : pulls[m].key # k => pulls'[m] = pulls[m]
           \/ \E k \in AttemptKey : pulls' = Append(pulls, NewPull(k, None, FALSE))
           \/ pulls' = pulls
<1>1. pulls \in Seq(Pull)
  BY InvParts
<1>2. ASSUME NEW n \in DOMAIN pulls, Decide(n) \/ Reopen(n) \/ EditDescription(n)
      PROVE  Touched(pulls, pulls') /\ \A m \in DOMAIN pulls : m # n => pulls'[m] = pulls[m]
  BY <1>1, <1>2, OnePullTouched, ZenonT(30)
<1>3. ASSUME NEW k \in AttemptKey, Push(k) \/ DeleteBranch(k)
      PROVE  Touched(pulls, pulls') /\ \A m \in DOMAIN pulls : pulls[m].key # k => pulls'[m] = pulls[m]
  BY <1>1, <1>3, BranchTouched
<1>4. ASSUME NEW k \in AttemptKey, OpenByHand(k)
      PROVE  pulls' = Append(pulls, NewPull(k, None, FALSE))
  BY <1>4 DEF OpenByHand
<1>5. BaseMoves => pulls' = pulls
  BY DEF BaseMoves
<1>. QED
  BY <1>2, <1>3, <1>4, <1>5, ZenonT(30) DEF OnGitHub

\* People change GitHub and nothing of the stage.
LEMMA PeopleType == ASSUME IInv, OnGitHub PROVE TypeOK' /\ UNCHANGED <<want, mem, disk, pc, run>>
<1>1. TypeOK /\ UNCHANGED <<want, mem, disk, pc, run, commits, lost, faults>> /\ people' = people + 1
  BY InvParts DEF OnGitHub, People
<1>2. base' \in 1..MaxBase /\ branch' \in [AttemptKey -> Nat \cup {Foreign}]
  <2>1. base \in 1..MaxBase /\ branch \in [AttemptKey -> Nat \cup {Foreign}]
    BY <1>1 DEF TypeOK
  <2>2. CASE \E n \in DOMAIN pulls : Decide(n) \/ Reopen(n) \/ EditDescription(n)
    BY <2>1, <2>2 DEF Decide, Reopen, EditDescription
  <2>3. CASE \E k \in AttemptKey : Push(k) \/ DeleteBranch(k) \/ OpenByHand(k)
    <3>1. PICK k \in AttemptKey : /\ base' = base
                                  /\ branch' = branch \/ \E c \in {None, Foreign} : branch' = [branch EXCEPT ![k] = c]
      BY <2>3, ZenonT(30) DEF Push, DeleteBranch, OpenByHand
    <3>2. None \in Nat
      BY DEF None
    <3>. QED
      BY ONLY <2>1, <3>1, <3>2
  <2>4. CASE BaseMoves
    BY <2>1, <2>4 DEF BaseMoves
  <2>. QED
    BY <2>2, <2>3, <2>4 DEF OnGitHub
<1>. QED
  BY <1>1, <1>2 DEF TypeOK

\* People may act between any two steps of a cycle.
LEMMA OnGitHubInv == ASSUME IInv, OnGitHub PROVE IInv'
<1>1. PICK qs : qs = pulls'
  OBVIOUS
<1>2. TypeOK' /\ UNCHANGED <<want, mem, disk, pc, run>>
  BY PeopleType
<1>3. \/ Touched(pulls, qs)
      \/ \E k \in AttemptKey : qs = Append(pulls, NewPull(k, None, FALSE))
      \/ qs = pulls
  BY <1>1, PeopleActs, ZenonT(30)
<1>4. /\ PullsOK(qs) /\ FileOK(mem, qs) /\ FileOK(disk, qs)
      /\ CycleOK(pc, run, mem, disk, qs, want)
  <2>1. CASE qs = pulls
    BY <2>1, InvParts
  <2>2. CASE Touched(pulls, qs)
    BY <2>2, TouchedInv
  <2>3. ASSUME NEW k \in AttemptKey, qs = Append(pulls, NewPull(k, None, FALSE))
        PROVE  /\ PullsOK(qs) /\ FileOK(mem, qs) /\ FileOK(disk, qs)
               /\ CycleOK(pc, run, mem, disk, qs, want)
    BY <2>3, ByHandInv, ZenonT(30)
  <2>. QED
    BY <1>3, <2>1, <2>2, <2>3, ZenonT(30)
<1>. QED
  BY ONLY IInv, <1>1, <1>2, <1>4, PullStep, ZenonT(30)

\* Another candidate is adopted between two cycles.
LEMMA NewCandidateInv == ASSUME IInv, NewCandidate PROVE IInv'
<1>1. /\ UNCHANGED <<base, branch, pulls, disk, mem, pc, run, commits, lost, faults, people>>
      /\ pc = "idle" /\ want' \in Updates
  BY DEF NewCandidate
<1>2. /\ TypeOK /\ PullsOK(pulls) /\ FileOK(disk, pulls) /\ FileOK(mem, pulls)
      /\ CycleOK("idle", run, mem, disk, pulls, want)
  BY <1>1, InvParts
<1>3. TypeOK'
  BY <1>1, <1>2, ZenonT(30) DEF TypeOK
<1>4. CycleOK("idle", run, mem, disk, pulls, want')
  BY <1>2, ZenonT(30) DEF CycleOK, Working, Replaces, Creating
<1>. QED
  BY <1>1, <1>2, <1>3, <1>4, ZenonT(30) DEF IInv

\* The invariant holds at first ...
LEMMA InitInv == Init => IInv
<1> SUFFICES ASSUME Init PROVE IInv
  OBVIOUS
<1>1. pulls = <<>> /\ disk = NoFile /\ mem = NoFile /\ pc = "idle" /\ run = NoRun
  BY DEF Init
<1>2. TypeOK
  <2>1. base \in 1..MaxBase /\ want \in Updates /\ commits \in Nat /\ faults \in Nat /\ people \in Nat
    BY PRAssumption DEF Init, Updates
  <2>2. branch \in [AttemptKey -> Nat \cup {Foreign}]
    BY DEF Init, None
  <2>3. lost \in BOOLEAN
    BY ZenonT(30) DEF Init
  <2>. QED
    BY <2>1, <2>2, <2>3, ZenonT(30) DEF TypeOK
<1>3. PullsOK(pulls)
  BY <1>1 DEF PullsOK, OnePull, Once, Succeeded
<1>. QED
  BY <1>1, <1>2, <1>3, NoFileOK, Ended, ZenonT(30) DEF IInv

\* ... every step keeps it ...
LEMMA NextInv == IInv /\ [Next]_vars => IInv'
<1> SUFFICES ASSUME IInv, [Next]_vars PROVE IInv'
  OBVIOUS
<1>1. CASE Cycle
  BY ONLY IInv, <1>1, RecoverAllInv, RunInv, ListOpenInv, RereadInv, ReconcileAttemptInv, ReconcileRefInv, SettleClosesInv,
     UnitRecordedInv, UnitDeferredInv, CreatePullInv, CreateObjectsInv, CreateRefInv, OpenPullInv, SendPullInv,
     CycleEndsInv, CheckPairInv, SendCommentInv, SendCloseInv, ZenonT(30) DEF Cycle
<1>2. CASE Faults
  BY ONLY IInv, <1>2, ReconcileFailsInv, WriteUnknownInv, WriteRefusedInv, ReadFailsInv, CandidateMovedInv, CrashInv, LoseRecordsInv, ZenonT(30)
     DEF Faults
<1>3. CASE OnGitHub \/ NewCandidate
  BY ONLY IInv, <1>3, OnGitHubInv, NewCandidateInv, ZenonT(30)
<1>4. CASE UNCHANGED vars
  BY <1>4 DEF IInv, TypeOK, vars
<1>5. CASE RecoveryBlocked
  BY <1>4, <1>5 DEF RecoveryBlocked
<1>. QED
  BY <1>1, <1>2, <1>3, <1>4, <1>5, ZenonT(30) DEF Next

-----------------------------------------------------------------------------
(* The invariants                                                           *)

\* ... and so it always holds.
LEMMA Invariance == Spec => []IInv
BY InitInv, NextInv, PTL DEF Spec

\* A pull request is closed by the stage only when it carries the comment that
\* names a pull request of the stage that supersedes it (replace).
THEOREM ClosedHasSuccessorHolds == Spec => []ClosedHasSuccessor
<1>1. IInv => ClosedHasSuccessor
  BY InvParts DEF PullsOK, Succeeded, ClosedHasSuccessor, Superseded, Names
<1>. QED
  BY Invariance, <1>1, PTL

\* The comment of a replacement is posted at most once, however often its answer
\* is lost (findSupersede).
THEOREM CommentedOnceHolds == Spec => []CommentedOnce
<1>1. ASSUME IInv
      PROVE  CommentedOnce
  <2>1. \A o \in DOMAIN pulls : DOMAIN pulls[o].comments = 1..Len(pulls[o].comments)
    BY <1>1, InvParts, PullParts
  <2>2. Once(pulls)
    BY <1>1, InvParts, ZenonT(30) DEF PullsOK
  <2>. QED
    BY <2>1, <2>2, ZenonT(30) DEF Once, CommentedOnce
<1>. QED
  BY Invariance, <1>1, PTL

\* As long as there is a record file, it has every pull request of the stage, or
\* the attempt that opened it, unsettled (write, writePull).
THEOREM NothingUnrecordedHolds == Spec => []NothingUnrecorded
<1>1. IInv => NothingUnrecorded
  BY InvParts DEF FileOK, FileInv, Accounts, NothingUnrecorded
<1>. QED
  BY Invariance, <1>1, PTL

-----------------------------------------------------------------------------
(* A close is checked: while the stage is about to close a pull request and *)
(* nobody acted since the check, both of the pair are as the stage made them. *)
Closing ==
    pc = "close" => /\ run.since <= people
                    /\ people = run.since => Intact(run.pair[1]) /\ Intact(run.pair[2])

\* checkPair lets a pair through only as the stage made it.
LEMMA CheckedIntact ==
    ASSUME IInv, pc = "replace", NEW p \in Pairs, NEW f,
           f = IF EligiblePair(mem, p[1], p[2]) THEN CheckedPair(mem, p[1], p[2])
               ELSE SetReplacing(mem, p[1], p[2], "abandoned"),
           Replacing(f.prs[p[1]], p[2]) # "abandoned"
    PROVE  Intact(p[1]) /\ Intact(p[2])
<1>1. InFile(mem, p) /\ FileOK(mem, pulls) /\ pulls \in Seq(Pull)
  BY InvParts, PairInFile DEF Replacements
<1>2. p[1] \in DOMAIN mem.prs /\ p[2] \in DOMAIN mem.prs
  BY <1>1, PairFacts
<1>3. EligiblePair(mem, p[1], p[2])
  <2>1. SUFFICES ASSUME ~ EligiblePair(mem, p[1], p[2]) PROVE FALSE
    OBVIOUS
  <2>2. f = SetReplacing(mem, p[1], p[2], "abandoned") /\ "abandoned" \in ReplacementStates
    BY <2>1, ZenonT(30) DEF ReplacementStates
  <2>3. f.prs[p[1]].replacing[p[2]] = "abandoned" /\ InFile(f, p)
    BY <1>1, <2>2, SetPair
  <2>. QED
    BY <2>3 DEF Replacing, InFile
<1>4. Good(mem, p[1]) /\ Good(mem, p[2])
  BY <1>1, <1>3, CheckedPairKept
<1>5. ASSUME NEW n \in DOMAIN mem.prs, Good(mem, n)
      PROVE  Intact(n)
  <2>1. pulls[n].state = "open" /\ pulls[n].head = mem.prs[n].head
    BY <1>5 DEF Good, MarkModified
  <2>2. mem.prs[n].head \in Nat
    BY <1>1, <1>5 DEF FileOK, IsFile, IsRecord
  <2>. QED
    BY <2>1, <2>2 DEF Intact, Foreign
<1>. QED
  BY <1>2, <1>4, <1>5

\* So a cycle comes to a close with such a pair ...
LEMMA CheckPairCloses == ASSUME IInv, CheckPair PROVE Closing'
<1>1. PICK p \in Pairs : \E f :
        /\ f = IF EligiblePair(mem, p[1], p[2]) THEN CheckedPair(mem, p[1], p[2])
               ELSE SetReplacing(mem, p[1], p[2], "abandoned")
        /\ pc' = "close" => Replacing(f.prs[p[1]], p[2]) # "abandoned" /\ run' = [run EXCEPT !.pair = p, !.since = people]
  BY DEF CheckPair, NextPair, SamePair, ToClose, Go
<1>2. PICK f :
        /\ f = IF EligiblePair(mem, p[1], p[2]) THEN CheckedPair(mem, p[1], p[2])
               ELSE SetReplacing(mem, p[1], p[2], "abandoned")
        /\ pc' = "close" => Replacing(f.prs[p[1]], p[2]) # "abandoned" /\ run' = [run EXCEPT !.pair = p, !.since = people]
  BY <1>1
<1>3. SUFFICES ASSUME pc' = "close" PROVE Closing'
  BY DEF Closing
<1>4. pc = "replace" /\ pulls' = pulls /\ people' = people /\ people \in Nat /\ IsRun(run)
  BY InvParts DEF CheckPair, GitHubUnchanged, githubVars, CycleOnly, TypeOK
<1>5. Intact(p[1]) /\ Intact(p[2])
  BY <1>2, <1>3, <1>4, CheckedIntact
<1>6. run'.pair = p /\ run'.since = people
  BY <1>2, <1>3, <1>4 DEF IsRun
<1>. QED
  BY <1>4, <1>5, <1>6 DEF Closing, Intact

\* ... which only the acts of people change.
LEMMA StillClosing == IInv /\ Closing /\ [Next]_vars => Closing'
<1> SUFFICES ASSUME IInv, Closing, [Next]_vars, pc' = "close" PROVE Closing'
  BY DEF Closing
<1>1. CASE CheckPair
  BY <1>1, CheckPairCloses
<1>2. CASE UNCHANGED vars
  BY <1>2 DEF vars, Closing, Intact
<1>3. CASE OnGitHub
  <2>1. pc = "close" /\ run' = run /\ people' = people + 1 /\ people \in Nat /\ run.since \in Nat
    BY <1>3, InvParts DEF OnGitHub, People, TypeOK, IsRun
  <2>2. run.since <= people
    BY <2>1 DEF Closing
  <2>3. run'.since <= people' /\ people' # run'.since
    BY ONLY <2>1, <2>2
  <2>. QED
    BY <2>3 DEF Closing
<1>4. ASSUME Cycle, ~ CheckPair
      PROVE  FALSE
  <2>1. CASE RecoverAll \/ Run \/ ListOpen \/ Reread \/ ReconcileAttempt \/ ReconcileRef \/ SettleCloses
    <3>1. CASE RecoverAll \/ Run \/ SettleCloses
      BY <3>1, ZenonT(30) DEF RecoverAll, Run, SettleCloses, Go
    <3>2. CASE ListOpen \/ Reread
      BY <3>2, ZenonT(30) DEF ListOpen, Reread, ToReread, ToAttempts, ToCloses, Go
    <3>3. CASE ReconcileAttempt \/ ReconcileRef
      BY <3>3, ZenonT(30) DEF ReconcileAttempt, ReconcileRef, ToAttempts, ToCloses, Go
    <3>. QED
      BY <2>1, <3>1, <3>2, <3>3
  <2>2. CASE UnitRecorded \/ UnitDeferred \/ CreatePull \/ CreateObjects \/ CreateRef \/ OpenPull \/ SendPull
    <3>1. CASE UnitRecorded \/ UnitDeferred \/ CreatePull \/ CreateObjects
      BY <3>1, ZenonT(30) DEF UnitRecorded, UnitDeferred, CreatePull, CreateObjects, Go, End, ToReplace
    <3>2. CASE CreateRef \/ SendPull
      BY <3>2, ZenonT(30) DEF CreateRef, SendPull, Go, ToReplace
    <3>3. CASE OpenPull
      BY <3>3 DEF OpenPull, Go, ToReplace
    <3>. QED
      BY <2>2, <3>1, <3>2, <3>3
  <2>3. CASE CycleEnds \/ SendComment \/ SendClose
    BY <2>3, ZenonT(30) DEF CycleEnds, SendComment, SendClose, Go, End, NextPair, SamePair
  <2>. QED
    BY <1>4, <2>1, <2>2, <2>3, ZenonT(30) DEF Cycle
<1>5. CASE Faults \/ NewCandidate \/ RecoveryBlocked
  <2>1. CASE ReconcileFails \/ WriteRefused \/ ReadFails \/ CandidateMoved
    BY <2>1, ZenonT(30) DEF ReconcileFails, WriteRefused, ReadFails, CandidateMoved, NextPair, ToReplace, Go, End
  <2>2. CASE WriteUnknown \/ Crash \/ LoseRecords
    BY <2>2, ZenonT(30) DEF WriteUnknown, Crash, LoseRecords, End
  <2>3. CASE NewCandidate \/ RecoveryBlocked
    BY <2>3, <1>2, ZenonT(30) DEF NewCandidate, RecoveryBlocked
  <2>. QED
    BY <1>5, <2>1, <2>2, <2>3, ZenonT(30) DEF Faults
<1>. QED
  BY <1>1, <1>2, <1>3, <1>4, <1>5, ZenonT(30) DEF Next

-----------------------------------------------------------------------------
(* The refinement of UpdateProposals.  Each update has at most one pull      *)
(* request of the stage, so its proposals are none or the state of that one. *)

\* How many elements no element and one element are.
LEMMA CardEmpty == Cardinality({}) = 0
<1> DEFINE Step(f) == [T \in SUBSET {} |-> IF T = {} THEN 0 ELSE 1 + f[T \ {CHOOSE x : x \in T}]]
           g == [T \in SUBSET {} |-> 0]
           cs == CHOOSE f : f = Step(f)
<1>1. g = Step(g)
  OBVIOUS
<1>2. cs = Step(cs)
  BY <1>1
<1>3. cs[{}] = 0
  BY <1>2, ZenonT(30)
<1>. QED
  BY <1>3 DEF Cardinality

LEMMA CardOne == ASSUME NEW n PROVE Cardinality({n}) = 1
<1> DEFINE Step(f) == [T \in SUBSET {n} |-> IF T = {} THEN 0 ELSE 1 + f[T \ {CHOOSE x : x \in T}]]
           g == [T \in SUBSET {n} |-> IF T = {} THEN 0 ELSE 1]
           cs == CHOOSE f : f = Step(f)
<1>0. (CHOOSE x : x \in {n}) = n
  OBVIOUS
<1>4. ASSUME NEW T \in SUBSET {n}, T # {}
      PROVE  T = {n} /\ T \ {CHOOSE x : x \in T} = {}
  <2>1. T = {n}
    BY <1>4
  <2>2. (CHOOSE x : x \in T) = n
    BY <1>0, <2>1
  <2>. QED
    BY <2>1, <2>2
<1>1. g = Step(g)
  <2>1. ASSUME NEW T \in SUBSET {n}
        PROVE  g[T] = IF T = {} THEN 0 ELSE 1 + g[T \ {CHOOSE x : x \in T}]
    <3>1. g[{}] = 0
      OBVIOUS
    <3>2. CASE T = {}
      BY <3>1, <3>2
    <3>3. CASE T # {}
      <4>1. T \ {CHOOSE x : x \in T} = {} /\ g[T] = 1
        BY <1>4, <3>3
      <4> HIDE DEF g
      <4>. QED
        BY <3>1, <3>3, <4>1
    <3>. QED
      BY <3>2, <3>3
  <2>. QED
    BY <2>1
<1>2. cs = Step(cs)
  BY <1>1, ZenonT(30)
<1> HIDE DEF cs
<1>3. cs[{}] = 0 /\ cs[{n}] = 1 + cs[{n} \ {CHOOSE x : x \in {n}}]
  BY <1>2
<1>5. cs[{n}] = 1
  BY <1>3, <1>4
<1>. QED
  BY <1>5 DEF Cardinality, cs

ToolPullsOf(ps, u) == {n \in DOMAIN ps : ps[n].byTool /\ ps[n].key[1] = u}
StatesFor(ps, u) == [i \in 1..Cardinality(ToolPullsOf(ps, u)) |-> ps[Nth(ToolPullsOf(ps, u), i)].state]
States(ps) == [u \in Updates |-> StatesFor(ps, u)]

\* The refinement mapping, before and after a step.
LEMMA ProposalsAreStates == Proposals = States(pulls) /\ Proposals' = States(pulls')
BY DEF Proposals, States, StatesFor, ToolPulls, ToolPullsOf

\* The first of one number.
LEMMA FirstOfOne ==
    ASSUME NEW n \in Nat
    PROVE  Nth({n}, 1) = n
<1>1. {m \in {n} : m <= n} = {n}
  OBVIOUS
<1>2. Cardinality({m \in {n} : m <= n}) = 1
  BY <1>1, CardOne
<1>3. \E x \in {n} : Cardinality({m \in {n} : m <= x}) = 1
  BY <1>2
<1>. QED
  BY <1>3 DEF Nth

\* Without a pull request, and with one.
LEMMA NoProposal ==
    ASSUME NEW ps, NEW u, Unproposed(ps, u)
    PROVE  StatesFor(ps, u) = <<>>
<1>1. ToolPullsOf(ps, u) = {}
  BY DEF ToolPullsOf, Unproposed
<1>2. Cardinality(ToolPullsOf(ps, u)) = 0
  BY <1>1, CardEmpty
<1>3. StatesFor(ps, u) = [i \in 1..0 |-> ps[Nth(ToolPullsOf(ps, u), i)].state]
  BY <1>2 DEF StatesFor
<1>. QED
  BY <1>3

\* The proposals of an update with a pull request of the stage: its state.
LEMMA OneProposal ==
    ASSUME NEW ps \in Seq(Pull), OnePull(ps), NEW n \in DOMAIN ps, ps[n].byTool, NEW u, ps[n].key[1] = u
    PROVE  StatesFor(ps, u) = <<ps[n].state>>
<1>1. ToolPullsOf(ps, u) = {n}
  BY DEF ToolPullsOf, OnePull
<1>2. Cardinality(ToolPullsOf(ps, u)) = 1
  BY <1>1, CardOne, ZenonT(30)
<1>3. StatesFor(ps, u) = [i \in 1..1 |-> ps[Nth({n}, i)].state]
  BY <1>1, <1>2 DEF StatesFor
<1>4. Nth({n}, 1) = n
  BY PullParts, FirstOfOne
<1>5. \A i \in 1..1 : ps[Nth({n}, i)].state = ps[n].state
  BY <1>4
<1>6. StatesFor(ps, u) = [i \in 1..1 |-> ps[n].state]
  BY <1>3, <1>5
<1>. QED
  BY ONLY <1>6

\* The proposals of one update change ...
LEMMA StatesExcept ==
    ASSUME NEW ps, NEW qs, NEW u \in Updates, NEW x, StatesFor(qs, u) = x,
           \A v \in Updates : v # u => StatesFor(qs, v) = StatesFor(ps, v)
    PROVE  States(qs) = [States(ps) EXCEPT ![u] = x]
BY ZenonT(30) DEF States

\* ... or of none.
LEMMA StatesSame ==
    ASSUME NEW ps, NEW qs, \A v \in Updates : StatesFor(qs, v) = StatesFor(ps, v)
    PROVE  States(qs) = States(ps)
BY DEF States

\* qs has the pull requests of the stage in ps, and no others.
SameTool(ps, qs) ==
    /\ ps \in Seq(Pull) /\ qs \in Seq(Pull) /\ OnePull(ps) /\ OnePull(qs) /\ DOMAIN ps \subseteq DOMAIN qs
    /\ \A n \in DOMAIN ps : qs[n].key = ps[n].key /\ qs[n].byTool = ps[n].byTool
    /\ \A n \in DOMAIN qs : n \notin DOMAIN ps => ~ qs[n].byTool

\* An update whose pull request keeps its state keeps its proposals.
LEMMA UntouchedProposal ==
    ASSUME NEW ps, NEW qs, SameTool(ps, qs), NEW v,
           \A n \in DOMAIN ps : ps[n].byTool /\ ps[n].key[1] = v => qs[n].state = ps[n].state
    PROVE  StatesFor(qs, v) = StatesFor(ps, v)
<1>1. CASE Unproposed(ps, v)
  <2>1. Unproposed(qs, v)
    BY <1>1 DEF Unproposed, SameTool
  <2>. QED
    BY <1>1, <2>1, NoProposal
<1>2. CASE ~ Unproposed(ps, v)
  <2>1. PICK n \in DOMAIN ps : ps[n].byTool /\ ps[n].key[1] = v
    BY <1>2 DEF Unproposed
  <2>2. n \in DOMAIN qs /\ qs[n].byTool /\ qs[n].key[1] = v /\ qs[n].state = ps[n].state
    BY <2>1, ZenonT(30) DEF SameTool
  <2>3. StatesFor(ps, v) = <<ps[n].state>>
    BY <2>1, OneProposal, ZenonT(30) DEF SameTool
  <2>4. StatesFor(qs, v) = <<qs[n].state>>
    BY <2>2, OneProposal, ZenonT(30) DEF SameTool
  <2>. QED
    BY <2>2, <2>3, <2>4
<1>. QED
  BY <1>1, <1>2

\* Opening the pull request of the candidate proposes it.
LEMMA OpenProposes ==
    ASSUME IInv, pc = "send", pulls' = Append(pulls, NewPull(run.key, mem.attempts[run.key].commit, TRUE)),
           people' = people
    PROVE  Abstract!Propose(want) /\ want \in Updates
<1>1. PICK qs : qs = pulls'
  BY ZenonT(30)
<1>2. /\ pulls \in Seq(Pull) /\ OnePull(pulls) /\ want \in Updates /\ Unproposed(pulls, want)
      /\ run.key[1] = want
  BY InvParts, Keys, ZenonT(30) DEF Working, Creating, PullsOK, TypeOK
<1>3. /\ qs \in Seq(Pull) /\ OnePull(qs) /\ DOMAIN qs = DOMAIN pulls \cup {Len(pulls) + 1}
      /\ \A n \in DOMAIN pulls : qs[n] = pulls[n]
      /\ qs[Len(pulls) + 1].key = run.key /\ qs[Len(pulls) + 1].byTool /\ qs[Len(pulls) + 1].state = "open"
  BY <1>1, OpenedOK, ZenonT(30) DEF PullsOK
<1>4. StatesFor(pulls, want) = <<>>
  BY <1>2, NoProposal, ZenonT(30)
<1>5. StatesFor(qs, want) = <<"open">>
  <2>1. PICK n : n = Len(pulls) + 1
    OBVIOUS
  <2>2. n \in DOMAIN qs /\ qs[n].byTool /\ qs[n].key[1] = want /\ qs[n].state = "open"
    BY ONLY <1>2, <1>3, <2>1, ZenonT(30)
  <2>. QED
    BY ONLY <1>3, <2>2, OneProposal
<1>6. ASSUME NEW v \in Updates, v # want
      PROVE  StatesFor(qs, v) = StatesFor(pulls, v)
  <2>1. CASE Unproposed(pulls, v)
    <3>1. Unproposed(qs, v)
      BY ONLY <1>2, <1>3, <1>6, <2>1, ZenonT(30) DEF Unproposed
    <3>. QED
      BY ONLY <2>1, <3>1, NoProposal, ZenonT(30)
  <2>2. CASE ~ Unproposed(pulls, v)
    <3>1. PICK n \in DOMAIN pulls : pulls[n].byTool /\ pulls[n].key[1] = v
      BY <2>2 DEF Unproposed
    <3>2. n \in DOMAIN qs /\ qs[n].byTool /\ qs[n].key[1] = v /\ qs[n].state = pulls[n].state
      BY ONLY <1>3, <3>1
    <3>3. StatesFor(pulls, v) = <<pulls[n].state>>
      BY ONLY <1>2, <3>1, OneProposal, ZenonT(30)
    <3>4. StatesFor(qs, v) = <<qs[n].state>>
      BY ONLY <1>3, <3>2, OneProposal, ZenonT(30)
    <3>. QED
      BY ONLY <3>2, <3>3, <3>4
  <2>. QED
    BY <2>1, <2>2
<1>7. States(qs) = [States(pulls) EXCEPT ![want] = <<"open">>]
  BY ONLY <1>2, <1>5, <1>6, StatesExcept
<1>8. \A v \in Updates : States(pulls)[v] = StatesFor(pulls, v)
  BY DEF States
<1>9. Proposals = States(pulls) /\ Proposals' = States(qs)
  BY ONLY <1>1, ProposalsAreStates
<1>. QED
  BY ONLY people' = people, <1>2, <1>4, <1>7, <1>8, <1>9, ZenonT(30) DEF Abstract!Propose

\* A comment changes no proposal, and neither does anything that leaves the
\* pull requests alone.
LEMMA CommentStutters ==
    ASSUME IInv, pc = "comment", pulls' = Commented(pulls, run.pair[2], run.pair[1])
    PROVE  Proposals' = Proposals
<1>1. PICK qs : qs = pulls'
  OBVIOUS
<1>2. PICK p : p = run.pair
  OBVIOUS
<1>3. qs = Commented(pulls, p[2], p[1]) /\ p[1] \in Nat /\ p[2] \in DOMAIN pulls /\ pulls \in Seq(Pull)
  BY <1>1, <1>2, InHand, InvParts, ZenonT(30)
<1>4. CommentAdded(pulls, qs, p[2], p[1])
  BY <1>3, CommentedParts
<1>5. OnePull(pulls) /\ OnePull(qs)
  BY <1>2, <1>3, InvParts, CommentTakes, ZenonT(30) DEF PullsOK
<1>6. SameTool(pulls, qs) /\ \A n \in DOMAIN pulls : qs[n].state = pulls[n].state
  BY ONLY <1>3, <1>4, <1>5, ZenonT(30) DEF CommentAdded, Alike, SameTool
<1>7. States(qs) = States(pulls)
  BY ONLY <1>6, UntouchedProposal, StatesSame
<1>. QED
  BY ONLY <1>1, <1>7, ProposalsAreStates

\* A close withdraws the proposal of an update that another supersedes.
LEMMA CloseWithdraws ==
    ASSUME IInv, pc = "close", pulls' = Closed(pulls, run.pair[2]), people' = people
    PROVE  Proposals' = Proposals \/ \E u \in Updates : Abstract!Withdraw(u)
<1>1. PICK qs : qs = pulls'
  OBVIOUS
<1>2. PICK p : p = run.pair
  OBVIOUS
<1>3. /\ qs = Closed(pulls, p[2]) /\ p[1] \in DOMAIN pulls /\ p[2] \in DOMAIN pulls /\ pulls \in Seq(Pull)
      /\ pulls[p[1]].byTool /\ pulls[p[2]].byTool /\ <<pulls[p[1]].key[1], pulls[p[2]].key[1]>> \in Supersedes
  BY <1>1, <1>2, InHand, InvParts, ZenonT(30)
<1>4. StateClosed(pulls, qs, p[2])
  BY <1>3, ClosedParts
<1>5. OnePull(pulls) /\ OnePull(qs)
  BY <1>2, <1>3, InvParts, CloseTakes, ZenonT(30) DEF PullsOK
<1>6. SameTool(pulls, qs) /\ \A n \in DOMAIN pulls : n # p[2] => qs[n].state = pulls[n].state
  BY ONLY <1>3, <1>4, <1>5 DEF StateClosed, Alike, SameTool
<1>7. CASE pulls[p[2]].state # "open"
  <2>1. \A n \in DOMAIN pulls : qs[n].state = pulls[n].state
    BY <1>4, <1>6, <1>7, ZenonT(30) DEF StateClosed
  <2>2. States(qs) = States(pulls)
    BY ONLY <1>6, <2>1, UntouchedProposal, StatesSame
  <2>. QED
    BY ONLY <1>1, <2>2, ProposalsAreStates
<1>8. CASE pulls[p[2]].state = "open"
  <2>1. PICK u : u = pulls[p[2]].key[1]
    OBVIOUS
  <2>2. PICK v : v = pulls[p[1]].key[1]
    OBVIOUS
  <2>3. u \in Updates /\ v \in Updates /\ <<v, u>> \in Supersedes
    BY ONLY <1>3, <2>1, <2>2, PullParts, Keys, ZenonT(30)
  <2>4. StatesFor(pulls, u) = <<"open">>
    BY ONLY <1>3, <1>5, <1>8, <2>1, OneProposal, ZenonT(30)
  <2>5. StatesFor(pulls, v) # <<>>
    <3>1. StatesFor(pulls, v) = <<pulls[p[1]].state>>
      BY ONLY <1>3, <1>5, <2>2, OneProposal, ZenonT(30)
    <3>. QED
      BY ONLY <3>1
  <2>6. StatesFor(qs, u) = <<"closed">>
    <3>1. p[2] \in DOMAIN qs /\ qs[p[2]].byTool /\ qs[p[2]].key[1] = u /\ qs[p[2]].state = "closed" /\ qs \in Seq(Pull)
      BY ONLY <1>3, <1>4, <1>8, <2>1, ZenonT(30) DEF StateClosed, Alike
    <3>. QED
      BY ONLY <1>5, <3>1, OneProposal, ZenonT(30)
  <2>7. ASSUME NEW x \in Updates, x # u
        PROVE  StatesFor(qs, x) = StatesFor(pulls, x)
    <3>1. \A n \in DOMAIN pulls : pulls[n].byTool /\ pulls[n].key[1] = x => qs[n].state = pulls[n].state
      BY ONLY <1>6, <2>1, <2>7, ZenonT(30)
    <3>. QED
      BY ONLY <1>6, <3>1, UntouchedProposal, ZenonT(30)
  <2>8. States(qs) = [States(pulls) EXCEPT ![u] = <<"closed">>]
    BY ONLY <2>3, <2>6, <2>7, StatesExcept
  <2>9. States(pulls)[u] = StatesFor(pulls, u) /\ States(pulls)[v] = StatesFor(pulls, v)
    BY ONLY <2>3, ZenonT(30) DEF States
  <2>10. Proposals = States(pulls) /\ Proposals' = States(qs)
    BY ONLY <1>1, ProposalsAreStates
  <2>11. Abstract!Withdraw(u)
    BY ONLY people' = people, <2>3, <2>4, <2>5, <2>8, <2>9, <2>10, ZenonT(30) DEF Abstract!Withdraw
  <2>. QED
    BY ONLY <2>3, <2>11
<1>. QED
  BY <1>7, <1>8

\* Someone merges, closes or reopens.
Moved(a, b) == (a = "open" /\ b \in {"merged", "closed"}) \/ (a = "closed" /\ b = "open")

\* People move the pull requests of one update at a time.
MovedOnly(ps, qs, u) ==
    \A m \in DOMAIN ps : qs[m].state = ps[m].state \/ (ps[m].key[1] = u /\ Moved(ps[m].state, qs[m].state))

\* Merging, closing and reopening move one pull request ...
LEMMA OnePullMoved ==
    ASSUME pulls \in Seq(Pull), NEW n \in DOMAIN pulls, Decide(n) \/ Reopen(n) \/ EditDescription(n)
    PROVE  MovedOnly(pulls, pulls', pulls[n].key[1])
<1>1. pulls[n] \in Pull
  BY PullParts
<1>2. \A m \in DOMAIN pulls : m # n => pulls'[m] = pulls[m]
  BY OnePullTouched
<1>3. CASE Decide(n)
  <2>1. pulls[n].state = "open" /\ \E st \in {"merged", "closed"} : pulls'[n].state = st
    BY <1>1, <1>3, ZenonT(30) DEF Decide, Pull
  <2>. QED
    BY <1>2, <2>1 DEF MovedOnly, Moved
<1>4. CASE Reopen(n)
  <2>1. pulls[n].state = "closed" /\ pulls'[n].state = "open"
    BY <1>1, <1>4, ZenonT(30) DEF Reopen, Pull
  <2>. QED
    BY <1>2, <2>1, ZenonT(30) DEF MovedOnly, Moved
<1>5. CASE EditDescription(n)
  <2>1. pulls'[n].state = pulls[n].state
    BY <1>1, <1>5, ZenonT(30) DEF EditDescription, Pull
  <2>. QED
    BY <1>2, <2>1 DEF MovedOnly, Moved
<1>. QED
  BY <1>3, <1>4, <1>5, ZenonT(30)

\* ... and the deletion of a branch those of one update.
LEMMA BranchMoved ==
    ASSUME pulls \in Seq(Pull), NEW k \in AttemptKey, Push(k) \/ DeleteBranch(k)
    PROVE  MovedOnly(pulls, pulls', k[1])
<1>1. \A m \in DOMAIN pulls : pulls[m] \in Pull
  BY PullParts
<1>2. CASE Push(k)
  <2>1. \A m \in DOMAIN pulls : pulls'[m] = pulls[m] \/ pulls'[m] = [pulls[m] EXCEPT !.head = Foreign]
    BY <1>2 DEF Push
  <2>2. \A m \in DOMAIN pulls : pulls'[m].state = pulls[m].state
    BY <1>1, <2>1, ZenonT(30) DEF Pull
  <2>. QED
    BY <2>2 DEF MovedOnly
<1>3. CASE DeleteBranch(k)
  <2>1. \A m \in DOMAIN pulls :
          \/ pulls'[m] = pulls[m]
          \/ pulls[m].key = k /\ pulls[m].state = "open" /\ pulls'[m] = [pulls[m] EXCEPT !.state = "closed"]
    BY <1>3 DEF DeleteBranch, BranchPulls
  <2>2. \A m \in DOMAIN pulls :
          \/ pulls'[m].state = pulls[m].state
          \/ pulls[m].key = k /\ pulls[m].state = "open" /\ pulls'[m].state = "closed"
    BY <1>1, <2>1, ZenonT(30) DEF Pull
  <2>. QED
    BY <2>2 DEF MovedOnly, Moved
<1>. QED
  BY <1>2, <1>3, ZenonT(30)

\* So every act of people moves the proposals of at most one update.
LEMMA PeopleMove ==
    ASSUME IInv, OnGitHub
    PROVE  \E u \in Updates : MovedOnly(pulls, pulls', u)
<1>1. pulls \in Seq(Pull)
  BY InvParts
<1>2. ASSUME NEW n \in DOMAIN pulls, Decide(n) \/ Reopen(n) \/ EditDescription(n)
      PROVE  \E u \in Updates : MovedOnly(pulls, pulls', u)
  <2>1. MovedOnly(pulls, pulls', pulls[n].key[1])
    BY <1>1, <1>2, OnePullMoved, ZenonT(30)
  <2>2. pulls[n].key[1] \in Updates
    BY <1>1, PullParts, Keys, ZenonT(30)
  <2>. QED
    BY <2>1, <2>2, ZenonT(30)
<1>3. ASSUME NEW k \in AttemptKey, Push(k) \/ DeleteBranch(k)
      PROVE  \E u \in Updates : MovedOnly(pulls, pulls', u)
  <2>1. MovedOnly(pulls, pulls', k[1])
    BY <1>1, <1>3, BranchMoved, ZenonT(30)
  <2>. QED
    BY <2>1, Keys
<1>4. ASSUME pulls' = pulls \/ \E k \in AttemptKey : OpenByHand(k)
      PROVE  \E u \in Updates : MovedOnly(pulls, pulls', u)
  <2>1. \A m \in DOMAIN pulls : pulls'[m] = pulls[m]
    <3>1. CASE pulls' = pulls
      BY <3>1
    <3>2. ASSUME NEW k \in AttemptKey, OpenByHand(k)
          PROVE  \A m \in DOMAIN pulls : pulls'[m] = pulls[m]
      BY <3>2, ByHandInv, ZenonT(30) DEF OpenByHand
    <3>. QED
      BY <1>4, <3>1, <3>2
  <2>2. MovedOnly(pulls, pulls', 1)
    BY <2>1 DEF MovedOnly
  <2>. QED
    BY <2>2, Keys
<1>5. BaseMoves => pulls' = pulls
  BY DEF BaseMoves
<1>. QED
  BY <1>2, <1>3, <1>4, <1>5, ZenonT(30) DEF OnGitHub

\* What people do is a Touch.
LEMMA PeopleTouch ==
    ASSUME IInv, IInv', OnGitHub
    PROVE  \E u \in Updates : Abstract!Touch(u)
<1>1. PICK qs : qs = pulls'
  OBVIOUS
<1>2. PICK u \in Updates : MovedOnly(pulls, qs, u)
  BY <1>1, PeopleMove
<1>3. people' = people + 1
  BY ZenonT(30) DEF OnGitHub, People
<1>4. /\ pulls \in Seq(Pull) /\ OnePull(pulls)
  BY InvParts, ZenonT(30) DEF PullsOK
<1>5. qs \in Seq(Pull) /\ OnePull(qs)
  BY <1>1 DEF IInv, PullsOK
<1>6. Outside(pulls, qs)
  <2>1. CASE Touched(pulls, qs)
    BY <2>1 DEF Touched, Outside
  <2>2. ASSUME NEW k \in AttemptKey, qs = Append(pulls, NewPull(k, None, FALSE))
        PROVE  Outside(pulls, qs)
    BY <2>2, ByHandInv, ZenonT(30)
  <2>3. CASE qs = pulls
    BY <2>3 DEF Outside
  <2>. QED
    BY <1>1, <2>1, <2>2, <2>3, PeopleActs, ZenonT(30)
<1>7. SameTool(pulls, qs)
  BY <1>4, <1>5, <1>6, ZenonT(30) DEF SameTool, Outside
<1>8. ASSUME NEW v \in Updates, v # u
      PROVE  StatesFor(qs, v) = StatesFor(pulls, v)
  <2>1. \A n \in DOMAIN pulls : pulls[n].byTool /\ pulls[n].key[1] = v => qs[n].state = pulls[n].state
    BY ONLY <1>2, <1>8 DEF MovedOnly
  <2>. QED
    BY ONLY <1>7, <2>1, UntouchedProposal, ZenonT(30)
<1>9. Proposals = States(pulls) /\ Proposals' = States(qs)
  BY ONLY <1>1, ProposalsAreStates
<1>10. CASE \A n \in DOMAIN pulls : pulls[n].byTool /\ pulls[n].key[1] = u => qs[n].state = pulls[n].state
  <2>1. StatesFor(qs, u) = StatesFor(pulls, u)
    BY ONLY <1>7, <1>10, UntouchedProposal
  <2>2. States(qs) = States(pulls)
    BY ONLY <1>8, <2>1, StatesSame
  <2>. QED
    BY ONLY <1>2, <1>3, <1>9, <2>2, ZenonT(30) DEF Abstract!Touch
<1>11. CASE ~ \A n \in DOMAIN pulls : pulls[n].byTool /\ pulls[n].key[1] = u => qs[n].state = pulls[n].state
  <2>1. PICK n \in DOMAIN pulls : pulls[n].byTool /\ pulls[n].key[1] = u /\ Moved(pulls[n].state, qs[n].state)
    BY ONLY <1>2, <1>11, ZenonT(30) DEF MovedOnly
  <2>2. n \in DOMAIN qs /\ qs[n].byTool /\ qs[n].key[1] = u
    BY ONLY <1>7, <2>1 DEF SameTool
  <2>3. StatesFor(pulls, u) = <<pulls[n].state>>
    BY ONLY <1>4, <2>1, OneProposal, ZenonT(30)
  <2>4. StatesFor(qs, u) = <<qs[n].state>>
    BY ONLY <1>5, <2>2, OneProposal, ZenonT(30)
  <2>5. States(qs) = [States(pulls) EXCEPT ![u] = <<qs[n].state>>]
    BY ONLY <1>2, <1>8, <2>4, StatesExcept
  <2>6. States(pulls)[u] = <<pulls[n].state>>
    BY ONLY <1>2, <2>3 DEF States
  <2>. QED
    BY ONLY <1>2, <1>3, <1>9, <2>1, <2>5, <2>6, ZenonT(30) DEF Abstract!Touch, Moved
<1>. QED
  BY <1>10, <1>11

\* The steps of the stage write to GitHub in three places, each perhaps with its
\* answer lost.
LEMMA StageWrites ==
    ASSUME Cycle \/ Faults \/ NewCandidate \/ RecoveryBlocked
    PROVE  /\ people' = people
           /\ \/ pulls' = pulls
              \/ pc = "send" /\ pulls' = Append(pulls, NewPull(run.key, mem.attempts[run.key].commit, TRUE))
              \/ pc = "comment" /\ pulls' = Commented(pulls, run.pair[2], run.pair[1])
              \/ pc = "close" /\ pulls' = Closed(pulls, run.pair[2])
<1>1. CASE RecoverAll \/ Run \/ ListOpen \/ Reread \/ ReconcileAttempt \/ ReconcileRef \/ SettleCloses
  BY <1>1, ZenonT(30) DEF RecoverAll, Run, ListOpen, Reread, ReconcileAttempt, ReconcileRef, SettleCloses,
              GitHubUnchanged, githubVars, CycleOnly
<1>2. CASE UnitRecorded \/ UnitDeferred \/ CreatePull \/ CreateObjects \/ CreateRef \/ OpenPull
  BY <1>2, ZenonT(30) DEF UnitRecorded, UnitDeferred, CreatePull, CreateObjects, CreateRef, OpenPull,
              GitHubUnchanged, githubVars, CycleOnly
<1>3. CASE SendPull
  BY <1>3, ZenonT(30) DEF SendPull, CycleOnly
<1>4. CASE CycleEnds \/ CheckPair
  BY <1>4, ZenonT(30) DEF CycleEnds, CheckPair, GitHubUnchanged, githubVars, CycleOnly
<1>5. CASE SendComment \/ SendClose
  BY <1>5, ZenonT(30) DEF SendComment, SendClose, CycleOnly
<1>6. CASE ReconcileFails \/ WriteRefused \/ ReadFails \/ CandidateMoved \/ Crash \/ LoseRecords
  BY <1>6, ZenonT(30) DEF ReconcileFails, WriteRefused, ReadFails, CandidateMoved, Crash, LoseRecords,
              GitHubUnchanged, githubVars, CycleOnly
<1>7. CASE WriteUnknown
  BY <1>7, ZenonT(30) DEF WriteUnknown, CycleOnly
<1>8. CASE NewCandidate \/ RecoveryBlocked
  BY <1>8, ZenonT(30) DEF NewCandidate, RecoveryBlocked, vars
<1>. QED
  BY <1>1, <1>2, <1>3, <1>4, <1>5, <1>6, <1>7, <1>8, ZenonT(30) DEF Cycle, Faults

\* Only a close of the stage marks a pull request as closed by it.
LEMMA OnlyCloses ==
    ASSUME IInv, Next, NEW o \in DOMAIN pulls, ~ pulls[o].closedByTool, pulls'[o].closedByTool
    PROVE  pc = "close" /\ pulls' = Closed(pulls, run.pair[2]) /\ o = run.pair[2]
<1>1. PICK qs : qs = pulls'
  OBVIOUS
<1>2. pulls \in Seq(Pull)
  BY InvParts
<1>3. CASE OnGitHub
  <2>1. CASE Touched(pulls, qs)
    BY <1>1, <2>1 DEF Touched
  <2>2. ASSUME NEW k \in AttemptKey, qs = Append(pulls, NewPull(k, None, FALSE))
        PROVE  FALSE
    <3>1. \A n \in DOMAIN pulls : qs[n] = pulls[n]
      BY ONLY IInv, <2>2, ByHandInv, ZenonT(30)
    <3>. QED
      BY <1>1, <3>1
  <2>3. CASE qs = pulls
    BY <1>1, <2>3
  <2>. QED
    BY <1>1, <1>3, <2>1, <2>2, <2>3, PeopleActs, ZenonT(30)
<1>4. CASE Cycle \/ Faults \/ NewCandidate \/ RecoveryBlocked
  <2>1. CASE pulls' = pulls
    BY <2>1
  <2>2. CASE pc = "send" /\ pulls' = Append(pulls, NewPull(run.key, mem.attempts[run.key].commit, TRUE))
    <3>1. \A n \in DOMAIN pulls : qs[n] = pulls[n]
      BY ONLY IInv, <1>1, <2>2, OpenedOK, ZenonT(30)
    <3>. QED
      BY <1>1, <3>1
  <2>3. CASE pc = "comment" /\ pulls' = Commented(pulls, run.pair[2], run.pair[1])
    <3>1. PICK p : p = run.pair
      OBVIOUS
    <3>2. CommentAdded(pulls, qs, p[2], p[1])
      BY <1>1, <1>2, <2>3, <3>1, InHand, CommentedParts
    <3>3. qs[o].closedByTool = pulls[o].closedByTool
      BY <3>2, ZenonT(30) DEF CommentAdded, Alike
    <3>. QED
      BY <1>1, <3>3
  <2>4. CASE pc = "close" /\ pulls' = Closed(pulls, run.pair[2])
    <3>1. PICK p : p = run.pair
      OBVIOUS
    <3>2. StateClosed(pulls, qs, p[2])
      BY <1>1, <1>2, <2>4, <3>1, InHand, ClosedParts
    <3>3. o # p[2] => qs[o] = pulls[o]
      BY <3>2 DEF StateClosed, Alike
    <3>. QED
      BY <1>1, <2>4, <3>1, <3>3
  <2>. QED
    BY <1>4, <2>1, <2>2, <2>3, <2>4, StageWrites, ZenonT(30)
<1>. QED
  BY <1>3, <1>4, ZenonT(30) DEF Next

\* When the stage closes a pull request, that one and the one which supersedes it
\* are open and at commits of the stage, or someone acted after the check that
\* precedes the write (checkPair, twice in replace).
THEOREM ClosedAsCheckedHolds == Spec => ClosedAsChecked
<1>1. Init => Closing
  BY DEF Init, Closing
<1>2. ASSUME IInv, Closing, Next
      PROVE  \A o \in DOMAIN pulls : ~ pulls[o].closedByTool /\ pulls'[o].closedByTool =>
                \/ people # run.since
                \/ /\ Intact(o)
                   /\ \E n \in DOMAIN pulls :
                         /\ Intact(n) /\ pulls[n].byTool
                         /\ <<pulls[n].key[1], pulls[o].key[1]>> \in Supersedes
  <2> TAKE o \in DOMAIN pulls
  <2> HAVE ~ pulls[o].closedByTool /\ pulls'[o].closedByTool
  <2>1. pc = "close" /\ o = run.pair[2]
    BY <1>2, OnlyCloses
  <2>2. PICK p : p = run.pair
    OBVIOUS
  <2>3. p[1] \in DOMAIN pulls /\ pulls[p[1]].byTool /\ <<pulls[p[1]].key[1], pulls[o].key[1]>> \in Supersedes
    BY <1>2, <2>1, <2>2, InHand
  <2>4. people = run.since => Intact(p[1]) /\ Intact(o)
    BY <1>2, <2>1, <2>2 DEF Closing
  <2>. QED
    BY <2>3, <2>4
<1>. QED
  BY Invariance, <1>1, StillClosing, <1>2, PTL DEF Spec, ClosedAsChecked

\* Every step of the stage and of people is a step of UpdateProposals.
LEMMA StepRefines == IInv /\ IInv' /\ [Next]_vars => [Abstract!Next]_(Abstract!vars)
<1> SUFFICES ASSUME IInv, IInv', [Next]_vars PROVE [Abstract!Next]_(Abstract!vars)
  OBVIOUS
<1>1. ASSUME pulls' = pulls, people' = people
      PROVE  UNCHANGED Abstract!vars
  BY <1>1, ProposalsAreStates DEF Abstract!vars
<1>2. CASE Cycle \/ Faults \/ NewCandidate \/ RecoveryBlocked
  <2>1. people' = people
    BY <1>2, StageWrites, ZenonT(30)
  <2>2. CASE pulls' = pulls
    BY <1>1, <2>1, <2>2, ZenonT(30)
  <2>3. CASE pc = "send" /\ pulls' = Append(pulls, NewPull(run.key, mem.attempts[run.key].commit, TRUE))
    <3>1. Abstract!Propose(want) /\ want \in Updates
      BY ONLY IInv, <2>1, <2>3, OpenProposes, ZenonT(30)
    <3>. QED
      BY ONLY <3>1 DEF Abstract!Next
  <2>4. CASE pc = "comment" /\ pulls' = Commented(pulls, run.pair[2], run.pair[1])
    <3>1. Proposals' = Proposals
      BY ONLY IInv, <2>4, CommentStutters
    <3>. QED
      BY ONLY <2>1, <3>1 DEF Abstract!vars
  <2>5. CASE pc = "close" /\ pulls' = Closed(pulls, run.pair[2])
    <3>1. Proposals' = Proposals \/ \E u \in Updates : Abstract!Withdraw(u)
      BY ONLY IInv, <2>1, <2>5, CloseWithdraws
    <3>. QED
      BY ONLY <2>1, <3>1 DEF Abstract!vars, Abstract!Next
  <2>. QED
    BY <1>2, <2>2, <2>3, <2>4, <2>5, StageWrites, ZenonT(30)
<1>3. CASE OnGitHub
  <2>1. \E u \in Updates : Abstract!Touch(u)
    BY <1>3, PeopleTouch
  <2>. QED
    BY ONLY <2>1 DEF Abstract!Next
<1>4. CASE UNCHANGED vars
  BY <1>1, <1>4 DEF vars
<1>. QED
  BY <1>2, <1>3, <1>4, ZenonT(30) DEF Next

\* Nothing is proposed at first.
LEMMA InitRefines == Init => Abstract!Init
<1> SUFFICES ASSUME Init PROVE Abstract!Init
  OBVIOUS
<1>1. pulls = <<>> /\ people = 0
  BY DEF Init
<1>2. \A u \in Updates : StatesFor(pulls, u) = <<>>
  BY <1>1, NoProposal DEF Unproposed
<1>3. States(pulls) = [u \in Updates |-> <<>>]
  BY <1>2 DEF States
<1>. QED
  BY ONLY <1>1, <1>3, ProposalsAreStates DEF Abstract!Init

\* The stage keeps its promise: with any crashes, lost answers and lost records,
\* and whatever people do meanwhile, an update is proposed at most once and
\* withdrawn only after one that supersedes it was proposed (createPull,
\* reconcileAttempt, recoverAll, replace).
THEOREM ImplementsProposalsHolds == Spec => ImplementsProposals
<1>1. IInv /\ [Next]_vars => IInv'
  BY NextInv
<1>. QED
  BY InitInv, InitRefines, <1>1, StepRefines, PTL DEF Spec, ImplementsProposals, Abstract!Spec

-----------------------------------------------------------------------------
(* What follows from the promise for the people of the repository.           *)

Proposed(u) == Proposals[u] # <<>>
Needed(u) == Proposed(u) /\ \A v \in Updates : <<v, u>> \in Supersedes => ~Proposed(v)

\* There is at most one pull request of the stage for an update.
AtMostOnce ==
    /\ people \in Nat
    /\ Proposals \in [Updates -> {<<>>, <<"open">>, <<"closed">>, <<"merged">>}]

\* As long as nobody has touched anything, a proposal that no other supersedes is
\* open.
NeededOpen == people = 0 => \A u \in Updates : Needed(u) => Proposals[u] = <<"open">>

Promised == AtMostOnce /\ NeededOpen

\* UpdateProposals starts with what it promises ...
LEMMA InitPromised == Abstract!Init => Promised
<1> SUFFICES ASSUME Abstract!Init PROVE Promised
  OBVIOUS
<1>1. Proposals = [u \in Updates |-> <<>>] /\ people = 0
  BY DEF Abstract!Init
<1>2. AtMostOnce
  BY <1>1 DEF AtMostOnce
<1>3. \A u \in Updates : ~ Proposed(u)
  BY <1>1 DEF Proposed
<1>. QED
  BY <1>2, <1>3 DEF Promised, NeededOpen, Needed

\* ... and each of its steps keeps it.
LEMMA NextPromised ==
    ASSUME Promised, [Abstract!Next]_(Abstract!vars)
    PROVE  Promised'
<1>1. ASSUME NEW u \in Updates, Abstract!Propose(u)
      PROVE  Promised'
  <2>1. AtMostOnce'
    BY <1>1 DEF Abstract!Propose, Promised, AtMostOnce
  <2>2. ASSUME people = 0, NEW w \in Updates, Needed(w)'
        PROVE  Proposals'[w] = <<"open">>
    <3>1. Proposals'[u] = <<"open">> /\ \A v \in Updates : v # u => Proposals'[v] = Proposals[v]
      BY <1>1 DEF Abstract!Propose, Promised, AtMostOnce
    <3>2. CASE w = u
      BY <3>1, <3>2
    <3>3. CASE w # u
      <4>1. \A v \in Updates : Proposed(v) => Proposed(v)'
        BY <1>1, <3>1 DEF Proposed, Abstract!Propose
      <4>2. Needed(w)
        BY <2>2, <3>1, <3>3, <4>1 DEF Needed, Proposed
      <4>3. Proposals[w] = <<"open">>
        BY <2>2, <4>2 DEF Promised, NeededOpen
      <4>. QED
        BY <3>1, <3>3, <4>3
    <3>. QED
      BY <3>2, <3>3
  <2>. QED
    BY <1>1, <2>1, <2>2, ZenonT(30) DEF Promised, NeededOpen, Abstract!Propose
<1>2. ASSUME NEW u \in Updates, Abstract!Withdraw(u)
      PROVE  Promised'
  <2>1. AtMostOnce'
    BY <1>2 DEF Abstract!Withdraw, Promised, AtMostOnce
  <2>2. ASSUME people = 0, NEW w \in Updates, Needed(w)'
        PROVE  Proposals'[w] = <<"open">>
    <3>1. \A v \in Updates : v # u => Proposals'[v] = Proposals[v]
      BY <1>2 DEF Abstract!Withdraw, Promised, AtMostOnce
    <3>2. \A v \in Updates : Proposed(v)' <=> Proposed(v)
      BY <1>2, <3>1 DEF Abstract!Withdraw, Promised, AtMostOnce, Proposed
    <3>3. w # u
      BY <1>2, <2>2, <3>2 DEF Abstract!Withdraw, Needed, Proposed
    <3>. QED
      BY <2>2, <3>1, <3>2, <3>3, ZenonT(30) DEF Promised, NeededOpen, Needed
  <2>. QED
    BY <1>2, <2>1, <2>2, ZenonT(30) DEF Promised, NeededOpen, Abstract!Withdraw
<1>3. ASSUME NEW u \in Updates, Abstract!Touch(u)
      PROVE  Promised'
  <2>1. AtMostOnce'
    BY <1>3 DEF Abstract!Touch, Promised, AtMostOnce
  <2>2. people' # 0
    BY <1>3 DEF Abstract!Touch, Promised, AtMostOnce
  <2>. QED
    BY <2>1, <2>2 DEF Promised, NeededOpen
<1>4. CASE UNCHANGED Abstract!vars
  BY <1>4 DEF Abstract!vars, Promised, AtMostOnce, NeededOpen, Needed, Proposed
<1>. QED
  BY <1>1, <1>2, <1>3, <1>4, ZenonT(30) DEF Abstract!Next

\* The stage never leaves a target without its proposal: until someone merges,
\* closes or reopens one, the pull request of every update that was proposed and
\* that no proposed update supersedes is open, whatever was withdrawn for it
\* (replace, checkPair).
THEOREM NeededStaysOpen == Spec => []NeededOpen
<1>1. Promised /\ [Abstract!Next]_(Abstract!vars) => Promised'
  BY NextPromised
<1>2. Promised => NeededOpen
  BY ZenonT(30) DEF Promised
<1>. QED
  BY ImplementsProposalsHolds, InitPromised, <1>1, <1>2, PTL DEF ImplementsProposals, Abstract!Spec

\* Each update has at most one pull request of the stage, ever (createPull).
THEOREM ProposedAtMostOnce == Spec => []AtMostOnce
<1>1. Promised /\ [Abstract!Next]_(Abstract!vars) => Promised'
  BY NextPromised
<1>2. Promised => AtMostOnce
  BY DEF Promised
<1>. QED
  BY ImplementsProposalsHolds, InitPromised, <1>1, <1>2, PTL DEF ImplementsProposals, Abstract!Spec
=============================================================================
