------------------------------ MODULE ScanCycle ------------------------------
(***************************************************************************)
(* One scan cycle after another in diff mode: Runner.RunOnce and sendDiff  *)
(* of internal/runner around the comparison of StateDiff, the state file   *)
(* of internal/state and the fan-out of notify.MultiNotifier.  The         *)
(* containers change between cycles; any scan may fail, or fail to be      *)
(* pinned to the running entity; the advisory data and the exploitation    *)
(* feeds may be missing; any destination may refuse the message; the       *)
(* program may stop after the delivery and before the save, which is the   *)
(* same as a save that fails; the state file may become unreadable.        *)
(*                                                                         *)
(* The fix plan is off, as is NotifyOnClean, and triage and muting are on. *)
(* The clock counts the saves and stops at MaxClock: FirstSeen dates are   *)
(* only ever compared with the date of an earlier save.                    *)
(***************************************************************************)
EXTENDS StateDiff

CONSTANTS Destinations, \* where a message is delivered
          Faults,       \* which of FaultKinds can happen
          MaxClock      \* the bound on the clock

FaultKinds == {"scan", "unconfirmed", "unchecked", "outage", "corrupt"}

ASSUME CycleAssumption ==
    /\ Faults \subseteq FaultKinds
    /\ MaxClock \in Nat \ {0}

VARIABLES world,   \* what runs under each reference
          store,   \* the state file
          told,    \* what the change rows delivered to a destination have shown
          clock,
          settled, \* history: nothing has changed since a complete judgement was saved
          news     \* history: when the package on record was last called new
vars == <<world, store, told, clock, settled, news>>

\* What may run under a reference: contents and the workloads that run them.
Deployments ==
    {[runs |-> <<>>, work |-> {}]} \cup
    {[runs |-> f, work |-> w] :
        f \in UNION {[S -> Profiles] : S \in (SUBSET Contents) \ {{}}},
        w \in (SUBSET Workloads) \ {{}}}

Running == {r \in Refs : world[r].work # {}}

\* A scan result of a content that could not be pinned describes whatever
\* the reference resolved to.
Views(runs, S, c, unconfirmed) ==
    IF unconfirmed THEN {[x \in S |-> IF x = c THEN p ELSE runs[x]] : p \in Profiles}
    ELSE {[x \in S |-> runs[x]]}

Whether(fault) == IF fault \in Faults THEN BOOLEAN ELSE {FALSE}

\* What a cycle can observe of a running reference.
Observations(r) ==
    LET runs == world[r].runs
        scans == IF "scan" \in Faults THEN SUBSET DOMAIN runs ELSE {DOMAIN runs}
    IN UNION {{[cids |-> DOMAIN runs, work |-> world[r].work, view |-> v,
                unconfirmed |-> u, unchecked |-> k] :
                  v \in UNION {Views(runs, S, c, u) : c \in IF u THEN S ELSE Contents}} :
              S \in scans, u \in Whether("unconfirmed"), k \in Whether("unchecked")}

Now == IF clock < MaxClock THEN clock + 1 ELSE clock

\* A failed scan reports no unchecked runtime.
Reports ==
    {[obs |-> o, degraded |-> d, now |-> Now] :
        o \in {f \in [Running -> UNION {Observations(r) : r \in Running}] :
                  \A r \in Running : /\ f[r] \in Observations(r)
                                     /\ ScanFailed(f[r]) => ~f[r].unchecked},
        d \in Whether("outage")}

\* Every scan of the report succeeded, was pinned and fully enriched.
Complete(rep) ==
    /\ ~rep.degraded
    /\ \A r \in DOMAIN rep.obs :
        ~ScanFailed(rep.obs[r]) /\ ~PartialFailure(rep.obs[r]) /\ ~rep.obs[r].unchecked

\* Every scan result describes what runs.
Truthful(rep) ==
    \A r \in DOMAIN rep.obs : \A c \in Scanned(rep.obs[r]) :
        rep.obs[r].view[c] = world[r].runs[c]

-----------------------------------------------------------------------------
Init ==
    /\ world = [r \in Refs |-> [runs |-> <<>>, work |-> {}]]
    /\ store = Empty
    /\ told = [d \in Destinations |-> {}]
    /\ clock = 0
    /\ settled = FALSE
    /\ news = [r \in Refs |-> 0]

\* A deployment, or a new advisory, changes what runs under a reference or
\* what a scan of it finds.
Deploy(r) ==
    /\ \E w \in Deployments \ {world[r]} : world' = [world EXCEPT ![r] = w]
    /\ settled' = FALSE
    /\ UNCHANGED <<store, told, clock, news>>

\* The state file becomes unreadable; Load then returns the empty state.
CorruptStore ==
    /\ "corrupt" \in Faults /\ store # Empty
    /\ store' = Empty
    /\ settled' = FALSE /\ news' = [r \in Refs |-> 0]
    /\ UNCHANGED <<world, told, clock>>

HasIssues(rep) ==
    \/ Cur(rep) # {} \/ CurEOL(rep) # {} \/ CurEOSL(rep) # {}
    \/ \E r \in DOMAIN rep.obs : Scanned(rep.obs[r]) # rep.obs[r].cids

\* Mutant: a record held under an unpinned scan does not make the cycle due.
HoldingUnconfirmed_Never(prev, rep) == FALSE

HoldingUnconfirmed(prev, rep) ==
    \E r \in DOMAIN rep.obs : rep.obs[r].unconfirmed /\ HasFindingsFor(prev, r)

ReportDue(prev, rep, diff) ==
    \/ HasIssues(rep)
    \/ HasChanges(diff)
    \/ HoldingUnconfirmed(prev, rep)
    \/ Unchecked(rep) # {}

\* What the change rows of a message show: the CVEs of the package's current
\* groups unless muting hides the row, and that the package is act_now.  The
\* line that sums up the end-of-life packages of an image whose base OS is
\* end-of-life counts as showing them (splitEOLChanges).
OrdinaryRow(o, degraded) ==
    IF GroupsMuted(o, degraded) THEN {}
    ELSE CurIds(o) \cup {x \in {"act_now"} : CurPrio(o, degraded) = PriorityActNow}

EOLRow(o, degraded) ==
    CurEOLIds(o) \cup {x \in {"act_now"} : CurEOLPrio(o, degraded) = PriorityActNow}

Rows(diff, rep) ==
    (UNION {{r} \X OrdinaryRow(rep.obs[r], rep.degraded) : r \in DOMAIN diff.changes})
        \cup (UNION {{r} \X EOLRow(rep.obs[r], rep.degraded) : r \in DOMAIN diff.eolChanges})

\* A reference change tells the reader that what was said of the old
\* reference is now true of the new one.
Shown(before, diff, rep) ==
    before \cup Rows(diff, rep)
        \cup UNION {{<<p[2], x[2]>> : x \in {y \in before : y[1] = p[1]}} : p \in diff.refChanges}

\* The references whose package a message calls new, or newly end of life.
CalledNew(diff) ==
    {r \in DOMAIN diff.changes : diff.changes[r] = "new"}
        \cup {r \in DOMAIN diff.eolChanges : diff.eolChanges[r] = "eol_new"}

\* When each package on record was last called new, wherever its record came from.
NewsAfter(c) ==
    [r \in Refs |->
        IF r \in CalledNew(c.diff) THEN Now
        ELSE IF HasFindingsFor(c.next, r) THEN news[Source(c.diff.refChanges, r)] ELSE 0]

\* Mutant: the state is saved whatever the delivery did.
MayBeSaved_Always(sent) == TRUE

\* MultiNotifier joins the errors of every destination.
MayBeSaved(sent) == sent = Destinations

\* A cycle: scan, judge, compare, deliver to some of the destinations in
\* delivered, save if the disk lets it.
RunOnce(rep, delivered, saves) ==
    LET c == Compute(store, rep)
        due == ReportDue(store, rep, c.diff)
    IN \E sent \in IF due THEN delivered ELSE {{}}, ok \in saves :
        LET saved == ok /\ (due => MayBeSaved(sent))
        IN /\ told' = [d \in Destinations |->
                          IF d \in sent THEN Shown(told[d], c.diff, rep) ELSE told[d]]
           /\ store' = IF saved THEN c.next ELSE store
           /\ clock' = IF saved THEN Now ELSE clock
           /\ settled' = \/ saved /\ Complete(rep)
                         \/ settled /\ (saved => Truthful(rep))
           /\ news' = IF saved THEN NewsAfter(c) ELSE news
           /\ UNCHANGED world

Cycle == \E rep \in Reports : RunOnce(rep, SUBSET Destinations, BOOLEAN)

Next == Cycle \/ CorruptStore \/ \E r \in Refs : Deploy(r)

Spec == Init /\ [][Next]_vars

\* Loop runs a cycle for ever, and neither outages nor refusals last for ever:
\* again and again the state saved is that of a complete cycle.  Weak fairness
\* of a cycle in which nothing fails implies it.
FairSpec == Spec /\ []<>settled
-----------------------------------------------------------------------------
(* Properties.  Several look one cycle ahead: they quantify over every     *)
(* report the next cycle could see in the current state.                   *)

\* sendDiff saves only after every destination took the message and Compute
\* gives each new CVE a change row: a CVE the state knows about, and that no
\* muting hides, has been shown to every destination, whatever failed on the
\* way.
VisibleMeansTold ==
    \A d \in Destinations, r \in Refs :
        /\ r \notin store.muted => \A v \in PrevIds(store.findings, r) : <<r, v>> \in told[d]
        /\ \A v \in PrevIds(store.eol, r) : <<r, v>> \in told[d]

\* Compute's carry-over rules: once a complete judgement of what runs has been
\* saved, no later failure of scans or of pinning makes a finding look fixed,
\* new, escalated or moved, and neither does the recovery from it.  A result
\* that was not pinned may show what does not run; it never resolves anything.
\* While the advisory data is out, priorities are judged by severity alone, and
\* only the first two lines hold (RecoveryIsQuiet).
NoFlap ==
    settled => \A rep \in Reports :
        LET diff == Compute(store, rep).diff
        IN /\ diff.resolved = {} /\ diff.resolvedEOL = {} /\ diff.resolvedEOSL = {}
           /\ diff.replaced = {} /\ diff.refChanges = {}
           /\ Truthful(rep) =>
                DOMAIN diff.changes = {} /\ DOMAIN diff.eolChanges = {} /\ diff.newEOSL = {}

\* The send decision of sendDiff: a cycle that sends nothing leaves no finding
\* and no end-of-life package on record.
SilenceMeansClear ==
    \A rep \in Reports :
        LET c == Compute(store, rep)
        IN ~ReportDue(store, rep, c.diff) =>
            DOMAIN c.next.findings = {} /\ DOMAIN c.next.eol = {}

\* Compute and carryOverRefChanges: every record of the state is still there
\* after a cycle, under its reference or the one its workload moved to, or is
\* reported resolved, or its package is now among the end-of-life ones; two
\* records never end up as one; and a record that stays keeps its FirstSeen.
HistoryAccounted ==
    \A rep \in Reports :
        LET c == Compute(store, rep)
            pairs == c.diff.refChanges
            Heir(r) == IF \E p \in pairs : p[1] = r THEN (CHOOSE p \in pairs : p[1] = r)[2] ELSE r
        IN /\ \A r, s \in DOMAIN store.findings : Heir(r) = Heir(s) => r = s
           /\ \A r \in DOMAIN store.findings :
                LET h == Heir(r)
                IN \/ h \in DOMAIN c.next.findings
                        /\ c.next.findings[h].firstSeen = store.findings[r].firstSeen
                   \/ h \in c.diff.resolved
                   \/ h \in DOMAIN c.next.eol
           /\ \A r \in DOMAIN store.eol :
                LET h == Heir(r)
                IN \/ h \in DOMAIN c.next.eol
                        /\ c.next.eol[h].firstSeen = store.eol[r].firstSeen
                   \/ h \in c.diff.resolvedEOL

\* The age of a finding never starts again in silence: whatever cycles went by,
\* with the package in and out of end of life, under another reference or with
\* its scans failing, its record is no younger than the last message that called
\* the package new, and an end-of-life record dates from the message that called
\* it newly end of life (Compute, computeEOL, carryOverRefChanges).
AgedFromNews ==
    \A r \in Refs :
        /\ r \in DOMAIN store.findings => store.findings[r].firstSeen <= news[r]
        /\ r \in DOMAIN store.eol => store.eol[r].firstSeen = news[r]

\* A rise to act_now that a complete cycle sees and muting does not hide is
\* announced: every destination has been shown the reference as act_now, or
\* this cycle's rows show it.
ActNowIsTold ==
    \A rep \in Reports :
        LET c == Compute(store, rep)
        IN Complete(rep) =>
            \A r \in DOMAIN c.next.findings \ c.next.muted, d \in Destinations :
                c.next.findings[r].prio = PriorityActNow =>
                    <<r, "act_now">> \in Shown(told[d], c.diff, rep)

\* A complete cycle announces no change of the findings that an earlier
\* complete cycle has judged and saved, with whatever outage in between.  It
\* does not hold: the priorities of the outage are saved as the baseline.
RecoveryIsQuiet ==
    settled => \A rep \in Reports :
        Complete(rep) => DOMAIN Compute(store, rep).diff.changes = {}

\* The CVEs of what runs, each with its reference.
OpenCVEs == {x \in Refs \X Vulns :
                \E c \in DOMAIN world[x[1]].runs :
                    x[2] \in world[x[1]].runs[c].ids \cup world[x[1]].runs[c].eolIds}

\* If what runs stops changing, and the state file stays readable, every CVE
\* that a complete scan shows and muting does not hide is eventually shown to
\* every destination and recorded.
EventuallyTold ==
    <>[][world' = world /\ (store' = Empty => store = Empty)]_vars =>
        <>[](\A d \in Destinations : \A x \in OpenCVEs : x \in told[d] \/ x[1] \in store.muted)
=============================================================================
