------------------------------ MODULE StateDiff ------------------------------
(***************************************************************************)
(* The comparison at the heart of diff mode: state.Compute of              *)
(* internal/state, with the retag pairing of retag.go, the parts of        *)
(* analyze.Build and analyze.ApplyMuting that decide what it compares, and *)
(* the priority table of analyze/triage.go.                                *)
(*                                                                         *)
(* Compute judges the packages of an image independently of each other, so *)
(* the model follows one package per reference and a key (image, package)  *)
(* is the reference.  A report is a record [obs, degraded, now]; obs maps  *)
(* each observed reference to                                              *)
(*   cids        the entities (contents) running under it,                 *)
(*   work        the workloads whose containers run it,                    *)
(*   view        what the scans that succeeded found: a function from the  *)
(*               scanned contents to Profiles,                             *)
(*   unconfirmed some scan could not be pinned to the running entity,      *)
(*   unchecked   the advisory data of the language runtime was missing.    *)
(* A profile is what a scan finds of the package in one content: the CVEs  *)
(* of the ordinary sections and of the end-of-life section, each with its  *)
(* priority, and whether the base OS is end of life.  Map iteration order, *)
(* wording, counts below act_now and the recorded content ID, which no     *)
(* decision reads, are left out.                                           *)
(***************************************************************************)
EXTENDS Integers, FiniteSets, FiniteSetsExt

CONSTANTS Refs,      \* image references
          Repo,      \* the repository of each reference
          Contents,  \* image entities (config digests)
          Workloads, \* workload keys
          Vulns,     \* vulnerability identifiers
          Profiles   \* what a scan can find in a content

\* Priorities by rank: analyze.Priority.Rank.
PriorityLow == 1
PriorityWatch == 2
PriorityActNow == 3
Priorities == {PriorityLow, PriorityWatch, PriorityActNow}

ProfileType ==
    [ids : SUBSET Vulns, fixable : BOOLEAN, prio : Priorities, critical : BOOLEAN,
     idle : BOOLEAN, eolIds : SUBSET Vulns, eolPrio : Priorities, eosl : BOOLEAN]

ASSUME DiffAssumption ==
    /\ Profiles \subseteq ProfileType
    /\ DOMAIN Repo = Refs

Restricted(f, S) == [x \in DOMAIN f \cap S |-> f[x]]

\* A new or empty state, as Load returns it without a readable file.
Empty == [findings |-> <<>>, eol |-> <<>>, eosl |-> <<>>, images |-> <<>>, muted |-> {}]

-----------------------------------------------------------------------------
(* What a report says of a reference: buildInventory, mergeSections.       *)

Scanned(o) == DOMAIN o.view

ScanFailed(o) == Scanned(o) = {}

PartialFailure(o) == o.unconfirmed \/ (Scanned(o) # {} /\ Scanned(o) # o.cids)

\* The contents that contribute a group of the package to a section.
OrdinaryViews(o) == {c \in Scanned(o) : ~o.unchecked /\ o.view[c].ids # {}}
EOLViews(o) == {c \in Scanned(o) : ~o.unchecked /\ o.view[c].eolIds # {}}

CurIds(o) == UNION {o.view[c].ids : c \in OrdinaryViews(o)}
CurEOLIds(o) == UNION {o.view[c].eolIds : c \in EOLViews(o)}
CurFixable(o) == \E c \in OrdinaryViews(o) : o.view[c].fixable

\* The severity-only fallback has no low bucket.
PriorityOf(prio, critical, degraded) ==
    IF ~degraded THEN prio ELSE IF critical THEN PriorityActNow ELSE PriorityWatch

CurPrio(o, degraded) ==
    Max({0} \cup {PriorityOf(o.view[c].prio, o.view[c].critical, degraded) : c \in OrdinaryViews(o)})

CurEOLPrio(o, degraded) ==
    Max({0} \cup {PriorityOf(o.view[c].eolPrio, o.view[c].critical, degraded) : c \in EOLViews(o)})

EligibleForMuting(p, degraded) ==
    /\ p.idle
    /\ ~p.fixable
    /\ PriorityOf(p.prio, p.critical, degraded) # PriorityActNow

\* Every group of the key qualifies, and no scan under the reference is in
\* doubt; an end-of-life group never qualifies.
GroupsMuted(o, degraded) ==
    /\ OrdinaryViews(o) # {}
    /\ EOLViews(o) = {}
    /\ ~ScanFailed(o) /\ ~PartialFailure(o)
    /\ \A c \in OrdinaryViews(o) : EligibleForMuting(o.view[c], degraded)

-----------------------------------------------------------------------------
(* The retag pairing.                                                      *)

EntityConfirmed(o) ==
    ~ScanFailed(o) /\ ~PartialFailure(o) /\ Cardinality(o.cids) = 1 /\ o.work # {}

HasFindingsFor(prev, r) == r \in DOMAIN prev.findings \cup DOMAIN prev.eol

HasHistory(prev, r) == HasFindingsFor(prev, r) \/ r \in DOMAIN prev.eosl \cup prev.muted

Gone(prev, obs) == DOMAIN prev.images \ DOMAIN obs
Appeared(prev, obs) == DOMAIN obs \ DOMAIN prev.images

Candidates(prev, obs) ==
    {p \in Gone(prev, obs) \X Appeared(prev, obs) :
        /\ Repo[p[1]] = Repo[p[2]]
        /\ prev.images[p[1]].work \cap obs[p[2]].work # {}}

\* Mutant: uniqueness is not asked for.
Unique_Any(prev, obs, p) == TRUE

\* No other candidate, and no other vanished or appeared reference on a
\* shared workload: judged over every candidate, before any is dropped.
Unique(prev, obs, p) ==
    /\ \A q \in Candidates(prev, obs) : q[1] = p[1] \/ q[2] = p[2] => q = p
    /\ \A w \in prev.images[p[1]].work \cap obs[p[2]].work :
        /\ \A old \in Gone(prev, obs) : w \in prev.images[old].work => old = p[1]
        /\ \A new \in Appeared(prev, obs) : w \in obs[new].work => new = p[2]

PairRefChanges(prev, obs) ==
    {p \in Candidates(prev, obs) :
        /\ Unique(prev, obs, p)
        /\ EntityConfirmed(obs[p[2]])
        /\ ~HasHistory(prev, p[2])}

\* The reference whose record becomes that of r.
Source(pairs, r) ==
    IF \E p \in pairs : p[2] = r THEN (CHOOSE p \in pairs : p[2] = r)[1] ELSE r

\* The references that carry the records of S once the pairs have moved.
Moved(pairs, S) == {r \in Refs : Source(pairs, r) \in S /\ ~\E p \in pairs : p[1] = r}

Rekey(pairs, f) == [r \in Moved(pairs, DOMAIN f) |-> f[Source(pairs, r)]]

CarryOverRefChanges(prev, pairs) ==
    [findings |-> Rekey(pairs, prev.findings),
     eol      |-> Rekey(pairs, prev.eol),
     eosl     |-> Rekey(pairs, prev.eosl),
     images   |-> Restricted(prev.images, Refs \ {p[1] : p \in pairs}),
     muted    |-> Moved(pairs, prev.muted)]

-----------------------------------------------------------------------------
(* Compute.  prev is the state after CarryOverRefChanges in every operator *)
(* of this section.                                                        *)

\* References whose scans failed wholly, or in part.
FullyFailed(rep) == {r \in DOMAIN rep.obs : ScanFailed(rep.obs[r])}
PartiallyFailed(rep) == {r \in DOMAIN rep.obs : PartialFailure(rep.obs[r])}
Unchecked(rep) == {r \in DOMAIN rep.obs : rep.obs[r].unchecked}

Cur(rep) == {r \in DOMAIN rep.obs : OrdinaryViews(rep.obs[r]) # {}}
CurEOL(rep) == {r \in DOMAIN rep.obs : EOLViews(rep.obs[r]) # {}}
CurEOSL(rep) ==
    {r \in DOMAIN rep.obs : \E c \in Scanned(rep.obs[r]) : rep.obs[r].view[c].eosl}

\* Mutant: a partly failed scan counts as evidence.
Carried_PartialIsEvidence(prev, rep) ==
    (DOMAIN prev.findings \ Cur(rep)) \cap (FullyFailed(rep) \cup Unchecked(rep))

\* Records absent from the report that say nothing about being fixed.
Carried(prev, rep) ==
    (DOMAIN prev.findings \ Cur(rep))
        \cap (FullyFailed(rep) \cup PartiallyFailed(rep) \cup Unchecked(rep))

CarriedEOL(prev, rep) ==
    (DOMAIN prev.eol \ CurEOL(rep))
        \cap (FullyFailed(rep) \cup PartiallyFailed(rep) \cup Unchecked(rep))

CarriedEOSL(prev, rep) ==
    (DOMAIN prev.eosl \ CurEOSL(rep)) \cap (FullyFailed(rep) \cup PartiallyFailed(rep))

\* Records merged with last cycle's because a sibling entity did not scan.
Merged(prev, rep) == Cur(rep) \cap PartiallyFailed(rep) \cap DOMAIN prev.findings

HeldKey(prev, rep) ==
    Merged(prev, rep) \cup Carried(prev, rep)
        \cup ((CarriedEOL(prev, rep) \cap Unchecked(rep)) \ PartiallyFailed(rep))

PrevIds(f, r) == IF r \in DOMAIN f THEN f[r].ids ELSE {}
PrevPrio(f, r) == IF r \in DOMAIN f THEN f[r].prio ELSE 0

\* Mutant: a package back from end of life starts a new history.
FirstSeenOf_ForgetsEOL(prev, rep, r) ==
    IF r \in DOMAIN prev.findings THEN prev.findings[r].firstSeen ELSE rep.now

FirstSeenOf(prev, rep, r) ==
    IF r \in DOMAIN prev.findings THEN prev.findings[r].firstSeen
    ELSE IF r \in DOMAIN prev.eol THEN prev.eol[r].firstSeen
    ELSE rep.now

JudgedEntry(prev, rep, r) ==
    LET o == rep.obs[r]
        held == r \in Merged(prev, rep)
        p == CurPrio(o, rep.degraded)
    IN [firstSeen |-> FirstSeenOf(prev, rep, r),
        fixable |-> CurFixable(o) \/ (held /\ prev.findings[r].fixable),
        prio |-> IF held THEN Max({p, prev.findings[r].prio}) ELSE p,
        ids |-> IF held THEN CurIds(o) \cup prev.findings[r].ids ELSE CurIds(o)]

MutedNow(prev, rep, r) ==
    IF r \in HeldKey(prev, rep) THEN r \in prev.muted ELSE GroupsMuted(rep.obs[r], rep.degraded)

\* Mutant: a rise by one step is no rise.
Rises_ByTwo(prev, rep, r) ==
    LET base == Max({PrevPrio(prev.findings, r), PrevPrio(prev.eol, r)})
    IN ~rep.degraded /\ base # 0 /\ CurPrio(rep.obs[r], rep.degraded) > base + 1

\* Escalation: above the ordinary and the end-of-life baseline, and not while
\* the severity-only fallback inflates every priority.
Rises(prev, rep, r) ==
    LET base == Max({PrevPrio(prev.findings, r), PrevPrio(prev.eol, r)})
    IN ~rep.degraded /\ base # 0 /\ CurPrio(rep.obs[r], rep.degraded) > base

\* The kind of the change of a key in the report; "none" is no change.
KindOf(prev, rep, r) ==
    LET o == rep.obs[r]
        added == CurIds(o) \ (PrevIds(prev.findings, r) \cup PrevIds(prev.eol, r))
        wasFixable == r \in DOMAIN prev.findings /\ prev.findings[r].fixable
    IN IF ~HasFindingsFor(prev, r) THEN "new"
       ELSE IF Rises(prev, rep, r) THEN "escalated"
       ELSE IF added # {} THEN "new_cves"
       ELSE IF CurFixable(o) /\ ~wasFixable THEN "now_fixable"
       ELSE IF r \in prev.muted /\ ~MutedNow(prev, rep, r) THEN "unmuted"
       ELSE "none"

EOLEntry(prev, rep, r) ==
    LET o == rep.obs[r]
        held == r \in PartiallyFailed(rep) \cap DOMAIN prev.eol
        p == CurEOLPrio(o, rep.degraded)
    IN [firstSeen |-> IF r \in DOMAIN prev.eol THEN prev.eol[r].firstSeen ELSE rep.now,
        prio |-> IF held THEN Max({p, prev.eol[r].prio}) ELSE p,
        ids |-> IF held THEN CurEOLIds(o) \cup prev.eol[r].ids ELSE CurEOLIds(o)]

EOLKindOf(prev, rep, r) ==
    LET p == CurEOLPrio(rep.obs[r], rep.degraded)
    IN IF r \notin DOMAIN prev.eol THEN "eol_new"
       ELSE IF ~rep.degraded /\ p = PriorityActNow /\ p > prev.eol[r].prio THEN "eol_escalated"
       ELSE IF CurEOLIds(rep.obs[r]) \ prev.eol[r].ids # {} THEN "eol_new_cves"
       ELSE "none"

NextState(prev, rep) ==
    [findings |-> [r \in Cur(rep) \cup Carried(prev, rep) |->
                      IF r \in Cur(rep) THEN JudgedEntry(prev, rep, r) ELSE prev.findings[r]],
     eol      |-> [r \in CurEOL(rep) \cup CarriedEOL(prev, rep) |->
                      IF r \in CurEOL(rep) THEN EOLEntry(prev, rep, r) ELSE prev.eol[r]],
     eosl     |-> [r \in CurEOSL(rep) \cup CarriedEOSL(prev, rep) |->
                      IF r \in DOMAIN prev.eosl THEN prev.eosl[r] ELSE rep.now],
     images   |-> [r \in DOMAIN rep.obs |->
                      [cids |-> rep.obs[r].cids, work |-> rep.obs[r].work]],
     muted    |-> {r \in Cur(rep) \cup HeldKey(prev, rep) : MutedNow(prev, rep, r)}]

\* The keys whose act_now priority the heartbeat counts.  A muted flag that
\* was carried over, not judged, hides nothing.
OpenActNow(prev, rep, next) ==
    {r \in Refs :
        \/ /\ PrevPrio(next.findings, r) = PriorityActNow
           /\ r \in next.muted => r \in HeldKey(prev, rep)
        \/ PrevPrio(next.eol, r) = PriorityActNow}


Resolved(prev, rep) == DOMAIN prev.findings \ (Cur(rep) \cup Carried(prev, rep) \cup CurEOL(rep))

Replaced(prev, rep) ==
    {r \in DOMAIN rep.obs \cap DOMAIN prev.images : prev.images[r].cids # rep.obs[r].cids}

DiffOf(prev, rep, pairs) ==
    LET kinds == [r \in Cur(rep) |-> KindOf(prev, rep, r)]
        eolKinds == [r \in CurEOL(rep) |-> EOLKindOf(prev, rep, r)]
    IN [changes |-> Restricted(kinds, {r \in Cur(rep) : kinds[r] # "none"}),
        eolChanges |-> Restricted(eolKinds, {r \in CurEOL(rep) : eolKinds[r] # "none"}),
        resolved |-> Resolved(prev, rep),
        resolvedEOL |-> DOMAIN prev.eol \ (CurEOL(rep) \cup CarriedEOL(prev, rep)),
        newEOSL |-> CurEOSL(rep) \ DOMAIN prev.eosl,
        resolvedEOSL |-> DOMAIN prev.eosl \ (CurEOSL(rep) \cup CarriedEOSL(prev, rep)),
        replaced |-> Replaced(prev, rep),
        refChanges |-> pairs]

HasChanges(d) ==
    \/ DOMAIN d.changes # {} \/ DOMAIN d.eolChanges # {}
    \/ d.resolved # {} \/ d.resolvedEOL # {}
    \/ d.newEOSL # {} \/ d.resolvedEOSL # {}
    \/ d.replaced # {} \/ d.refChanges # {}

Compute(prev, rep) ==
    LET pairs == PairRefChanges(prev, rep.obs)
        base == CarryOverRefChanges(prev, pairs)
        next == NextState(base, rep)
    IN [diff |-> DiffOf(base, rep, pairs), next |-> next,
        actNow |-> OpenActNow(base, rep, next)]
=============================================================================
