------------------------ MODULE ScanAnnouncementProofs ------------------------
(***************************************************************************)
(* Diff mode for any constants: with advisory data, what needs acting on   *)
(* now is announced, and what does not change is reported once, whatever   *)
(* scans and pinning do meanwhile; without it, nothing looks fixed.        *)
(***************************************************************************)
EXTENDS ScanCycleProofs

-----------------------------------------------------------------------------
\* T shows that what the state s has as act_now, and muting does not hide, is
\* act_now.
ActNowIn(s, T) ==
    \A r \in Refs :
        /\ r \in DOMAIN s.findings /\ r \notin s.muted /\ s.findings[r].prio = PriorityActNow => <<r, "act_now">> \in T
        /\ r \in DOMAIN s.eol /\ s.eol[r].prio = PriorityActNow => <<r, "act_now">> \in T

\* Who knew it of the old reference knows it of the new one.
LEMMA ActNowMoves ==
    ASSUME NEW prev, NEW rep, NEW T, StoreType(prev), ActNowIn(prev, T)
    PROVE  ActNowIn(Base(prev, rep), T \cup Moves(T, PairRefChanges(prev, rep.obs)))
<1>. DEFINE pairs == PairRefChanges(prev, rep.obs)
            b == Base(prev, rep)
            M == T \cup Moves(T, pairs)
<1>1. /\ b.findings = Rekey(pairs, prev.findings) /\ b.eol = Rekey(pairs, prev.eol)
      /\ b.muted = Moved(pairs, prev.muted)
  BY BaseParts, Zenon
<1>2. ASSUME NEW r \in DOMAIN b.findings, r \notin b.muted, b.findings[r].prio = PriorityActNow
      PROVE  <<r, "act_now">> \in M
  <2>1. r \in Moved(pairs, DOMAIN prev.findings) /\ prev.findings[Source(pairs, r)].prio = PriorityActNow
    BY <1>1, <1>2, RekeyFacts
  <2>2. Source(pairs, r) \notin prev.muted /\ Source(pairs, r) \in DOMAIN prev.findings
    BY <1>1, <1>2, <2>1, MovedFacts
  <2>3. <<Source(pairs, r), "act_now">> \in T
    BY <2>1, <2>2 DEF ActNowIn, StoreType
  <2>. QED
    BY <2>1, <2>3, KnownMoves
<1>3. ASSUME NEW r \in DOMAIN b.eol, b.eol[r].prio = PriorityActNow PROVE <<r, "act_now">> \in M
  <2>1. r \in Moved(pairs, DOMAIN prev.eol) /\ prev.eol[Source(pairs, r)].prio = PriorityActNow
    BY <1>1, <1>3, RekeyFacts
  <2>2. Source(pairs, r) \in DOMAIN prev.eol
    BY <2>1, MovedFacts
  <2>3. <<Source(pairs, r), "act_now">> \in T
    BY <2>1, <2>2 DEF ActNowIn, StoreType
  <2>. QED
    BY <2>1, <2>3, KnownMoves
<1>. QED
  BY <1>2, <1>3, Zenon DEF ActNowIn

\* A finding in the report that is act_now and causes no change was act_now.
LEMMA WasActNow ==
    ASSUME NEW b, NEW rep, StoreType(b), ~ rep.degraded, NEW r,
           CurPrio(rep.obs[r], rep.degraded) = PriorityActNow, KindOf(b, rep, r) = "none"
    PROVE  \/ r \in DOMAIN b.findings /\ b.findings[r].prio = PriorityActNow
           \/ r \in DOMAIN b.eol /\ b.eol[r].prio = PriorityActNow
<1>. DEFINE f == PrevPrio(b.findings, r)
            e == PrevPrio(b.eol, r)
<1>1. HasFindingsFor(b, r) /\ ~ Rises(b, rep, r)
  BY DEF KindOf
<1>2. /\ f \in 0..3 /\ e \in 0..3
      /\ r \in DOMAIN b.findings => f = b.findings[r].prio /\ f # 0
      /\ r \in DOMAIN b.eol => e = b.eol[r].prio /\ e # 0
      /\ r \notin DOMAIN b.findings => f = 0
      /\ r \notin DOMAIN b.eol => e = 0
  BY DEF StoreType, PrevPrio
<1>3. f # 0 \/ e # 0
  BY <1>1, <1>2 DEF HasFindingsFor
<1>4. ~ (Max({f, e}) # 0 /\ PriorityActNow > Max({f, e}))
  BY <1>1 DEF Rises
<1>. HIDE DEF f, e
<1>5. Max({f, e}) \in {f, e} /\ f <= Max({f, e}) /\ e <= Max({f, e})
  BY <1>2, MaxOfTwo
<1>6. f = 3 \/ e = 3
  BY <1>2, <1>3, <1>4, <1>5 DEF PriorityActNow
<1>. QED
  BY <1>2, <1>6 DEF PriorityActNow

\* Who knew the old state knows the new one, once shown the rows.
LEMMA ActNowNext ==
    ASSUME NEW b, NEW rep, NEW pairs, NEW T, ActNowIn(b, T), StoreType(b), rep.degraded \in BOOLEAN, ~ rep.degraded,
           \A r \in DOMAIN rep.obs :
              r \in Refs /\ \A c \in Scanned(rep.obs[r]) : rep.obs[r].view[c] \in Profiles
    PROVE  ActNowIn(NextState(b, rep), T \cup Rows(DiffOf(b, rep, pairs), rep))
<1>. DEFINE n == NextState(b, rep)
            d == DiffOf(b, rep, pairs)
<1>0. Cur(rep) \subseteq DOMAIN rep.obs /\ CurEOL(rep) \subseteq DOMAIN rep.obs
  BY DEF Cur, CurEOL
<1>1. ASSUME NEW r \in Refs, r \in DOMAIN n.findings, r \notin n.muted, n.findings[r].prio = PriorityActNow,
             <<r, "act_now">> \notin Rows(d, rep)
      PROVE  <<r, "act_now">> \in T
  <2>1. r \in Cur(rep) \cup HeldKey(b, rep) => ~ MutedNow(b, rep, r)
    BY <1>1, NextMuted
  <2>2. CASE r \in Cur(rep)
    <3>1. ~ GroupsMuted(rep.obs[r], rep.degraded) /\ (r \in HeldKey(b, rep) => r \notin b.muted)
      BY <2>1, <2>2, HeldFacts DEF MutedNow
    <3>2. JudgedEntry(b, rep, r).prio = PriorityActNow
      BY <1>1, <2>2, NextFindings
    <3>3. CASE CurPrio(rep.obs[r], rep.degraded) = PriorityActNow
      <4>1. "act_now" \in OrdinaryRow(rep.obs[r], rep.degraded)
        BY <3>1, <3>3 DEF OrdinaryRow
      <4>2. r \notin DOMAIN d.changes
        BY <1>1, <4>1, RowFacts
      <4>3. KindOf(b, rep, r) = "none"
        BY <2>2, <4>2, DiffChanges
      <4>4. r \notin b.muted
        BY <2>1, <2>2, <4>3 DEF KindOf
      <4>. QED
        BY <3>3, <4>3, <4>4, WasActNow DEF ActNowIn
    <3>4. CASE CurPrio(rep.obs[r], rep.degraded) # PriorityActNow
      <4>1. r \in Merged(b, rep)
        BY <3>2, <3>4, JudgedParts
      <4>2. r \in DOMAIN b.findings /\ b.findings[r].prio \in 0..3 /\ CurPrio(rep.obs[r], rep.degraded) \in 0..3
        BY <1>0, <2>2, <4>1, PrioFacts DEF Merged, StoreType
      <4>3. JudgedEntry(b, rep, r).prio \in {CurPrio(rep.obs[r], rep.degraded), b.findings[r].prio}
        BY <4>1, <4>2, MergedParts, MaxOfTwo
      <4>4. b.findings[r].prio = PriorityActNow
        BY <3>2, <3>4, <4>3
      <4>5. r \notin b.muted
        BY <3>1, <4>1, HeldFacts
      <4>. QED
        BY <4>2, <4>4, <4>5 DEF ActNowIn
    <3>. QED
      BY <3>3, <3>4
  <2>3. CASE r \notin Cur(rep)
    <3>1. r \in Carried(b, rep) /\ r \in DOMAIN b.findings /\ b.findings[r].prio = PriorityActNow
      BY <1>1, <2>3, NextFindings
    <3>2. r \notin b.muted
      BY <2>1, <3>1, HeldFacts DEF MutedNow
    <3>. QED
      BY <3>1, <3>2 DEF ActNowIn
  <2>. QED
    BY <2>2, <2>3
<1>2. ASSUME NEW r \in Refs, r \in DOMAIN n.eol, n.eol[r].prio = PriorityActNow,
             <<r, "act_now">> \notin Rows(d, rep)
      PROVE  <<r, "act_now">> \in T
  <2>1. CASE r \in CurEOL(rep)
    <3>1. EOLEntry(b, rep, r).prio = PriorityActNow
      BY <1>2, <2>1, NextEOL
    <3>2. CASE CurEOLPrio(rep.obs[r], rep.degraded) = PriorityActNow
      <4>1. "act_now" \in EOLRow(rep.obs[r], rep.degraded)
        BY <3>2 DEF EOLRow
      <4>2. r \notin DOMAIN d.eolChanges
        BY <1>2, <4>1, RowFacts
      <4>3. EOLKindOf(b, rep, r) = "none"
        BY <2>1, <4>2, DiffChanges
      <4>4. r \in DOMAIN b.eol /\ ~ (PriorityActNow > b.eol[r].prio)
        BY <3>2, <4>3 DEF EOLKindOf
      <4>5. b.eol[r].prio = PriorityActNow
        BY <4>4 DEF StoreType, PriorityActNow
      <4>. QED
        BY <4>4, <4>5 DEF ActNowIn
    <3>3. CASE CurEOLPrio(rep.obs[r], rep.degraded) # PriorityActNow
      <4>1. r \in PartiallyFailed(rep) /\ r \in DOMAIN b.eol
        BY <3>1, <3>3, JudgedEOLParts
      <4>2. b.eol[r].prio \in 0..3 /\ CurEOLPrio(rep.obs[r], rep.degraded) \in 0..3
        BY <1>0, <2>1, <4>1, PrioFacts DEF StoreType
      <4>3. EOLEntry(b, rep, r).prio \in {CurEOLPrio(rep.obs[r], rep.degraded), b.eol[r].prio}
        BY <4>1, <4>2, MergedEOLParts, MaxOfTwo
      <4>4. b.eol[r].prio = PriorityActNow
        BY <3>1, <3>3, <4>3
      <4>. QED
        BY <4>1, <4>4 DEF ActNowIn
    <3>. QED
      BY <3>2, <3>3
  <2>2. CASE r \notin CurEOL(rep)
    <3>1. r \in DOMAIN b.eol /\ b.eol[r].prio = PriorityActNow
      BY <1>2, <2>2, NextEOL
    <3>. QED
      BY <3>1 DEF ActNowIn
  <2>. QED
    BY <2>1, <2>2
<1>. QED
  BY <1>1, <1>2, Zenon DEF ActNowIn

\* The two together.
LEMMA ActNowShown ==
    ASSUME TypeInv, "outage" \notin Faults, NEW rep \in Reports, NEW T, ActNowIn(store, T)
    PROVE  ActNowIn(Compute(store, rep).next, Shown(T, Compute(store, rep).diff, rep))
<1>. DEFINE pairs == PairRefChanges(store, rep.obs)
            b == Base(store, rep)
            d == DiffOf(b, rep, pairs)
<1>1. StoreType(b) /\ ActNowIn(b, T \cup Moves(T, pairs))
  BY ActNowMoves, BaseType DEF TypeInv
<1>2. /\ rep.degraded \in BOOLEAN /\ ~ rep.degraded
      /\ \A r \in DOMAIN rep.obs :
            r \in Refs /\ \A c \in Scanned(rep.obs[r]) : rep.obs[r].view[c] \in Profiles
  BY ReportFacts, ObservationFacts
<1>3. d.refChanges = pairs
  BY DiffMoves
<1>4. Shown(T, d, rep) = (T \cup Moves(T, pairs)) \cup Rows(d, rep)
  BY <1>3, ShownFacts
<1>5. ActNowIn(NextState(b, rep), (T \cup Moves(T, pairs)) \cup Rows(d, rep))
  BY <1>1, <1>2, ActNowNext
<1>. QED
  BY <1>4, <1>5, ComputeParts, Zenon

ActNowInv == \A d \in Destinations : ActNowIn(store, told[d])

\* What a cycle turns act_now is in the report it delivers before the state is
\* saved (RunCycle).
LEMMA ActNowStep == ASSUME TypeInv, "outage" \notin Faults, ActNowInv, [Next]_vars PROVE ActNowInv'
<1>1. CASE Cycle
  <2>1. PICK rep \in Reports :
           \/ store' = store /\ \A d \in Destinations : told[d] \subseteq told'[d]
           \/ /\ store' = Compute(store, rep).next
              /\ \A d \in Destinations : told'[d] = Shown(told[d], Compute(store, rep).diff, rep)
    BY <1>1, CycleStep
  <2>2. CASE store' = store /\ \A d \in Destinations : told[d] \subseteq told'[d]
    BY <2>2, Zenon DEF ActNowInv, ActNowIn
  <2>3. CASE /\ store' = Compute(store, rep).next
             /\ \A d \in Destinations : told'[d] = Shown(told[d], Compute(store, rep).diff, rep)
    BY <2>3, ActNowShown DEF ActNowInv
  <2>. QED
    BY <2>1, <2>2, <2>3
<1>2. CASE CorruptStore
  BY <1>2, EmptyParts DEF CorruptStore, ActNowInv, ActNowIn
<1>3. CASE \E r \in Refs : Deploy(r)
  BY <1>3 DEF Deploy, ActNowInv
<1>4. CASE UNCHANGED vars
  BY <1>4 DEF vars, ActNowInv
<1>. QED
  BY <1>1, <1>2, <1>3, <1>4 DEF Next

\* With the advisory data always there, whatever else fails, a finding that is
\* act_now and not muted has been announced as such to every destination, or
\* is by this cycle's message.
THEOREM ActNowAnnounced == ASSUME "outage" \notin Faults PROVE Spec => []ActNowIsTold
<1>1. Init => TypeInv /\ ActNowInv
  <2>1. Init => ActNowInv
    BY EmptyParts DEF Init, ActNowInv, ActNowIn
  <2>. QED
    BY <2>1, InitType
<1>2. TypeInv /\ ActNowInv /\ [Next]_vars => (TypeInv /\ ActNowInv)'
  BY TypeStep, ActNowStep
<1>3. TypeInv /\ ActNowInv => ActNowIsTold
  <2>. SUFFICES ASSUME TypeInv, ActNowInv, NEW rep \in Reports,
                       NEW r \in DOMAIN Compute(store, rep).next.findings \ Compute(store, rep).next.muted,
                       NEW d \in Destinations, Compute(store, rep).next.findings[r].prio = PriorityActNow
                PROVE  <<r, "act_now">> \in Shown(told[d], Compute(store, rep).diff, rep)
    BY DEF ActNowIsTold
  <2>1. ActNowIn(Compute(store, rep).next, Shown(told[d], Compute(store, rep).diff, rep))
    BY ActNowShown DEF ActNowInv
  <2>2. r \in Refs
    BY NextType DEF StoreType
  <2>. QED
    BY <2>1, <2>2 DEF ActNowIn
<1>. QED
  BY <1>1, <1>2, <1>3, PTL DEF Spec

-----------------------------------------------------------------------------
\* The advisory data is there: no report is degraded.
Healthy == FALSE

Whole(o) == ~ ScanFailed(o) /\ ~ PartialFailure(o) /\ ~ o.unchecked

HasEOSL(o) == \E c \in Scanned(o) : o.view[c].eosl

\* o is a scan of what the whole scan F shows, of which a part may have failed.
ScanOf(o, F) ==
    /\ Whole(F) /\ o.cids = Scanned(F)
    /\ \A c \in Scanned(F) : F.view[c] \in Profiles
    /\ Scanned(o) \subseteq Scanned(F)
    /\ \A c \in Scanned(o) : o.view[c] = F.view[c]

\* Of two sets of ranks, the larger one has the larger maximum.
LEMMA MaxMonotone ==
    ASSUME NEW S, NEW T, S \subseteq T, T \subseteq 0..3, S # {}
    PROVE  Max(S) \in 0..3 /\ Max(T) \in 0..3 /\ Max(S) <= Max(T)
<1>1. Max(S) \in S /\ Max(T) \in T /\ \A y \in T : y <= Max(T)
  BY MaxFacts, Zenon
<1>. QED
  BY <1>1, Zenon

\* A part of a scan shows a part of what the whole one shows.
LEMMA PartViews ==
    ASSUME NEW o, NEW F, ScanOf(o, F)
    PROVE  /\ OrdinaryViews(o) \subseteq OrdinaryViews(F)
           /\ \A c \in OrdinaryViews(o) : o.view[c] = F.view[c]
           /\ EOLViews(o) \subseteq EOLViews(F)
           /\ \A c \in EOLViews(o) : o.view[c] = F.view[c]
BY DEF ScanOf, Whole, OrdinaryViews, EOLViews

\* A whole scan shows all of it.
LEMMA WholeViews ==
    ASSUME NEW o, NEW F, ScanOf(o, F), Whole(o)
    PROVE  OrdinaryViews(o) = OrdinaryViews(F) /\ EOLViews(o) = EOLViews(F)
<1>1. Scanned(o) = Scanned(F) /\ ~ o.unchecked /\ ~ F.unchecked
  BY DEF ScanOf, Whole, ScanFailed, PartialFailure
<1>. QED
  BY <1>1 DEF ScanOf, OrdinaryViews, EOLViews

\* Whether a distribution is past its support is not an advisory: it takes no
\* enrichment to know.
LEMMA ScannedEOSL ==
    ASSUME NEW o, NEW F, ScanOf(o, F)
    PROVE  /\ HasEOSL(o) => HasEOSL(F)
           /\ ~ ScanFailed(o) /\ ~ PartialFailure(o) => (HasEOSL(o) <=> HasEOSL(F))
<1>1. HasEOSL(o) => HasEOSL(F)
  BY DEF ScanOf, HasEOSL
<1>2. ASSUME ~ ScanFailed(o), ~ PartialFailure(o) PROVE HasEOSL(F) => HasEOSL(o)
  <2>1. Scanned(o) = Scanned(F)
    BY <1>2 DEF ScanOf, ScanFailed, PartialFailure
  <2>. QED
    BY <2>1 DEF ScanOf, HasEOSL
<1>. QED
  BY <1>1, <1>2

\* The ranks of what a scan shows, where advisory data is there.
LEMMA Ranks ==
    ASSUME NEW o, \A c \in Scanned(o) : o.view[c] \in Profiles
    PROVE  /\ {0} \cup {PriorityOf(o.view[c].prio, o.view[c].critical, Healthy) : c \in OrdinaryViews(o)} \subseteq 0..3
           /\ {0} \cup {PriorityOf(o.view[c].eolPrio, o.view[c].critical, Healthy) : c \in EOLViews(o)} \subseteq 0..3
<1>1. \A p \in Profiles : p.prio \in 1..3 /\ p.eolPrio \in 1..3
  BY DiffAssumption DEF ProfileType, Priorities, PriorityLow, PriorityWatch, PriorityActNow
<1>2. OrdinaryViews(o) \subseteq Scanned(o) /\ EOLViews(o) \subseteq Scanned(o)
  BY DEF OrdinaryViews, EOLViews
<1>. QED
  BY <1>1, <1>2 DEF PriorityOf, Healthy

\* A part of a scan shows no more CVEs, no higher priority and nothing fixable
\* that the whole one does not show.
LEMMA PartFinding ==
    ASSUME NEW o, NEW F, ScanOf(o, F)
    PROVE  /\ CurIds(o) \subseteq CurIds(F)
           /\ CurFixable(o) => CurFixable(F)
           /\ CurPrio(o, Healthy) \in 0..3 /\ CurPrio(F, Healthy) \in 0..3
           /\ CurPrio(o, Healthy) <= CurPrio(F, Healthy)
<1>. DEFINE S == {0} \cup {PriorityOf(o.view[c].prio, o.view[c].critical, Healthy) : c \in OrdinaryViews(o)}
            T == {0} \cup {PriorityOf(F.view[c].prio, F.view[c].critical, Healthy) : c \in OrdinaryViews(F)}
<1>1. OrdinaryViews(o) \subseteq OrdinaryViews(F) /\ \A c \in OrdinaryViews(o) : o.view[c] = F.view[c]
  BY PartViews
<1>2. CurIds(o) \subseteq CurIds(F)
  BY <1>1 DEF CurIds
<1>3. CurFixable(o) => CurFixable(F)
  BY <1>1 DEF CurFixable
<1>4. T \subseteq 0..3
  BY Ranks DEF ScanOf
<1>5. S \subseteq T /\ S # {}
  BY <1>1
<1>6. CurPrio(o, Healthy) = Max(S) /\ CurPrio(F, Healthy) = Max(T)
  BY Zenon DEF CurPrio
<1>. HIDE DEF S, T
<1>. QED
  BY <1>2, <1>3, <1>4, <1>5, <1>6, MaxMonotone, Zenon

\* The same of the end-of-life groups.
LEMMA PartEOL ==
    ASSUME NEW o, NEW F, ScanOf(o, F)
    PROVE  /\ CurEOLIds(o) \subseteq CurEOLIds(F)
           /\ CurEOLPrio(o, Healthy) \in 0..3 /\ CurEOLPrio(F, Healthy) \in 0..3
           /\ CurEOLPrio(o, Healthy) <= CurEOLPrio(F, Healthy)
<1>. DEFINE S == {0} \cup {PriorityOf(o.view[c].eolPrio, o.view[c].critical, Healthy) : c \in EOLViews(o)}
            T == {0} \cup {PriorityOf(F.view[c].eolPrio, F.view[c].critical, Healthy) : c \in EOLViews(F)}
<1>1. EOLViews(o) \subseteq EOLViews(F) /\ \A c \in EOLViews(o) : o.view[c] = F.view[c]
  BY PartViews
<1>2. CurEOLIds(o) \subseteq CurEOLIds(F)
  BY <1>1 DEF CurEOLIds
<1>4. T \subseteq 0..3
  BY Ranks DEF ScanOf
<1>5. S \subseteq T /\ S # {}
  BY <1>1
<1>6. CurEOLPrio(o, Healthy) = Max(S) /\ CurEOLPrio(F, Healthy) = Max(T)
  BY Zenon DEF CurEOLPrio
<1>. HIDE DEF S, T
<1>. QED
  BY <1>2, <1>4, <1>5, <1>6, MaxMonotone, Zenon

\* A whole scan shows the same CVEs and priorities, and hides the same groups.
LEMMA WholeFinding ==
    ASSUME NEW o, NEW F, ScanOf(o, F), Whole(o)
    PROVE  /\ CurIds(o) = CurIds(F)
           /\ CurFixable(o) <=> CurFixable(F)
           /\ CurPrio(o, Healthy) = CurPrio(F, Healthy)
           /\ CurEOLIds(o) = CurEOLIds(F) /\ CurEOLPrio(o, Healthy) = CurEOLPrio(F, Healthy)
           /\ GroupsMuted(o, Healthy) <=> GroupsMuted(F, Healthy)
<1>1. /\ OrdinaryViews(o) = OrdinaryViews(F) /\ \A c \in OrdinaryViews(F) : o.view[c] = F.view[c]
      /\ EOLViews(o) = EOLViews(F) /\ \A c \in EOLViews(F) : o.view[c] = F.view[c]
  BY PartViews, WholeViews
<1>2. CurIds(o) = CurIds(F) /\ (CurFixable(o) <=> CurFixable(F)) /\ CurEOLIds(o) = CurEOLIds(F)
  BY <1>1 DEF CurIds, CurFixable, CurEOLIds
<1>3. CurPrio(o, Healthy) = CurPrio(F, Healthy)
  <2>1. {PriorityOf(o.view[c].prio, o.view[c].critical, Healthy) : c \in OrdinaryViews(o)}
          = {PriorityOf(F.view[c].prio, F.view[c].critical, Healthy) : c \in OrdinaryViews(F)}
    BY <1>1
  <2>. QED
    BY <2>1, Zenon DEF CurPrio
<1>4. CurEOLPrio(o, Healthy) = CurEOLPrio(F, Healthy)
  <2>1. {PriorityOf(o.view[c].eolPrio, o.view[c].critical, Healthy) : c \in EOLViews(o)}
          = {PriorityOf(F.view[c].eolPrio, F.view[c].critical, Healthy) : c \in EOLViews(F)}
    BY <1>1
  <2>. QED
    BY <2>1, Zenon DEF CurEOLPrio
<1>5. Whole(F)
  BY DEF ScanOf
<1>6. GroupsMuted(o, Healthy) <=> GroupsMuted(F, Healthy)
  BY <1>1, <1>5 DEF GroupsMuted, Whole
<1>. QED
  BY <1>2, <1>3, <1>4, <1>6

\* There are records of r where the scan F shows something.
RecordsOf(s, r, F) ==
    /\ r \in DOMAIN s.findings <=> OrdinaryViews(F) # {}
    /\ r \in DOMAIN s.eol <=> EOLViews(F) # {}
    /\ r \in DOMAIN s.eosl <=> HasEOSL(F)

\* They hold what F shows, judged with advisory data.
FindingOf(s, r, F) ==
    r \in DOMAIN s.findings =>
        /\ s.findings[r].ids = CurIds(F) /\ s.findings[r].prio = CurPrio(F, Healthy)
        /\ s.findings[r].fixable <=> CurFixable(F)

EOLOf(s, r, F) ==
    r \in DOMAIN s.eol => s.eol[r].ids = CurEOLIds(F) /\ s.eol[r].prio = CurEOLPrio(F, Healthy)

MutingOf(s, r, F) == r \in s.muted <=> GroupsMuted(F, Healthy)

ValuesOf(s, r, F) == FindingOf(s, r, F) /\ EOLOf(s, r, F) /\ MutingOf(s, r, F)

\* What a report says of a reference (buildInventory's sections).
LEMMA Sections ==
    ASSUME NEW rep, NEW r \in DOMAIN rep.obs
    PROVE  /\ r \in Cur(rep) <=> OrdinaryViews(rep.obs[r]) # {}
           /\ r \in CurEOL(rep) <=> EOLViews(rep.obs[r]) # {}
           /\ r \in CurEOSL(rep) <=> HasEOSL(rep.obs[r])
           /\ r \in FullyFailed(rep) <=> ScanFailed(rep.obs[r])
           /\ r \in PartiallyFailed(rep) <=> PartialFailure(rep.obs[r])
           /\ r \in Unchecked(rep) <=> rep.obs[r].unchecked
BY DEF Cur, CurEOL, CurEOSL, FullyFailed, PartiallyFailed, Unchecked, HasEOSL

\* A wholly scanned reference is judged anew.
LEMMA JudgedAnew ==
    ASSUME NEW b, NEW rep, NEW r \in DOMAIN rep.obs, Whole(rep.obs[r])
    PROVE  /\ r \notin Carried(b, rep) /\ r \notin CarriedEOL(b, rep) /\ r \notin CarriedEOSL(b, rep)
           /\ r \notin Merged(b, rep) /\ r \notin HeldKey(b, rep) /\ r \notin PartiallyFailed(rep)
<1>1. r \notin FullyFailed(rep) /\ r \notin PartiallyFailed(rep) /\ r \notin Unchecked(rep)
  BY Sections DEF Whole
<1>. QED
  BY <1>1 DEF Carried, CarriedEOL, CarriedEOSL, Merged, HeldKey

\* One that is not is held back, and what it still shows is merged.
LEMMA HeldBack ==
    ASSUME NEW b, NEW rep, NEW r \in DOMAIN rep.obs, ~ Whole(rep.obs[r])
    PROVE  /\ r \in FullyFailed(rep) \cup PartiallyFailed(rep) \cup Unchecked(rep)
           /\ r \in Cur(rep) => r \in PartiallyFailed(rep)
           /\ r \in CurEOL(rep) => r \in PartiallyFailed(rep)
<1>1. r \in FullyFailed(rep) \cup PartiallyFailed(rep) \cup Unchecked(rep)
  BY Sections DEF Whole
<1>2. r \in Cur(rep) \cup CurEOL(rep) => ~ ScanFailed(rep.obs[r]) /\ ~ rep.obs[r].unchecked
  BY Sections DEF OrdinaryViews, EOLViews, ScanFailed
<1>. QED
  BY <1>1, <1>2, Sections DEF Whole

\* A whole scan leaves the records it shows.
LEMMA RecordsWhole ==
    ASSUME NEW b, NEW rep, NEW r \in DOMAIN rep.obs, NEW F, ScanOf(rep.obs[r], F), Whole(rep.obs[r])
    PROVE  RecordsOf(NextState(b, rep), r, F)
<1>1. r \in DOMAIN NextState(b, rep).findings <=> OrdinaryViews(F) # {}
  BY JudgedAnew, WholeViews, Sections, NextDomains
<1>2. r \in DOMAIN NextState(b, rep).eol <=> EOLViews(F) # {}
  BY JudgedAnew, WholeViews, Sections, NextDomains
<1>3. HasEOSL(rep.obs[r]) <=> HasEOSL(F)
  BY ScannedEOSL DEF Whole
<1>4. r \in DOMAIN NextState(b, rep).eosl <=> HasEOSL(F)
  BY <1>3, JudgedAnew, Sections, NextDomains
<1>. QED
  BY <1>1, <1>2, <1>4 DEF RecordsOf

\* A failed one leaves the records that were there.
LEMMA RecordsPart ==
    ASSUME NEW b, NEW rep, NEW r \in DOMAIN rep.obs, NEW F, ScanOf(rep.obs[r], F), ~ Whole(rep.obs[r]),
           RecordsOf(b, r, F)
    PROVE  RecordsOf(NextState(b, rep), r, F)
<1>1. r \in FullyFailed(rep) \cup PartiallyFailed(rep) \cup Unchecked(rep)
  BY HeldBack
<1>2. /\ r \in Cur(rep) => OrdinaryViews(F) # {}
      /\ r \in CurEOL(rep) => EOLViews(F) # {}
  BY Sections, PartViews
<1>3. r \in DOMAIN NextState(b, rep).findings <=> OrdinaryViews(F) # {}
  BY <1>1, <1>2, NextDomains DEF RecordsOf, Carried
<1>4. r \in DOMAIN NextState(b, rep).eol <=> EOLViews(F) # {}
  BY <1>1, <1>2, NextDomains DEF RecordsOf, CarriedEOL
<1>5. /\ r \in CurEOSL(rep) => HasEOSL(F)
      /\ HasEOSL(F) => r \in CurEOSL(rep) \/ r \in FullyFailed(rep) \/ r \in PartiallyFailed(rep)
  BY Sections, ScannedEOSL
<1>6. r \in DOMAIN NextState(b, rep).eosl <=> HasEOSL(F)
  BY <1>5, NextDomains DEF RecordsOf, CarriedEOSL
<1>. QED
  BY <1>3, <1>4, <1>6 DEF RecordsOf

\* A finding's record that already held as much as this cycle shows holds the
\* same afterwards: merged with the cycle's, or carried over.
LEMMA FindingHeld ==
    ASSUME NEW b, NEW rep, NEW r, NEW ids, NEW prio \in 0..3, NEW fix,
           r \in Cur(rep) => r \in Merged(b, rep),
           r \in DOMAIN b.findings =>
              /\ b.findings[r].ids = ids /\ b.findings[r].prio = prio
              /\ b.findings[r].fixable <=> fix,
           CurIds(rep.obs[r]) \subseteq ids, CurFixable(rep.obs[r]) => fix,
           CurPrio(rep.obs[r], rep.degraded) \in 0..3, CurPrio(rep.obs[r], rep.degraded) <= prio
    PROVE  r \in DOMAIN NextState(b, rep).findings =>
              /\ NextState(b, rep).findings[r].ids = ids
              /\ NextState(b, rep).findings[r].prio = prio
              /\ NextState(b, rep).findings[r].fixable <=> fix
<1>. DEFINE e == JudgedEntry(b, rep, r)
<1>1. CASE r \in Cur(rep)
  <2>1. NextState(b, rep).findings[r] = e
    BY <1>1, NextFindings
  <2>2. r \in DOMAIN b.findings /\ r \in Merged(b, rep)
    BY <1>1 DEF Merged
  <2>3. /\ e.fixable = (CurFixable(rep.obs[r]) \/ b.findings[r].fixable)
        /\ e.prio = Max({CurPrio(rep.obs[r], rep.degraded), b.findings[r].prio})
        /\ e.ids = CurIds(rep.obs[r]) \cup b.findings[r].ids
    BY <2>2, MergedParts, Zenon
  <2>4. e.prio = prio
    BY <2>2, <2>3, MaxIsSecond, Zenon
  <2>5. e.ids = ids
    BY <2>2, <2>3
  <2>6. e.fixable <=> fix
    BY <2>2, <2>3, Zenon
  <2>. QED
    BY <2>1, <2>4, <2>5, <2>6, Zenon
<1>2. CASE r \notin Cur(rep)
  BY <1>2, NextFindings
<1>. QED
  BY <1>1, <1>2

\* The same of an end-of-life record.
LEMMA EOLHeld ==
    ASSUME NEW b, NEW rep, NEW r, NEW ids, NEW prio \in 0..3,
           r \in CurEOL(rep) => r \in PartiallyFailed(rep) /\ r \in DOMAIN b.eol,
           r \in DOMAIN b.eol => b.eol[r].ids = ids /\ b.eol[r].prio = prio,
           CurEOLIds(rep.obs[r]) \subseteq ids,
           CurEOLPrio(rep.obs[r], rep.degraded) \in 0..3, CurEOLPrio(rep.obs[r], rep.degraded) <= prio
    PROVE  r \in DOMAIN NextState(b, rep).eol =>
              NextState(b, rep).eol[r].ids = ids /\ NextState(b, rep).eol[r].prio = prio
<1>. DEFINE e == EOLEntry(b, rep, r)
<1>1. CASE r \in CurEOL(rep)
  <2>1. NextState(b, rep).eol[r] = e
    BY <1>1, NextEOL
  <2>2. /\ e.prio = Max({CurEOLPrio(rep.obs[r], rep.degraded), b.eol[r].prio})
        /\ e.ids = CurEOLIds(rep.obs[r]) \cup b.eol[r].ids
    BY <1>1 DEF EOLEntry
  <2>3. e.prio = prio
    BY <1>1, <2>2, MaxIsSecond, Zenon
  <2>4. e.ids = ids
    BY <1>1, <2>2
  <2>. QED
    BY <2>1, <2>3, <2>4
<1>2. CASE r \notin CurEOL(rep)
  BY <1>2, NextEOL
<1>. QED
  BY <1>1, <1>2

\* What is held back from the diff stays as hidden as it was.
LEMMA MutingHeld ==
    ASSUME NEW b, NEW rep, NEW r,
           r \in FullyFailed(rep) \cup PartiallyFailed(rep) \cup Unchecked(rep),
           r \in Cur(rep) => r \in Merged(b, rep),
           r \in b.muted => r \in DOMAIN b.findings
    PROVE  r \in NextState(b, rep).muted <=> r \in b.muted
<1>1. CASE r \in HeldKey(b, rep)
  <2>1. MutedNow(b, rep, r) <=> r \in b.muted
    BY <1>1 DEF MutedNow
  <2>. QED
    BY <1>1, <2>1, NextMuted
<1>2. CASE r \notin HeldKey(b, rep)
  <2>1. r \notin Cur(rep) /\ r \notin Carried(b, rep)
    BY <1>2 DEF HeldKey
  <2>2. r \notin NextState(b, rep).muted
    BY <1>2, <2>1, NextMuted
  <2>3. r \notin DOMAIN b.findings
    BY <2>1 DEF Carried
  <2>. QED
    BY <2>2, <2>3
<1>. QED
  BY <1>1, <1>2

\* What the next state holds of a finding is what F shows: judged anew, or
\* held from a state that had it.
LEMMA FindingNext ==
    ASSUME NEW b, NEW rep, NEW r \in DOMAIN rep.obs, NEW F, ScanOf(rep.obs[r], F), rep.degraded = Healthy,
           Whole(rep.obs[r]) \/ (RecordsOf(b, r, F) /\ FindingOf(b, r, F))
    PROVE  FindingOf(NextState(b, rep), r, F)
<1>1. CASE Whole(rep.obs[r])
  <2>. DEFINE e == JudgedEntry(b, rep, r)
  <2>1. r \in DOMAIN NextState(b, rep).findings => NextState(b, rep).findings[r] = e
    BY <1>1, JudgedAnew, NextFindings
  <2>2. e.fixable = CurFixable(rep.obs[r]) /\ e.prio = CurPrio(rep.obs[r], Healthy) /\ e.ids = CurIds(rep.obs[r])
    BY <1>1, JudgedAnew, JudgedParts
  <2>. HIDE DEF e
  <2>3. /\ e.ids = CurIds(F) /\ e.prio = CurPrio(F, Healthy)
        /\ e.fixable <=> CurFixable(F)
    BY <1>1, <2>2, WholeFinding, Zenon
  <2>. QED
    BY <2>1, <2>3, Zenon DEF FindingOf
<1>2. CASE ~ Whole(rep.obs[r])
  <2>1. r \in Cur(rep) => OrdinaryViews(F) # {}
    BY Sections, PartViews
  <2>2. r \in Cur(rep) => r \in Merged(b, rep)
    BY <1>2, <2>1, HeldBack DEF RecordsOf, Merged
  <2>3. /\ CurIds(rep.obs[r]) \subseteq CurIds(F)
        /\ CurFixable(rep.obs[r]) => CurFixable(F)
        /\ CurPrio(rep.obs[r], rep.degraded) \in 0..3 /\ CurPrio(F, Healthy) \in 0..3
        /\ CurPrio(rep.obs[r], rep.degraded) <= CurPrio(F, Healthy)
    BY PartFinding
  <2>4. r \in DOMAIN b.findings =>
          /\ b.findings[r].ids = CurIds(F) /\ b.findings[r].prio = CurPrio(F, Healthy)
          /\ b.findings[r].fixable <=> CurFixable(F)
    BY <1>2, Zenon DEF FindingOf
  <2>. QED
    BY <2>2, <2>3, <2>4, FindingHeld, Zenon DEF FindingOf
<1>. QED
  BY <1>1, <1>2

\* The same of an end-of-life record.
LEMMA EOLNext ==
    ASSUME NEW b, NEW rep, NEW r \in DOMAIN rep.obs, NEW F, ScanOf(rep.obs[r], F), rep.degraded = Healthy,
           Whole(rep.obs[r]) \/ (RecordsOf(b, r, F) /\ EOLOf(b, r, F))
    PROVE  EOLOf(NextState(b, rep), r, F)
<1>1. CASE Whole(rep.obs[r])
  <2>. DEFINE e == EOLEntry(b, rep, r)
  <2>1. r \in DOMAIN NextState(b, rep).eol => NextState(b, rep).eol[r] = e
    BY <1>1, JudgedAnew, NextEOL
  <2>2. e.prio = CurEOLPrio(rep.obs[r], Healthy) /\ e.ids = CurEOLIds(rep.obs[r])
    BY <1>1, JudgedAnew, JudgedEOLParts
  <2>. HIDE DEF e
  <2>3. e.ids = CurEOLIds(F) /\ e.prio = CurEOLPrio(F, Healthy)
    BY <1>1, <2>2, WholeFinding
  <2>. QED
    BY <2>1, <2>3 DEF EOLOf
<1>2. CASE ~ Whole(rep.obs[r])
  <2>1. r \in CurEOL(rep) => EOLViews(F) # {}
    BY Sections, PartViews
  <2>2. r \in CurEOL(rep) => r \in PartiallyFailed(rep) /\ r \in DOMAIN b.eol
    BY <1>2, <2>1, HeldBack DEF RecordsOf
  <2>3. /\ CurEOLIds(rep.obs[r]) \subseteq CurEOLIds(F)
        /\ CurEOLPrio(rep.obs[r], rep.degraded) \in 0..3 /\ CurEOLPrio(F, Healthy) \in 0..3
        /\ CurEOLPrio(rep.obs[r], rep.degraded) <= CurEOLPrio(F, Healthy)
    BY PartEOL
  <2>4. r \in DOMAIN b.eol => b.eol[r].ids = CurEOLIds(F) /\ b.eol[r].prio = CurEOLPrio(F, Healthy)
    BY <1>2, Zenon DEF EOLOf
  <2>. QED
    BY <2>2, <2>3, <2>4, EOLHeld, Zenon DEF EOLOf
<1>. QED
  BY <1>1, <1>2

\* And of what muting hides.
LEMMA MutingNext ==
    ASSUME NEW b, NEW rep, NEW r \in DOMAIN rep.obs, NEW F, ScanOf(rep.obs[r], F), rep.degraded = Healthy,
           Whole(rep.obs[r]) \/ (RecordsOf(b, r, F) /\ MutingOf(b, r, F))
    PROVE  MutingOf(NextState(b, rep), r, F)
<1>1. CASE Whole(rep.obs[r])
  <2>1. r \notin HeldKey(b, rep)
    BY <1>1, JudgedAnew
  <2>2. MutedNow(b, rep, r) <=> GroupsMuted(rep.obs[r], Healthy)
    BY <2>1 DEF MutedNow
  <2>3. GroupsMuted(rep.obs[r], Healthy) => r \in Cur(rep)
    BY Sections DEF GroupsMuted
  <2>4. r \in NextState(b, rep).muted <=> GroupsMuted(rep.obs[r], Healthy)
    BY <2>1, <2>2, <2>3, NextMuted
  <2>. QED
    BY <1>1, <2>4, WholeFinding DEF MutingOf
<1>2. CASE ~ Whole(rep.obs[r])
  <2>1. r \in Cur(rep) => OrdinaryViews(F) # {}
    BY Sections, PartViews
  <2>2. r \in Cur(rep) => r \in Merged(b, rep)
    BY <1>2, <2>1, HeldBack DEF RecordsOf, Merged
  <2>3. r \in b.muted => r \in DOMAIN b.findings
    BY <1>2 DEF RecordsOf, MutingOf, GroupsMuted
  <2>4. r \in NextState(b, rep).muted <=> r \in b.muted
    BY <1>2, <2>2, <2>3, HeldBack, MutingHeld, SMTT(30)
  <2>. QED
    BY <1>2, <2>4 DEF MutingOf
<1>. QED
  BY <1>1, <1>2

\* A finding that the state holds as F shows it has not changed, whatever part
\* of F a scan shows.
LEMMA NoChange ==
    ASSUME NEW b, StoreType(b), NEW rep, NEW r \in Cur(rep), NEW F, ScanOf(rep.obs[r], F), rep.degraded = Healthy,
           RecordsOf(b, r, F), ValuesOf(b, r, F)
    PROVE  KindOf(b, rep, r) = "none"
<1>. DEFINE o == rep.obs[r]
<1>1. r \in DOMAIN rep.obs /\ OrdinaryViews(o) # {}
  BY DEF Cur
<1>2. /\ CurIds(o) \subseteq CurIds(F)
      /\ CurFixable(o) => CurFixable(F)
      /\ CurPrio(o, Healthy) \in 0..3 /\ CurPrio(F, Healthy) \in 0..3 /\ CurPrio(o, Healthy) <= CurPrio(F, Healthy)
  BY PartFinding
<1>3. r \in DOMAIN b.findings
  BY <1>1, PartViews DEF RecordsOf
<1>4. /\ b.findings[r].ids = CurIds(F) /\ b.findings[r].prio = CurPrio(F, Healthy)
      /\ b.findings[r].fixable <=> CurFixable(F)
      /\ r \in b.muted <=> GroupsMuted(F, Healthy)
  BY <1>3, Zenon DEF ValuesOf, FindingOf, MutingOf
<1>5. ~ Rises(b, rep, r)
  <2>1. PrevPrio(b.findings, r) = CurPrio(F, Healthy) /\ PrevPrio(b.eol, r) \in 0..3
    BY <1>3, <1>4 DEF PrevPrio, StoreType
  <2>2. ~ (CurPrio(o, Healthy) > Max({PrevPrio(b.findings, r), PrevPrio(b.eol, r)}))
    <3>. DEFINE x == PrevPrio(b.findings, r)
                y == PrevPrio(b.eol, r)
    <3>1. x \in 0..3 /\ y \in 0..3 /\ CurPrio(o, Healthy) \in 0..3 /\ CurPrio(o, Healthy) <= x
      BY <1>2, <2>1
    <3>. HIDE DEF x, y
    <3>2. Max({x, y}) \in {x, y} /\ x <= Max({x, y})
      BY <3>1, MaxOfTwo
    <3>. QED
      BY <3>1, <3>2 DEF x, y
  <2>. QED
    BY <2>2 DEF Rises
<1>6. CurIds(o) \ (PrevIds(b.findings, r) \cup PrevIds(b.eol, r)) = {}
  BY <1>2, <1>3, <1>4 DEF PrevIds
<1>7. r \in b.muted => MutedNow(b, rep, r)
  <2>1. CASE r \in HeldKey(b, rep)
    BY <2>1 DEF MutedNow
  <2>2. CASE r \notin HeldKey(b, rep)
    <3>1. r \notin PartiallyFailed(rep)
      BY <1>3, <2>2 DEF HeldKey, Merged
    <3>2. Whole(o)
      BY <1>1, <3>1, HeldBack
    <3>3. GroupsMuted(o, Healthy) <=> GroupsMuted(F, Healthy)
      BY <3>2, WholeFinding
    <3>. QED
      BY <1>4, <2>2, <3>3 DEF MutedNow
  <2>. QED
    BY <2>1, <2>2
<1>8. HasFindingsFor(b, r)
  BY <1>3 DEF HasFindingsFor
<1>9. ~ (CurFixable(o) /\ ~ (r \in DOMAIN b.findings /\ b.findings[r].fixable))
  BY <1>2, <1>3, <1>4, Zenon
<1>. QED
  BY <1>5, <1>6, <1>7, <1>8, <1>9 DEF KindOf

\* The same of an end-of-life package.
LEMMA NoEOLChange ==
    ASSUME NEW b, NEW rep, NEW r \in CurEOL(rep), NEW F, ScanOf(rep.obs[r], F), rep.degraded = Healthy,
           RecordsOf(b, r, F), ValuesOf(b, r, F)
    PROVE  EOLKindOf(b, rep, r) = "none"
<1>. DEFINE o == rep.obs[r]
<1>1. EOLViews(o) # {}
  BY DEF CurEOL
<1>2. /\ CurEOLIds(o) \subseteq CurEOLIds(F) /\ CurEOLPrio(o, Healthy) \in 0..3
      /\ CurEOLPrio(F, Healthy) \in 0..3 /\ CurEOLPrio(o, Healthy) <= CurEOLPrio(F, Healthy)
  BY PartEOL
<1>3. r \in DOMAIN b.eol
  BY <1>1, PartViews DEF RecordsOf
<1>4. b.eol[r].ids = CurEOLIds(F) /\ b.eol[r].prio = CurEOLPrio(F, Healthy)
  BY <1>3 DEF ValuesOf, EOLOf
<1>5. ~ (CurEOLPrio(o, Healthy) > b.eol[r].prio) /\ CurEOLIds(o) \ b.eol[r].ids = {}
  BY <1>2, <1>4
<1>. QED
  BY <1>3, <1>5 DEF EOLKindOf

-----------------------------------------------------------------------------
\* What a scan in which nothing fails shows of what runs under r.
Full(r) ==
    [cids |-> DOMAIN world[r].runs, work |-> world[r].work, view |-> world[r].runs,
     unconfirmed |-> FALSE, unchecked |-> FALSE]

\* The state s agrees with what runs.  What the records hold does only while
\* no report is degraded.
Agrees(s) ==
    /\ DOMAIN s.images = Running
    /\ \A r \in Running : s.images[r].cids = DOMAIN world[r].runs
    /\ DOMAIN s.findings \subseteq Running /\ DOMAIN s.eol \subseteq Running /\ DOMAIN s.eosl \subseteq Running
    /\ \A r \in Running : RecordsOf(s, r, Full(r))
    /\ "outage" \notin Faults => \A r \in Running : ValuesOf(s, r, Full(r))

SettledInv == settled => Agrees(store)

\* An observation that shows nothing but what runs is a scan of it.
LEMMA ScanOfRunning ==
    ASSUME TypeInv, NEW r \in Running, NEW o \in Observations(r),
           \A c \in Scanned(o) : o.view[c] = world[r].runs[c]
    PROVE  ScanOf(o, Full(r))
<1>1. world[r] \in Deployments /\ world[r].work # {}
  BY DEF TypeInv, Running
<1>2. DOMAIN world[r].runs # {} /\ \A c \in DOMAIN world[r].runs : world[r].runs[c] \in Profiles
  BY <1>1, Deployed
<1>. DEFINE F == Full(r)
<1>3. F.cids = DOMAIN world[r].runs /\ F.view = world[r].runs /\ F.unconfirmed = FALSE /\ F.unchecked = FALSE
  BY DEF Full
<1>. HIDE DEF F
<1>4. Scanned(F) = DOMAIN world[r].runs
  BY <1>3 DEF Scanned
<1>5. Whole(F)
  BY <1>2, <1>3, <1>4 DEF Whole, ScanFailed, PartialFailure
<1>6. o.cids = DOMAIN world[r].runs /\ Scanned(o) \subseteq o.cids
  BY ObservationFacts
<1>7. ScanOf(o, F)
  BY <1>2, <1>3, <1>4, <1>5, <1>6 DEF ScanOf
<1>. QED
  BY <1>7 DEF F

\* A whole scan shows nothing but what runs.
LEMMA WholeIsTrue ==
    ASSUME TypeInv, NEW r \in Running, NEW o \in Observations(r), ~ PartialFailure(o)
    PROVE  \A c \in Scanned(o) : o.view[c] = world[r].runs[c]
<1>1. ~ o.unconfirmed
  BY DEF PartialFailure
<1>. QED
  BY <1>1, ObservationFacts

\* Against a state that agrees with what runs, nothing has moved.
LEMMA AgreesBase ==
    ASSUME TypeInv, NEW rep \in Reports, Agrees(store)
    PROVE  PairRefChanges(store, rep.obs) = {} /\ Agrees(Base(store, rep))
<1>. DEFINE b == Base(store, rep)
<1>1. DOMAIN store.images = DOMAIN rep.obs
  BY ReportFacts DEF Agrees
<1>2. PairRefChanges(store, rep.obs) = {}
  BY <1>1, PairFacts
<1>3. /\ DOMAIN b.findings = DOMAIN store.findings /\ DOMAIN b.eol = DOMAIN store.eol
      /\ DOMAIN b.eosl = DOMAIN store.eosl /\ b.muted = store.muted
      /\ DOMAIN b.images = DOMAIN store.images
      /\ \A r \in DOMAIN b.findings : b.findings[r] = store.findings[r]
      /\ \A r \in DOMAIN b.eol : b.eol[r] = store.eol[r]
      /\ \A r \in DOMAIN b.images : b.images[r] = store.images[r]
  BY <1>2, NoMoves, SMTT(30) DEF TypeInv
<1>. HIDE DEF b
<1>4. \A r \in Running : RecordsOf(b, r, Full(r))
  BY <1>3 DEF Agrees, RecordsOf
<1>5. ASSUME "outage" \notin Faults, NEW r \in Running PROVE ValuesOf(b, r, Full(r))
  <2>1. ValuesOf(store, r, Full(r))
    BY <1>5 DEF Agrees
  <2>. QED
    BY <1>3, <2>1 DEF ValuesOf, FindingOf, EOLOf, MutingOf
<1>6. Agrees(b)
  BY <1>3, <1>4, <1>5 DEF Agrees
<1>. QED
  BY <1>2, <1>6 DEF b

\* Whatever fails, a record of what F shows is seen again or carried: only a
\* whole scan takes one away, and a whole scan is one of F.
LEMMA RecordsStay ==
    ASSUME NEW b, NEW rep, NEW r \in DOMAIN rep.obs, NEW F, RecordsOf(b, r, F),
           ~ PartialFailure(rep.obs[r]) => ScanOf(rep.obs[r], F)
    PROVE  /\ r \in DOMAIN b.findings => r \in Cur(rep) \cup Carried(b, rep)
           /\ r \in DOMAIN b.eol => r \in CurEOL(rep) \cup CarriedEOL(b, rep)
           /\ r \in DOMAIN b.eosl => r \in CurEOSL(rep) \cup CarriedEOSL(b, rep)
<1>1. CASE r \in FullyFailed(rep) \cup PartiallyFailed(rep)
  BY <1>1 DEF Carried, CarriedEOL, CarriedEOSL
<1>2. CASE r \notin FullyFailed(rep) \cup PartiallyFailed(rep)
  <2>1. ~ ScanFailed(rep.obs[r]) /\ ~ PartialFailure(rep.obs[r]) /\ ScanOf(rep.obs[r], F)
    BY <1>2, Sections
  <2>2. r \in DOMAIN b.eosl => r \in CurEOSL(rep)
    BY <2>1, ScannedEOSL, Sections, SMTT(30) DEF RecordsOf
  <2>3. CASE Whole(rep.obs[r])
    BY <2>1, <2>2, <2>3, WholeViews, Sections, Zenon DEF RecordsOf
  <2>4. CASE ~ Whole(rep.obs[r])
    <3>1. r \in Unchecked(rep)
      BY <1>2, <2>4, HeldBack
    <3>. QED
      BY <2>2, <3>1 DEF Carried, CarriedEOL
  <2>. QED
    BY <2>3, <2>4
<1>. QED
  BY <1>1, <1>2

\* What a report's sections and what the next state carries are of what runs.
LEMMA RunningOnly ==
    ASSUME TypeInv, NEW rep \in Reports, NEW b
    PROVE  LET n == NextState(b, rep)
           IN DOMAIN n.findings \subseteq Running /\ DOMAIN n.eol \subseteq Running /\ DOMAIN n.eosl \subseteq Running
<1>1. DOMAIN rep.obs = Running
  BY ReportFacts
<1>2. /\ Cur(rep) \subseteq Running /\ CurEOL(rep) \subseteq Running /\ CurEOSL(rep) \subseteq Running
      /\ FullyFailed(rep) \subseteq Running /\ PartiallyFailed(rep) \subseteq Running /\ Unchecked(rep) \subseteq Running
  BY <1>1 DEF Cur, CurEOL, CurEOSL, FullyFailed, PartiallyFailed, Unchecked
<1>3. Carried(b, rep) \subseteq Running /\ CarriedEOL(b, rep) \subseteq Running /\ CarriedEOSL(b, rep) \subseteq Running
  BY <1>2 DEF Carried, CarriedEOL, CarriedEOSL
<1>. QED
  BY <1>2, <1>3, NextDomains

\* A reference of a complete report, or of a truthful one met by a state in
\* agreement, is a scan of what runs, and a whole one unless the state has it.
LEMMA JudgedRight ==
    ASSUME TypeInv, NEW rep \in Reports, Complete(rep) \/ (Agrees(store) /\ Truthful(rep)),
           NEW r \in Running
    PROVE  /\ r \in DOMAIN rep.obs /\ ScanOf(rep.obs[r], Full(r))
           /\ \/ Whole(rep.obs[r])
              \/ /\ RecordsOf(Base(store, rep), r, Full(r))
                 /\ "outage" \notin Faults => ValuesOf(Base(store, rep), r, Full(r))
<1>1. DOMAIN rep.obs = Running /\ rep.obs[r] \in Observations(r)
  BY ReportFacts
<1>2. CASE Complete(rep)
  <2>1. Whole(rep.obs[r])
    BY <1>1, <1>2 DEF Complete, Whole
  <2>2. ~ PartialFailure(rep.obs[r])
    BY <2>1, Zenon DEF Whole
  <2>. QED
    BY <1>1, <2>1, <2>2, WholeIsTrue, ScanOfRunning, Zenon
<1>3. CASE Agrees(store) /\ Truthful(rep)
  <2>1. \A c \in Scanned(rep.obs[r]) : rep.obs[r].view[c] = world[r].runs[c]
    BY <1>1, <1>3 DEF Truthful
  <2>2. Agrees(Base(store, rep))
    BY <1>3, AgreesBase
  <2>. QED
    BY <1>1, <2>1, <2>2, ScanOfRunning DEF Agrees
<1>. QED
  BY <1>2, <1>3

\* A truthful report keeps a state in agreement with what runs, and a complete
\* one brings it there.
LEMMA AgreesStep ==
    ASSUME TypeInv, NEW rep \in Reports, Complete(rep) \/ (Agrees(store) /\ Truthful(rep))
    PROVE  Agrees(Compute(store, rep).next)
<1>. DEFINE b == Base(store, rep)
            n == NextState(b, rep)
<1>1. \A r \in Running : r \in DOMAIN rep.obs /\ ScanOf(rep.obs[r], Full(r))
  BY JudgedRight
<1>2. ASSUME NEW r \in Running
      PROVE  Whole(rep.obs[r]) \/ (RecordsOf(b, r, Full(r)) /\ ("outage" \notin Faults => ValuesOf(b, r, Full(r))))
  BY <1>2, JudgedRight
<1>. HIDE DEF b
<1>3. ASSUME NEW r \in Running PROVE RecordsOf(n, r, Full(r))
  BY <1>1, <1>2, RecordsWhole, RecordsPart, Zenon
<1>4. ASSUME "outage" \notin Faults, NEW r \in Running PROVE ValuesOf(n, r, Full(r))
  <2>1. rep.degraded = Healthy
    BY <1>4, ReportFacts DEF Healthy
  <2>2. Whole(rep.obs[r]) \/ (RecordsOf(b, r, Full(r)) /\ ValuesOf(b, r, Full(r)))
    BY <1>2, <1>4
  <2>3. FindingOf(n, r, Full(r))
    BY <1>1, <2>1, <2>2, FindingNext, Zenon DEF ValuesOf
  <2>4. EOLOf(n, r, Full(r))
    BY <1>1, <2>1, <2>2, EOLNext, Zenon DEF ValuesOf
  <2>5. MutingOf(n, r, Full(r))
    BY <1>1, <2>1, <2>2, MutingNext, ZenonT(30) DEF ValuesOf
  <2>. QED
    BY <2>3, <2>4, <2>5 DEF ValuesOf
<1>5. DOMAIN rep.obs = Running /\ \A r \in Running : rep.obs[r].cids = DOMAIN world[r].runs
  BY ReportFacts, ObservationFacts
<1>6. DOMAIN n.images = Running /\ \A r \in Running : n.images[r].cids = DOMAIN world[r].runs
  BY <1>5, NextImages
<1>7. DOMAIN n.findings \subseteq Running /\ DOMAIN n.eol \subseteq Running /\ DOMAIN n.eosl \subseteq Running
  BY RunningOnly
<1>. HIDE DEF n
<1>8. Agrees(n)
  BY <1>3, <1>4, <1>6, <1>7 DEF Agrees
<1>. QED
  BY <1>8, ComputeParts DEF b, n

\* No report, truthful or not, makes a record of what runs look fixed.
LEMMA NothingResolved ==
    ASSUME TypeInv, NEW rep \in Reports, NEW b, Agrees(b)
    PROVE  /\ DOMAIN b.findings \subseteq Cur(rep) \cup Carried(b, rep)
           /\ DOMAIN b.eol \subseteq CurEOL(rep) \cup CarriedEOL(b, rep)
           /\ DOMAIN b.eosl \subseteq CurEOSL(rep) \cup CarriedEOSL(b, rep)
<1>1. DOMAIN rep.obs = Running /\ \A r \in Running : rep.obs[r] \in Observations(r)
  BY ReportFacts
<1>2. \A r \in Running : ~ PartialFailure(rep.obs[r]) => ScanOf(rep.obs[r], Full(r))
  BY <1>1, WholeIsTrue, ScanOfRunning
<1>3. ASSUME NEW r \in Running
      PROVE  /\ r \in DOMAIN b.findings => r \in Cur(rep) \cup Carried(b, rep)
             /\ r \in DOMAIN b.eol => r \in CurEOL(rep) \cup CarriedEOL(b, rep)
             /\ r \in DOMAIN b.eosl => r \in CurEOSL(rep) \cup CarriedEOSL(b, rep)
  <2>1. RecordsOf(b, r, Full(r)) /\ r \in DOMAIN rep.obs
    BY <1>1 DEF Agrees
  <2>. QED
    BY <1>2, <2>1, RecordsStay
<1>4. DOMAIN b.findings \subseteq Running /\ DOMAIN b.eol \subseteq Running /\ DOMAIN b.eosl \subseteq Running
  BY DEF Agrees
<1>. QED
  BY <1>3, <1>4

\* A truthful report announces nothing.
LEMMA NothingNew ==
    ASSUME TypeInv, "outage" \notin Faults, NEW rep \in Reports, NEW b, StoreType(b), Agrees(b), Truthful(rep)
    PROVE  /\ \A r \in Cur(rep) : KindOf(b, rep, r) = "none"
           /\ \A r \in CurEOL(rep) : EOLKindOf(b, rep, r) = "none"
           /\ CurEOSL(rep) \subseteq DOMAIN b.eosl
<1>1. rep.degraded = Healthy
  BY ReportFacts DEF Healthy
<1>2. DOMAIN rep.obs = Running /\ \A r \in Running : rep.obs[r] \in Observations(r)
  BY ReportFacts
<1>3. \A r \in Running : \A c \in Scanned(rep.obs[r]) : rep.obs[r].view[c] = world[r].runs[c]
  BY <1>2, SMTT(30) DEF Truthful
<1>4. \A r \in DOMAIN rep.obs : /\ ScanOf(rep.obs[r], Full(r)) /\ RecordsOf(b, r, Full(r))
                                /\ ValuesOf(b, r, Full(r))
  BY <1>2, <1>3, ScanOfRunning DEF Agrees
<1>5. Cur(rep) \subseteq DOMAIN rep.obs /\ CurEOL(rep) \subseteq DOMAIN rep.obs /\ CurEOSL(rep) \subseteq DOMAIN rep.obs
  BY DEF Cur, CurEOL, CurEOSL
<1>6. \A r \in Cur(rep) : KindOf(b, rep, r) = "none"
  BY <1>1, <1>4, <1>5, NoChange, Zenon
<1>7. \A r \in CurEOL(rep) : EOLKindOf(b, rep, r) = "none"
  BY <1>1, <1>4, <1>5, NoEOLChange, Zenon
<1>8. CurEOSL(rep) \subseteq DOMAIN b.eosl
  <2>1. \A r \in CurEOSL(rep) : HasEOSL(rep.obs[r])
    BY <1>5, Sections, Zenon
  <2>2. \A r \in CurEOSL(rep) : HasEOSL(Full(r))
    BY <1>4, <1>5, <2>1, ScannedEOSL, Zenon
  <2>. QED
    BY <1>4, <1>5, <2>2, Zenon DEF RecordsOf
<1>. QED
  BY <1>6, <1>7, <1>8

\* Nothing of a state that agrees looks fixed, replaced or moved, and nothing
\* looks new to a truthful report that is not degraded.
LEMMA Unmoved ==
    ASSUME TypeInv, SettledInv, settled, NEW rep \in Reports
    PROVE  LET diff == Compute(store, rep).diff
           IN /\ diff.resolved = {} /\ diff.resolvedEOL = {} /\ diff.resolvedEOSL = {}
              /\ diff.replaced = {} /\ diff.refChanges = {}
              /\ "outage" \notin Faults /\ Truthful(rep) =>
                   DOMAIN diff.changes = {} /\ DOMAIN diff.eolChanges = {} /\ diff.newEOSL = {}
<1>. DEFINE b == Base(store, rep)
            pairs == PairRefChanges(store, rep.obs)
            d == DiffOf(b, rep, pairs)
<1>1. pairs = {} /\ Agrees(b) /\ StoreType(b)
  BY AgreesBase, BaseType DEF SettledInv, TypeInv
<1>2. \A r \in DOMAIN rep.obs : r \in Running /\ rep.obs[r].cids = DOMAIN world[r].runs
  BY ReportFacts, ObservationFacts
<1>3. Compute(store, rep).diff = d
  BY ComputeParts
<1>. HIDE DEF b, pairs
<1>4. d.replaced = {}
  BY <1>1, <1>2, DiffMoves, SMTT(30) DEF Replaced, Agrees
<1>5. d.refChanges = {} /\ d.resolved = {} /\ d.resolvedEOL = {} /\ d.resolvedEOSL = {}
  <2>1. /\ DOMAIN b.findings \subseteq Cur(rep) \cup Carried(b, rep)
        /\ DOMAIN b.eol \subseteq CurEOL(rep) \cup CarriedEOL(b, rep)
        /\ DOMAIN b.eosl \subseteq CurEOSL(rep) \cup CarriedEOSL(b, rep)
    BY <1>1, NothingResolved, Zenon
  <2>. QED
    BY <1>1, <2>1, DiffResolved, DiffEOSL, DiffMoves, SMTT(30) DEF Resolved
<1>6. "outage" \notin Faults /\ Truthful(rep) => DOMAIN d.changes = {} /\ DOMAIN d.eolChanges = {} /\ d.newEOSL = {}
  BY <1>1, NothingNew, DiffChanges, DiffEOSL
<1>. HIDE DEF d
<1>. QED
  BY <1>3, <1>4, <1>5, <1>6

\* Only a complete or truthful report is saved while settled.
LEMMA SettledStep == ASSUME TypeInv, SettledInv, [Next]_vars PROVE SettledInv'
<1>1. CASE Cycle
  <2>1. world' = world
    BY <1>1, CycleStep
  <2>2. settled' => Agrees(store')
    BY <1>1, CycleStep, AgreesStep DEF SettledInv
  <2>. QED
    BY <2>1, <2>2, ZenonT(30) DEF SettledInv, Agrees, Running, Full
<1>2. CASE CorruptStore
  BY <1>2 DEF CorruptStore, SettledInv
<1>3. CASE \E r \in Refs : Deploy(r)
  BY <1>3 DEF Deploy, SettledInv
<1>4. CASE UNCHANGED vars
  BY <1>4, ZenonT(30) DEF vars, SettledInv, Agrees, Running, Full
<1>. QED
  BY <1>1, <1>2, <1>3, <1>4 DEF Next

\* Once settled, the state agrees with what runs until something is deployed.
LEMMA SettledAlways == Spec => [](TypeInv /\ SettledInv)
<1>1. Init => SettledInv
  BY Zenon DEF Init, SettledInv
<1>2. TypeInv /\ SettledInv /\ [Next]_vars => SettledInv'
  BY SettledStep
<1>. QED
  BY <1>1, <1>2, TypeAlways, PTL DEF Spec

\* Once a complete judgement of what runs is saved, nothing that fails, the
\* advisory data included, makes a finding look fixed, an image replaced or a
\* reference moved (Compute's carry-over rules).
THEOREM NothingLooksFixed ==
    Spec => [](settled => \A rep \in Reports :
                 LET diff == Compute(store, rep).diff
                 IN /\ diff.resolved = {} /\ diff.resolvedEOL = {} /\ diff.resolvedEOSL = {}
                    /\ diff.replaced = {} /\ diff.refChanges = {})
<1>1. TypeInv /\ SettledInv =>
        (settled => \A rep \in Reports :
            LET diff == Compute(store, rep).diff
            IN /\ diff.resolved = {} /\ diff.resolvedEOL = {} /\ diff.resolvedEOSL = {}
               /\ diff.replaced = {} /\ diff.refChanges = {})
  BY Unmoved
<1>. QED
  BY <1>1, SettledAlways, PTL

\* With the advisory data always there: no failure of scans or of pinning makes
\* a finding look fixed, new, escalated or moved, and neither does the recovery
\* from it (Compute).
THEOREM NothingFlaps == ASSUME "outage" \notin Faults PROVE Spec => []NoFlap
<1>1. TypeInv /\ SettledInv => NoFlap
  BY Unmoved DEF NoFlap
<1>. QED
  BY <1>1, SettledAlways, PTL
=============================================================================
