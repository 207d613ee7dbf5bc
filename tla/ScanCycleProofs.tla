-------------------------- MODULE ScanCycleProofs --------------------------
(***************************************************************************)
(* Diff mode for any references, contents, workloads, vulnerabilities,     *)
(* profiles and destinations.                                              *)
(***************************************************************************)
EXTENDS ScanCycle, TLAPS

\* The state Compute compares the report with: the records have followed
\* their workloads to a new reference.
Base(prev, rep) == CarryOverRefChanges(prev, PairRefChanges(prev, rep.obs))

\* The records are of references, with priorities of the triage table.
StoreType(s) ==
    /\ DOMAIN s.findings \subseteq Refs /\ DOMAIN s.eol \subseteq Refs
    /\ DOMAIN s.eosl \subseteq Refs /\ DOMAIN s.images \subseteq Refs /\ s.muted \subseteq Refs
    /\ \A r \in DOMAIN s.findings : s.findings[r].prio \in 1..3
    /\ \A r \in DOMAIN s.eol : s.eol[r].prio \in 1..3

TypeInv == world \in [Refs -> Deployments] /\ StoreType(store)

-----------------------------------------------------------------------------
\* The maximum of a set of ranks.
LEMMA MaxFacts ==
    ASSUME NEW S, S \subseteq 0..3, S # {}
    PROVE  Max(S) \in S /\ \A y \in S : y <= Max(S)
<1>1. \E x \in S : \A y \in S : x >= y
  <2>1. CASE 3 \in S
    BY <2>1
  <2>2. CASE 3 \notin S /\ 2 \in S
    BY <2>2
  <2>3. CASE 3 \notin S /\ 2 \notin S /\ 1 \in S
    BY <2>3
  <2>4. CASE 3 \notin S /\ 2 \notin S /\ 1 \notin S
    <3>1. \A y \in S : y = 0
      BY <2>4
    <3>2. 0 \in S
      BY <3>1, Zenon
    <3>. QED
      BY <3>1, <3>2
  <2>. QED
    BY <2>1, <2>2, <2>3, <2>4
<1>. QED
  BY <1>1, Zenon DEF Max

\* The larger of two ranks.
LEMMA MaxOfTwo ==
    ASSUME NEW a \in 0..3, NEW b \in 0..3
    PROVE  Max({a, b}) \in {a, b} /\ a <= Max({a, b}) /\ b <= Max({a, b})
BY MaxFacts, {a, b} \subseteq 0..3

\* The larger of two priorities, when it is known which one it is.
LEMMA MaxIsSecond ==
    ASSUME NEW a \in 0..3, NEW b \in 0..3, a <= b
    PROVE  Max({a, b}) = b
BY MaxOfTwo

\* A pair joins a reference that is gone to one that has appeared and has no
\* records of its own, and neither is in another pair (PairRefChanges).
LEMMA PairFacts ==
    ASSUME NEW prev, NEW obs, NEW p \in PairRefChanges(prev, obs)
    PROVE  /\ p[1] \in DOMAIN prev.images /\ p[1] \notin DOMAIN obs
           /\ p[2] \in DOMAIN obs /\ p[2] \notin DOMAIN prev.images
           /\ ~ HasHistory(prev, p[2])
           /\ \A q \in PairRefChanges(prev, obs) : q[1] = p[1] \/ q[2] = p[2] => q = p
BY DEF PairRefChanges, Candidates, Unique, Gone, Appeared

\* Where the record of a reference comes from.
LEMMA SourceFacts ==
    ASSUME NEW prev, NEW obs, NEW r
    PROVE  LET pairs == PairRefChanges(prev, obs)
           IN /\ \A p \in pairs : p[2] = r => Source(pairs, r) = p[1]
              /\ (~ \E p \in pairs : p[2] = r) => Source(pairs, r) = r
<1>. DEFINE pairs == PairRefChanges(prev, obs)
<1>1. ASSUME NEW p \in pairs, p[2] = r PROVE Source(pairs, r) = p[1]
  <2>1. \A q \in pairs : q[2] = r => q = p
    BY <1>1, PairFacts
  <2>2. (CHOOSE q \in pairs : q[2] = r) = p
    BY <1>1, <2>1
  <2>. QED
    BY <1>1, <2>2, Zenon DEF Source
<1>2. (~ \E p \in pairs : p[2] = r) => Source(pairs, r) = r
  BY DEF Source
<1>. QED
  BY <1>1, <1>2

\* The fields of the state that Compute starts from.
LEMMA BaseParts ==
    ASSUME NEW prev, NEW rep
    PROVE  LET pairs == PairRefChanges(prev, rep.obs)
               b == Base(prev, rep)
           IN /\ b.findings = Rekey(pairs, prev.findings) /\ b.eol = Rekey(pairs, prev.eol)
              /\ b.eosl = Rekey(pairs, prev.eosl) /\ b.muted = Moved(pairs, prev.muted)
              /\ b.images = Restricted(prev.images, Refs \ {p[1] : p \in pairs})
BY DEF Base, CarryOverRefChanges

\* The results of Compute.
LEMMA ComputeParts ==
    ASSUME NEW prev, NEW rep
    PROVE  /\ Compute(prev, rep).next = NextState(Base(prev, rep), rep)
           /\ Compute(prev, rep).diff = DiffOf(Base(prev, rep), rep, PairRefChanges(prev, rep.obs))
BY DEF Compute, Base

\* The next state's records of findings: one judged in this cycle for every
\* reference that shows findings, the previous one for those carried over.
LEMMA NextFindings ==
    ASSUME NEW b, NEW rep
    PROVE  /\ DOMAIN NextState(b, rep).findings = Cur(rep) \cup Carried(b, rep)
           /\ \A r \in Cur(rep) : NextState(b, rep).findings[r] = JudgedEntry(b, rep, r)
           /\ \A r \in Carried(b, rep) :
                /\ r \notin Cur(rep) /\ r \in DOMAIN b.findings
                /\ NextState(b, rep).findings[r] = b.findings[r]
BY DEF NextState, Carried

\* The same of the end-of-life records.
LEMMA NextEOL ==
    ASSUME NEW b, NEW rep
    PROVE  /\ DOMAIN NextState(b, rep).eol = CurEOL(rep) \cup CarriedEOL(b, rep)
           /\ \A r \in CurEOL(rep) : NextState(b, rep).eol[r] = EOLEntry(b, rep, r)
           /\ \A r \in CarriedEOL(b, rep) :
                /\ r \notin CurEOL(rep) /\ r \in DOMAIN b.eol
                /\ NextState(b, rep).eol[r] = b.eol[r]
BY DEF NextState, CarriedEOL

\* The references the next state has records of.
LEMMA NextDomains ==
    ASSUME NEW b, NEW rep
    PROVE  /\ DOMAIN NextState(b, rep).findings = Cur(rep) \cup Carried(b, rep)
           /\ DOMAIN NextState(b, rep).eol = CurEOL(rep) \cup CarriedEOL(b, rep)
           /\ DOMAIN NextState(b, rep).eosl = CurEOSL(rep) \cup CarriedEOSL(b, rep)
BY DEF NextState

\* Every reference of the report is recorded, with what runs under it.
LEMMA NextImages ==
    ASSUME NEW b, NEW rep
    PROVE  /\ DOMAIN NextState(b, rep).images = DOMAIN rep.obs
           /\ \A r \in DOMAIN rep.obs : NextState(b, rep).images[r].cids = rep.obs[r].cids
BY DEF NextState

\* Muting is decided anew for every reference that has findings to hide.
LEMMA NextMuted ==
    ASSUME NEW b, NEW rep
    PROVE  NextState(b, rep).muted = {r \in Cur(rep) \cup HeldKey(b, rep) : MutedNow(b, rep, r)}
BY DEF NextState

\* The fields of an entry judged in this cycle, and of one merged with the
\* previous cycle's because not every scan succeeded.
LEMMA JudgedParts ==
    ASSUME NEW b, NEW rep, NEW r, r \notin Merged(b, rep)
    PROVE  /\ JudgedEntry(b, rep, r).firstSeen = FirstSeenOf(b, rep, r)
           /\ JudgedEntry(b, rep, r).fixable = CurFixable(rep.obs[r])
           /\ JudgedEntry(b, rep, r).prio = CurPrio(rep.obs[r], rep.degraded)
           /\ JudgedEntry(b, rep, r).ids = CurIds(rep.obs[r])
<1>1. CurFixable(rep.obs[r]) \in BOOLEAN
  BY DEF CurFixable
<1>. QED
  BY <1>1 DEF JudgedEntry

\* A record merged with a partly failed scan keeps what either side has
\* (Compute, the partially failed images).
LEMMA MergedParts ==
    ASSUME NEW b, NEW rep, NEW r, r \in Merged(b, rep)
    PROVE  /\ JudgedEntry(b, rep, r).firstSeen = FirstSeenOf(b, rep, r)
           /\ JudgedEntry(b, rep, r).fixable = (CurFixable(rep.obs[r]) \/ b.findings[r].fixable)
           /\ JudgedEntry(b, rep, r).prio = Max({CurPrio(rep.obs[r], rep.degraded), b.findings[r].prio})
           /\ JudgedEntry(b, rep, r).ids = CurIds(rep.obs[r]) \cup b.findings[r].ids
BY DEF JudgedEntry

\* A merged entry keeps the CVEs it had.
LEMMA MergedIds ==
    ASSUME NEW b, NEW rep, NEW r, r \in Merged(b, rep)
    PROVE  /\ r \in DOMAIN b.findings
           /\ JudgedEntry(b, rep, r).ids = CurIds(rep.obs[r]) \cup b.findings[r].ids
<1>1. r \in DOMAIN b.findings
  BY DEF Merged
<1>. QED
  BY <1>1 DEF JudgedEntry

\* The same of the end-of-life entries.
LEMMA JudgedEOLParts ==
    ASSUME NEW b, NEW rep, NEW r, r \notin PartiallyFailed(rep) \cap DOMAIN b.eol
    PROVE  /\ r \in DOMAIN b.eol => EOLEntry(b, rep, r).firstSeen = b.eol[r].firstSeen
           /\ EOLEntry(b, rep, r).prio = CurEOLPrio(rep.obs[r], rep.degraded)
           /\ EOLEntry(b, rep, r).ids = CurEOLIds(rep.obs[r])
BY DEF EOLEntry

\* The same of an end-of-life package's record.
LEMMA MergedEOLParts ==
    ASSUME NEW b, NEW rep, NEW r, r \in PartiallyFailed(rep), r \in DOMAIN b.eol
    PROVE  /\ EOLEntry(b, rep, r).firstSeen = b.eol[r].firstSeen
           /\ EOLEntry(b, rep, r).prio = Max({CurEOLPrio(rep.obs[r], rep.degraded), b.eol[r].prio})
           /\ EOLEntry(b, rep, r).ids = CurEOLIds(rep.obs[r]) \cup b.eol[r].ids
BY DEF EOLEntry

\* What a cycle reports as changed: the references whose kind of change is not
\* "none".
LEMMA DiffChanges ==
    ASSUME NEW b, NEW rep, NEW pairs
    PROVE  /\ DOMAIN DiffOf(b, rep, pairs).changes = {r \in Cur(rep) : KindOf(b, rep, r) # "none"}
           /\ DOMAIN DiffOf(b, rep, pairs).eolChanges = {r \in CurEOL(rep) : EOLKindOf(b, rep, r) # "none"}
BY DEF DiffOf, Restricted

\* What it reports as resolved.
LEMMA DiffResolved ==
    ASSUME NEW b, NEW rep, NEW pairs
    PROVE  /\ DiffOf(b, rep, pairs).resolved = Resolved(b, rep)
           /\ DiffOf(b, rep, pairs).resolvedEOL = DOMAIN b.eol \ (CurEOL(rep) \cup CarriedEOL(b, rep))
BY DEF DiffOf

\* What it reports of distributions past their support.
LEMMA DiffEOSL ==
    ASSUME NEW b, NEW rep, NEW pairs
    PROVE  /\ DiffOf(b, rep, pairs).newEOSL = CurEOSL(rep) \ DOMAIN b.eosl
           /\ DiffOf(b, rep, pairs).resolvedEOSL = DOMAIN b.eosl \ (CurEOSL(rep) \cup CarriedEOSL(b, rep))
BY DEF DiffOf

\* What it reports as replaced and as moved.
LEMMA DiffMoves ==
    ASSUME NEW b, NEW rep, NEW pairs
    PROVE  DiffOf(b, rep, pairs).replaced = Replaced(b, rep) /\ DiffOf(b, rep, pairs).refChanges = pairs
BY DEF DiffOf

-----------------------------------------------------------------------------
\* What runs has been scanned for profiles.
LEMMA Deployed ==
    ASSUME NEW w \in Deployments, w.work # {}
    PROVE  DOMAIN w.runs # {} /\ \A c \in DOMAIN w.runs : w.runs[c] \in Profiles
<1>1. PICK f \in UNION {[S -> Profiles] : S \in (SUBSET Contents) \ {{}}} : w.runs = f
  BY DEF Deployments
<1>2. PICK S \in (SUBSET Contents) \ {{}} : f \in [S -> Profiles]
  OBVIOUS
<1>3. S # {} /\ DOMAIN w.runs = S /\ \A c \in S : w.runs[c] \in Profiles
  BY <1>1, <1>2
<1>. QED
  BY <1>3

\* What a scan that succeeded shows.
LEMMA ViewFacts ==
    ASSUME NEW runs, \A c \in DOMAIN runs : runs[c] \in Profiles, NEW S \in SUBSET DOMAIN runs,
           NEW c, NEW u \in BOOLEAN, NEW v \in Views(runs, S, c, u)
    PROVE  /\ DOMAIN v = S /\ \A x \in S : v[x] \in Profiles
           /\ ~u => \A x \in S : v[x] = runs[x]
<1>1. CASE u
  BY <1>1 DEF Views
<1>2. CASE ~u
  BY <1>2 DEF Views
<1>. QED
  BY <1>1, <1>2

\* What a report says of a running reference.
LEMMA ObservationFacts ==
    ASSUME TypeInv, NEW r \in Running, NEW o \in Observations(r)
    PROVE  /\ o.cids = DOMAIN world[r].runs /\ o.cids # {}
           /\ o.unconfirmed \in BOOLEAN /\ o.unchecked \in BOOLEAN
           /\ Scanned(o) \subseteq o.cids
           /\ \A c \in Scanned(o) : o.view[c] \in Profiles
           /\ ~ o.unconfirmed => \A c \in Scanned(o) : o.view[c] = world[r].runs[c]
<1>. DEFINE runs == world[r].runs
            scans == IF "scan" \in Faults THEN SUBSET DOMAIN runs ELSE {DOMAIN runs}
<1>1. r \in Refs /\ world[r] \in Deployments /\ world[r].work # {}
  BY DEF Running, TypeInv
<1>2. DOMAIN runs # {} /\ \A c \in DOMAIN runs : runs[c] \in Profiles
  BY <1>1, Deployed
<1>3. \A u \in Whether("unconfirmed"), k \in Whether("unchecked") : u \in BOOLEAN /\ k \in BOOLEAN
  BY Zenon DEF Whether
<1>4. \A S \in scans : S \in SUBSET DOMAIN runs
  OBVIOUS
<1>5. PICK S \in scans, u \in Whether("unconfirmed"), k \in Whether("unchecked") :
        o \in {[cids |-> DOMAIN runs, work |-> world[r].work, view |-> v, unconfirmed |-> u, unchecked |-> k] :
                  v \in UNION {Views(runs, S, c, u) : c \in IF u THEN S ELSE Contents}}
  BY DEF Observations
<1>6. PICK v \in UNION {Views(runs, S, c, u) : c \in IF u THEN S ELSE Contents} :
        o = [cids |-> DOMAIN runs, work |-> world[r].work, view |-> v, unconfirmed |-> u, unchecked |-> k]
  BY <1>5
<1>7. PICK c : v \in Views(runs, S, c, u)
  BY <1>6
<1>8. /\ DOMAIN v = S /\ \A x \in S : v[x] \in Profiles
      /\ ~u => \A x \in S : v[x] = runs[x]
  <2>1. u \in BOOLEAN /\ S \in SUBSET DOMAIN runs
    BY <1>3, <1>4
  <2>. HIDE DEF runs
  <2>. QED
    BY <1>2, <1>7, <2>1, ViewFacts
<1>9. o.cids = DOMAIN runs /\ o.view = v /\ o.unconfirmed = u /\ o.unchecked = k
  BY <1>6
<1>. QED
  BY <1>2, <1>3, <1>4, <1>8, <1>9 DEF Scanned

\* A report covers what runs.
LEMMA ReportFacts ==
    ASSUME TypeInv, NEW rep \in Reports
    PROVE  /\ DOMAIN rep.obs = Running /\ Running \subseteq Refs
           /\ rep.degraded \in BOOLEAN /\ ("outage" \notin Faults => ~ rep.degraded)
           /\ \A r \in Running : rep.obs[r] \in Observations(r)
<1>1. PICK o \in {f \in [Running -> UNION {Observations(r) : r \in Running}] :
                     \A r \in Running : f[r] \in Observations(r) /\ (ScanFailed(f[r]) => ~f[r].unchecked)},
           d \in Whether("outage") : rep = [obs |-> o, degraded |-> d, now |-> Now]
  BY DEF Reports
<1>2. rep.obs = o /\ rep.degraded = d
  BY <1>1
<1>3. DOMAIN o = Running /\ \A r \in Running : o[r] \in Observations(r)
  BY <1>1
<1>4. d \in BOOLEAN /\ ("outage" \notin Faults => ~d)
  BY <1>1, Zenon DEF Whether
<1>5. Running \subseteq Refs
  BY DEF Running
<1>. QED
  BY <1>2, <1>3, <1>4, <1>5

\* The priority of the groups in a report bounds each group's.
LEMMA PrioFacts ==
    ASSUME NEW o, \A c \in Scanned(o) : o.view[c] \in Profiles, NEW g \in BOOLEAN
    PROVE  /\ CurPrio(o, g) \in 0..3 /\ CurEOLPrio(o, g) \in 0..3
           /\ OrdinaryViews(o) # {} => CurPrio(o, g) \in 1..3
           /\ EOLViews(o) # {} => CurEOLPrio(o, g) \in 1..3
           /\ \A c \in OrdinaryViews(o) : PriorityOf(o.view[c].prio, o.view[c].critical, g) <= CurPrio(o, g)
           /\ \A c \in EOLViews(o) : PriorityOf(o.view[c].eolPrio, o.view[c].critical, g) <= CurEOLPrio(o, g)
<1>. DEFINE S == {0} \cup {PriorityOf(o.view[c].prio, o.view[c].critical, g) : c \in OrdinaryViews(o)}
            T == {0} \cup {PriorityOf(o.view[c].eolPrio, o.view[c].critical, g) : c \in EOLViews(o)}
<1>1. \A p \in Profiles : p.prio \in 1..3 /\ p.eolPrio \in 1..3
  BY DiffAssumption DEF ProfileType, Priorities, PriorityLow, PriorityWatch, PriorityActNow
<1>2. \A x \in 1..3 : \A y : PriorityOf(x, y, g) \in 1..3
  BY DEF PriorityOf, PriorityWatch, PriorityActNow
<1>3. OrdinaryViews(o) \subseteq Scanned(o) /\ EOLViews(o) \subseteq Scanned(o)
  BY DEF OrdinaryViews, EOLViews
<1>4. S \subseteq 0..3 /\ T \subseteq 0..3 /\ S # {} /\ T # {}
  BY <1>1, <1>2, <1>3
<1>5. CurPrio(o, g) = Max(S) /\ CurEOLPrio(o, g) = Max(T)
  BY DEF CurPrio, CurEOLPrio
<1>6. Max(S) \in S /\ (\A y \in S : y <= Max(S)) /\ Max(T) \in T /\ (\A y \in T : y <= Max(T))
  <2>. HIDE DEF S, T
  <2>. QED
    BY <1>4, MaxFacts, Zenon
<1>7. /\ CurPrio(o, g) \in 0..3 /\ CurEOLPrio(o, g) \in 0..3
      /\ \A c \in OrdinaryViews(o) : PriorityOf(o.view[c].prio, o.view[c].critical, g) <= CurPrio(o, g)
      /\ \A c \in EOLViews(o) : PriorityOf(o.view[c].eolPrio, o.view[c].critical, g) <= CurEOLPrio(o, g)
  BY <1>4, <1>5, <1>6, Zenon
<1>8. /\ \A c \in OrdinaryViews(o) : PriorityOf(o.view[c].prio, o.view[c].critical, g) \in 1..3
      /\ \A c \in EOLViews(o) : PriorityOf(o.view[c].eolPrio, o.view[c].critical, g) \in 1..3
  BY <1>1, <1>2, <1>3
<1>. QED
  BY <1>7, <1>8

\* A record keeps its priority when it moves.
LEMMA BaseType ==
    ASSUME NEW prev, NEW rep, StoreType(prev)
    PROVE  StoreType(Base(prev, rep))
<1>. DEFINE pairs == PairRefChanges(prev, rep.obs)
            b == Base(prev, rep)
<1>1. \A S : Moved(pairs, S) \subseteq Refs /\ \A r \in Moved(pairs, S) : Source(pairs, r) \in S
  BY DEF Moved
<1>2. \A f : DOMAIN Rekey(pairs, f) = Moved(pairs, DOMAIN f) /\ \A r \in Moved(pairs, DOMAIN f) : Rekey(pairs, f)[r] = f[Source(pairs, r)]
  BY DEF Rekey
<1>3. /\ b.findings = Rekey(pairs, prev.findings) /\ b.eol = Rekey(pairs, prev.eol)
      /\ b.eosl = Rekey(pairs, prev.eosl) /\ b.muted = Moved(pairs, prev.muted)
      /\ b.images = Restricted(prev.images, Refs \ {p[1] : p \in pairs})
  BY BaseParts, Zenon
<1>. HIDE DEF pairs, b
<1>4. DOMAIN b.images \subseteq Refs
  BY <1>3 DEF StoreType, Restricted
<1>5. DOMAIN b.findings \subseteq Refs /\ DOMAIN b.eol \subseteq Refs /\ DOMAIN b.eosl \subseteq Refs /\ b.muted \subseteq Refs
  BY <1>1, <1>2, <1>3
<1>6. \A r \in DOMAIN b.findings : b.findings[r].prio \in 1..3
  BY <1>1, <1>2, <1>3 DEF StoreType
<1>7. \A r \in DOMAIN b.eol : b.eol[r].prio \in 1..3
  BY <1>1, <1>2, <1>3 DEF StoreType
<1>8. StoreType(b)
  BY <1>4, <1>5, <1>6, <1>7 DEF StoreType
<1>. QED
  BY <1>8 DEF b

\* What Compute saves is well formed.
LEMMA NextType ==
    ASSUME TypeInv, NEW rep \in Reports
    PROVE  StoreType(Compute(store, rep).next)
<1>. DEFINE b == Base(store, rep)
            n == NextState(b, rep)
<1>1. StoreType(b)
  BY BaseType DEF TypeInv
<1>. HIDE DEF b
<1>2. DOMAIN rep.obs \subseteq Refs /\ rep.degraded \in BOOLEAN /\ \A r \in DOMAIN rep.obs : \A c \in Scanned(rep.obs[r]) : rep.obs[r].view[c] \in Profiles
  BY ReportFacts, ObservationFacts
<1>3. Cur(rep) \subseteq DOMAIN rep.obs /\ CurEOL(rep) \subseteq DOMAIN rep.obs /\ CurEOSL(rep) \subseteq DOMAIN rep.obs
  BY DEF Cur, CurEOL, CurEOSL
<1>4. Carried(b, rep) \subseteq DOMAIN b.findings /\ CarriedEOL(b, rep) \subseteq DOMAIN b.eol /\ CarriedEOSL(b, rep) \subseteq DOMAIN b.eosl
      /\ HeldKey(b, rep) \subseteq DOMAIN b.findings \cup DOMAIN b.eol
  BY DEF Carried, CarriedEOL, CarriedEOSL, HeldKey, Merged
<1>5. ASSUME NEW r \in Cur(rep) PROVE JudgedEntry(b, rep, r).prio \in 1..3
  <2>1. CurPrio(rep.obs[r], rep.degraded) \in 1..3
    BY <1>2, <1>3, PrioFacts DEF Cur
  <2>2. r \in Merged(b, rep) => b.findings[r].prio \in 1..3
    BY <1>1 DEF StoreType, Merged
  <2>3. r \in Merged(b, rep) => Max({CurPrio(rep.obs[r], rep.degraded), b.findings[r].prio}) \in 1..3
    BY <2>1, <2>2, MaxOfTwo, SMTT(30)
  <2>4. CASE r \in Merged(b, rep)
    BY <2>3, <2>4, MergedParts
  <2>5. CASE r \notin Merged(b, rep)
    <3>1. JudgedEntry(b, rep, r).prio = CurPrio(rep.obs[r], rep.degraded)
      BY <2>5, JudgedParts
    <3>. QED
      BY <2>1, <3>1
  <2>. QED
    BY <2>4, <2>5
<1>6. ASSUME NEW r \in CurEOL(rep) PROVE EOLEntry(b, rep, r).prio \in 1..3
  <2>1. CurEOLPrio(rep.obs[r], rep.degraded) \in 1..3
    BY <1>2, <1>3, PrioFacts DEF CurEOL
  <2>2. r \in PartiallyFailed(rep) \cap DOMAIN b.eol => b.eol[r].prio \in 1..3
    BY <1>1 DEF StoreType
  <2>3. r \in PartiallyFailed(rep) \cap DOMAIN b.eol => Max({CurEOLPrio(rep.obs[r], rep.degraded), b.eol[r].prio}) \in 1..3
    BY <2>1, <2>2, MaxOfTwo
  <2>4. CASE r \in PartiallyFailed(rep) \cap DOMAIN b.eol
    BY <2>3, <2>4, MergedEOLParts
  <2>5. CASE r \notin PartiallyFailed(rep) \cap DOMAIN b.eol
    <3>1. EOLEntry(b, rep, r).prio = CurEOLPrio(rep.obs[r], rep.degraded)
      BY <2>5, JudgedEOLParts
    <3>. QED
      BY <2>1, <3>1
  <2>. QED
    BY <2>4, <2>5
<1>7. StoreType(n)
  <2>1. DOMAIN n.findings \subseteq Refs /\ DOMAIN n.eol \subseteq Refs
    BY <1>1, <1>2, <1>3, <1>4, NextDomains DEF StoreType
  <2>2. DOMAIN n.eosl \subseteq Refs /\ DOMAIN n.images \subseteq Refs /\ n.muted \subseteq Refs
    BY <1>1, <1>2, <1>3, <1>4, NextDomains, NextImages, NextMuted DEF StoreType
  <2>3. \A r \in DOMAIN n.findings : n.findings[r].prio \in 1..3
    BY <1>1, <1>5, NextFindings DEF StoreType
  <2>4. \A r \in DOMAIN n.eol : n.eol[r].prio \in 1..3
    BY <1>1, <1>6, NextEOL DEF StoreType
  <2>. QED
    BY <2>1, <2>2, <2>3, <2>4 DEF StoreType
<1>. QED
  BY <1>7, ComputeParts DEF b

-----------------------------------------------------------------------------
\* What a change of reference adds to what a reader knows.
Moves(T, pairs) == UNION {{<<p[2], x[2]>> : x \in {y \in T : y[1] = p[1]}} : p \in pairs}

\* A message adds rows and moves, and nothing when there is no change.
LEMMA ShownFacts ==
    ASSUME NEW T, NEW diff, NEW rep
    PROVE  /\ Shown(T, diff, rep) = (T \cup Moves(T, diff.refChanges)) \cup Rows(diff, rep)
           /\ ~ HasChanges(diff) => Shown(T, diff, rep) = T
<1>1. Shown(T, diff, rep) = (T \cup Moves(T, diff.refChanges)) \cup Rows(diff, rep)
  BY DEF Shown, Moves
<1>2. ASSUME ~ HasChanges(diff) PROVE Moves(T, diff.refChanges) = {} /\ Rows(diff, rep) = {}
  <2>1. diff.refChanges = {} /\ DOMAIN diff.changes = {} /\ DOMAIN diff.eolChanges = {}
    BY <1>2 DEF HasChanges
  <2>. QED
    BY <2>1 DEF Moves, Rows
<1>. QED
  BY <1>1, <1>2

\* A row shows the CVEs of a change, and that it is act_now.
LEMMA RowFacts ==
    ASSUME NEW diff, NEW rep, NEW r, NEW v
    PROVE  /\ r \in DOMAIN diff.changes /\ v \in OrdinaryRow(rep.obs[r], rep.degraded) => <<r, v>> \in Rows(diff, rep)
           /\ r \in DOMAIN diff.eolChanges /\ v \in EOLRow(rep.obs[r], rep.degraded) => <<r, v>> \in Rows(diff, rep)
<1>1. ASSUME r \in DOMAIN diff.changes, v \in OrdinaryRow(rep.obs[r], rep.degraded) PROVE <<r, v>> \in Rows(diff, rep)
  <2>1. <<r, v>> \in {r} \X OrdinaryRow(rep.obs[r], rep.degraded)
    BY <1>1
  <2>2. <<r, v>> \in UNION {{s} \X OrdinaryRow(rep.obs[s], rep.degraded) : s \in DOMAIN diff.changes}
    BY <1>1, <2>1
  <2>. QED
    BY <2>2 DEF Rows
<1>2. ASSUME r \in DOMAIN diff.eolChanges, v \in EOLRow(rep.obs[r], rep.degraded) PROVE <<r, v>> \in Rows(diff, rep)
  <2>1. <<r, v>> \in {r} \X EOLRow(rep.obs[r], rep.degraded)
    BY <1>2
  <2>2. <<r, v>> \in UNION {{s} \X EOLRow(rep.obs[s], rep.degraded) : s \in DOMAIN diff.eolChanges}
    BY <1>2, <2>1
  <2>. QED
    BY <2>2 DEF Rows
<1>. QED
  BY <1>1, <1>2

\* Where a moved record comes from.
LEMMA MovedFacts ==
    ASSUME NEW prev, NEW obs, NEW S, NEW r \in Moved(PairRefChanges(prev, obs), S)
    PROVE  LET pairs == PairRefChanges(prev, obs)
               s == Source(pairs, r)
           IN /\ r \in Refs /\ s \in S
              /\ \A T : s \in T <=> r \in Moved(pairs, T)
              /\ s = r \/ \E p \in pairs : p[2] = r /\ p[1] = s
<1>1. \A T : Source(PairRefChanges(prev, obs), r) \in T <=> r \in Moved(PairRefChanges(prev, obs), T)
  BY DEF Moved
<1>2. r \in Refs /\ Source(PairRefChanges(prev, obs), r) \in S
  BY DEF Moved
<1>. QED
  BY <1>1, <1>2, SourceFacts

\* A moved record as a record.
LEMMA RekeyFacts ==
    ASSUME NEW pairs, NEW f
    PROVE  /\ DOMAIN Rekey(pairs, f) = Moved(pairs, DOMAIN f)
           /\ \A r \in Moved(pairs, DOMAIN f) : Rekey(pairs, f)[r] = f[Source(pairs, r)]
BY DEF Rekey

\* Who knew something of the old reference knows it of the new one.
LEMMA KnownMoves ==
    ASSUME NEW prev, NEW obs, NEW T, NEW S, NEW r \in Moved(PairRefChanges(prev, obs), S), NEW v,
           <<Source(PairRefChanges(prev, obs), r), v>> \in T
    PROVE  <<r, v>> \in T \cup Moves(T, PairRefChanges(prev, obs))
<1>. DEFINE pairs == PairRefChanges(prev, obs)
<1>1. CASE Source(pairs, r) = r
  BY <1>1
<1>2. CASE Source(pairs, r) # r
  <2>1. PICK p \in pairs : p[2] = r /\ p[1] = Source(pairs, r)
    BY <1>2, MovedFacts
  <2>2. <<p[2], (<<p[1], v>>)[2]>> \in Moves(T, pairs)
    BY <2>1 DEF Moves
  <2>. QED
    BY <2>1, <2>2
<1>. QED
  BY <1>1, <1>2

\* T shows all that the state s knows and muting does not hide.
VisibleIn(s, T) ==
    \A r \in Refs :
        /\ r \notin s.muted => \A v \in PrevIds(s.findings, r) : <<r, v>> \in T
        /\ \A v \in PrevIds(s.eol, r) : <<r, v>> \in T

\* The same of all that the state knows.
LEMMA VisibleMoves ==
    ASSUME NEW prev, NEW rep, NEW T, StoreType(prev), VisibleIn(prev, T)
    PROVE  VisibleIn(Base(prev, rep), T \cup Moves(T, PairRefChanges(prev, rep.obs)))
<1>. DEFINE pairs == PairRefChanges(prev, rep.obs)
            b == Base(prev, rep)
            M == T \cup Moves(T, pairs)
<1>1. /\ b.findings = Rekey(pairs, prev.findings) /\ b.eol = Rekey(pairs, prev.eol)
      /\ b.muted = Moved(pairs, prev.muted)
  BY BaseParts, Zenon
<1>2. ASSUME NEW S, NEW r \in Moved(pairs, S), NEW v, <<Source(pairs, r), v>> \in T
      PROVE  <<r, v>> \in M
  BY <1>2, KnownMoves
<1>3. ASSUME NEW r \in Refs, r \notin b.muted, NEW v \in PrevIds(b.findings, r) PROVE <<r, v>> \in M
  <2>1. r \in Moved(pairs, DOMAIN prev.findings) /\ v \in prev.findings[Source(pairs, r)].ids
    BY <1>1, <1>3, RekeyFacts DEF PrevIds
  <2>2. Source(pairs, r) \notin prev.muted /\ Source(pairs, r) \in DOMAIN prev.findings
    BY <1>1, <1>3, <2>1, MovedFacts
  <2>3. <<Source(pairs, r), v>> \in T
    BY <2>1, <2>2 DEF VisibleIn, StoreType, PrevIds
  <2>. QED
    BY <1>2, <2>1, <2>3
<1>4. ASSUME NEW r \in Refs, NEW v \in PrevIds(b.eol, r) PROVE <<r, v>> \in M
  <2>1. r \in Moved(pairs, DOMAIN prev.eol) /\ v \in prev.eol[Source(pairs, r)].ids
    BY <1>1, <1>4, RekeyFacts DEF PrevIds
  <2>2. Source(pairs, r) \in DOMAIN prev.eol
    BY <2>1, MovedFacts
  <2>3. <<Source(pairs, r), v>> \in T
    BY <2>1, <2>2 DEF VisibleIn, StoreType, PrevIds
  <2>. QED
    BY <1>2, <2>1, <2>3
<1>. QED
  BY <1>3, <1>4 DEF VisibleIn

\* A key in the report whose muting is held was merged, and no such key is
\* muted by its groups.
LEMMA HeldFacts ==
    ASSUME NEW b, NEW rep
    PROVE  /\ \A r \in Cur(rep) : r \in HeldKey(b, rep) =>
                 r \in Merged(b, rep) /\ ~ GroupsMuted(rep.obs[r], rep.degraded)
           /\ Merged(b, rep) \subseteq HeldKey(b, rep) /\ Carried(b, rep) \subseteq HeldKey(b, rep)
<1>1. \A r \in Cur(rep) : r \notin Carried(b, rep) /\ r \notin Unchecked(rep)
  BY DEF Cur, Carried, Unchecked, OrdinaryViews
<1>2. \A r \in Merged(b, rep) : ~ GroupsMuted(rep.obs[r], rep.degraded)
  BY DEF Merged, PartiallyFailed, GroupsMuted
<1>. QED
  BY <1>1, <1>2 DEF HeldKey

\* Who knew the old state knows the new one, once shown the rows.
LEMMA VisibleNext ==
    ASSUME NEW b, NEW rep, NEW pairs, NEW T, VisibleIn(b, T), StoreType(b), DOMAIN rep.obs \subseteq Refs
    PROVE  VisibleIn(NextState(b, rep), T \cup Rows(DiffOf(b, rep, pairs), rep))
<1>. DEFINE n == NextState(b, rep)
            d == DiffOf(b, rep, pairs)
<1>1. ASSUME NEW r \in Refs, r \notin n.muted, NEW v \in PrevIds(n.findings, r), <<r, v>> \notin Rows(d, rep)
      PROVE  <<r, v>> \in T
  <2>1. r \in Cur(rep) \cup HeldKey(b, rep) => ~ MutedNow(b, rep, r)
    BY <1>1, NextMuted
  <2>2. CASE r \in Cur(rep)
    <3>1. ~ GroupsMuted(rep.obs[r], rep.degraded) /\ (r \in HeldKey(b, rep) => r \notin b.muted)
      BY <2>1, <2>2, HeldFacts DEF MutedNow
    <3>2. v \in JudgedEntry(b, rep, r).ids
      BY <1>1, <2>2, NextFindings DEF PrevIds
    <3>3. CASE v \in CurIds(rep.obs[r])
      <4>1. v \in OrdinaryRow(rep.obs[r], rep.degraded)
        BY <3>1, <3>3 DEF OrdinaryRow
      <4>2. r \notin DOMAIN d.changes
        BY <1>1, <4>1, RowFacts
      <4>3. KindOf(b, rep, r) = "none"
        BY <2>2, <4>2, DiffChanges
      <4>4. /\ HasFindingsFor(b, r)
            /\ CurIds(rep.obs[r]) \ (PrevIds(b.findings, r) \cup PrevIds(b.eol, r)) = {}
            /\ ~ (r \in b.muted /\ ~ MutedNow(b, rep, r))
        BY <4>3 DEF KindOf
      <4>5. r \notin b.muted /\ v \in PrevIds(b.findings, r) \cup PrevIds(b.eol, r)
        BY <2>1, <2>2, <3>3, <4>4
      <4>. QED
        BY <4>5 DEF VisibleIn
    <3>4. CASE v \notin CurIds(rep.obs[r])
      <4>1. r \in Merged(b, rep)
        BY <3>2, <3>4, JudgedParts
      <4>2. JudgedEntry(b, rep, r).ids = CurIds(rep.obs[r]) \cup b.findings[r].ids /\ r \in DOMAIN b.findings
        BY <4>1, MergedIds
      <4>4. v \in b.findings[r].ids
        BY <3>2, <3>4, <4>2
      <4>3. r \notin b.muted
        BY <3>1, <4>1, HeldFacts
      <4>. QED
        BY <4>2, <4>3, <4>4 DEF VisibleIn, PrevIds
    <3>. QED
      BY <3>3, <3>4
  <2>3. CASE r \notin Cur(rep)
    <3>1. r \in Carried(b, rep) /\ r \in DOMAIN b.findings /\ v \in b.findings[r].ids
      BY <1>1, <2>3, NextFindings DEF PrevIds
    <3>2. r \notin b.muted
      BY <2>1, <3>1, HeldFacts DEF MutedNow
    <3>. QED
      BY <3>1, <3>2 DEF VisibleIn, PrevIds
  <2>. QED
    BY <2>2, <2>3
<1>2. ASSUME NEW r \in Refs, NEW v \in PrevIds(n.eol, r), <<r, v>> \notin Rows(d, rep)
      PROVE  <<r, v>> \in T
  <2>1. CASE r \in CurEOL(rep)
    <3>1. v \in EOLEntry(b, rep, r).ids
      BY <1>2, <2>1, NextEOL DEF PrevIds
    <3>2. CASE v \in CurEOLIds(rep.obs[r])
      <4>1. v \in EOLRow(rep.obs[r], rep.degraded)
        BY <3>2 DEF EOLRow
      <4>2. r \notin DOMAIN d.eolChanges
        BY <1>2, <4>1, RowFacts
      <4>3. EOLKindOf(b, rep, r) = "none"
        BY <2>1, <4>2, DiffChanges
      <4>4. r \in DOMAIN b.eol /\ CurEOLIds(rep.obs[r]) \ b.eol[r].ids = {}
        BY <4>3 DEF EOLKindOf
      <4>. QED
        BY <3>2, <4>4 DEF VisibleIn, PrevIds
    <3>3. CASE v \notin CurEOLIds(rep.obs[r])
      <4>1. r \in PartiallyFailed(rep) \cap DOMAIN b.eol
        BY <3>1, <3>3, JudgedEOLParts
      <4>2. EOLEntry(b, rep, r).ids = CurEOLIds(rep.obs[r]) \cup b.eol[r].ids
        BY <4>1 DEF EOLEntry
      <4>3. v \in b.eol[r].ids
        BY <3>1, <3>3, <4>2
      <4>. QED
        BY <4>1, <4>3 DEF VisibleIn, PrevIds
    <3>. QED
      BY <3>2, <3>3
  <2>2. CASE r \notin CurEOL(rep)
    <3>1. r \in DOMAIN b.eol /\ v \in b.eol[r].ids
      BY <1>2, <2>2, NextEOL DEF PrevIds
    <3>. QED
      BY <3>1 DEF VisibleIn, PrevIds
  <2>. QED
    BY <2>1, <2>2
<1>. QED
  BY <1>1, <1>2 DEF VisibleIn

\* The two together: what Compute saves is visible to whom it was shown.
LEMMA VisibleStep ==
    ASSUME TypeInv, NEW rep \in Reports, NEW T, VisibleIn(store, T)
    PROVE  VisibleIn(Compute(store, rep).next, Shown(T, Compute(store, rep).diff, rep))
<1>. DEFINE pairs == PairRefChanges(store, rep.obs)
            b == Base(store, rep)
            d == DiffOf(b, rep, pairs)
<1>1. StoreType(b) /\ VisibleIn(b, T \cup Moves(T, pairs))
  BY VisibleMoves, BaseType DEF TypeInv
<1>2. DOMAIN rep.obs \subseteq Refs
  BY ReportFacts
<1>3. d.refChanges = pairs
  BY DiffMoves
<1>4. Shown(T, d, rep) = (T \cup Moves(T, pairs)) \cup Rows(d, rep)
  BY <1>3, ShownFacts
<1>5. VisibleIn(NextState(b, rep), (T \cup Moves(T, pairs)) \cup Rows(d, rep))
  BY <1>1, <1>2, VisibleNext, SMTT(30)
<1>. QED
  BY <1>4, <1>5, ComputeParts

-----------------------------------------------------------------------------
\* A cycle saves what every destination has been shown, or saves nothing.
LEMMA CycleStep ==
    ASSUME Cycle
    PROVE  /\ world' = world
           /\ \E rep \in Reports :
                \/ /\ store' = store /\ (settled' => settled)
                   /\ \A d \in Destinations : told[d] \subseteq told'[d]
                \/ /\ store' = Compute(store, rep).next
                   /\ settled' => Complete(rep) \/ (settled /\ Truthful(rep))
                   /\ \A d \in Destinations : told'[d] = Shown(told[d], Compute(store, rep).diff, rep)
<1>1. PICK rep \in Reports : RunOnce(rep, SUBSET Destinations, BOOLEAN)
  BY DEF Cycle
<1>. DEFINE c == Compute(store, rep)
            due == ReportDue(store, rep, c.diff)
<1>2. PICK sent \in IF due THEN SUBSET Destinations ELSE {{}}, ok \in BOOLEAN :
        LET saved == ok /\ (due => MayBeSaved(sent))
        IN /\ told' = [d \in Destinations |-> IF d \in sent THEN Shown(told[d], c.diff, rep) ELSE told[d]]
           /\ store' = IF saved THEN c.next ELSE store
           /\ clock' = IF saved THEN Now ELSE clock
           /\ settled' = \/ saved /\ Complete(rep)
                         \/ settled /\ (saved => Truthful(rep))
           /\ news' = IF saved THEN NewsAfter(c) ELSE news
           /\ UNCHANGED world
  BY <1>1 DEF RunOnce
<1>. DEFINE saved == ok /\ (due => MayBeSaved(sent))
<1>3. \A d \in Destinations : told'[d] = IF d \in sent THEN Shown(told[d], c.diff, rep) ELSE told[d]
  BY <1>2
<1>4. world' = world /\ store' = (IF saved THEN c.next ELSE store)
  BY <1>2
<1>5. settled' => (saved /\ Complete(rep)) \/ (settled /\ (saved => Truthful(rep)))
  BY <1>2, Zenon
<1>6. CASE ~ saved
  <2>1. \A d \in Destinations : told[d] \subseteq Shown(told[d], c.diff, rep)
    BY DEF Shown
  <2>2. \A d \in Destinations : told[d] \subseteq told'[d]
    BY <1>3, <2>1
  <2>3. store' = store /\ (settled' => settled)
    BY <1>4, <1>5, <1>6
  <2>. QED
    BY <1>4, <2>2, <2>3
<1>7. CASE saved
  <2>1. \A d \in Destinations : told'[d] = Shown(told[d], c.diff, rep)
    <3>1. CASE due
      BY <1>3, <1>7, <3>1 DEF MayBeSaved
    <3>2. CASE ~ due
      <4>1. ~ HasChanges(c.diff) /\ sent = {}
        BY <3>2, <1>2 DEF ReportDue
      <4>2. \A d \in Destinations : Shown(told[d], c.diff, rep) = told[d]
        BY <4>1, ShownFacts
      <4>. QED
        BY <1>3, <4>1, <4>2
    <3>. QED
      BY <3>1, <3>2
  <2>2. store' = c.next /\ (settled' => Complete(rep) \/ (settled /\ Truthful(rep)))
    BY <1>4, <1>5, <1>7
  <2>. QED
    BY <1>4, <2>1, <2>2
<1>. QED
  BY <1>6, <1>7

\* The empty state.
LEMMA EmptyParts ==
    /\ DOMAIN Empty.findings = {} /\ DOMAIN Empty.eol = {} /\ DOMAIN Empty.eosl = {}
    /\ DOMAIN Empty.images = {} /\ Empty.muted = {}
BY DEF Empty

\* The empty state a first run starts from (Load without a file).
LEMMA InitType == Init => TypeInv /\ VisibleMeansTold
<1>. SUFFICES ASSUME Init PROVE TypeInv /\ VisibleMeansTold
  OBVIOUS
<1>1. [runs |-> <<>>, work |-> {}] \in Deployments
  BY DEF Deployments
<1>2. world \in [Refs -> Deployments]
  BY <1>1 DEF Init
<1>3. store = Empty
  BY DEF Init
<1>. QED
  BY <1>2, <1>3, EmptyParts DEF TypeInv, StoreType, VisibleMeansTold, PrevIds

\* Only Deploy changes what runs, only Cycle and CorruptStore what is stored.
LEMMA TypeStep == ASSUME TypeInv, [Next]_vars PROVE TypeInv'
<1>1. CASE Cycle
  <2>1. world' = world
    BY <1>1, CycleStep
  <2>2. store' = store \/ \E rep \in Reports : store' = Compute(store, rep).next
    BY <1>1, CycleStep
  <2>3. StoreType(store')
    BY <2>2, NextType DEF TypeInv
  <2>. QED
    BY <2>1, <2>3 DEF TypeInv
<1>2. CASE CorruptStore
  BY <1>2, EmptyParts DEF CorruptStore, TypeInv, StoreType
<1>3. CASE \E r \in Refs : Deploy(r)
  <2>1. PICK r \in Refs : Deploy(r)
    BY <1>3
  <2>2. PICK w \in Deployments : world' = [world EXCEPT ![r] = w]
    BY <2>1, Zenon DEF Deploy
  <2>3. store' = store
    BY <2>1 DEF Deploy
  <2>. QED
    BY <2>2, <2>3 DEF TypeInv
<1>4. CASE UNCHANGED vars
  BY <1>4 DEF vars, TypeInv
<1>. QED
  BY <1>1, <1>2, <1>3, <1>4 DEF Next

\* The records are of references, with priorities, in every state.
LEMMA TypeAlways == Spec => []TypeInv
<1>1. TypeInv /\ [Next]_vars => TypeInv'
  BY TypeStep
<1>. QED
  BY InitType, <1>1, PTL DEF Spec

\* A cycle saves a row only after every destination has had it; an undelivered
\* cycle saves nothing (RunCycle).
LEMMA ToldStep == ASSUME TypeInv, VisibleMeansTold, [Next]_vars PROVE VisibleMeansTold'
<1>1. \A d \in Destinations : VisibleIn(store, told[d])
  BY DEF VisibleMeansTold, VisibleIn
<1>2. CASE Cycle
  <2>1. PICK rep \in Reports :
           \/ store' = store /\ \A d \in Destinations : told[d] \subseteq told'[d]
           \/ /\ store' = Compute(store, rep).next
              /\ \A d \in Destinations : told'[d] = Shown(told[d], Compute(store, rep).diff, rep)
    BY <1>2, CycleStep
  <2>2. CASE store' = store /\ \A d \in Destinations : told[d] \subseteq told'[d]
    BY <2>2 DEF VisibleMeansTold
  <2>3. CASE /\ store' = Compute(store, rep).next
             /\ \A d \in Destinations : told'[d] = Shown(told[d], Compute(store, rep).diff, rep)
    <3>1. \A d \in Destinations : VisibleIn(store', told'[d])
      BY <1>1, <2>3, VisibleStep
    <3>. QED
      BY <3>1 DEF VisibleMeansTold, VisibleIn
  <2>. QED
    BY <2>1, <2>2, <2>3
<1>3. CASE CorruptStore
  BY <1>3, EmptyParts DEF CorruptStore, VisibleMeansTold, PrevIds
<1>4. CASE \E r \in Refs : Deploy(r)
  BY <1>4 DEF Deploy, VisibleMeansTold
<1>5. CASE UNCHANGED vars
  BY <1>5 DEF vars, VisibleMeansTold
<1>. QED
  BY <1>2, <1>3, <1>4, <1>5 DEF Next

-----------------------------------------------------------------------------
\* A CVE that the state knows and muting does not hide has been shown to every
\* destination, whatever deliveries, scans, feeds and saves fail (sendDiff,
\* state.Compute).
THEOREM NothingUntold == Spec => []VisibleMeansTold
<1>1. TypeInv /\ VisibleMeansTold /\ [Next]_vars => (TypeInv /\ VisibleMeansTold)'
  BY TypeStep, ToldStep
<1>. QED
  BY InitType, <1>1, PTL DEF Spec

\* A reference with records of its own takes part in no pair, unless it goes.
LEMMA OwnRecords ==
    ASSUME NEW rep, NEW r \in Refs, HasHistory(store, r)
    PROVE  LET pairs == PairRefChanges(store, rep.obs)
           IN /\ ~ \E p \in pairs : p[2] = r
              /\ Source(pairs, r) = r
              /\ \A S : r \in Moved(pairs, S) <=> r \in S /\ ~ \E p \in pairs : p[1] = r
<1>. DEFINE pairs == PairRefChanges(store, rep.obs)
<1>1. ~ \E p \in pairs : p[2] = r
  BY PairFacts
<1>2. Source(pairs, r) = r
  BY <1>1, SourceFacts
<1>. QED
  BY <1>1, <1>2 DEF Moved

\* The records of a state, no younger than the dates m of the references.
Aged(s, m) ==
    \A r \in Refs :
        /\ m[r] \in Nat
        /\ r \in DOMAIN s.findings => s.findings[r].firstSeen \in Nat /\ s.findings[r].firstSeen <= m[r]
        /\ r \in DOMAIN s.eol => s.eol[r].firstSeen = m[r]

AgeInv ==
    /\ clock \in Nat
    /\ \A r \in Refs : news[r] <= clock
    /\ Aged(store, news)

\* Records under a reference come from a reference.
LEMMA SourceIsRef ==
    ASSUME TypeInv, NEW rep, NEW r \in Refs
    PROVE  Source(PairRefChanges(store, rep.obs), r) \in Refs
<1>. DEFINE pairs == PairRefChanges(store, rep.obs)
<1>1. CASE \E p \in pairs : p[2] = r
  <2>1. PICK p \in pairs : p[2] = r
    BY <1>1
  <2>2. Source(pairs, r) = p[1]
    BY <2>1, SourceFacts
  <2>3. p[1] \in DOMAIN store.images
    BY <2>1, PairFacts
  <2>. QED
    BY <2>2, <2>3 DEF TypeInv, StoreType
<1>2. CASE ~ \E p \in pairs : p[2] = r
  BY <1>2, SourceFacts
<1>. QED
  BY <1>1, <1>2

\* The dates move with the records (carryOverRefChanges).
LEMMA AgedMoves ==
    ASSUME TypeInv, Aged(store, news), NEW rep
    PROVE  Aged(Base(store, rep), [r \in Refs |-> news[Source(PairRefChanges(store, rep.obs), r)]])
<1>. DEFINE pairs == PairRefChanges(store, rep.obs)
            b == Base(store, rep)
<1>1. b.findings = Rekey(pairs, store.findings) /\ b.eol = Rekey(pairs, store.eol)
  BY BaseParts, ZenonT(30)
<1>2. ASSUME NEW r \in Refs
      PROVE  /\ news[Source(pairs, r)] \in Nat
             /\ r \in DOMAIN b.findings =>
                    b.findings[r].firstSeen \in Nat /\ b.findings[r].firstSeen <= news[Source(pairs, r)]
             /\ r \in DOMAIN b.eol => b.eol[r].firstSeen = news[Source(pairs, r)]
  <2>1. Source(pairs, r) \in Refs
    BY SourceIsRef
  <2>. HIDE DEF pairs, b
  <2>0. \A S : r \in Moved(pairs, S) => Source(pairs, r) \in S
    BY DEF Moved
  <2>2. r \in DOMAIN b.findings =>
            Source(pairs, r) \in DOMAIN store.findings /\ b.findings[r] = store.findings[Source(pairs, r)]
    BY <1>1, <2>0, RekeyFacts
  <2>3. r \in DOMAIN b.eol => Source(pairs, r) \in DOMAIN store.eol /\ b.eol[r] = store.eol[Source(pairs, r)]
    BY <1>1, <2>0, RekeyFacts
  <2>. QED
    BY <2>1, <2>2, <2>3 DEF Aged
<1>. HIDE DEF pairs, b
<1>3. Aged(b, [r \in Refs |-> news[Source(pairs, r)]])
  BY <1>2 DEF Aged
<1>. QED
  BY <1>3 DEF pairs, b

\* Whom the messages of a cycle call new.
LEMMA NewsFacts ==
    ASSUME NEW b, NEW rep, NEW pairs, NEW r
    PROVE  r \in CalledNew(DiffOf(b, rep, pairs)) <=>
               \/ r \in Cur(rep) /\ ~ HasFindingsFor(b, r)
               \/ r \in CurEOL(rep) /\ r \notin DOMAIN b.eol
<1>. DEFINE d == DiffOf(b, rep, pairs)
<1>1. /\ \A x \in DOMAIN d.changes : d.changes[x] = KindOf(b, rep, x)
      /\ \A x \in DOMAIN d.eolChanges : d.eolChanges[x] = EOLKindOf(b, rep, x)
  BY DEF DiffOf, Restricted
<1>2. KindOf(b, rep, r) = "new" <=> ~ HasFindingsFor(b, r)
  BY DEF KindOf
<1>3. EOLKindOf(b, rep, r) = "eol_new" <=> r \notin DOMAIN b.eol
  BY DEF EOLKindOf
<1>4. /\ DOMAIN d.changes = {x \in Cur(rep) : KindOf(b, rep, x) # "none"}
      /\ DOMAIN d.eolChanges = {x \in CurEOL(rep) : EOLKindOf(b, rep, x) # "none"}
  BY DiffChanges
<1>. HIDE DEF d
<1>5. r \in CalledNew(d) <=>
          \/ r \in Cur(rep) /\ KindOf(b, rep, r) = "new"
          \/ r \in CurEOL(rep) /\ EOLKindOf(b, rep, r) = "eol_new"
  BY <1>1, <1>4, SMTT(30) DEF CalledNew
<1>. QED
  BY <1>2, <1>3, <1>5, SMTT(30) DEF d

\* A record the next state adds dates from the base's record of the package, or
\* the package is called new (Compute, computeEOL).
LEMMA AgedNext ==
    ASSUME NEW b, NEW m, Aged(b, m), NEW rep, NEW pairs, rep.now \in Nat,
           \A r \in Refs : m[r] <= rep.now,
           NEW r \in Refs
    PROVE  LET s == NextState(b, rep)
               n == IF r \in CalledNew(DiffOf(b, rep, pairs)) THEN rep.now ELSE m[r]
           IN /\ r \in DOMAIN s.findings => s.findings[r].firstSeen \in Nat /\ s.findings[r].firstSeen <= n
              /\ r \in DOMAIN s.eol => s.eol[r].firstSeen = n
<1>. DEFINE s == NextState(b, rep)
            called == r \in CalledNew(DiffOf(b, rep, pairs))
            n == IF called THEN rep.now ELSE m[r]
<1>1. called <=> \/ r \in Cur(rep) /\ ~ HasFindingsFor(b, r)
                 \/ r \in CurEOL(rep) /\ r \notin DOMAIN b.eol
  BY NewsFacts
<1>2. /\ m[r] \in Nat /\ m[r] <= rep.now
      /\ r \in DOMAIN b.findings => b.findings[r].firstSeen \in Nat /\ b.findings[r].firstSeen <= m[r]
      /\ r \in DOMAIN b.eol => b.eol[r].firstSeen = m[r]
  BY DEF Aged
<1>. HIDE DEF called
<1>3. n \in Nat /\ m[r] <= n /\ (called => n = rep.now) /\ (~ called => n = m[r])
  BY <1>2
<1>. HIDE DEF n
<1>4. ASSUME r \in DOMAIN s.findings PROVE s.findings[r].firstSeen \in Nat /\ s.findings[r].firstSeen <= n
  <2>1. CASE r \in Cur(rep)
    <3>1. s.findings[r] = JudgedEntry(b, rep, r)
      BY <2>1, NextFindings
    <3>2. s.findings[r].firstSeen = FirstSeenOf(b, rep, r)
      BY <3>1 DEF JudgedEntry
    <3>3. \/ r \in DOMAIN b.findings /\ FirstSeenOf(b, rep, r) = b.findings[r].firstSeen
          \/ r \in DOMAIN b.eol /\ FirstSeenOf(b, rep, r) = b.eol[r].firstSeen
          \/ ~ HasFindingsFor(b, r) /\ FirstSeenOf(b, rep, r) = rep.now
      BY DEF FirstSeenOf, HasFindingsFor
    <3>. HIDE DEF s
    <3>. QED
      BY <1>1, <1>2, <1>3, <2>1, <3>2, <3>3
  <2>2. CASE r \notin Cur(rep)
    <3>1. r \in DOMAIN b.findings /\ s.findings[r] = b.findings[r]
      BY <1>4, <2>2, NextFindings
    <3>. HIDE DEF s
    <3>. QED
      BY <1>2, <1>3, <3>1
  <2>. QED
    BY <2>1, <2>2
<1>5. ASSUME r \in DOMAIN s.eol PROVE s.eol[r].firstSeen = n
  <2>1. CASE r \in DOMAIN b.eol
    <3>1. s.eol[r].firstSeen = b.eol[r].firstSeen
      <4>1. CASE r \in CurEOL(rep)
        <5>1. s.eol[r] = EOLEntry(b, rep, r)
          BY <4>1, NextEOL
        <5>. QED
          BY <2>1, <5>1 DEF EOLEntry
      <4>2. CASE r \notin CurEOL(rep)
        BY <1>5, <4>2, NextEOL
      <4>. QED
        BY <4>1, <4>2
    <3>2. ~ called
      BY <1>1, <2>1 DEF HasFindingsFor
    <3>. QED
      BY <1>2, <1>3, <2>1, <3>1, <3>2
  <2>2. CASE r \notin DOMAIN b.eol
    <3>1. r \in CurEOL(rep) /\ s.eol[r] = EOLEntry(b, rep, r)
      BY <1>5, <2>2, NextEOL
    <3>2. s.eol[r].firstSeen = rep.now
      BY <2>2, <3>1 DEF EOLEntry
    <3>. QED
      BY <1>1, <1>3, <2>2, <3>1, <3>2
  <2>. QED
    BY <2>1, <2>2
<1>. QED
  BY <1>4, <1>5 DEF n, called

\* A saved cycle ages the records by the messages of that cycle.
LEMMA AgedSave ==
    ASSUME TypeInv, AgeInv, NEW rep \in Reports, NEW c, c = Compute(store, rep)
    PROVE  /\ Now \in Nat
           /\ \A r \in Refs : NewsAfter(c)[r] <= Now
           /\ Aged(c.next, NewsAfter(c))
<1>. DEFINE pairs == PairRefChanges(store, rep.obs)
            b == Base(store, rep)
            m == [r \in Refs |-> news[Source(pairs, r)]]
<1>1. Now \in Nat /\ clock <= Now
  BY CycleAssumption DEF AgeInv, Now
<1>2. rep.now = Now
  BY DEF Reports
<1>3. Aged(b, m)
  BY AgedMoves DEF AgeInv
<1>4. \A r \in Refs : m[r] = news[Source(pairs, r)] /\ m[r] \in Nat /\ m[r] <= rep.now
  <2>1. ASSUME NEW r \in Refs PROVE news[Source(pairs, r)] \in Nat /\ news[Source(pairs, r)] <= Now
    <3>1. Source(pairs, r) \in Refs
      BY SourceIsRef
    <3>. HIDE DEF pairs
    <3>. QED
      BY <1>1, <3>1 DEF AgeInv, Aged
  <2>. HIDE DEF pairs
  <2>. QED
    BY <1>2, <2>1
<1>5. c.next = NextState(b, rep) /\ c.diff = DiffOf(b, rep, pairs) /\ c.diff.refChanges = pairs
  BY ComputeParts, DiffMoves
<1>. HIDE DEF pairs, b, m
<1>6. ASSUME NEW r \in Refs
      PROVE  LET n == IF r \in CalledNew(c.diff) THEN rep.now ELSE m[r]
             IN /\ r \in DOMAIN c.next.findings =>
                       c.next.findings[r].firstSeen \in Nat /\ c.next.findings[r].firstSeen <= n
                /\ r \in DOMAIN c.next.eol => c.next.eol[r].firstSeen = n
  BY <1>1, <1>2, <1>3, <1>4, <1>5, AgedNext
<1>7. ASSUME NEW r \in Refs
      PROVE  /\ NewsAfter(c)[r] \in Nat /\ NewsAfter(c)[r] <= Now
             /\ HasFindingsFor(c.next, r) =>
                    NewsAfter(c)[r] = IF r \in CalledNew(c.diff) THEN rep.now ELSE m[r]
  <2>1. NewsAfter(c)[r] = IF r \in CalledNew(c.diff) THEN Now
                          ELSE IF HasFindingsFor(c.next, r) THEN news[Source(pairs, r)] ELSE 0
    BY <1>5 DEF NewsAfter
  <2>. QED
    BY <1>1, <1>2, <1>4, <2>1
<1>8. Aged(c.next, NewsAfter(c))
  <2>1. ASSUME NEW r \in Refs
        PROVE  /\ r \in DOMAIN c.next.findings => c.next.findings[r].firstSeen \in Nat
                                                  /\ c.next.findings[r].firstSeen <= NewsAfter(c)[r]
               /\ r \in DOMAIN c.next.eol => c.next.eol[r].firstSeen = NewsAfter(c)[r]
    <3>1. r \in DOMAIN c.next.findings \/ r \in DOMAIN c.next.eol => HasFindingsFor(c.next, r)
      BY DEF HasFindingsFor
    <3>. QED
      BY <1>6, <1>7, <3>1
  <2>. QED
    BY <1>7, <2>1 DEF Aged
<1>. QED
  BY <1>1, <1>7, <1>8

\* A cycle that is not saved dates nothing, a saved one by its messages.
LEMMA NewsStep ==
    ASSUME Cycle
    PROVE  \/ store' = store /\ news' = news /\ clock' = clock
           \/ \E rep \in Reports : /\ store' = Compute(store, rep).next
                                   /\ news' = NewsAfter(Compute(store, rep)) /\ clock' = Now
<1>1. PICK rep \in Reports : RunOnce(rep, SUBSET Destinations, BOOLEAN)
  BY DEF Cycle
<1>2. PICK saved \in BOOLEAN :
        /\ store' = IF saved THEN Compute(store, rep).next ELSE store
        /\ clock' = IF saved THEN Now ELSE clock
        /\ news' = IF saved THEN NewsAfter(Compute(store, rep)) ELSE news
  BY <1>1, Zenon DEF RunOnce
<1>. QED
  BY <1>2

\* Every step keeps the dates in order.
LEMMA AgeStep == ASSUME TypeInv, AgeInv, [Next]_vars PROVE AgeInv'
<1>1. CASE Cycle
  <2>1. CASE store' = store /\ news' = news /\ clock' = clock
    BY <2>1 DEF AgeInv, Aged
  <2>2. ASSUME NEW rep \in Reports, store' = Compute(store, rep).next,
               news' = NewsAfter(Compute(store, rep)), clock' = Now
        PROVE  AgeInv'
    <3>1. Now \in Nat /\ (\A r \in Refs : news'[r] <= Now) /\ Aged(store', news')
      BY <2>2, AgedSave
    <3>. QED
      BY <2>2, <3>1 DEF AgeInv, Aged
  <2>. QED
    BY <1>1, <2>1, <2>2, NewsStep
<1>2. CASE CorruptStore
  <2>1. store' = Empty /\ news' = [r \in Refs |-> 0] /\ clock' = clock
    BY <1>2 DEF CorruptStore
  <2>. QED
    BY <2>1, EmptyParts DEF AgeInv, Aged
<1>3. CASE \E r \in Refs : Deploy(r)
  <2>1. store' = store /\ news' = news /\ clock' = clock
    BY <1>3 DEF Deploy
  <2>. QED
    BY <2>1 DEF AgeInv, Aged
<1>4. CASE UNCHANGED vars
  BY <1>4 DEF vars, AgeInv, Aged
<1>. QED
  BY <1>1, <1>2, <1>3, <1>4 DEF Next

\* The age of a package never starts again in silence, whatever cycles go by:
\* in and out of end of life, under another reference, with scans, deliveries
\* and saves failing (Compute, computeEOL, carryOverRefChanges).
THEOREM AgeNeverLost == Spec => []AgedFromNews
<1>1. Init => AgeInv
  BY EmptyParts DEF Init, AgeInv, Aged
<1>2. TypeInv /\ AgeInv /\ [Next]_vars => AgeInv'
  BY AgeStep
<1>3. AgeInv => AgedFromNews
  BY SMTT(30) DEF AgeInv, Aged, AgedFromNews
<1>. QED
  BY TypeAlways, <1>1, <1>2, <1>3, PTL DEF Spec

\* Without a pair nothing moves.
LEMMA NoMoves ==
    ASSUME NEW prev, NEW rep, StoreType(prev), PairRefChanges(prev, rep.obs) = {}
    PROVE  LET b == Base(prev, rep)
           IN /\ DOMAIN b.findings = DOMAIN prev.findings /\ DOMAIN b.eol = DOMAIN prev.eol
              /\ DOMAIN b.eosl = DOMAIN prev.eosl /\ b.muted = prev.muted
              /\ DOMAIN b.images = DOMAIN prev.images
              /\ \A r \in DOMAIN b.findings : b.findings[r] = prev.findings[r]
              /\ \A r \in DOMAIN b.eol : b.eol[r] = prev.eol[r]
              /\ \A r \in DOMAIN b.images : b.images[r] = prev.images[r]
<1>. DEFINE b == Base(prev, rep)
            pairs == PairRefChanges(prev, rep.obs)
<1>0. pairs = {}
  OBVIOUS
<1>. HIDE DEF pairs
<1>1. \A r : Source(pairs, r) = r
  BY <1>0 DEF Source
<1>2. \A S : S \subseteq Refs => Moved(pairs, S) = S
  BY <1>0, <1>1, SMTT(30) DEF Moved
<1>3. /\ b.findings = Rekey(pairs, prev.findings) /\ b.eol = Rekey(pairs, prev.eol)
      /\ b.eosl = Rekey(pairs, prev.eosl) /\ b.muted = Moved(pairs, prev.muted)
      /\ b.images = Restricted(prev.images, Refs \ {p[1] : p \in pairs})
  BY BaseParts, Zenon DEF pairs
<1>. HIDE DEF b
<1>4. \A f : DOMAIN f \subseteq Refs =>
         /\ DOMAIN Rekey(pairs, f) = DOMAIN f
         /\ \A r \in DOMAIN f : Rekey(pairs, f)[r] = f[r]
  BY <1>1, <1>2, RekeyFacts
<1>5. b.images = Restricted(prev.images, Refs)
  BY <1>0, <1>3, Zenon
<1>6. DOMAIN b.images = DOMAIN prev.images /\ \A r \in DOMAIN b.images : b.images[r] = prev.images[r]
  BY <1>5 DEF Restricted, StoreType
<1>7. b.muted = prev.muted
  BY <1>2, <1>3 DEF StoreType
<1>8. DOMAIN b.findings = DOMAIN prev.findings /\ \A r \in DOMAIN b.findings : b.findings[r] = prev.findings[r]
  BY <1>3, <1>4 DEF StoreType
<1>9. DOMAIN b.eol = DOMAIN prev.eol /\ \A r \in DOMAIN b.eol : b.eol[r] = prev.eol[r]
  BY <1>3, <1>4 DEF StoreType
<1>10. DOMAIN b.eosl = DOMAIN prev.eosl
  BY <1>3, <1>4 DEF StoreType
<1>. QED
  BY <1>6, <1>7, <1>8, <1>9, <1>10 DEF b

\* A cycle that sends nothing carries nothing over either.
LEMMA QuietIsClear == TypeInv => SilenceMeansClear
<1>. SUFFICES ASSUME TypeInv, NEW rep \in Reports, ~ ReportDue(store, rep, Compute(store, rep).diff)
              PROVE  /\ DOMAIN Compute(store, rep).next.findings = {}
                     /\ DOMAIN Compute(store, rep).next.eol = {}
  BY SMTT(30) DEF SilenceMeansClear
<1>. DEFINE b == Base(store, rep)
            pairs == PairRefChanges(store, rep.obs)
<1>1. /\ Cur(rep) = {} /\ CurEOL(rep) = {} /\ Unchecked(rep) = {} /\ pairs = {}
      /\ \A r \in DOMAIN rep.obs : Scanned(rep.obs[r]) = rep.obs[r].cids
      /\ ~ HoldingUnconfirmed(store, rep)
  <2>1. ~ HasIssues(rep) /\ Unchecked(rep) = {} /\ ~ HoldingUnconfirmed(store, rep)
    BY DEF ReportDue
  <2>2. ~ HasChanges(Compute(store, rep).diff)
    BY SMTT(30) DEF ReportDue
  <2>3. Compute(store, rep).diff.refChanges = pairs
    BY ComputeParts, DiffMoves
  <2>4. Compute(store, rep).diff.refChanges = {}
    BY <2>2, Zenon DEF HasChanges
  <2>5. /\ Cur(rep) = {} /\ CurEOL(rep) = {}
        /\ \A r \in DOMAIN rep.obs : Scanned(rep.obs[r]) = rep.obs[r].cids
    BY <2>1 DEF HasIssues
  <2>. QED
    BY <2>1, <2>3, <2>4, <2>5
<1>2. \A r \in DOMAIN rep.obs : rep.obs[r].cids # {}
  BY ReportFacts, ObservationFacts, SMTT(30)
<1>3. FullyFailed(rep) = {}
  BY <1>1, <1>2, SMTT(30) DEF FullyFailed, ScanFailed
<1>4. \A r \in PartiallyFailed(rep) : r \in DOMAIN rep.obs /\ rep.obs[r].unconfirmed
  BY <1>1, SMTT(30) DEF PartiallyFailed, PartialFailure
<1>5. DOMAIN b.findings = DOMAIN store.findings /\ DOMAIN b.eol = DOMAIN store.eol
  BY <1>1, NoMoves, ZenonT(30) DEF TypeInv
<1>6. Carried(b, rep) = {} /\ CarriedEOL(b, rep) = {}
  BY <1>1, <1>3, <1>4, <1>5 DEF Carried, CarriedEOL, HoldingUnconfirmed, HasFindingsFor
<1>. QED
  BY <1>1, <1>6, ComputeParts, NextDomains

\* A cycle that sends nothing leaves nothing on record (sendDiff).
THEOREM SilenceIsClear == Spec => []SilenceMeansClear
BY TypeAlways, QuietIsClear, PTL

-----------------------------------------------------------------------------
\* The reference that has the record of r after the pairs have moved.
HeirOf(pairs, r) == IF \E p \in pairs : p[1] = r THEN (CHOOSE p \in pairs : p[1] = r)[2] ELSE r

\* The record of r is that of its heir.
LEMMA HeirFacts ==
    ASSUME TypeInv, NEW rep \in Reports, NEW r \in Refs, HasHistory(store, r)
    PROVE  LET pairs == PairRefChanges(store, rep.obs)
               h == HeirOf(pairs, r)
           IN /\ Source(pairs, h) = r
              /\ \A S : r \in S => h \in Moved(pairs, S)
<1>. DEFINE pairs == PairRefChanges(store, rep.obs)
            h == HeirOf(pairs, r)
<1>1. CASE \E p \in pairs : p[1] = r
  <2>1. PICK p \in pairs : p[1] = r
    BY <1>1
  <2>2. \A q \in pairs : q[1] = r => q = p
    BY <2>1, PairFacts
  <2>3. (CHOOSE q \in pairs : q[1] = r) = p
    BY <2>1, <2>2
  <2>4. h = p[2]
    BY <1>1, <2>3, ZenonT(30) DEF HeirOf
  <2>5. Source(pairs, h) = r
    BY <2>1, <2>4, SourceFacts
  <2>6. h \in DOMAIN rep.obs /\ h \in Refs
    BY <2>1, <2>4, PairFacts, ReportFacts
  <2>7. ~ \E q \in pairs : q[1] = h
    BY <2>6, PairFacts
  <2>. QED
    BY <2>5, <2>6, <2>7 DEF Moved
<1>2. CASE ~ \E p \in pairs : p[1] = r
  <2>1. h = r
    BY <1>2, SMTT(30) DEF HeirOf
  <2>. QED
    BY <1>2, <2>1, OwnRecords
<1>. QED
  BY <1>1, <1>2, SMTT(30)

\* A record that its reference still has when Compute starts is kept with its
\* FirstSeen, or reported resolved, or replaced by an end-of-life record.
LEMMA EntryKept ==
    ASSUME NEW b, NEW rep, NEW pairs, NEW h \in DOMAIN b.findings
    PROVE  \/ /\ h \in DOMAIN NextState(b, rep).findings
              /\ NextState(b, rep).findings[h].firstSeen = b.findings[h].firstSeen
           \/ h \in DiffOf(b, rep, pairs).resolved
           \/ h \in DOMAIN NextState(b, rep).eol
<1>1. CASE h \in Cur(rep)
  <2>1. JudgedEntry(b, rep, h).firstSeen = b.findings[h].firstSeen
    <3>1. FirstSeenOf(b, rep, h) = b.findings[h].firstSeen
      BY DEF FirstSeenOf
    <3>2. JudgedEntry(b, rep, h).firstSeen = FirstSeenOf(b, rep, h)
      BY Zenon DEF JudgedEntry
    <3>. QED
      BY <3>1, <3>2
  <2>. QED
    BY <1>1, <2>1, NextFindings
<1>2. CASE h \in Carried(b, rep)
  BY <1>2, NextFindings
<1>3. CASE h \in CurEOL(rep)
  BY <1>3, NextDomains
<1>4. CASE h \notin Cur(rep) /\ h \notin Carried(b, rep) /\ h \notin CurEOL(rep)
  BY <1>4, DiffResolved DEF Resolved
<1>. QED
  BY <1>1, <1>2, <1>3, <1>4

\* The same of an end-of-life record.
LEMMA EOLEntryKept ==
    ASSUME NEW b, NEW rep, NEW pairs, NEW h \in DOMAIN b.eol
    PROVE  \/ /\ h \in DOMAIN NextState(b, rep).eol
              /\ NextState(b, rep).eol[h].firstSeen = b.eol[h].firstSeen
           \/ h \in DiffOf(b, rep, pairs).resolvedEOL
<1>1. CASE h \in CurEOL(rep)
  <2>1. EOLEntry(b, rep, h).firstSeen = b.eol[h].firstSeen
    BY DEF EOLEntry
  <2>. QED
    BY <1>1, <2>1, NextEOL
<1>2. CASE h \in CarriedEOL(b, rep)
  BY <1>2, NextEOL
<1>3. CASE h \notin CurEOL(rep) /\ h \notin CarriedEOL(b, rep)
  BY <1>3, DiffResolved
<1>. QED
  BY <1>1, <1>2, <1>3

\* Every record is kept with its date, reported resolved, or now end of life.
LEMMA RecordsKept == TypeInv => HistoryAccounted
<1>. SUFFICES ASSUME TypeInv, NEW rep \in Reports
              PROVE  LET c == Compute(store, rep)
                         Heir(r) == HeirOf(c.diff.refChanges, r)
                     IN /\ \A r, s \in DOMAIN store.findings : Heir(r) = Heir(s) => r = s
                        /\ \A r \in DOMAIN store.findings :
                             LET h == Heir(r)
                             IN \/ h \in DOMAIN c.next.findings
                                     /\ c.next.findings[h].firstSeen = store.findings[r].firstSeen
                                \/ h \in c.diff.resolved
                                \/ h \in DOMAIN c.next.eol
                        /\ \A r \in DOMAIN store.eol :
                             LET h == Heir(r)
                             IN \/ h \in DOMAIN c.next.eol
                                     /\ c.next.eol[h].firstSeen = store.eol[r].firstSeen
                                \/ h \in c.diff.resolvedEOL
  BY ZenonT(30) DEF HistoryAccounted, HeirOf
<1>. DEFINE b == Base(store, rep)
            pairs == PairRefChanges(store, rep.obs)
            n == NextState(b, rep)
            d == DiffOf(b, rep, pairs)
<1>1. Compute(store, rep).next = n /\ Compute(store, rep).diff = d /\ d.refChanges = pairs
  BY ComputeParts, DiffMoves
<1>2. b.findings = Rekey(pairs, store.findings) /\ b.eol = Rekey(pairs, store.eol)
  BY BaseParts, ZenonT(30)
<1>. HIDE DEF b
<1>3. \A r \in DOMAIN store.findings \cup DOMAIN store.eol : r \in Refs /\ HasHistory(store, r)
  BY DEF TypeInv, StoreType, HasHistory, HasFindingsFor
<1>4. \A r, s \in DOMAIN store.findings : HeirOf(pairs, r) = HeirOf(pairs, s) => r = s
  BY <1>3, HeirFacts
<1>5. ASSUME NEW r \in DOMAIN store.findings
      PROVE  LET h == HeirOf(pairs, r)
             IN \/ h \in DOMAIN n.findings /\ n.findings[h].firstSeen = store.findings[r].firstSeen
                \/ h \in d.resolved
                \/ h \in DOMAIN n.eol
  <2>1. HeirOf(pairs, r) \in DOMAIN b.findings /\ b.findings[HeirOf(pairs, r)] = store.findings[r]
    BY <1>2, <1>3, HeirFacts, RekeyFacts
  <2>. QED
    BY <2>1, EntryKept
<1>6. ASSUME NEW r \in DOMAIN store.eol
      PROVE  LET h == HeirOf(pairs, r)
             IN \/ h \in DOMAIN n.eol /\ n.eol[h].firstSeen = store.eol[r].firstSeen
                \/ h \in d.resolvedEOL
  <2>1. HeirOf(pairs, r) \in DOMAIN b.eol /\ b.eol[HeirOf(pairs, r)] = store.eol[r]
    BY <1>2, <1>3, HeirFacts, RekeyFacts
  <2>. QED
    BY <2>1, EOLEntryKept, SMTT(30)
<1>. QED
  BY <1>1, <1>4, <1>5, <1>6, ZenonT(30)

\* No record is lost or merged with another, however references are retagged
\* (Compute, pairRefChanges, carryOverRefChanges).
THEOREM HistoryKept == Spec => []HistoryAccounted
BY TypeAlways, RecordsKept, PTL
=============================================================================
