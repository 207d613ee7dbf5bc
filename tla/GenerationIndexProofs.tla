----------------------- MODULE GenerationIndexProofs -----------------------
(***************************************************************************)
(* The claims of a generation about its index, for any bounds, channel     *)
(* capacities and outcomes of samples.                                     *)
(***************************************************************************)
EXTENDS GenerationIndex, WellFoundedInduction, TLAPS

\* The values of the state.
Event == [id : Nat, root : Nat]
BatchSet == [id : Nat, src : {"event", "held", "pending", "sample"}, root : Nat, epoch : Nat]
Num == Nat
Flag == BOOLEAN
Idx == {"idle", "building", "ready", "failed"}
DBState == {"none", "ok", "absent", "error"}
Lookup == [seq : Nat, batches : Seq(BatchSet)]
BatchQueue == Seq(BatchSet)
EventQueue == Seq(Event)
Gen == [ended : Flag, idx : Idx, db : DBState, basis : Num, epoch : Num,
        postIndexConfirmed : Flag, parseFailed : Flag, forceParseFailed : Flag, incomplete : Flag,
        sampleAlive : Flag, sampleStalled : Flag, denied : Flag,
        view : Num, lookup : Lookup, queued : BatchQueue, nextSeq : Num,
        pending : EventQueue, held : EventQueue]
Result == [basis : Nat, kind : AllSampleKinds \cup {"none"}, verified : Seq(Event), gone : Seq(Event)]
Worker == [at : {"none", "running", "read", "abandoned"}, ready : BOOLEAN, events : Seq(Event), res : Result]
Job == [kind : {"build", "lookup", "forget"}, epoch : Nat, seq : Nat, ids : SUBSET Nat]
AnswerSet == {a \in [kind : {"build", "lookup", "forget"}, seq : Nat,
                    outcome : {"ok", "settled", "failed", "noChange", "answered", "truncated", "epochStale"},
                    basis : Nat, ids : SUBSET Nat] :
                 a.kind = "lookup" => a.outcome \in {"answered", "truncated", "failed", "epochStale"}}

TypeOK ==
    /\ root \in Nat \ {0} /\ gen \in Gen /\ worker \in Worker
    /\ dbJobCh \in Seq(Job) /\ dbResultCh \in Seq(AnswerSet)
    /\ epochByGenKey \in Nat /\ loaded \in Nat
    /\ items \in Nat /\ owed \in SUBSET Nat /\ sampleSeen \in BOOLEAN

-----------------------------------------------------------------------------
\* What holds between the generation g and the channels ch and rs, while the
\* dbworker is at epoch ep and its parser holds the index of root ld.

\* The outstanding lookup has a number of its own; its job and its answer are
\* about its batches.  Batches are queued only behind an outstanding lookup.
Own(g, ch, rs) ==
    /\ g.lookup = NoLookup => g.queued = <<>>
    /\ g.lookup = NoLookup \/ g.lookup.seq \in 1..g.nextSeq
    /\ \A i \in DOMAIN ch : ch[i].kind = "lookup" =>
          ch[i].seq \in 1..g.nextSeq /\ (ch[i].seq = g.lookup.seq => ch[i].ids = Ids(g.lookup.batches))
    /\ \A i \in DOMAIN rs : rs[i].kind = "lookup" =>
          rs[i].seq \in 1..g.nextSeq /\ (rs[i].seq = g.lookup.seq => rs[i].ids = Ids(g.lookup.batches))

\* A build, of the current epoch, is the last thing on its way.
BuildLast(g, ch, rs) ==
    /\ \A i \in DOMAIN ch :
          /\ ch[i].kind # "forget"
          /\ ch[i].kind = "build" => i = Len(ch) /\ g.idx = "building" /\ ch[i].epoch = g.epoch
    /\ \A i \in DOMAIN rs :
          /\ rs[i].kind # "forget"
          /\ rs[i].kind = "build" => i = Len(rs) /\ g.idx = "building" /\ ch = <<>>

\* Lookups on their way are of the dbworker's epoch, and so is a ready index;
\* what is queued of the current epoch was queued for a ready index.
Epochs(g, ch, rs, ep) ==
    /\ g.idx = "ready" => ep = g.epoch
    /\ \A i \in DOMAIN ch : ch[i].kind = "lookup" => ch[i].epoch = ep
    /\ \A i \in DOMAIN rs : rs[i].outcome # "epochStale" /\ (rs[i].kind = "build" => ep = g.epoch)
    /\ \A i \in DOMAIN g.queued :
          g.queued[i].epoch <= g.epoch /\ (g.queued[i].epoch = g.epoch => g.idx = "ready")

\* What samples saw or re-checked was in root r.
SampledIn(q, r) == \A i \in DOMAIN q : q[i].src \in {"sample", "pending"} => q[i].root = r

\* The parser holds the index of the generation's basis, and what samples saw
\* is looked up in that index.
Roots(g, ch, rs, ld) ==
    /\ g.idx = "ready" => g.basis # 0 /\ (g.db = "ok" => ld = g.basis)
    /\ \A i \in DOMAIN ch :
          ch[i].kind = "lookup" /\ ch[i].seq = g.lookup.seq /\ g.db = "ok" => SampledIn(g.lookup.batches, ld)
    /\ \A i \in DOMAIN rs :
          /\ rs[i].kind = "build" /\ rs[i].outcome \in {"ok", "settled"} => rs[i].basis # 0
          /\ rs[i].kind = "build" /\ rs[i].outcome = "ok" => ld = rs[i].basis
          /\ rs[i].kind = "lookup" /\ rs[i].seq = g.lookup.seq /\ g.db = "ok" /\ rs[i].basis # 0
               => SampledIn(g.lookup.batches, rs[i].basis)
    /\ \A i \in DOMAIN g.queued :
          g.queued[i].epoch = g.epoch /\ g.queued[i].src \in {"sample", "pending"} => g.queued[i].root = g.basis

LoopOK(g, ch, rs, ep, ld) ==
    /\ g \in Gen /\ ch \in Seq(Job)
    /\ Own(g, ch, rs) /\ BuildLast(g, ch, rs) /\ Epochs(g, ch, rs, ep) /\ Roots(g, ch, rs, ld)

\* A sample that began on a ready index is used while the index is ready.
SampleOK(g, w) ==
    /\ w.at \in {"running", "read"} /\ w.ready => g.idx = "ready"
    /\ w.at = "running" /\ ~ w.ready => w.events = <<>>
    /\ w.at = "read" => /\ ~ w.ready => w.res.verified = <<>>
                        /\ w.res.verified # <<>> \/ HasFiles(w.res) => w.res.basis # 0

\* Where an observation can be that is neither attributed nor given up.
Submitted(g) == Ids(g.lookup.batches) \cup Ids(g.queued)
Tracked(g) == Submitted(g) \cup Ids(g.held) \cup Ids(g.pending)
Accounted(g, ow) == g.incomplete \/ ow \subseteq Tracked(g)

IInv ==
    /\ TypeOK
    /\ Live => LoopOK(gen, dbJobCh, dbResultCh, epochByGenKey, loaded) /\ SampleOK(gen, worker)
    /\ Accounted(gen, owed)
    /\ AnswersAreTheirOwn /\ SamplesMatchIndexRoot

-----------------------------------------------------------------------------
\* Induction up to n, for a set of numbers.
LEMMA Induct ==
    ASSUME NEW n \in Nat, NEW T, 0 \in T, \A i \in 1..n : i - 1 \in T => i \in T
    PROVE  \A i \in 0..n : i \in T
<1> DEFINE R == {xy \in Nat \X Nat : xy[1] < xy[2]}
           S == (0..n) \ T
<1>1. SUFFICES ASSUME S # {} PROVE FALSE
  OBVIOUS
<1>2. IsWellFoundedOn(R, Nat)
  BY NatLessThanWellFounded DEF OpToRel
<1>3. S \in SUBSET Nat
  OBVIOUS
<1>4. PICK x \in S : \A y \in S : ~ (<<y, x>> \in R)
  BY <1>1, <1>2, <1>3, WFMin, ZenonT(30)
<1>5. x \in 1..n /\ x - 1 \in 0..n
  OBVIOUS
<1>6. x - 1 \in S
  BY <1>5
<1>7. <<x - 1, x>> \in R
  BY <1>5
<1>. QED
  BY <1>4, <1>6, <1>7

\* Recursion up to n, for a step that is a function.
StepOn(st, D, n) == st \in [D \X (1..n) -> D]
RunOf(f, st, z, D, n) == f \in [0..n -> D] /\ f[0] = z /\ \A i \in 1..n : f[i] = st[<<f[i - 1], i>>]
LEMMA Recursion ==
    ASSUME NEW D, NEW n \in Nat, NEW z \in D, NEW st, StepOn(st, D, n)
    PROVE  \E f : RunOf(f, st, z, D, n)
<1> USE DEF StepOn
<1> DEFINE Upto(f, k) == f \in [0..k -> D] /\ f[0] = z /\ \A i \in 1..k : f[i] = st[<<f[i - 1], i>>]
           T == {k \in 0..n : \E f : Upto(f, k)}
<1>1. 0 \in T
  <2>. DEFINE f == [i \in 0..0 |-> z]
  <2>1. f \in [0..0 -> D] /\ f[0] = z
    OBVIOUS
  <2>2. Upto(f, 0)
    BY <2>1
  <2>3. 0 \in 0..n
    OBVIOUS
  <2> HIDE DEF Upto, f
  <2>. QED
    BY <2>2, <2>3
<1>2. ASSUME NEW k \in 1..n, k - 1 \in T
      PROVE  k \in T
  <2>1. PICK f : Upto(f, k - 1)
    BY <1>2
  <2>2. f[k - 1] \in D
    BY <2>1
  <2>. DEFINE last == st[<<f[k - 1], k>>]
              h == [i \in 0..k |-> IF i = k THEN last ELSE f[i]]
  <2>3. last \in D
    BY <2>2
  <2> HIDE DEF last
  <2>4. h \in [0..k -> D] /\ h[0] = z
    BY <2>1, <2>3
  <2>5. h[k] = last /\ \A i \in 0..(k - 1) : h[i] = f[i]
    OBVIOUS
  <2> HIDE DEF h
  <2>6. ASSUME NEW i \in 1..k
        PROVE  h[i] = st[<<h[i - 1], i>>]
    <3>1. CASE i = k
      BY <2>5, <3>1 DEF last
    <3>2. CASE i # k
      <4>1. i \in 1..(k - 1) /\ i \in 0..(k - 1) /\ i - 1 \in 0..(k - 1)
        BY <3>2
      <4>. QED
        BY <2>1, <2>5, <4>1
    <3>. QED
      BY <3>1, <3>2
  <2>7. Upto(h, k)
    BY <2>4, <2>6
  <2>8. k \in 0..n
    OBVIOUS
  <2> HIDE DEF Upto
  <2>. QED
    BY <2>7, <2>8
<1>3. n \in 0..n
  OBVIOUS
<1>4. n \in T
  <2> HIDE DEF T
  <2>. QED
    BY <1>1, <1>2, <1>3, Induct
<1>. QED
  BY <1>4 DEF RunOf

\* Kept keeps the members in the set and no others.
LEMMA KeptIs ==
    ASSUME NEW X, NEW q \in Seq(X), NEW S
    PROVE  Kept(q, S) \in Seq(X) /\ Range(Kept(q, S)) = Range(q) \cap S
<1> DEFINE More(u, e) == IF e \in S THEN Append(u, e) ELSE u
           n == Len(q)
           st == [x \in Seq(X) \X (1..n) |-> More(x[1], q[x[2]])]
<1>0. n \in Nat /\ \A i \in 1..n : q[i] \in X
  OBVIOUS
<1>1. ASSUME NEW u \in Seq(X), NEW e \in X
      PROVE  More(u, e) \in Seq(X)
  OBVIOUS
<1>2. ASSUME NEW u \in Seq(X), NEW e \in X
      PROVE  Range(More(u, e)) = Range(u) \cup ({e} \cap S)
  <2>1. CASE e \in S
    <3>1. Range(Append(u, e)) = Range(u) \cup {e}
      <4>1. /\ DOMAIN Append(u, e) = DOMAIN u \cup {Len(u) + 1} /\ Append(u, e)[Len(u) + 1] = e
            /\ \A i \in DOMAIN u : Append(u, e)[i] = u[i]
        OBVIOUS
      <4>. QED
        BY <4>1, ZenonT(30) DEF Range
    <3>. QED
      BY <2>1, <3>1
  <2>2. CASE e \notin S
    BY <2>2
  <2>. QED
    BY <2>1, <2>2
<1>3. <<>> \in Seq(X) /\ Range(<<>>) = {}
  BY DEF Range
<1> HIDE DEF More
<1>4. st \in [Seq(X) \X (1..n) -> Seq(X)]
  BY <1>0, <1>1, ZenonT(30)
<1>5. \A u \in Seq(X), i \in 1..n : st[<<u, i>>] = More(u, q[i])
  OBVIOUS
<1> HIDE DEF st, n
<1>6. PICK f \in [0..n -> Seq(X)] : f[0] = <<>> /\ \A i \in 1..n : f[i] = st[<<f[i - 1], i>>]
  <2>1. PICK z, D : z = <<>> /\ D = Seq(X)
    OBVIOUS
  <2>2. z \in D /\ n \in Nat /\ StepOn(st, D, n)
    BY <1>0, <1>3, <1>4, <2>1 DEF StepOn
  <2>3. \E f : RunOf(f, st, z, D, n)
    BY <2>2, Recursion
  <2>. QED
    BY <2>1, <2>3, ZenonT(30) DEF RunOf
<1>7. \A i \in 1..n : i - 1 \in 0..n /\ i \in 0..n
  BY <1>0
<1>8. f = [i \in 0..n |-> IF i = 0 THEN <<>> ELSE More(f[i - 1], q[i])]
  <2>1. ASSUME NEW i \in 0..n
        PROVE  f[i] = IF i = 0 THEN <<>> ELSE More(f[i - 1], q[i])
    <3>1. CASE i = 0
      BY <1>6, <3>1
    <3>2. CASE i # 0
      <4>1. i \in 1..n /\ i - 1 \in 0..n
        BY <1>0, <3>2
      <4>2. f[i] = More(f[i - 1], q[i])
        BY <1>5, <1>6, <4>1, ZenonT(30)
      <4>. QED
        BY <3>2, <4>2
    <3>. QED
      BY <3>1, <3>2
  <2>. QED
    BY <1>6, <2>1
<1> DEFINE kept == CHOOSE h : h = [i \in 0..n |-> IF i = 0 THEN <<>> ELSE More(h[i - 1], q[i])]
<1>9. kept = [i \in 0..n |-> IF i = 0 THEN <<>> ELSE More(kept[i - 1], q[i])]
  BY <1>8, ZenonT(30)
<1>10. Kept(q, S) = kept[n]
  BY DEF Kept, More, n
<1> HIDE DEF kept
<1>11. kept[0] = <<>> /\ \A i \in 1..n : kept[i] = More(kept[i - 1], q[i])
  BY <1>0, <1>7, <1>9
<1> DEFINE U == {i \in 0..n : kept[i] \in Seq(X) /\ Range(kept[i]) = {q[j] : j \in 1..i} \cap S}
<1>12. 0 \in U
  <2>1. {q[j] : j \in 1..0} = {}
    OBVIOUS
  <2>2. kept[0] \in Seq(X) /\ Range(kept[0]) = {}
    BY <1>3, <1>11
  <2>. QED
    BY <1>0, <2>1, <2>2
<1>13. ASSUME NEW i \in 1..n, i - 1 \in U
      PROVE  i \in U
  <2>1. kept[i - 1] \in Seq(X) /\ Range(kept[i - 1]) = {q[j] : j \in 1..(i - 1)} \cap S /\ q[i] \in X
    BY <1>0, <1>13
  <2>2. {q[j] : j \in 1..i} = {q[j] : j \in 1..(i - 1)} \cup {q[i]}
    BY <1>0
  <2>3. kept[i] \in Seq(X) /\ Range(kept[i]) = Range(kept[i - 1]) \cup ({q[i]} \cap S)
    BY <1>1, <1>2, <1>11, <2>1, ZenonT(30)
  <2>. QED
    BY <1>7, <2>1, <2>2, <2>3
<1>14. n \in 0..n
  BY <1>0
<1>15. n \in U
  <2> HIDE DEF U
  <2>. QED
    BY <1>0, <1>12, <1>13, <1>14, Induct, ZenonT(30)
<1>16. Range(q) = {q[j] : j \in 1..n}
  BY DEF Range, n
<1>. QED
  BY <1>10, <1>15, <1>16

-----------------------------------------------------------------------------
\* The handlers of the loop: what each leaves alone, and what it does.

Loop == [g : Gen, ch : Seq(Job)]

SameIndex(g, h) == h.idx = g.idx /\ h.db = g.db /\ h.basis = g.basis /\ h.epoch = g.epoch

\* The flags of losses only ever rise.
Sticky(g, h) == g.incomplete => h.incomplete

LookupJob(g, bs) == [kind |-> "lookup", epoch |-> g.epoch, seq |-> g.nextSeq + 1, ids |-> Ids(bs)]

LEMMA LoopParts ==
    ASSUME NEW s \in Loop
    PROVE  s.g \in Gen /\ s.ch \in Seq(Job) /\ s = Shared(s.g, s.ch)
BY DEF Loop, Shared

LEMMA SharedLoop ==
    ASSUME NEW g \in Gen, NEW ch \in Seq(Job)
    PROVE  Shared(g, ch) \in Loop /\ Shared(g, ch).g = g /\ Shared(g, ch).ch = ch
BY DEF Loop, Shared

LEMMA GenParts ==
    ASSUME NEW g \in Gen
    PROVE  /\ g.idx \in {"idle", "building", "ready", "failed"} /\ g.db \in {"none", "ok", "absent", "error"}
           /\ g.basis \in Nat /\ g.epoch \in Nat /\ g.view \in Nat /\ g.nextSeq \in Nat
           /\ g.lookup.seq \in Nat /\ g.lookup.batches \in Seq(BatchSet) /\ g.queued \in Seq(BatchSet)
           /\ g.lookup = [seq |-> g.lookup.seq, batches |-> g.lookup.batches]
           /\ g.pending \in Seq(Event) /\ g.held \in Seq(Event)
<1>1. /\ g.idx \in Idx /\ g.db \in DBState /\ g.basis \in Num /\ g.epoch \in Num /\ g.view \in Num
      /\ g.nextSeq \in Num /\ g.lookup \in Lookup /\ g.queued \in BatchQueue /\ g.pending \in EventQueue
      /\ g.held \in EventQueue
  BY DEF Gen
<1>. QED
  BY <1>1 DEF Idx, DBState, Num, Lookup, BatchQueue, EventQueue

LEMMA IdsOf ==
    ASSUME NEW q \in Seq(BatchSet)
    PROVE  Ids(q) \in SUBSET Nat
<1>1. ASSUME NEW i \in DOMAIN q
      PROVE  q[i].id \in Nat
  <2>1. q[i] \in BatchSet
    OBVIOUS
  <2>. QED
    BY <2>1 DEF BatchSet
<1>. QED
  BY <1>1 DEF Ids, Range

LEMMA AppendParts ==
    ASSUME NEW X, NEW q \in Seq(X), NEW e \in X, NEW p, p = Append(q, e)
    PROVE  /\ p \in Seq(X) /\ Len(q) \in Nat /\ Len(p) = Len(q) + 1
           /\ DOMAIN p = DOMAIN q \cup {Len(q) + 1} /\ p[Len(q) + 1] = e /\ \A i \in DOMAIN q : p[i] = q[i]
           /\ DOMAIN q = 1..Len(q)
OBVIOUS

LEMMA IdsAppend ==
    ASSUME NEW X, NEW q \in Seq(X), NEW e \in X
    PROVE  Ids(Append(q, e)) = Ids(q) \cup {e.id}
<1>1. /\ DOMAIN Append(q, e) = DOMAIN q \cup {Len(q) + 1} /\ Append(q, e)[Len(q) + 1] = e
      /\ \A i \in DOMAIN q : Append(q, e)[i] = q[i]
  BY AppendParts
<1>2. Range(Append(q, e)) = Range(q) \cup {e}
  BY <1>1, ZenonT(30) DEF Range
<1>. QED
  BY <1>2, ZenonT(30) DEF Ids

LEMMA IdsEmpty == Ids(<<>>) = {}
BY DEF Ids, Range

\* submitDBJob refuses the lookup ...
Refused(g, h) ==
    /\ h \in Gen /\ h.nextSeq = g.nextSeq + 1 /\ h.incomplete
    /\ h.lookup = g.lookup /\ h.queued = g.queued /\ h.pending = g.pending /\ h.held = g.held
    /\ SameIndex(g, h)

\* ... or takes it.
Taken(g, h, bs) ==
    /\ h \in Gen /\ h.nextSeq = g.nextSeq + 1 /\ Sticky(g, h)
    /\ h.lookup = [seq |-> g.nextSeq + 1, batches |-> bs]
    /\ h.queued = g.queued /\ h.pending = g.pending /\ h.held = g.held
    /\ SameIndex(g, h)

LEMMA SubmitBatchesDoes ==
    ASSUME NEW s \in Loop, NEW bs \in Seq(BatchSet), NEW t, t = SubmitBatches(s, bs)
    PROVE  /\ t \in Loop
           /\ \/ Refused(s.g, t.g) /\ t.ch = s.ch
              \/ Taken(s.g, t.g, bs) /\ t.ch = Append(s.ch, LookupJob(s.g, bs))
<1>1. s.g \in Gen /\ s.ch \in Seq(Job) /\ s.g.nextSeq \in Nat /\ s.g.epoch \in Nat /\ Ids(bs) \in SUBSET Nat
  BY LoopParts, GenParts, IdsOf, ZenonT(30)
<1>2. s.g.nextSeq + 1 \in Num /\ [seq |-> s.g.nextSeq + 1, batches |-> bs] \in Lookup /\ TRUE \in Flag
  BY <1>1 DEF Num, Lookup, Flag
<1>3. CASE Len(s.ch) < JobCap
  <2>. DEFINE h == [s.g EXCEPT !.nextSeq = s.g.nextSeq + 1, !.lookup = [seq |-> s.g.nextSeq + 1, batches |-> bs]]
  <2>1. t = Shared(h, Append(s.ch, LookupJob(s.g, bs)))
    BY <1>3 DEF SubmitBatches, LookupJob
  <2>2. h \in Gen
    BY <1>1, <1>2, ZenonT(30) DEF Gen
  <2>3. Taken(s.g, h, bs)
    BY <1>1, <2>2 DEF Taken, Gen, Sticky, SameIndex
  <2>4. LookupJob(s.g, bs) \in Job
    BY <1>1 DEF LookupJob, Job
  <2> HIDE DEF h
  <2>5. PICK ch : ch = Append(s.ch, LookupJob(s.g, bs))
    BY ZenonT(30)
  <2>6. ch \in Seq(Job)
    BY <1>1, <2>4, <2>5, AppendParts
  <2>7. t \in Loop /\ t.g = h /\ t.ch = ch
    <3>1. t = Shared(h, ch)
      BY ONLY <2>1, <2>5
    <3>. QED
      BY ONLY <2>2, <2>6, <3>1, SharedLoop
  <2>. QED
    BY <2>3, <2>5, <2>7
<1>4. CASE ~ (Len(s.ch) < JobCap)
  <2>. DEFINE h == [s.g EXCEPT !.nextSeq = s.g.nextSeq + 1, !.incomplete = TRUE]
  <2>1. t = Shared(h, s.ch)
    BY <1>4 DEF SubmitBatches
  <2>2. h \in Gen
    BY <1>1, <1>2, ZenonT(30) DEF Gen
  <2>3. Refused(s.g, h)
    BY <1>1, <2>2 DEF Refused, Gen, SameIndex
  <2> HIDE DEF h
  <2>. QED
    BY <1>1, <2>1, <2>2, <2>3, SharedLoop
<1>. QED
  BY <1>3, <1>4

LEMMA RefusedOK ==
    ASSUME NEW g, NEW ch, NEW rs \in Seq(AnswerSet), NEW ep, NEW ld, LoopOK(g, ch, rs, ep, ld),
           NEW h, Refused(g, h)
    PROVE  LoopOK(h, ch, rs, ep, ld)
<1>1. /\ g.nextSeq \in Nat /\ h.nextSeq = g.nextSeq + 1 /\ h.lookup = g.lookup /\ h.queued = g.queued
      /\ h.idx = g.idx /\ h.db = g.db /\ h.basis = g.basis /\ h.epoch = g.epoch /\ h \in Gen /\ ch \in Seq(Job)
  BY GenParts, ZenonT(30) DEF LoopOK, Refused, SameIndex
<1>2. \A k : k \in 1..g.nextSeq => k \in 1..h.nextSeq
  BY <1>1
<1>3. Own(h, ch, rs)
  BY <1>1, <1>2, ZenonT(30) DEF LoopOK, Own
<1>4. BuildLast(h, ch, rs) /\ Epochs(h, ch, rs, ep) /\ Roots(h, ch, rs, ld)
  BY <1>1, ZenonT(30) DEF LoopOK, BuildLast, Epochs, Roots
<1>. QED
  BY <1>1, <1>3, <1>4 DEF LoopOK

\* A lookup of a ready index: its number is new, it is of the dbworker's epoch,
\* and it meets the index of the generation's basis.
LEMMA TakenOK ==
    ASSUME NEW g, NEW ch, NEW rs \in Seq(AnswerSet), NEW ep, NEW ld, LoopOK(g, ch, rs, ep, ld),
           g.idx = "ready", NEW bs \in Seq(BatchSet), SampledIn(bs, g.basis),
           NEW h, Taken(g, h, bs), NEW c, c = Append(ch, LookupJob(g, bs))
    PROVE  LoopOK(h, c, rs, ep, ld)
<1>1. /\ g \in Gen /\ g.nextSeq \in Nat /\ g.epoch \in Nat /\ h.nextSeq = g.nextSeq + 1
      /\ h.queued = g.queued /\ h.idx = g.idx /\ h.db = g.db /\ h.basis = g.basis /\ h.epoch = g.epoch
      /\ h \in Gen /\ ch \in Seq(Job)
      /\ h.lookup.seq = g.nextSeq + 1 /\ h.lookup.batches = bs
  <2>1. g \in Gen /\ ch \in Seq(Job)
    BY DEF LoopOK
  <2>2. g.nextSeq \in Nat /\ g.epoch \in Nat
    BY <2>1, GenParts, ZenonT(30)
  <2>3. h.lookup = [seq |-> g.nextSeq + 1, batches |-> bs]
    BY DEF Taken
  <2>. QED
    BY <2>1, <2>2, <2>3 DEF Taken, SameIndex
<1>2. PICK j : j = LookupJob(g, bs)
  OBVIOUS
<1>3. /\ j.kind = "lookup" /\ j.epoch = g.epoch /\ j.seq = g.nextSeq + 1 /\ j.ids = Ids(bs) /\ j \in Job
  BY <1>1, <1>2, IdsOf DEF LookupJob, Job
<1>4. /\ c \in Seq(Job) /\ Len(ch) \in Nat /\ Len(c) = Len(ch) + 1
      /\ DOMAIN c = DOMAIN ch \cup {Len(ch) + 1} /\ c[Len(ch) + 1] = j /\ \A i \in DOMAIN ch : c[i] = ch[i]
  BY <1>1, <1>2, <1>3, AppendParts
<1>5. h.nextSeq \in Nat /\ h.lookup.seq \in 1..h.nextSeq /\ \A k : k \in 1..g.nextSeq => k \in 1..h.nextSeq /\ k # h.lookup.seq
  BY <1>1
<1>6. Own(h, c, rs)
  <2>1. /\ \A i \in DOMAIN ch : ch[i].kind = "lookup" => ch[i].seq \in 1..g.nextSeq
        /\ \A i \in DOMAIN rs : rs[i].kind = "lookup" => rs[i].seq \in 1..g.nextSeq
    BY DEF LoopOK, Own
  <2>2. ASSUME NEW i \in DOMAIN c, c[i].kind = "lookup"
        PROVE  c[i].seq \in 1..h.nextSeq /\ (c[i].seq = h.lookup.seq => c[i].ids = Ids(h.lookup.batches))
    <3>1. CASE i \in DOMAIN ch
      BY <1>4, <1>5, <2>1, <2>2, <3>1, ZenonT(30)
    <3>2. CASE i = Len(ch) + 1
      <4>1. c[i] = j
        BY <1>4, <3>2
      <4>. QED
        BY <1>1, <1>3, <1>5, <4>1
    <3>. QED
      BY <1>4, <3>1, <3>2
  <2>3. \A i \in DOMAIN rs : rs[i].kind = "lookup" =>
           rs[i].seq \in 1..h.nextSeq /\ (rs[i].seq = h.lookup.seq => rs[i].ids = Ids(h.lookup.batches))
    BY <1>5, <2>1, ZenonT(30)
  <2>4. h.lookup # NoLookup
    BY <1>1 DEF NoLookup
  <2>. QED
    BY <1>5, <2>2, <2>3, <2>4, ZenonT(30) DEF Own
<1>7. /\ \A i \in DOMAIN ch : ch[i].kind \notin {"forget", "build"}
      /\ \A i \in DOMAIN rs : rs[i].kind \notin {"forget", "build"}
  BY DEF LoopOK, BuildLast
<1>8. \A i \in DOMAIN c : c[i].kind \notin {"forget", "build"}
  BY <1>3, <1>4, <1>7
<1>9. BuildLast(h, c, rs)
  BY <1>7, <1>8 DEF BuildLast
<1>10. ep = g.epoch /\ g.basis # 0 /\ (g.db = "ok" => ld = g.basis)
  BY DEF LoopOK, Epochs, Roots
<1>11. Epochs(h, c, rs, ep)
  <2>1. \A i \in DOMAIN ch : ch[i].kind = "lookup" => ch[i].epoch = ep
    BY DEF LoopOK, Epochs
  <2>2. \A i \in DOMAIN c : c[i].kind = "lookup" => c[i].epoch = ep
    BY <1>3, <1>4, <1>10, <2>1
  <2>. QED
    BY <1>1, <1>10, <2>2, ZenonT(30) DEF LoopOK, Epochs
<1>12. Roots(h, c, rs, ld)
  <2>1. \A i \in DOMAIN c : c[i].kind = "lookup" /\ c[i].seq = h.lookup.seq /\ h.db = "ok" => SampledIn(h.lookup.batches, ld)
    BY <1>1, <1>10
  <2>2. \A i \in DOMAIN rs : rs[i].kind = "lookup" => rs[i].seq # h.lookup.seq
    BY <1>5, ZenonT(30) DEF LoopOK, Own
  <2>. QED
    BY <1>1, <1>10, <2>1, <2>2, ZenonT(30) DEF LoopOK, Roots
<1>. QED
  BY <1>1, <1>4, <1>6, <1>9, <1>11, <1>12 DEF LoopOK

\* What the handlers promise: the loop stays as it should be, the index is as
\* it was, and the observations ids are where they can be found, or the loss
\* is recorded.
Sends(s, t, rs, ep, ld, ids) ==
    /\ t \in Loop /\ LoopOK(t.g, t.ch, rs, ep, ld) /\ SameIndex(s.g, t.g) /\ Sticky(s.g, t.g)
    /\ t.g.pending = s.g.pending /\ t.g.held = s.g.held
    /\ t.g.incomplete \/ Submitted(s.g) \cup ids \subseteq Submitted(t.g)

\* submitCandidateBatches keeps what holds of the loop.  The batches are on
\* their way, or the loss is recorded.
LEMMA SubmitBatchesOK ==
    ASSUME NEW s \in Loop, NEW rs \in Seq(AnswerSet), NEW ep, NEW ld, LoopOK(s.g, s.ch, rs, ep, ld),
           s.g.lookup = NoLookup, s.g.idx = "ready", NEW bs \in Seq(BatchSet), SampledIn(bs, s.g.basis),
           NEW t, t = SubmitBatches(s, bs)
    PROVE  Sends(s, t, rs, ep, ld, Ids(bs))
<1>1. t \in Loop
  BY SubmitBatchesDoes
<1>2. CASE Refused(s.g, t.g) /\ t.ch = s.ch
  BY <1>1, <1>2, RefusedOK DEF Refused, Sticky, Sends
<1>3. CASE Taken(s.g, t.g, bs) /\ t.ch = Append(s.ch, LookupJob(s.g, bs))
  <2>1. LoopOK(t.g, t.ch, rs, ep, ld)
    BY <1>3, TakenOK, ZenonT(30)
  <2>2. /\ SameIndex(s.g, t.g) /\ Sticky(s.g, t.g) /\ t.g.pending = s.g.pending /\ t.g.held = s.g.held
        /\ t.g.queued = s.g.queued /\ t.g.lookup.batches = bs
    BY <1>3 DEF Taken
  <2>3. Ids(s.g.lookup.batches) = {}
    BY IdsEmpty DEF NoLookup
  <2>. QED
    BY <1>1, <2>1, <2>2, <2>3 DEF Submitted, Sends
<1>. QED
  BY <1>2, <1>3, SubmitBatchesDoes

\* What SubmitOrQueue and DispatchUsageEvent do to the rest of the generation.
SameRest(g, h) ==
    /\ h \in Gen /\ h.nextSeq = g.nextSeq /\ h.lookup = g.lookup /\ Sticky(g, h) /\ SameIndex(g, h)

LEMMA QueuedDoes ==
    ASSUME NEW s \in Loop, NEW b \in BatchSet, NEW t, t = [s EXCEPT !.g.queued = Append(@, b)]
    PROVE  /\ t \in Loop /\ t.ch = s.ch /\ SameRest(s.g, t.g)
           /\ t.g.queued = Append(s.g.queued, b) /\ t.g.pending = s.g.pending /\ t.g.held = s.g.held
<1>1. s.g \in Gen /\ s.ch \in Seq(Job) /\ s = Shared(s.g, s.ch) /\ s.g.queued \in Seq(BatchSet)
  BY LoopParts, GenParts, ZenonT(30)
<1>2. PICK q : q = Append(s.g.queued, b)
  BY ZenonT(30)
<1>3. q \in BatchQueue
  BY <1>1, <1>2, AppendParts DEF BatchQueue
<1> DEFINE h == [s.g EXCEPT !.queued = q]
<1>4. h \in Gen
  BY <1>1, <1>3, ZenonT(30) DEF Gen
<1>5. SameRest(s.g, h) /\ h.queued = q /\ h.pending = s.g.pending /\ h.held = s.g.held
  BY <1>1, <1>4 DEF SameRest, SameIndex, Sticky, Gen
<1>6. t = Shared(h, s.ch)
  BY <1>1, <1>2, ZenonT(30) DEF Shared
<1> HIDE DEF h
<1>7. t \in Loop /\ t.g = h /\ t.ch = s.ch
  BY ONLY <1>1, <1>4, <1>6, SharedLoop
<1>. QED
  BY <1>2, <1>5, <1>7, ZenonT(30)

LEMMA LostDoes ==
    ASSUME NEW s \in Loop, NEW t, t = [s EXCEPT !.g.incomplete = TRUE]
    PROVE  /\ t \in Loop /\ t.ch = s.ch /\ SameRest(s.g, t.g) /\ t.g.incomplete
           /\ t.g.queued = s.g.queued /\ t.g.pending = s.g.pending /\ t.g.held = s.g.held
<1>1. s.g \in Gen /\ s.ch \in Seq(Job) /\ s = Shared(s.g, s.ch) /\ TRUE \in Flag
  BY LoopParts DEF Flag
<1> DEFINE h == [s.g EXCEPT !.incomplete = TRUE]
<1>4. h \in Gen
  BY <1>1, ZenonT(30) DEF Gen
<1>5. /\ SameRest(s.g, h) /\ h.incomplete /\ h.queued = s.g.queued /\ h.pending = s.g.pending /\ h.held = s.g.held
  BY <1>1, <1>4 DEF SameRest, SameIndex, Sticky, Gen
<1>6. t = Shared(h, s.ch)
  BY <1>1, ZenonT(30) DEF Shared
<1> HIDE DEF h
<1>7. t \in Loop /\ t.g = h /\ t.ch = s.ch
  BY ONLY <1>1, <1>4, <1>6, SharedLoop
<1>. QED
  BY <1>5, <1>7, ZenonT(30)

\* Nothing that holds of the loop is about losses, or about events that wait.
LEMMA SameRestOK ==
    ASSUME NEW g, NEW ch, NEW rs, NEW ep, NEW ld, LoopOK(g, ch, rs, ep, ld), NEW h, SameRest(g, h), h.queued = g.queued
    PROVE  LoopOK(h, ch, rs, ep, ld)
<1>1. /\ h.nextSeq = g.nextSeq /\ h.lookup = g.lookup /\ h.queued = g.queued
      /\ h.idx = g.idx /\ h.db = g.db /\ h.basis = g.basis /\ h.epoch = g.epoch /\ h \in Gen
  BY DEF SameRest, SameIndex
<1>2. Own(h, ch, rs)
  BY <1>1, ZenonT(30) DEF LoopOK, Own
<1>3. BuildLast(h, ch, rs) /\ Epochs(h, ch, rs, ep) /\ Roots(h, ch, rs, ld)
  BY <1>1, ZenonT(30) DEF LoopOK, BuildLast, Epochs, Roots
<1>. QED
  BY <1>1, <1>2, <1>3 DEF LoopOK

\* A batch of the current epoch waits behind the outstanding lookup.
LEMMA QueuedOK ==
    ASSUME NEW g, NEW ch, NEW rs, NEW ep, NEW ld, LoopOK(g, ch, rs, ep, ld), g.idx = "ready",
           g.lookup # NoLookup, NEW b \in BatchSet, b.epoch = g.epoch, b.src \in {"sample", "pending"} => b.root = g.basis,
           NEW h, SameRest(g, h), h.queued = Append(g.queued, b)
    PROVE  LoopOK(h, ch, rs, ep, ld)
<1>1. /\ h.nextSeq = g.nextSeq /\ h.lookup = g.lookup
      /\ h.idx = g.idx /\ h.db = g.db /\ h.basis = g.basis /\ h.epoch = g.epoch /\ h \in Gen
  BY DEF SameRest, SameIndex
<1>2. g.queued \in Seq(BatchSet) /\ g.epoch \in Nat
  BY GenParts, ZenonT(30) DEF LoopOK
<1>3. PICK q : q = h.queued
  OBVIOUS
<1>4. DOMAIN q = DOMAIN g.queued \cup {Len(g.queued) + 1} /\ q[Len(g.queued) + 1] = b /\ \A i \in DOMAIN g.queued : q[i] = g.queued[i]
  BY <1>2, <1>3, AppendParts
<1>5. Own(h, ch, rs) /\ BuildLast(h, ch, rs)
  BY <1>1, ZenonT(30) DEF LoopOK, Own, BuildLast
<1>6. \A i \in DOMAIN q : q[i].epoch <= g.epoch /\ (q[i].epoch = g.epoch => g.idx = "ready")
  <2>1. \A i \in DOMAIN g.queued : g.queued[i].epoch <= g.epoch /\ (g.queued[i].epoch = g.epoch => g.idx = "ready")
    BY DEF LoopOK, Epochs
  <2>2. b.epoch <= g.epoch
    BY <1>2
  <2>. QED
    BY <1>4, <2>1, <2>2, ZenonT(30)
<1>7. Epochs(h, ch, rs, ep)
  BY <1>1, <1>3, <1>6, ZenonT(30) DEF LoopOK, Epochs
<1>8. \A i \in DOMAIN q : q[i].epoch = g.epoch /\ q[i].src \in {"sample", "pending"} => q[i].root = g.basis
  <2>1. \A i \in DOMAIN g.queued : g.queued[i].epoch = g.epoch /\ g.queued[i].src \in {"sample", "pending"} => g.queued[i].root = g.basis
    BY DEF LoopOK, Roots
  <2>. QED
    BY <1>4, <2>1, ZenonT(30)
<1>9. Roots(h, ch, rs, ld)
  BY <1>1, <1>3, <1>8, ZenonT(30) DEF LoopOK, Roots
<1>. QED
  BY <1>1, <1>5, <1>7, <1>9 DEF LoopOK

LEMMA SubmitOrQueueOK ==
    ASSUME NEW s \in Loop, NEW rs \in Seq(AnswerSet), NEW ep, NEW ld, LoopOK(s.g, s.ch, rs, ep, ld),
           s.g.idx = "ready", NEW b \in BatchSet, b.epoch = s.g.epoch,
           b.src \in {"sample", "pending"} => b.root = s.g.basis,
           NEW t, t = SubmitOrQueue(s, b)
    PROVE  Sends(s, t, rs, ep, ld, {b.id})
<1>1. CASE s.g.lookup = NoLookup
  <2>1. t = SubmitBatches(s, <<b>>)
    BY <1>1 DEF SubmitOrQueue
  <2>2. PICK bs : bs = <<b>>
    BY ZenonT(30)
  <2>3. bs \in Seq(BatchSet) /\ DOMAIN bs = {1} /\ bs[1] = b
    BY <2>2
  <2>4. SampledIn(bs, s.g.basis)
    BY <2>3 DEF SampledIn
  <2>5. Ids(bs) = {b.id}
    BY <2>3 DEF Ids, Range
  <2>6. t = SubmitBatches(s, bs)
    BY ONLY <2>1, <2>2
  <2>7. Sends(s, t, rs, ep, ld, Ids(bs))
    BY ONLY <1>1, <2>3, <2>4, <2>6, SubmitBatchesOK, s \in Loop, rs \in Seq(AnswerSet),
            LoopOK(s.g, s.ch, rs, ep, ld), s.g.idx = "ready"
  <2>. QED
    BY <2>5, <2>7
<1>2. CASE s.g.lookup # NoLookup /\ Len(s.g.queued) < QueueCap
  <2>1. t = [s EXCEPT !.g.queued = Append(@, b)]
    BY <1>2 DEF SubmitOrQueue
  <2>2. /\ t \in Loop /\ t.ch = s.ch /\ SameRest(s.g, t.g)
        /\ t.g.queued = Append(s.g.queued, b) /\ t.g.pending = s.g.pending /\ t.g.held = s.g.held
    BY <2>1, QueuedDoes, ZenonT(30)
  <2>3. LoopOK(t.g, t.ch, rs, ep, ld)
    BY ONLY <1>2, <2>2, QueuedOK, LoopOK(s.g, s.ch, rs, ep, ld), s.g.idx = "ready", b \in BatchSet, b.epoch = s.g.epoch,
            b.src \in {"sample", "pending"} => b.root = s.g.basis, ZenonT(30)
  <2>4. s.g.queued \in Seq(BatchSet)
    BY LoopParts, GenParts, ZenonT(30)
  <2>5. Ids(t.g.queued) = Ids(s.g.queued) \cup {b.id}
    BY <2>2, <2>4, IdsAppend
  <2>. QED
    BY <2>2, <2>3, <2>5 DEF Sends, SameRest, Submitted
<1>3. CASE s.g.lookup # NoLookup /\ ~ (Len(s.g.queued) < QueueCap)
  <2>1. t = [s EXCEPT !.g.incomplete = TRUE]
    BY <1>3 DEF SubmitOrQueue
  <2>2. /\ t \in Loop /\ t.ch = s.ch /\ SameRest(s.g, t.g) /\ t.g.incomplete
        /\ t.g.queued = s.g.queued /\ t.g.pending = s.g.pending /\ t.g.held = s.g.held
    BY <2>1, LostDoes, ZenonT(30)
  <2>3. LoopOK(t.g, t.ch, rs, ep, ld)
    BY <2>2, SameRestOK
  <2>. QED
    BY <2>2, <2>3 DEF Sends, SameRest
<1>. QED
  BY <1>1, <1>2, <1>3

\* recordPendingEvent and recordPendingMountViewEvent.
Waits(s, t, e) ==
    /\ t \in Loop /\ t.ch = s.ch /\ SameRest(s.g, t.g) /\ t.g.queued = s.g.queued
    /\ \/ t.g.incomplete
       \/ Ids(t.g.held) \cup Ids(t.g.pending) = Ids(s.g.held) \cup Ids(s.g.pending) \cup {e.id}

LEMMA HoldDoes ==
    ASSUME NEW s \in Loop, NEW q \in {"held", "pending"}, NEW e \in Event,
           NEW t, t = [s EXCEPT !.g = Hold(@, q, e)]
    PROVE  Waits(s, t, e)
<1>1. /\ s.g \in Gen /\ s.ch \in Seq(Job) /\ s = Shared(s.g, s.ch)
      /\ s.g.held \in Seq(Event) /\ s.g.pending \in Seq(Event) /\ TRUE \in Flag
  BY LoopParts, GenParts, ZenonT(30) DEF Flag
<1>2. PICK h : h = Hold(s.g, q, e)
  OBVIOUS
<1>3. /\ h \in Gen /\ SameRest(s.g, h) /\ h.queued = s.g.queued
      /\ \/ h.incomplete
         \/ Ids(h.held) \cup Ids(h.pending) = Ids(s.g.held) \cup Ids(s.g.pending) \cup {e.id}
  <2>1. CASE ~ (Len(s.g[q]) < PendCap)
    <3>1. h = [s.g EXCEPT !.incomplete = TRUE]
      BY <1>2, <2>1 DEF Hold
    <3>2. h \in Gen
      BY <1>1, <3>1, ZenonT(30) DEF Gen
    <3>. QED
      BY <1>1, <3>1, <3>2 DEF SameRest, SameIndex, Sticky, Gen
  <2>2. CASE Len(s.g[q]) < PendCap /\ q = "held"
    <3>1. PICK p : p = Append(s.g.held, e)
      BY ZenonT(30)
    <3>2. p \in EventQueue /\ Ids(p) = Ids(s.g.held) \cup {e.id}
      BY <1>1, <3>1, AppendParts, IdsAppend DEF EventQueue
    <3>3. h = [s.g EXCEPT !.held = p]
      BY <1>2, <2>2, <3>1, ZenonT(30) DEF Hold
    <3>4. h \in Gen
      BY <1>1, <3>2, <3>3, ZenonT(30) DEF Gen
    <3>5. SameRest(s.g, h) /\ h.queued = s.g.queued /\ h.held = p /\ h.pending = s.g.pending
      BY <1>1, <3>3, <3>4 DEF SameRest, SameIndex, Sticky, Gen
    <3>. QED
      BY <3>2, <3>4, <3>5
  <2>3. CASE Len(s.g[q]) < PendCap /\ q = "pending"
    <3>1. PICK p : p = Append(s.g.pending, e)
      BY ZenonT(30)
    <3>2. p \in EventQueue /\ Ids(p) = Ids(s.g.pending) \cup {e.id}
      BY <1>1, <3>1, AppendParts, IdsAppend DEF EventQueue
    <3>3. h = [s.g EXCEPT !.pending = p]
      BY <1>2, <2>3, <3>1, ZenonT(30) DEF Hold
    <3>4. h \in Gen
      BY <1>1, <3>2, <3>3, ZenonT(30) DEF Gen
    <3>5. SameRest(s.g, h) /\ h.queued = s.g.queued /\ h.pending = p /\ h.held = s.g.held
      BY <1>1, <3>3, <3>4 DEF SameRest, SameIndex, Sticky, Gen
    <3>. QED
      BY <3>2, <3>4, <3>5
  <2>. QED
    BY <2>1, <2>2, <2>3
<1>4. t = Shared(h, s.ch)
  BY <1>1, <1>2 DEF Shared
<1>5. t \in Loop /\ t.g = h /\ t.ch = s.ch
  BY ONLY <1>1, <1>3, <1>4, SharedLoop
<1>. QED
  BY <1>3, <1>5 DEF Waits

\* As Sends, for handlers that may also let an event wait.
Routes(s, t, rs, ep, ld, ids) ==
    /\ t \in Loop /\ LoopOK(t.g, t.ch, rs, ep, ld) /\ SameIndex(s.g, t.g) /\ Sticky(s.g, t.g)
    /\ t.g.incomplete \/ Tracked(s.g) \cup ids \subseteq Tracked(t.g)

LEMMA SendsRoutes ==
    ASSUME NEW s, NEW t, NEW rs, NEW ep, NEW ld, NEW ids, Sends(s, t, rs, ep, ld, ids)
    PROVE  Routes(s, t, rs, ep, ld, ids)
BY DEF Sends, Routes, Tracked

LEMMA DispatchUsageEventOK ==
    ASSUME NEW s \in Loop, NEW rs \in Seq(AnswerSet), NEW ep, NEW ld, LoopOK(s.g, s.ch, rs, ep, ld),
           NEW e \in Event, NEW src \in {"event", "held"}, NEW t, t = DispatchUsageEvent(s, e, src)
    PROVE  Routes(s, t, rs, ep, ld, {e.id})
<1>1. ASSUME Waits(s, t, e)
      PROVE  Routes(s, t, rs, ep, ld, {e.id})
  <2>1. /\ t \in Loop /\ t.ch = s.ch /\ SameRest(s.g, t.g) /\ t.g.queued = s.g.queued
        /\ \/ t.g.incomplete
           \/ Ids(t.g.held) \cup Ids(t.g.pending) = Ids(s.g.held) \cup Ids(s.g.pending) \cup {e.id}
    BY <1>1 DEF Waits
  <2>2. LoopOK(t.g, t.ch, rs, ep, ld)
    BY <2>1, SameRestOK
  <2>. QED
    BY <2>1, <2>2 DEF Routes, SameRest, Tracked, Submitted
<1>2. CASE s.g.view = 0
  <2>1. t = [s EXCEPT !.g = Hold(@, "held", e)]
    BY <1>2 DEF DispatchUsageEvent
  <2>2. Waits(s, t, e)
    BY <2>1, HoldDoes
  <2>. QED
    BY <1>1, <2>2
<1>3. CASE s.g.view # 0 /\ s.g.view # e.root
  <2>1. t = [s EXCEPT !.g.incomplete = TRUE]
    BY <1>3 DEF DispatchUsageEvent
  <2>2. /\ t \in Loop /\ t.ch = s.ch /\ SameRest(s.g, t.g) /\ t.g.incomplete /\ t.g.queued = s.g.queued
    BY <2>1, LostDoes, ZenonT(30)
  <2>3. LoopOK(t.g, t.ch, rs, ep, ld)
    BY <2>2, SameRestOK
  <2>. QED
    BY <2>2, <2>3 DEF Routes, SameRest
<1>4. CASE s.g.view # 0 /\ s.g.view = e.root /\ s.g.idx # "ready"
  <2>1. t = [s EXCEPT !.g = Hold(@, "pending", e)]
    BY <1>4 DEF DispatchUsageEvent
  <2>2. Waits(s, t, e)
    BY <2>1, HoldDoes
  <2>. QED
    BY <1>1, <2>2
<1>5. CASE s.g.view # 0 /\ s.g.view = e.root /\ s.g.idx = "ready"
  <2>1. PICK b : b = Batch(e.id, src, e.root, s.g.epoch)
    OBVIOUS
  <2>2. t = SubmitOrQueue(s, b)
    BY <1>5, <2>1 DEF DispatchUsageEvent
  <2>3. s.g.epoch \in Nat
    BY LoopParts, GenParts, ZenonT(30)
  <2>4. b \in BatchSet /\ b.id = e.id /\ b.epoch = s.g.epoch /\ b.src \notin {"sample", "pending"}
    BY <2>1, <2>3 DEF Batch, BatchSet, Event
  <2>5. Sends(s, t, rs, ep, ld, {b.id})
    BY ONLY <1>5, <2>2, <2>4, SubmitOrQueueOK, s \in Loop, rs \in Seq(AnswerSet), LoopOK(s.g, s.ch, rs, ep, ld)
  <2>. QED
    BY <2>4, <2>5, SendsRoutes
<1>. QED
  BY <1>2, <1>3, <1>4, <1>5

-----------------------------------------------------------------------------
\* One handler after another.

LEMMA RoutesRefl ==
    ASSUME NEW s \in Loop, NEW rs, NEW ep, NEW ld, LoopOK(s.g, s.ch, rs, ep, ld)
    PROVE  Routes(s, s, rs, ep, ld, {}) /\ Sends(s, s, rs, ep, ld, {})
BY DEF Routes, Sends, SameIndex, Sticky

LEMMA RoutesTrans ==
    ASSUME NEW s, NEW t, NEW u, NEW rs, NEW ep, NEW ld, NEW ids, NEW more,
           Routes(s, t, rs, ep, ld, ids), Routes(t, u, rs, ep, ld, more)
    PROVE  Routes(s, u, rs, ep, ld, ids \cup more)
<1>1. SameIndex(s.g, u.g) /\ Sticky(s.g, u.g)
  BY DEF Routes, SameIndex, Sticky
<1>2. u.g.incomplete \/ Tracked(s.g) \cup (ids \cup more) \subseteq Tracked(u.g)
  BY DEF Routes, Sticky
<1>. QED
  BY <1>1, <1>2 DEF Routes

LEMMA SendsTrans ==
    ASSUME NEW s, NEW t, NEW u, NEW rs, NEW ep, NEW ld, NEW ids, NEW more,
           Sends(s, t, rs, ep, ld, ids), Sends(t, u, rs, ep, ld, more)
    PROVE  Sends(s, u, rs, ep, ld, ids \cup more)
<1>1. SameIndex(s.g, u.g) /\ Sticky(s.g, u.g) /\ u.g.pending = s.g.pending /\ u.g.held = s.g.held
  BY DEF Sends, SameIndex, Sticky
<1>2. u.g.incomplete \/ Submitted(s.g) \cup (ids \cup more) \subseteq Submitted(u.g)
  BY DEF Sends, Sticky
<1>. QED
  BY <1>1, <1>2 DEF Sends

\* The handlers stay within the states of the loop.
LEMMA HandlersType ==
    ASSUME NEW s \in Loop
    PROVE  /\ \A b \in BatchSet : SubmitOrQueue(s, b) \in Loop
           /\ \A e \in Event, src \in {"event", "held"} : DispatchUsageEvent(s, e, src) \in Loop
<1>1. ASSUME NEW b \in BatchSet
      PROVE  SubmitOrQueue(s, b) \in Loop
  <2>1. PICK bs : bs = <<b>>
    BY ZenonT(30)
  <2>2. bs \in Seq(BatchSet)
    BY <2>1
  <2>3. SubmitBatches(s, bs) \in Loop
    BY <2>2, SubmitBatchesDoes
  <2>4. [s EXCEPT !.g.queued = Append(@, b)] \in Loop
    BY QueuedDoes
  <2>5. [s EXCEPT !.g.incomplete = TRUE] \in Loop
    BY LostDoes
  <2>. QED
    BY <2>1, <2>3, <2>4, <2>5 DEF SubmitOrQueue
<1>2. ASSUME NEW e \in Event, NEW src \in {"event", "held"}
      PROVE  DispatchUsageEvent(s, e, src) \in Loop
  <2>1. [s EXCEPT !.g = Hold(@, "held", e)] \in Loop
    BY HoldDoes DEF Waits
  <2>2. [s EXCEPT !.g = Hold(@, "pending", e)] \in Loop
    BY HoldDoes DEF Waits
  <2>3. [s EXCEPT !.g.incomplete = TRUE] \in Loop
    BY LostDoes
  <2>4. s.g.epoch \in Nat
    BY LoopParts, GenParts, ZenonT(30)
  <2>5. Batch(e.id, src, e.root, s.g.epoch) \in BatchSet
    BY <2>4 DEF Batch, BatchSet, Event
  <2>6. SubmitOrQueue(s, Batch(e.id, src, e.root, s.g.epoch)) \in Loop
    BY <1>1, <2>5
  <2>. QED
    BY <2>1, <2>2, <2>3, <2>6 DEF DispatchUsageEvent
<1>. QED
  BY <1>1, <1>2

\* Dispatching the events of a queue loses none of them quietly.
LEMMA DispatchAllOK ==
    ASSUME NEW s \in Loop, NEW rs \in Seq(AnswerSet), NEW ep, NEW ld, LoopOK(s.g, s.ch, rs, ep, ld),
           NEW q \in Seq(Event), NEW src \in {"event", "held"}
    PROVE  Routes(s, DispatchAll(s, q, src), rs, ep, ld, Ids(q))
<1> DEFINE n == Len(q)
           One(u, e) == DispatchUsageEvent(u, e, src)
           st == [x \in Loop \X (1..n) |-> One(x[1], q[x[2]])]
<1>0. n \in Nat /\ \A i \in 1..n : q[i] \in Event
  OBVIOUS
<1>1. ASSUME NEW u \in Loop, NEW e \in Event
      PROVE  One(u, e) \in Loop
  BY HandlersType
<1>2. ASSUME NEW u, NEW e \in Event, NEW ids, Routes(s, u, rs, ep, ld, ids)
      PROVE  Routes(s, One(u, e), rs, ep, ld, ids \cup {e.id})
  <2>1. u \in Loop /\ LoopOK(u.g, u.ch, rs, ep, ld)
    BY <1>2 DEF Routes
  <2>2. PICK t : t = One(u, e)
    OBVIOUS
  <2>3. Routes(u, t, rs, ep, ld, {e.id})
    BY <2>1, <2>2, DispatchUsageEventOK, ZenonT(30)
  <2>. QED
    BY <1>2, <2>2, <2>3, RoutesTrans
<1> HIDE DEF One
<1>4. st \in [Loop \X (1..n) -> Loop]
  BY <1>0, <1>1
<1>5. \A u \in Loop, i \in 1..n : st[<<u, i>>] = One(u, q[i])
  OBVIOUS
<1> HIDE DEF st, n
<1>6. PICK f : f \in [0..n -> Loop] /\ f[0] = s /\ \A i \in 1..n : f[i] = st[<<f[i - 1], i>>]
  <2>1. PICK D : D = Loop
    OBVIOUS
  <2>2. s \in D /\ n \in Nat /\ StepOn(st, D, n)
    BY <1>0, <1>4, <2>1 DEF StepOn
  <2>3. \E f : RunOf(f, st, s, D, n)
    BY <2>2, Recursion
  <2>. QED
    BY <2>1, <2>3, ZenonT(30) DEF RunOf
<1>7. \A i \in 1..n : i - 1 \in 0..n /\ i \in 0..n
  BY <1>0
<1>8. f = [i \in 0..n |-> IF i = 0 THEN s ELSE One(f[i - 1], q[i])]
  <2>1. ASSUME NEW i \in 0..n
        PROVE  f[i] = IF i = 0 THEN s ELSE One(f[i - 1], q[i])
    <3>1. CASE i = 0
      BY <1>6, <3>1
    <3>2. CASE i # 0
      <4>1. i \in 1..n /\ i - 1 \in 0..n
        BY <1>0, <3>2
      <4>2. f[i] = One(f[i - 1], q[i])
        BY <1>5, <1>6, <4>1, ZenonT(30)
      <4>. QED
        BY <3>2, <4>2
    <3>. QED
      BY <3>1, <3>2
  <2>. QED
    BY <1>6, <2>1
<1> DEFINE after == CHOOSE h : h = [i \in 0..n |-> IF i = 0 THEN s ELSE One(h[i - 1], q[i])]
<1>9. after = [i \in 0..n |-> IF i = 0 THEN s ELSE One(after[i - 1], q[i])]
  BY <1>8, ZenonT(30)
<1>10. DispatchAll(s, q, src) = after[n]
  BY DEF DispatchAll, One, n
<1> HIDE DEF after
<1>11. after[0] = s /\ \A i \in 1..n : after[i] = One(after[i - 1], q[i])
  BY <1>0, <1>7, <1>9
<1> DEFINE Seen(i) == {q[j].id : j \in 1..i}
           U == {i \in 0..n : Routes(s, after[i], rs, ep, ld, Seen(i))}
<1>12. 0 \in U
  <2>1. Seen(0) = {}
    OBVIOUS
  <2>2. Routes(s, s, rs, ep, ld, {})
    BY RoutesRefl
  <2>3. Routes(s, after[0], rs, ep, ld, Seen(0))
    BY ONLY <1>11, <2>1, <2>2, ZenonT(30)
  <2>4. 0 \in 0..n
    BY <1>0
  <2> HIDE DEF Seen
  <2>. QED
    BY <2>3, <2>4
<1>13. ASSUME NEW i \in 1..n, i - 1 \in U
      PROVE  i \in U
  <2>1. Routes(s, after[i - 1], rs, ep, ld, Seen(i - 1))
    BY <1>13
  <2>2. Seen(i) = Seen(i - 1) \cup {q[i].id}
    BY <1>0
  <2>3. q[i] \in Event /\ after[i] = One(after[i - 1], q[i]) /\ i \in 0..n
    BY <1>0, <1>7, <1>11
  <2> HIDE DEF Seen
  <2>4. PICK u, e, ids : u = after[i - 1] /\ e = q[i] /\ ids = Seen(i - 1)
    OBVIOUS
  <2>5. Routes(s, One(u, e), rs, ep, ld, ids \cup {e.id})
    BY <1>2, <2>1, <2>3, <2>4
  <2>6. Routes(s, after[i], rs, ep, ld, Seen(i))
    BY ONLY <2>2, <2>3, <2>4, <2>5
  <2>. QED
    BY <2>3, <2>6
<1>14. n \in 0..n
  BY <1>0
<1>15. n \in U
  <2> HIDE DEF U
  <2>. QED
    BY <1>0, <1>12, <1>13, <1>14, Induct, ZenonT(30)
<1>16. Ids(q) = Seen(n)
  <2>1. DOMAIN q = 1..n
    BY DEF n
  <2>. QED
    BY <2>1, ZenonT(30) DEF Ids, Range
<1> HIDE DEF Seen
<1>17. Routes(s, after[n], rs, ep, ld, Seen(n))
  BY <1>15
<1>. QED
  BY ONLY <1>10, <1>16, <1>17

\* What a sample of the index's root re-checked is submitted, or the claim withdrawn.
LEMMA SubmitVerifiedOK ==
    ASSUME NEW s \in Loop, NEW rs \in Seq(AnswerSet), NEW ep, NEW ld, LoopOK(s.g, s.ch, rs, ep, ld),
           NEW q \in Seq(Event), NEW basis \in Nat,
           q # <<>> => s.g.idx = "ready" /\ s.g.basis = basis
    PROVE  Sends(s, SubmitVerified(s, q, basis), rs, ep, ld, Ids(q))
<1> DEFINE n == Len(q)
           One(u, e) == SubmitOrQueue(u, Batch(e.id, "pending", basis, u.g.epoch))
           st == [x \in Loop \X (1..n) |-> One(x[1], q[x[2]])]
<1>0. n \in Nat /\ \A i \in 1..n : q[i] \in Event
  OBVIOUS
<1>1. ASSUME NEW u \in Loop, NEW e \in Event
      PROVE  One(u, e) \in Loop
  <2>1. u.g.epoch \in Nat
    BY LoopParts, GenParts, ZenonT(30)
  <2>2. Batch(e.id, "pending", basis, u.g.epoch) \in BatchSet
    BY <2>1 DEF Batch, BatchSet, Event
  <2>. QED
    BY <2>2, HandlersType
<1>2. ASSUME q # <<>>, NEW u, NEW e \in Event, NEW ids, Sends(s, u, rs, ep, ld, ids)
      PROVE  Sends(s, One(u, e), rs, ep, ld, ids \cup {e.id})
  <2>1. u \in Loop /\ LoopOK(u.g, u.ch, rs, ep, ld) /\ u.g.idx = "ready" /\ u.g.basis = basis
    BY <1>2, ZenonT(30) DEF Sends, SameIndex
  <2>2. PICK b : b = Batch(e.id, "pending", basis, u.g.epoch)
    OBVIOUS
  <2>3. u.g.epoch \in Nat
    BY <2>1, LoopParts, GenParts, ZenonT(30)
  <2>4. b \in BatchSet /\ b.id = e.id /\ b.epoch = u.g.epoch /\ b.root = u.g.basis
    BY <2>1, <2>2, <2>3 DEF Batch, BatchSet, Event
  <2>5. PICK t : t = SubmitOrQueue(u, b)
    OBVIOUS
  <2>6. Sends(u, t, rs, ep, ld, {b.id})
    BY ONLY <2>1, <2>4, <2>5, SubmitOrQueueOK, rs \in Seq(AnswerSet)
  <2>7. t = One(u, e)
    BY <2>2, <2>5
  <2> HIDE DEF One
  <2>8. Sends(u, One(u, e), rs, ep, ld, {e.id})
    BY ONLY <2>4, <2>6, <2>7
  <2>. QED
    BY <1>2, <2>8, SendsTrans
<1> HIDE DEF One
<1>4. st \in [Loop \X (1..n) -> Loop]
  BY <1>0, <1>1
<1>5. \A u \in Loop, i \in 1..n : st[<<u, i>>] = One(u, q[i])
  OBVIOUS
<1> HIDE DEF st, n
<1>6. PICK f : f \in [0..n -> Loop] /\ f[0] = s /\ \A i \in 1..n : f[i] = st[<<f[i - 1], i>>]
  <2>1. PICK D : D = Loop
    OBVIOUS
  <2>2. s \in D /\ n \in Nat /\ StepOn(st, D, n)
    BY <1>0, <1>4, <2>1 DEF StepOn
  <2>3. \E f : RunOf(f, st, s, D, n)
    BY <2>2, Recursion
  <2>. QED
    BY <2>1, <2>3, ZenonT(30) DEF RunOf
<1>7. \A i \in 1..n : i - 1 \in 0..n /\ i \in 0..n
  BY <1>0
<1>8. f = [i \in 0..n |-> IF i = 0 THEN s ELSE One(f[i - 1], q[i])]
  <2>1. ASSUME NEW i \in 0..n
        PROVE  f[i] = IF i = 0 THEN s ELSE One(f[i - 1], q[i])
    <3>1. CASE i = 0
      BY <1>6, <3>1
    <3>2. CASE i # 0
      <4>1. i \in 1..n /\ i - 1 \in 0..n
        BY <1>0, <3>2
      <4>2. f[i] = One(f[i - 1], q[i])
        BY <1>5, <1>6, <4>1, ZenonT(30)
      <4>. QED
        BY <3>2, <4>2
    <3>. QED
      BY <3>1, <3>2
  <2>. QED
    BY <1>6, <2>1
<1> DEFINE after == CHOOSE h : h = [i \in 0..n |-> IF i = 0 THEN s ELSE One(h[i - 1], q[i])]
<1>9. after = [i \in 0..n |-> IF i = 0 THEN s ELSE One(after[i - 1], q[i])]
  BY <1>8, ZenonT(30)
<1>10. SubmitVerified(s, q, basis) = after[n]
  BY DEF SubmitVerified, One, n
<1> HIDE DEF after
<1>11. after[0] = s /\ \A i \in 1..n : after[i] = One(after[i - 1], q[i])
  BY <1>0, <1>7, <1>9
<1> DEFINE Seen(i) == {q[j].id : j \in 1..i}
           U == {i \in 0..n : Sends(s, after[i], rs, ep, ld, Seen(i))}
<1>12. 0 \in U
  <2>1. Seen(0) = {}
    OBVIOUS
  <2>2. Sends(s, s, rs, ep, ld, {})
    BY RoutesRefl
  <2>3. Sends(s, after[0], rs, ep, ld, Seen(0))
    BY ONLY <1>11, <2>1, <2>2, ZenonT(30)
  <2>4. 0 \in 0..n
    BY <1>0
  <2> HIDE DEF Seen
  <2>. QED
    BY <2>3, <2>4
<1>13. ASSUME NEW i \in 1..n, i - 1 \in U
      PROVE  i \in U
  <2>1. Sends(s, after[i - 1], rs, ep, ld, Seen(i - 1))
    BY <1>13
  <2>2. Seen(i) = Seen(i - 1) \cup {q[i].id}
    BY <1>0
  <2>. q # <<>>
    BY DEF n
  <2>3. q[i] \in Event /\ after[i] = One(after[i - 1], q[i]) /\ i \in 0..n
    BY <1>0, <1>7, <1>11
  <2> HIDE DEF Seen
  <2>4. PICK u, e, ids : u = after[i - 1] /\ e = q[i] /\ ids = Seen(i - 1)
    OBVIOUS
  <2>5. Sends(s, One(u, e), rs, ep, ld, ids \cup {e.id})
    BY <1>2, <2>1, <2>3, <2>4
  <2>6. Sends(s, after[i], rs, ep, ld, Seen(i))
    BY ONLY <2>2, <2>3, <2>4, <2>5
  <2>. QED
    BY <2>3, <2>6
<1>14. n \in 0..n
  BY <1>0
<1>15. n \in U
  <2> HIDE DEF U
  <2>. QED
    BY <1>0, <1>12, <1>13, <1>14, Induct, ZenonT(30)
<1>16. Ids(q) = Seen(n)
  <2>1. DOMAIN q = 1..n
    BY DEF n
  <2>. QED
    BY <2>1, ZenonT(30) DEF Ids, Range
<1> HIDE DEF Seen
<1>17. Sends(s, after[n], rs, ep, ld, Seen(n))
  BY <1>15
<1>. QED
  BY ONLY <1>10, <1>16, <1>17

-----------------------------------------------------------------------------
\* applySampleResult

\* A handler that touches neither lookups, nor the queue, nor the index.
Touches(s, t) ==
    /\ t \in Loop /\ t.ch = s.ch /\ SameRest(s.g, t.g) /\ t.g.queued = s.g.queued
    /\ t.g.pending = s.g.pending /\ t.g.held = s.g.held

LEMMA TouchesRoutes ==
    ASSUME NEW s, NEW t, NEW rs, NEW ep, NEW ld, LoopOK(s.g, s.ch, rs, ep, ld), Touches(s, t)
    PROVE  Routes(s, t, rs, ep, ld, {})
<1>1. LoopOK(t.g, t.ch, rs, ep, ld)
  BY SameRestOK DEF Touches
<1>. QED
  BY <1>1 DEF Touches, SameRest, Routes, Tracked, Submitted

LEMMA IncompleteTouches ==
    ASSUME NEW s \in Loop, NEW c \in BOOLEAN, NEW t, t = [s EXCEPT !.g.incomplete = @ \/ c]
    PROVE  Touches(s, t)
<1>1. s.g \in Gen /\ s.ch \in Seq(Job) /\ s = Shared(s.g, s.ch) /\ s.g.incomplete \in Flag
  BY LoopParts DEF Gen
<1>2. PICK f : f = (s.g.incomplete \/ c)
  OBVIOUS
<1>3. f \in Flag /\ (s.g.incomplete => f)
  BY <1>1, <1>2 DEF Flag
<1> DEFINE h == [s.g EXCEPT !.incomplete = f]
<1>4. h \in Gen
  BY <1>1, <1>3, ZenonT(30) DEF Gen
<1>5. /\ SameRest(s.g, h) /\ h.queued = s.g.queued /\ h.pending = s.g.pending /\ h.held = s.g.held
  BY <1>1, <1>3, <1>4 DEF SameRest, SameIndex, Sticky, Gen
<1>6. t = Shared(h, s.ch)
  BY <1>1, <1>2 DEF Shared
<1> HIDE DEF h
<1>7. t \in Loop /\ t.g = h /\ t.ch = s.ch
  BY ONLY <1>1, <1>4, <1>6, SharedLoop
<1>. QED
  BY <1>5, <1>7 DEF Touches

LEMMA DeniedTouches ==
    ASSUME NEW s \in Loop, NEW c \in BOOLEAN, NEW t, t = [s EXCEPT !.g.denied = c]
    PROVE  Touches(s, t)
<1>1. s.g \in Gen /\ s.ch \in Seq(Job) /\ s = Shared(s.g, s.ch) /\ c \in Flag
  BY LoopParts DEF Flag
<1> DEFINE h == [s.g EXCEPT !.denied = c]
<1>4. h \in Gen
  BY <1>1, ZenonT(30) DEF Gen
<1>5. /\ SameRest(s.g, h) /\ h.queued = s.g.queued /\ h.pending = s.g.pending /\ h.held = s.g.held
  BY <1>1, <1>4 DEF SameRest, SameIndex, Sticky, Gen
<1>6. t = Shared(h, s.ch)
  BY <1>1 DEF Shared
<1> HIDE DEF h
<1>7. t \in Loop /\ t.g = h /\ t.ch = s.ch
  BY ONLY <1>1, <1>4, <1>6, SharedLoop
<1>. QED
  BY <1>5, <1>7 DEF Touches

LEMMA ConfirmedTouches ==
    ASSUME NEW s \in Loop, NEW c \in BOOLEAN, NEW t, t = [s EXCEPT !.g.postIndexConfirmed = @ \/ c]
    PROVE  Touches(s, t)
<1>1. s.g \in Gen /\ s.ch \in Seq(Job) /\ s = Shared(s.g, s.ch) /\ s.g.postIndexConfirmed \in Flag
  BY LoopParts DEF Gen
<1>2. PICK f : f = (s.g.postIndexConfirmed \/ c)
  OBVIOUS
<1>3. f \in Flag
  BY <1>1, <1>2 DEF Flag
<1> DEFINE h == [s.g EXCEPT !.postIndexConfirmed = f]
<1>4. h \in Gen
  BY <1>1, <1>3, ZenonT(30) DEF Gen
<1>5. /\ SameRest(s.g, h) /\ h.queued = s.g.queued /\ h.pending = s.g.pending /\ h.held = s.g.held
  BY <1>1, <1>4 DEF SameRest, SameIndex, Sticky, Gen
<1>6. t = Shared(h, s.ch)
  BY <1>1, <1>2 DEF Shared
<1> HIDE DEF h
<1>7. t \in Loop /\ t.g = h /\ t.ch = s.ch
  BY ONLY <1>1, <1>4, <1>6, SharedLoop
<1>. QED
  BY <1>5, <1>7 DEF Touches

\* drainPendingMountViewEvents: the events held for the view are dispatched.
LEMMA ConfirmViewOK ==
    ASSUME NEW s \in Loop, NEW rs \in Seq(AnswerSet), NEW ep, NEW ld, LoopOK(s.g, s.ch, rs, ep, ld),
           NEW basis \in Nat, NEW t, t = ConfirmView(s, basis)
    PROVE  Routes(s, t, rs, ep, ld, {})
<1>1. CASE s.g.view # 0 \/ basis = 0
  BY <1>1, RoutesRefl DEF ConfirmView
<1>2. CASE ~ (s.g.view # 0 \/ basis = 0)
  <2>1. /\ s.g \in Gen /\ s.ch \in Seq(Job) /\ s = Shared(s.g, s.ch) /\ basis \in Num /\ <<>> \in EventQueue
        /\ s.g.held \in Seq(Event)
    <3>1. <<>> \in EventQueue /\ basis \in Num
      BY DEF EventQueue, Num
    <3>. QED
      BY <3>1, LoopParts, GenParts, ZenonT(30)
  <2>. DEFINE h == [s.g EXCEPT !.view = basis, !.held = <<>>]
  <2>2. h \in Gen
    BY <2>1, ZenonT(30) DEF Gen
  <2>3. SameRest(s.g, h) /\ h.queued = s.g.queued /\ h.pending = s.g.pending
    BY <2>1, <2>2 DEF SameRest, SameIndex, Sticky, Gen
  <2>5. PICK u : u = Shared(h, s.ch)
    OBVIOUS
  <2>6. t = DispatchAll(u, s.g.held, "held")
    BY <1>2, <2>5 DEF ConfirmView
  <2> HIDE DEF h
  <2>7. u \in Loop /\ u.g = h /\ u.ch = s.ch
    BY ONLY <2>1, <2>2, <2>5, SharedLoop
  <2>8. LoopOK(u.g, u.ch, rs, ep, ld)
    BY <2>3, <2>7, SameRestOK
  <2>9. PICK q : q = s.g.held
    OBVIOUS
  <2>10. Routes(u, t, rs, ep, ld, Ids(q))
    <3>1. q \in Seq(Event) /\ t = DispatchAll(u, q, "held")
      BY ONLY <2>1, <2>6, <2>9
    <3>. QED
      BY <2>7, <2>8, <3>1, DispatchAllOK
  <2>11. SameIndex(s.g, t.g) /\ Sticky(s.g, t.g)
    BY <2>3, <2>7, <2>10 DEF Routes, SameRest, SameIndex, Sticky
  <2>12. Tracked(s.g) \subseteq Tracked(u.g) \cup Ids(q)
    BY <2>3, <2>7, <2>9 DEF SameRest, Tracked, Submitted
  <2>. QED
    BY <2>10, <2>11, <2>12 DEF Routes
<1>. QED
  BY <1>1, <1>2

LEMMA IdsKept ==
    ASSUME NEW q \in Seq(Event), NEW S
    PROVE  Kept(q, S) \in Seq(Event) /\ Ids(Kept(q, S)) = {e.id : e \in Range(q) \cap S}
<1>1. Kept(q, S) \in Seq(Event) /\ Range(Kept(q, S)) = Range(q) \cap S
  BY KeptIs
<1>. QED
  BY <1>1, ZenonT(30) DEF Ids

\* The queue of events after applyEventVerificationResult.
Settled(s, S, c) ==
    Shared([s.g EXCEPT !.pending = Kept(@, Range(@) \ S), !.incomplete = @ \/ c], s.ch)

LEMMA SettleDoes ==
    ASSUME NEW s \in Loop, NEW S, NEW c \in BOOLEAN, NEW t, t = Settled(s, S, c)
    PROVE  /\ t \in Loop /\ t.ch = s.ch /\ SameRest(s.g, t.g) /\ t.g.queued = s.g.queued
           /\ t.g.held = s.g.held /\ (c => t.g.incomplete)
           /\ Ids(t.g.pending) = {e.id : e \in Range(s.g.pending) \ S}
<1>1. /\ s.g \in Gen /\ s.ch \in Seq(Job) /\ s = Shared(s.g, s.ch) /\ s.g.incomplete \in Flag
      /\ s.g.pending \in Seq(Event)
  BY LoopParts, GenParts, ZenonT(30) DEF Gen
<1>2. PICK f : f = (s.g.incomplete \/ c)
  OBVIOUS
<1>3. f \in Flag /\ (s.g.incomplete => f) /\ (c => f)
  BY <1>1, <1>2 DEF Flag
<1>4. PICK p : p = Kept(s.g.pending, Range(s.g.pending) \ S)
  OBVIOUS
<1>5. p \in EventQueue /\ Ids(p) = {e.id : e \in Range(s.g.pending) \ S}
  <2>1. Ids(p) = {e.id : e \in Range(s.g.pending) \cap (Range(s.g.pending) \ S)} /\ p \in Seq(Event)
    BY <1>1, <1>4, IdsKept
  <2>2. Range(s.g.pending) \cap (Range(s.g.pending) \ S) = Range(s.g.pending) \ S
    OBVIOUS
  <2>. QED
    BY <2>1, <2>2 DEF EventQueue
<1> DEFINE h == [s.g EXCEPT !.pending = p, !.incomplete = f]
<1>6. h \in Gen
  BY <1>1, <1>3, <1>5, ZenonT(30) DEF Gen
<1>7. SameRest(s.g, h) /\ h.queued = s.g.queued /\ h.held = s.g.held /\ h.pending = p /\ h.incomplete = f
  BY <1>1, <1>3, <1>6 DEF SameRest, SameIndex, Sticky, Gen
<1>8. t = Shared(h, s.ch)
  BY <1>2, <1>4 DEF Settled
<1> HIDE DEF h
<1>9. t \in Loop /\ t.g = h /\ t.ch = s.ch
  BY ONLY <1>1, <1>6, <1>8, SharedLoop, ZenonT(30)
<1>. QED
  BY <1>3, <1>5, <1>7, <1>9

\* applyEventVerificationResult: an event leaves the queue only as a lookup, or
\* with the loss recorded.
LEMMA VerifyPendingOK ==
    ASSUME NEW s \in Loop, NEW rs \in Seq(AnswerSet), NEW ep, NEW ld, LoopOK(s.g, s.ch, rs, ep, ld),
           NEW res \in Result, res.verified # <<>> => s.g.idx = "ready" /\ s.g.basis = res.basis,
           NEW late, NEW t, t = VerifyPending(s, res, late)
    PROVE  Routes(s, t, rs, ep, ld, {})
<1>1. res.basis \in Nat /\ res.verified \in Seq(Event) /\ res.gone \in Seq(Event) /\ s.g.pending \in Seq(Event)
  BY LoopParts, GenParts, ZenonT(30) DEF Result
<1>2. PICK still, q, S, c : /\ still = Range(Drop(s.g.pending, late)) /\ q = Kept(res.verified, still)
                            /\ S = (Range(res.verified) \cup Range(res.gone)) \cap still
                            /\ c = (Range(res.gone) \cap still # {})
  BY ZenonT(30)
<1>3. PICK u : u = SubmitVerified(s, q, res.basis)
  OBVIOUS
<1>4. t = Settled(u, S, c)
  BY <1>2, <1>3, ZenonT(30) DEF VerifyPending, Settled
<1>5. q \in Seq(Event) /\ Ids(q) = {e.id : e \in Range(res.verified) \cap still} /\ c \in BOOLEAN
  BY <1>1, <1>2, IdsKept
<1>6. q # <<>> => s.g.idx = "ready" /\ s.g.basis = res.basis
  <2>1. SUFFICES ASSUME res.verified = <<>> PROVE q = <<>>
    OBVIOUS
  <2>2. Range(res.verified) = {}
    BY ONLY <2>1 DEF Range
  <2>3. Range(q) = {}
    BY <1>1, <1>2, <2>2, KeptIs
  <2>4. DOMAIN q = {}
    BY <2>3, ZenonT(30) DEF Range
  <2>. QED
    BY <1>5, <2>4
<1>7. Sends(s, u, rs, ep, ld, Ids(q))
  BY <1>1, <1>3, <1>5, <1>6, SubmitVerifiedOK, ZenonT(30)
<1>8. u \in Loop /\ LoopOK(u.g, u.ch, rs, ep, ld) /\ u.g.pending = s.g.pending /\ u.g.held = s.g.held
  BY <1>7, ZenonT(30) DEF Sends
<1>9. /\ t \in Loop /\ t.ch = u.ch /\ SameRest(u.g, t.g) /\ t.g.queued = u.g.queued
      /\ t.g.held = u.g.held /\ (c => t.g.incomplete)
      /\ Ids(t.g.pending) = {e.id : e \in Range(u.g.pending) \ S}
  BY ONLY <1>4, <1>5, <1>8, SettleDoes
<1>10. LoopOK(t.g, t.ch, rs, ep, ld)
  BY <1>8, <1>9, SameRestOK, ZenonT(30)
<1>11. SameIndex(s.g, t.g) /\ Sticky(s.g, t.g) /\ Submitted(t.g) = Submitted(u.g)
  BY <1>7, <1>9, ZenonT(30) DEF Sends, SameRest, SameIndex, Sticky, Submitted
<1>12. ASSUME ~ t.g.incomplete
       PROVE  Tracked(s.g) \subseteq Tracked(t.g)
  <2>1. Submitted(s.g) \cup Ids(q) \subseteq Submitted(u.g) /\ Range(res.gone) \cap still = {}
    BY <1>2, <1>7, <1>9, <1>12, ZenonT(30) DEF Sends, SameRest, Sticky
  <2>2. Ids(s.g.pending) \subseteq Ids(t.g.pending) \cup Ids(q)
    <3>1. ASSUME NEW e \in Range(s.g.pending)
          PROVE  e.id \in Ids(t.g.pending) \cup Ids(q)
      <4>1. CASE e \in Range(res.verified) \cap still
        BY <1>5, <4>1
      <4>2. CASE e \notin Range(res.verified) \cap still
        <5>1. e \in Range(u.g.pending) \ S
          BY <1>2, <1>8, <2>1, <3>1, <4>2, ZenonT(30)
        <5>. QED
          BY <1>9, <5>1, ZenonT(30)
      <4>. QED
        BY <4>1, <4>2
    <3>. QED
      BY <1>2, <3>1, ZenonT(30) DEF Ids
  <2>. QED
    BY <1>8, <1>9, <1>11, <2>1, <2>2, ZenonT(30) DEF Tracked
<1>. QED
  BY <1>9, <1>10, <1>11, <1>12 DEF Routes

\* What a sample does to the index as well.
Handles(s, t, rs, ep, ld, ids) ==
    /\ t \in Loop /\ LoopOK(t.g, t.ch, rs, ep, ld) /\ Sticky(s.g, t.g)
    /\ t.g.incomplete \/ Tracked(s.g) \cup ids \subseteq Tracked(t.g)

LEMMA RoutesHandles ==
    ASSUME NEW s, NEW t, NEW u, NEW rs, NEW ep, NEW ld, NEW ids,
           Routes(s, t, rs, ep, ld, {}), Handles(t, u, rs, ep, ld, ids)
    PROVE  Handles(s, u, rs, ep, ld, ids)
BY DEF Routes, Handles, Sticky

\* Another root invalidates the index: no job is left that was meant for it
\* but the lookups, which are of the dbworker's epoch.
LEMMA InvalidateOK ==
    ASSUME NEW s \in Loop, NEW rs \in Seq(AnswerSet), NEW ep, NEW ld, LoopOK(s.g, s.ch, rs, ep, ld),
           s.g.idx = "ready",
           NEW t, t = Shared([s.g EXCEPT !.idx = "idle", !.incomplete = TRUE,
                                         !.postIndexConfirmed = FALSE, !.epoch = @ + 1], s.ch)
    PROVE  Handles(s, t, rs, ep, ld, {}) /\ t.g.incomplete
<1>1. s.g \in Gen /\ s.ch \in Seq(Job) /\ s.g.epoch \in Nat /\ s.g.queued \in Seq(BatchSet)
  BY LoopParts, GenParts, ZenonT(30)
<1>2. "idle" \in Idx /\ TRUE \in Flag /\ FALSE \in Flag /\ s.g.epoch + 1 \in Num
  BY <1>1 DEF Idx, Flag, Num
<1> DEFINE h == [s.g EXCEPT !.idx = "idle", !.incomplete = TRUE, !.postIndexConfirmed = FALSE, !.epoch = s.g.epoch + 1]
<1>3. t = Shared(h, s.ch)
  BY <1>1 DEF Gen
<1>4. h \in Gen
  BY <1>1, <1>2, ZenonT(30) DEF Gen
<1>5. /\ h.nextSeq = s.g.nextSeq /\ h.lookup = s.g.lookup /\ h.queued = s.g.queued /\ h.db = s.g.db
      /\ h.basis = s.g.basis /\ h.idx = "idle" /\ h.epoch = s.g.epoch + 1 /\ h.incomplete
  BY <1>1, <1>4 DEF Gen
<1> HIDE DEF h
<1>6. t \in Loop /\ t.g = h /\ t.ch = s.ch
  BY ONLY <1>1, <1>3, <1>4, SharedLoop
<1>7. Own(h, s.ch, rs)
  BY <1>5, ZenonT(30) DEF LoopOK, Own
<1>8. /\ \A i \in DOMAIN s.ch : s.ch[i].kind \notin {"forget", "build"}
      /\ \A i \in DOMAIN rs : rs[i].kind \notin {"forget", "build"}
  BY DEF LoopOK, BuildLast
<1>9. BuildLast(h, s.ch, rs)
  BY <1>8 DEF BuildLast
<1>10. \A i \in DOMAIN s.g.queued : s.g.queued[i].epoch \in Nat /\ s.g.queued[i].epoch <= s.g.epoch
  <2>1. ASSUME NEW i \in DOMAIN s.g.queued
        PROVE  s.g.queued[i].epoch \in Nat
    <3>1. s.g.queued[i] \in BatchSet
      BY <1>1
    <3>. QED
      BY <3>1 DEF BatchSet
  <2>. QED
    BY <2>1 DEF LoopOK, Epochs
<1>11. \A i \in DOMAIN s.g.queued : s.g.queued[i].epoch <= s.g.epoch + 1 /\ s.g.queued[i].epoch # s.g.epoch + 1
  <2>1. \A k \in Nat : k <= s.g.epoch => k <= s.g.epoch + 1 /\ k # s.g.epoch + 1
    BY <1>1
  <2>. QED
    BY <1>10, <2>1, ZenonT(30)
<1>12. Epochs(h, s.ch, rs, ep)
  BY <1>5, <1>8, <1>11 DEF LoopOK, Epochs
<1>13. Roots(h, s.ch, rs, ld)
  BY <1>5, <1>8, <1>11, ZenonT(30) DEF LoopOK, Roots
<1>. QED
  BY <1>1, <1>4, <1>5, <1>6, <1>7, <1>9, <1>12, <1>13 DEF LoopOK, Handles, Sticky

\* The last part of applySampleResult.
LEMMA UseSampleOK ==
    ASSUME NEW s \in Loop, NEW rs \in Seq(AnswerSet), NEW ep, NEW ld, LoopOK(s.g, s.ch, rs, ep, ld),
           NEW ready \in BOOLEAN, NEW res \in Result, NEW id \in Nat,
           ready => s.g.idx = "ready", HasFiles(res) => res.basis # 0,
           NEW ids, ids = {} \/ (ids = {id} /\ ready /\ HasFiles(res) /\ s.g.db = "ok"),
           NEW t, t = UseSample(s, ready, res, id)
    PROVE  Handles(s, t, rs, ep, ld, ids)
<1>1. CASE ~ ready
  BY <1>1, RoutesRefl, ZenonT(30) DEF UseSample, Routes, Handles
<1>2. CASE ready /\ Mismatch(s.g, res.basis)
  <2>1. t = Shared([s.g EXCEPT !.idx = "idle", !.incomplete = TRUE,
                               !.postIndexConfirmed = FALSE, !.epoch = @ + 1], s.ch)
    BY <1>2 DEF UseSample
  <2>2. Handles(s, t, rs, ep, ld, {}) /\ t.g.incomplete
    BY <1>2, <2>1, InvalidateOK, ZenonT(30)
  <2>. QED
    BY <2>2 DEF Handles
<1>3. CASE ready /\ ~ Mismatch(s.g, res.basis) /\ ~ HasFiles(res)
  <2>1. PICK c \in BOOLEAN : t = [s EXCEPT !.g.postIndexConfirmed = @ \/ c]
    BY <1>3, ZenonT(30) DEF UseSample
  <2>2. Routes(s, t, rs, ep, ld, {})
    BY <2>1, ConfirmedTouches, TouchesRoutes, ZenonT(30)
  <2>. QED
    BY <1>3, <2>2, ZenonT(30) DEF Routes, Handles
<1>4. CASE ready /\ ~ Mismatch(s.g, res.basis) /\ HasFiles(res) /\ s.g.db = "ok"
  <2>1. PICK b : b = Batch(id, "sample", res.basis, s.g.epoch)
    OBVIOUS
  <2>2. t = SubmitOrQueue(s, b)
    BY <1>4, <2>1 DEF UseSample
  <2>3. s.g.epoch \in Nat /\ res.basis \in Nat
    BY LoopParts, GenParts, ZenonT(30) DEF Result
  <2>4. s.g.basis # 0
    BY <1>4, ZenonT(30) DEF LoopOK, Roots
  <2>5. s.g.basis = res.basis
    BY <1>4, <2>4 DEF Mismatch
  <2>6. b \in BatchSet /\ b.id = id /\ b.epoch = s.g.epoch /\ b.root = s.g.basis
    BY <2>1, <2>3, <2>5, ZenonT(30) DEF Batch, BatchSet
  <2>7. Sends(s, t, rs, ep, ld, {b.id})
    BY ONLY <1>4, <2>2, <2>6, SubmitOrQueueOK, s \in Loop, rs \in Seq(AnswerSet), LoopOK(s.g, s.ch, rs, ep, ld),
            ready => s.g.idx = "ready"
  <2>8. Routes(s, t, rs, ep, ld, {id})
    BY <2>6, <2>7, SendsRoutes, ZenonT(30)
  <2>. QED
    BY <2>8, ZenonT(30) DEF Routes, Handles
<1>5. CASE ready /\ ~ Mismatch(s.g, res.basis) /\ HasFiles(res) /\ s.g.db # "ok"
  <2>1. t = s
    BY <1>5 DEF UseSample
  <2>. QED
    BY <1>5, <2>1, RoutesRefl, ZenonT(30) DEF Routes, Handles
<1>. QED
  BY <1>1, <1>2, <1>3, <1>4, <1>5

LEMMA ApplySampleResultOK ==
    ASSUME NEW s \in Loop, NEW rs \in Seq(AnswerSet), NEW ep, NEW ld, LoopOK(s.g, s.ch, rs, ep, ld),
           NEW ready \in BOOLEAN, NEW res \in Result, NEW id \in Nat,
           ready => s.g.idx = "ready", ~ ready => res.verified = <<>>,
           res.verified # <<>> \/ HasFiles(res) => res.basis # 0,
           NEW ids, ids = {} \/ (ids = {id} /\ ready /\ HasFiles(res) /\ s.g.db = "ok"),
           NEW late, NEW t, t = ApplySampleResult(s, ready, res, id, late)
    PROVE  Handles(s, t, rs, ep, ld, ids)
<1>1. PICK c : c = (res.kind \in {"partial", "denied", "rootless"})
  OBVIOUS
<1>. c \in BOOLEAN
  BY <1>1
<1>2. PICK s1 : s1 = [s EXCEPT !.g.incomplete = @ \/ c]
  BY ZenonT(30)
<1>3. PICK u : u = ConfirmView(s1, res.basis)
  OBVIOUS
<1>4. PICK v : v = IF Mismatch(u.g, res.basis) THEN u ELSE VerifyPending(u, res, late)
  OBVIOUS
<1>5. PICK w : w = IF Confirmed(res) THEN [v EXCEPT !.g.denied = res.kind = "denied"] ELSE v
  BY ZenonT(30)
<1>6. t = UseSample(w, ready, res, id)
  BY <1>1, <1>2, <1>3, <1>4, <1>5, ZenonT(30) DEF ApplySampleResult
<1>7. Routes(s, s1, rs, ep, ld, {})
  BY <1>2, IncompleteTouches, TouchesRoutes
<1>8. s1 \in Loop /\ LoopOK(s1.g, s1.ch, rs, ep, ld) /\ res.basis \in Nat
  BY <1>7, ZenonT(30) DEF Routes, Result
<1>9. Routes(s1, u, rs, ep, ld, {})
  BY <1>3, <1>8, ConfirmViewOK
<1>10. u \in Loop /\ LoopOK(u.g, u.ch, rs, ep, ld) /\ SameIndex(s.g, u.g)
  BY <1>7, <1>9, ZenonT(30) DEF Routes, SameIndex
<1>11. Routes(u, v, rs, ep, ld, {})
  <2>1. CASE Mismatch(u.g, res.basis)
    BY <1>4, <1>10, <2>1, RoutesRefl, ZenonT(30)
  <2>2. CASE ~ Mismatch(u.g, res.basis)
    <3>1. v = VerifyPending(u, res, late)
      BY <1>4, <2>2
    <3>2. ASSUME res.verified # <<>>
          PROVE  u.g.idx = "ready" /\ u.g.basis = res.basis
      <4>1. u.g.idx = "ready" /\ res.basis # 0
        BY <1>10, <3>2 DEF SameIndex
      <4>2. u.g.basis # 0
        BY <1>10, <4>1, ZenonT(30) DEF LoopOK, Roots
      <4>. QED
        BY <2>2, <4>1, <4>2, ZenonT(30) DEF Mismatch
    <3>. QED
      BY <1>10, <3>1, <3>2, VerifyPendingOK, ZenonT(30)
  <2>. QED
    BY <2>1, <2>2, ZenonT(30)
<1>12. v \in Loop /\ LoopOK(v.g, v.ch, rs, ep, ld) /\ SameIndex(s.g, v.g)
  BY <1>10, <1>11, ZenonT(30) DEF Routes, SameIndex
<1>13. Routes(v, w, rs, ep, ld, {})
  <2>1. CASE Confirmed(res)
    <3>1. PICK d \in BOOLEAN : w = [v EXCEPT !.g.denied = d]
      BY <1>5, <2>1, ZenonT(30)
    <3>. QED
      BY <1>12, <3>1, DeniedTouches, TouchesRoutes
  <2>2. CASE ~ Confirmed(res)
    BY <1>5, <1>12, <2>2, RoutesRefl
  <2>. QED
    BY <2>1, <2>2, ZenonT(30)
<1>14. w \in Loop /\ LoopOK(w.g, w.ch, rs, ep, ld) /\ SameIndex(s.g, w.g)
  BY <1>12, <1>13, ZenonT(30) DEF Routes, SameIndex
<1>15. Handles(w, t, rs, ep, ld, ids)
  <2>1. (ready => w.g.idx = "ready") /\ (HasFiles(res) => res.basis # 0)
    BY <1>14 DEF SameIndex
  <2>2. ids = {} \/ (ids = {id} /\ ready /\ HasFiles(res) /\ w.g.db = "ok")
    BY <1>14 DEF SameIndex
  <2>. QED
    BY <1>6, <1>14, <2>1, <2>2, UseSampleOK, ZenonT(30)
<1>. QED
  BY <1>7, <1>9, <1>11, <1>13, <1>15, RoutesHandles, ZenonT(30)

-----------------------------------------------------------------------------
\* Every step keeps the invariant.

\* A step of the loop on a live generation.
LEMMA HandlesInv ==
    ASSUME IInv, Live, NEW ids, NEW t, Handles(Shared(gen, dbJobCh), t, dbResultCh, epochByGenKey, loaded, ids),
           gen' = t.g, dbJobCh' = t.ch,
           owed' \in SUBSET Nat, owed' \subseteq owed \cup ids, items' \in Nat, sampleSeen' \in BOOLEAN,
           worker' \in Worker, SampleOK(gen', worker'),
           UNCHANGED <<root, dbResultCh, epochByGenKey, loaded, wrong>>
    PROVE  IInv'
<1>1. gen \in Gen /\ dbJobCh \in Seq(Job)
  BY DEF IInv, TypeOK
<1>2. PICK s : s = Shared(gen, dbJobCh)
  OBVIOUS
<1>3. s.g = gen
  BY <1>2 DEF Shared
<1>4. /\ t \in Loop /\ LoopOK(gen', dbJobCh', dbResultCh', epochByGenKey', loaded') /\ Sticky(gen, gen')
      /\ gen'.incomplete \/ Tracked(gen) \cup ids \subseteq Tracked(gen')
  BY <1>2, <1>3 DEF Handles
<1>5. TypeOK'
  BY <1>4, LoopParts DEF IInv, TypeOK
<1>6. Accounted(gen', owed')
  BY <1>4, ZenonT(30) DEF IInv, Accounted, Sticky
<1>7. AnswersAreTheirOwn' /\ SamplesMatchIndexRoot'
  BY ZenonT(30) DEF IInv, AnswersAreTheirOwn, SamplesMatchIndexRoot
<1>. QED
  BY <1>4, <1>5, <1>6, <1>7 DEF IInv

LEMMA NoWorkerType == NoWorker \in Worker
BY DEF NoWorker, NoResult, Worker, Result, AllSampleKinds

LEMMA InitInv == Init => IInv
<1> SUFFICES ASSUME Init PROVE IInv
  OBVIOUS
<1>1. /\ FALSE \in Flag /\ 0 \in Num /\ "idle" \in Idx /\ "none" \in DBState /\ <<>> \in EventQueue
      /\ <<>> \in BatchQueue /\ NoLookup \in Lookup
  BY DEF Flag, Num, Idx, DBState, EventQueue, BatchQueue, Lookup, NoLookup
<1>2. gen \in Gen
  BY <1>1, ZenonT(30) DEF Init, Gen
<1>3. worker \in Worker
  BY NoWorkerType, ZenonT(30) DEF Init
<1>4. dbJobCh = <<>> /\ dbResultCh = <<>> /\ DOMAIN dbJobCh = {} /\ DOMAIN dbResultCh = {}
  BY DEF Init
<1>5. TypeOK
  <2>1. dbJobCh \in Seq(Job) /\ dbResultCh \in Seq(AnswerSet)
    BY <1>4
  <2>2. /\ root = 1 /\ epochByGenKey = 0 /\ loaded = 0 /\ items = 0 /\ owed = {}
    BY DEF Init
  <2>3. sampleSeen \in BOOLEAN
    BY ZenonT(30) DEF Init
  <2>. QED
    BY <1>2, <1>3, <2>1, <2>2, <2>3 DEF TypeOK
<1>6. gen.lookup = NoLookup /\ gen.queued = <<>> /\ gen.idx = "idle" /\ DOMAIN gen.queued = {}
  BY DEF Init
<1>7. LoopOK(gen, dbJobCh, dbResultCh, epochByGenKey, loaded)
  BY <1>4, <1>5, <1>6, ZenonT(30) DEF TypeOK, LoopOK, Own, BuildLast, Epochs, Roots
<1>8. SampleOK(gen, worker)
  BY DEF Init, SampleOK, NoWorker
<1>9. owed = {} /\ wrong = {}
  BY DEF Init
<1>. QED
  BY <1>5, <1>7, <1>8, <1>9 DEF IInv, Accounted, AnswersAreTheirOwn, SamplesMatchIndexRoot

LEMMA ChangeRootInv == IInv /\ ChangeRoot => IInv'
<1> SUFFICES ASSUME IInv, ChangeRoot PROVE IInv'
  OBVIOUS
<1>1. /\ gen' = gen /\ worker' = worker /\ dbJobCh' = dbJobCh /\ dbResultCh' = dbResultCh
      /\ epochByGenKey' = epochByGenKey /\ loaded' = loaded /\ items' = items /\ owed' = owed /\ wrong' = wrong
      /\ sampleSeen' = sampleSeen /\ root' = root + 1
  BY DEF ChangeRoot, workVars, histVars
<1>2. TypeOK'
  BY <1>1 DEF IInv, TypeOK
<1>. QED
  BY <1>1, <1>2, ZenonT(30) DEF IInv, Live, AnswersAreTheirOwn, SamplesMatchIndexRoot

LEMMA UsageEventInv == IInv /\ UsageEvent => IInv'
<1> SUFFICES ASSUME IInv, UsageEvent PROVE IInv'
  OBVIOUS
<1>1. Live /\ items' = items + 1 /\ owed' = owed \cup {items + 1}
      /\ UNCHANGED <<root, worker, dbResultCh, epochByGenKey, loaded, wrong, sampleSeen>>
  BY DEF UsageEvent
<1>2. PICK r \in Nat : LET s == DispatchUsageEvent(Shared(gen, dbJobCh), [id |-> items + 1, root |-> r], "event")
                       IN gen' = s.g /\ dbJobCh' = s.ch
  BY IndexAssumption DEF UsageEvent, IInv, TypeOK
<1>3. PICK s, e, t : s = Shared(gen, dbJobCh) /\ e = [id |-> items + 1, root |-> r]
                     /\ t = DispatchUsageEvent(s, e, "event")
  BY ZenonT(30)
<1>4. /\ gen \in Gen /\ dbJobCh \in Seq(Job) /\ dbResultCh \in Seq(AnswerSet) /\ items \in Nat
      /\ owed \in SUBSET Nat /\ worker \in Worker /\ sampleSeen \in BOOLEAN
      /\ LoopOK(gen, dbJobCh, dbResultCh, epochByGenKey, loaded) /\ SampleOK(gen, worker)
  BY <1>1 DEF IInv, TypeOK
<1>5. s \in Loop /\ s.g = gen /\ s.ch = dbJobCh
  BY <1>3, <1>4, SharedLoop
<1>6. e \in Event /\ e.id = items + 1
  BY <1>3, <1>4 DEF Event
<1>7. Routes(s, t, dbResultCh, epochByGenKey, loaded, {e.id})
  BY <1>3, <1>4, <1>5, <1>6, DispatchUsageEventOK, ZenonT(30)
<1>8. gen' = t.g /\ dbJobCh' = t.ch
  BY <1>2, <1>3, ZenonT(30)
<1>9. Handles(Shared(gen, dbJobCh), t, dbResultCh, epochByGenKey, loaded, {items + 1})
  BY <1>3, <1>6, <1>7, ZenonT(30) DEF Routes, Handles
<1>10. SampleOK(gen', worker')
  BY <1>1, <1>4, <1>5, <1>7, <1>8 DEF Routes, SameIndex, SampleOK
<1>. QED
  BY <1>1, <1>4, <1>8, <1>9, <1>10, HandlesInv

\* No lookup is outstanding any more, and nothing queued.
Cleared(g, h) ==
    /\ h \in Gen /\ SameIndex(g, h) /\ h.nextSeq = g.nextSeq /\ h.lookup = NoLookup /\ h.queued = <<>>

LEMMA NoLookupSeq == NoLookup.seq = 0
BY DEF NoLookup

LEMMA ClearedOK ==
    ASSUME NEW g, NEW ch, NEW rs, NEW ep, NEW ld, LoopOK(g, ch, rs, ep, ld), NEW h, Cleared(g, h)
    PROVE  LoopOK(h, ch, rs, ep, ld)
<1>1. /\ h \in Gen /\ h.nextSeq = g.nextSeq /\ h.lookup = NoLookup /\ h.queued = <<>> /\ DOMAIN h.queued = {}
      /\ h.idx = g.idx /\ h.db = g.db /\ h.basis = g.basis /\ h.epoch = g.epoch
  BY DEF Cleared, SameIndex
<1>2. h.lookup.seq = 0
  BY <1>1, NoLookupSeq, ZenonT(30)
<1>3. \A k : k \in 1..g.nextSeq => k # h.lookup.seq
  BY <1>2
<1>4. /\ \A i \in DOMAIN ch : ch[i].kind = "lookup" => ch[i].seq \in 1..g.nextSeq /\ ch[i].seq # h.lookup.seq
      /\ \A i \in DOMAIN rs : rs[i].kind = "lookup" => rs[i].seq \in 1..g.nextSeq /\ rs[i].seq # h.lookup.seq
  BY <1>3, ZenonT(30) DEF LoopOK, Own
<1>5. Own(h, ch, rs)
  BY <1>1, <1>4, ZenonT(30) DEF Own
<1>6. BuildLast(h, ch, rs)
  BY <1>1, ZenonT(30) DEF LoopOK, BuildLast
<1>7. Epochs(h, ch, rs, ep)
  BY <1>1, ZenonT(30) DEF LoopOK, Epochs
<1>8. Roots(h, ch, rs, ld)
  BY <1>1, <1>4, ZenonT(30) DEF LoopOK, Roots
<1>. QED
  BY <1>1, <1>5, <1>6, <1>7, <1>8, ZenonT(30) DEF LoopOK

\* The three expirations of dispatchWork: what is given up on is recorded.
LEMMA ExpireOK ==
    ASSUME NEW g, NEW ch, NEW rs \in Seq(AnswerSet), NEW ep, NEW ld, LoopOK(g, ch, rs, ep, ld),
           NEW nPending \in 0..Len(g.pending), NEW nHeld \in 0..Len(g.held), NEW expireLookup \in BOOLEAN,
           NEW h, h = Expire(g, nPending, nHeld, expireLookup)
    PROVE  /\ h \in Gen /\ LoopOK(h, ch, rs, ep, ld) /\ SameIndex(g, h) /\ Sticky(g, h)
           /\ h.incomplete \/ Tracked(g) \subseteq Tracked(h)
<1>1. /\ g \in Gen /\ g.pending \in Seq(Event) /\ g.held \in Seq(Event) /\ g.queued \in Seq(BatchSet)
      /\ g.lookup \in Lookup /\ g.incomplete \in Flag /\ g.queued \in BatchQueue /\ ch \in Seq(Job)
  BY GenParts, ZenonT(30) DEF LoopOK, Gen
<1>2. PICK p, d, f, l, q : /\ p = Drop(g.pending, nPending) /\ d = Drop(g.held, nHeld)
                           /\ f = (g.incomplete \/ nPending + nHeld > 0 \/ (expireLookup /\ g.lookup # NoLookup))
                           /\ l = (IF expireLookup THEN NoLookup ELSE g.lookup)
                           /\ q = (IF expireLookup THEN <<>> ELSE g.queued)
  BY ZenonT(30)
<1>3. ASSUME NEW x \in Seq(Event), NEW k \in 0..Len(x)
      PROVE  Drop(x, k) \in Seq(Event) /\ (k = 0 => Drop(x, k) = x)
  BY DEF Drop
<1>4. p \in EventQueue /\ d \in EventQueue /\ (nPending = 0 => p = g.pending) /\ (nHeld = 0 => d = g.held)
  BY <1>1, <1>2, <1>3, ZenonT(30) DEF EventQueue
<1>5. f \in Flag /\ (g.incomplete => f)
  BY <1>1, <1>2, ZenonT(30) DEF Flag
<1>. f \/ (nPending = 0 /\ nHeld = 0 /\ (expireLookup => g.lookup = NoLookup))
  <2>1. nPending + nHeld > 0 \/ (nPending = 0 /\ nHeld = 0)
    BY ONLY nPending \in Nat, nHeld \in Nat
  <2>. QED
    BY <1>2, <2>1, ZenonT(30)
<1>6. NoLookup \in Lookup /\ <<>> \in BatchQueue
  BY ONLY TRUE DEF NoLookup, Lookup, BatchQueue
<1>7. l \in Lookup /\ q \in BatchQueue
  BY <1>1, <1>2, <1>6, ZenonT(30)
<1>8. h = [g EXCEPT !.pending = p, !.held = d, !.incomplete = f, !.lookup = l, !.queued = q]
  BY <1>2, ZenonT(30) DEF Expire
<1>9. h \in Gen
  <2>1. PICK k : k = [g EXCEPT !.pending = p, !.held = d]
    OBVIOUS
  <2>2. k \in Gen
    BY <1>1, <1>4, <2>1, ZenonT(30) DEF Gen
  <2>3. h = [k EXCEPT !.incomplete = f, !.lookup = l, !.queued = q]
    BY <1>8, <2>1
  <2>. QED
    BY <1>5, <1>7, <2>2, <2>3, ZenonT(30) DEF Gen
<1>10. /\ h.pending = p /\ h.held = d /\ h.incomplete = f /\ h.lookup = l /\ h.queued = q /\ SameIndex(g, h)
       /\ h.nextSeq = g.nextSeq
  BY <1>1, <1>8 DEF Gen, SameIndex
<1>11. CASE ~ expireLookup
  <2>1. l = g.lookup /\ q = g.queued
    BY <1>2, <1>11, ZenonT(30)
  <2>2. SameRest(g, h) /\ h.queued = g.queued
    BY <1>5, <1>9, <1>10, <2>1 DEF SameRest, Sticky
  <2>3. LoopOK(h, ch, rs, ep, ld)
    BY <2>2, SameRestOK
  <2>4. h.incomplete \/ (nPending = 0 /\ nHeld = 0)
    BY <1>10
  <2>. QED
    BY <1>4, <1>5, <1>9, <1>10, <2>1, <2>3, <2>4, ZenonT(30) DEF Sticky, Tracked, Submitted
<1>12. CASE expireLookup
  <2>1. l = NoLookup /\ q = <<>> /\ DOMAIN q = {}
    BY ONLY <1>2, <1>12
  <2>2. LoopOK(h, ch, rs, ep, ld)
    BY <1>9, <1>10, <2>1, ClearedOK DEF Cleared
  <2>10. h.incomplete \/ (nPending = 0 /\ nHeld = 0 /\ g.lookup = NoLookup)
    BY <1>10, <1>12, ZenonT(30)
  <2>11. g.lookup = NoLookup => g.queued = <<>>
    BY DEF LoopOK, Own
  <2>12. h.incomplete \/ Tracked(g) \subseteq Tracked(h)
    BY <1>4, <1>10, <2>1, <2>10, <2>11, ZenonT(30) DEF Tracked, Submitted
  <2>. QED
    BY <1>5, <1>9, <1>10, <2>2, <2>12 DEF Sticky
<1>. QED
  BY <1>11, <1>12

\* maybeSubmitBuild: no build is on its way while the index is idle or failed.
BuildJob(g) == [kind |-> "build", epoch |-> g.epoch, seq |-> 0, ids |-> {}]

Building(g) == [g EXCEPT !.idx = "building"]
Builds(g, h, c, rs, ep, ld) ==
    h \in Gen /\ c \in Seq(Job) /\ LoopOK(h, c, rs, ep, ld) /\ Tracked(h) = Tracked(g) /\ Sticky(g, h)

LEMMA SubmitBuildOK ==
    ASSUME NEW g, NEW ch, NEW rs \in Seq(AnswerSet), NEW ep, NEW ld, LoopOK(g, ch, rs, ep, ld),
           g.idx \in {"idle", "failed"}, NEW h, h = Building(g), NEW c, c = Append(ch, BuildJob(g))
    PROVE  Builds(g, h, c, rs, ep, ld)
<1>1. g \in Gen /\ ch \in Seq(Job) /\ g.epoch \in Nat /\ "building" \in Idx
  BY GenParts, ZenonT(30) DEF LoopOK, Idx
<1>. h = [g EXCEPT !.idx = "building"]
  BY DEF Building
<1>2. h \in Gen
  BY <1>1, ZenonT(30) DEF Gen
<1>3. /\ h.nextSeq = g.nextSeq /\ h.lookup = g.lookup /\ h.queued = g.queued /\ h.db = g.db /\ h.basis = g.basis
      /\ h.idx = "building" /\ h.epoch = g.epoch /\ h.pending = g.pending /\ h.held = g.held
      /\ h.incomplete = g.incomplete
  BY <1>1, <1>2 DEF Gen
<1>4. PICK j : j = BuildJob(g)
  OBVIOUS
<1>5. j \in Job /\ j.kind = "build" /\ j.epoch = g.epoch
  BY <1>1, <1>4 DEF BuildJob, Job
<1>6. /\ c \in Seq(Job) /\ Len(ch) \in Nat /\ Len(c) = Len(ch) + 1 /\ DOMAIN ch = 1..Len(ch)
      /\ DOMAIN c = DOMAIN ch \cup {Len(ch) + 1} /\ c[Len(ch) + 1] = j /\ \A i \in DOMAIN ch : c[i] = ch[i]
  BY <1>1, <1>4, <1>5, AppendParts
<1>7. /\ \A i \in DOMAIN ch : ch[i].kind \notin {"forget", "build"}
      /\ \A i \in DOMAIN rs : rs[i].kind \notin {"forget", "build"}
  BY DEF LoopOK, BuildLast
<1>8. ASSUME NEW i \in DOMAIN c
      PROVE  \/ i \in DOMAIN ch /\ c[i] = ch[i]
             \/ i = Len(c) /\ c[i].kind = "build" /\ c[i].epoch = h.epoch
  BY <1>3, <1>5, <1>6
<1>9. Own(h, c, rs)
  <2>1. ASSUME NEW i \in DOMAIN c, c[i].kind = "lookup"
        PROVE  c[i].seq \in 1..h.nextSeq /\ (c[i].seq = h.lookup.seq => c[i].ids = Ids(h.lookup.batches))
    <3>1. i \in DOMAIN ch /\ c[i] = ch[i]
      BY <1>8, <2>1
    <3>. QED
      BY <1>3, <2>1, <3>1, ZenonT(30) DEF LoopOK, Own
  <2>. QED
    BY <1>3, <2>1, ZenonT(30) DEF LoopOK, Own
<1>10. BuildLast(h, c, rs)
  BY <1>3, <1>7, <1>8 DEF BuildLast
<1>11. \A i \in DOMAIN g.queued : g.queued[i].epoch # g.epoch
  BY DEF LoopOK, Epochs
<1>12. Epochs(h, c, rs, ep)
  BY <1>3, <1>7, <1>8, <1>11 DEF LoopOK, Epochs
<1>13. Roots(h, c, rs, ld)
  BY <1>3, <1>7, <1>8, <1>11 DEF LoopOK, Roots
<1>. QED
  BY <1>2, <1>3, <1>6, <1>9, <1>10, <1>12, <1>13 DEF LoopOK, Tracked, Submitted, Sticky, Builds

LEMMA DiscoveryPassInv == IInv /\ DiscoveryPass => IInv'
<1> SUFFICES ASSUME IInv, NEW nPending \in 0..Len(gen.pending), NEW nHeld \in 0..Len(gen.held),
                    NEW expireLookup \in BOOLEAN, NEW slot \in BOOLEAN, NEW stalledQueue \in BOOLEAN,
                    Dispatch(nPending, nHeld, expireLookup, slot, stalledQueue)
             PROVE  IInv'
  BY DEF DiscoveryPass
<1>1. PICK g : g = Expire(gen, nPending, nHeld, expireLookup)
  OBVIOUS
<1>2. PICK start : start = (~ g.sampleAlive /\ slot)
  OBVIOUS
<1>3. PICK k : k = [g EXCEPT !.sampleAlive = @ \/ start]
  BY ZenonT(30)
<1>4. PICK t : t = MaybeSubmitBuild(Shared(k, dbJobCh), stalledQueue)
  OBVIOUS
<1>5. /\ Live /\ worker' = (IF start THEN StartSample(g) ELSE worker) /\ gen' = t.g /\ dbJobCh' = t.ch
      /\ UNCHANGED <<root, dbResultCh, epochByGenKey, loaded, items, owed, wrong, sampleSeen>>
  BY <1>1, <1>2, <1>3, <1>4, ZenonT(30) DEF Dispatch, histVars
<1>6. /\ gen \in Gen /\ dbJobCh \in Seq(Job) /\ dbResultCh \in Seq(AnswerSet) /\ items \in Nat
      /\ owed \in SUBSET Nat /\ worker \in Worker /\ sampleSeen \in BOOLEAN
      /\ LoopOK(gen, dbJobCh, dbResultCh, epochByGenKey, loaded) /\ SampleOK(gen, worker)
  BY <1>5 DEF IInv, TypeOK
<1>7. /\ g \in Gen /\ LoopOK(g, dbJobCh, dbResultCh, epochByGenKey, loaded) /\ SameIndex(gen, g) /\ Sticky(gen, g)
      /\ g.incomplete \/ Tracked(gen) \subseteq Tracked(g)
  BY <1>1, <1>6, ExpireOK, ZenonT(30)
<1>8. k \in Gen /\ SameRest(g, k) /\ k.queued = g.queued /\ k.pending = g.pending /\ k.held = g.held
  <2>1. g.sampleAlive \in Flag /\ start \in BOOLEAN
    BY <1>2, <1>7 DEF Gen
  <2>2. PICK f : f = (g.sampleAlive \/ start)
    OBVIOUS
  <2>3. f \in Flag
    BY <2>1, <2>2 DEF Flag
  <2>4. k = [g EXCEPT !.sampleAlive = f]
    BY <1>3, <2>2
  <2>5. k \in Gen
    BY <1>7, <2>3, <2>4, ZenonT(30) DEF Gen
  <2>. QED
    BY <1>7, <2>4, <2>5 DEF Gen, SameRest, SameIndex, Sticky
<1>9. LoopOK(k, dbJobCh, dbResultCh, epochByGenKey, loaded) /\ Tracked(k) = Tracked(g) /\ Sticky(g, k)
  BY <1>7, <1>8, SameRestOK, ZenonT(30) DEF SameRest, Tracked, Submitted
<1>10. k.idx = gen.idx
  BY <1>7, <1>8 DEF SameRest, SameIndex
<1>11. /\ t \in Loop /\ LoopOK(t.g, t.ch, dbResultCh, epochByGenKey, loaded) /\ Tracked(t.g) = Tracked(k)
       /\ Sticky(k, t.g) /\ (t.g.idx = gen.idx \/ gen.idx \in {"idle", "failed"})
  <2>1. PICK u : u = Shared(k, dbJobCh)
    BY ZenonT(30)
  <2>2. u \in Loop /\ u.g = k /\ u.ch = dbJobCh
    BY <1>6, <1>8, <2>1, SharedLoop
  <2>3. CASE u.g.idx \in {"idle", "failed"} /\ ~ stalledQueue /\ Len(u.ch) < JobCap
    <3>1. PICK h, c : h = Building(k) /\ c = Append(dbJobCh, BuildJob(k))
      BY ZenonT(30)
    <3>2. t = Shared(h, c)
      BY <1>4, <2>1, <2>2, <2>3, <3>1 DEF MaybeSubmitBuild, BuildJob, Building
    <3>3. /\ h \in Gen /\ c \in Seq(Job) /\ LoopOK(h, c, dbResultCh, epochByGenKey, loaded)
          /\ Tracked(h) = Tracked(k) /\ Sticky(k, h)
      <4>1. k.idx \in {"idle", "failed"}
        BY <2>2, <2>3
      <4>2. Builds(k, h, c, dbResultCh, epochByGenKey, loaded)
        BY <1>6, <1>9, <3>1, <4>1, SubmitBuildOK, ZenonT(30)
      <4>. QED
        BY <4>2 DEF Builds
    <3>4. t \in Loop /\ t.g = h /\ t.ch = c
      BY ONLY <3>2, <3>3, SharedLoop
    <3>. QED
      BY <1>10, <2>2, <2>3, <3>3, <3>4
  <2>4. CASE ~ (u.g.idx \in {"idle", "failed"} /\ ~ stalledQueue /\ Len(u.ch) < JobCap)
    <3>1. t = u
      BY <1>4, <2>1, <2>4 DEF MaybeSubmitBuild
    <3>. QED
      BY <1>9, <1>10, <2>2, <3>1 DEF Sticky
  <2>. QED
    BY <2>3, <2>4, ZenonT(30)
<1>12. Handles(Shared(gen, dbJobCh), t, dbResultCh, epochByGenKey, loaded, {})
  <2>1. Shared(gen, dbJobCh).g = gen
    BY DEF Shared
  <2>. QED
    BY <1>7, <1>9, <1>11, <2>1, ZenonT(30) DEF Handles, Sticky
<1>13. worker' \in Worker /\ SampleOK(gen', worker')
  <2>1. CASE ~ start
    BY <1>5, <1>6, <1>11, <2>1, ZenonT(30) DEF SampleOK
  <2>2. CASE start
    <3>1. worker' = StartSample(g)
      BY <1>5, <2>2
    <3>2. g.pending \in Seq(Event) /\ g.idx = gen.idx
      BY <1>7, GenParts, ZenonT(30) DEF SameIndex
    <3>3. PICK r, q : r = (g.idx = "ready") /\ q = (IF g.idx = "ready" THEN g.pending ELSE <<>>)
      OBVIOUS
    <3>. q \in Seq(Event)
      BY <3>2, <3>3
    <3>4. r \in BOOLEAN /\ (~ r => q = <<>>) /\ (r => g.idx = "ready")
      BY <3>3, ZenonT(30)
    <3>5. worker' = [NoWorker EXCEPT !.at = "running", !.ready = r, !.events = q]
      BY <3>1, <3>3, ZenonT(30) DEF StartSample
    <3>6. NoWorker \in Worker
      BY NoWorkerType
    <3>7. /\ worker'.at = "running" /\ worker'.ready = r /\ worker' \in Worker /\ worker'.events = q
      BY <3>4, <3>5, <3>6, ZenonT(30) DEF Worker
    <3>. QED
      BY <1>5, <1>11, <3>2, <3>4, <3>7, ZenonT(30) DEF SampleOK
  <2>. QED
    BY <2>1, <2>2
<1>. QED
  BY <1>5, <1>6, <1>12, <1>13, HandlesInv

\* A step that leaves all of this alone.
Idles(g, h) ==
    /\ SameRest(g, h) /\ h.queued = g.queued /\ h.pending = g.pending /\ h.held = g.held
    /\ h.ended = g.ended /\ h.forceParseFailed = g.forceParseFailed

LEMMA IdlesInv ==
    ASSUME IInv, Idles(gen, gen'), worker' \in Worker, Live => SampleOK(gen', worker'),
           UNCHANGED <<root, workVars, histVars>>
    PROVE  IInv'
<1>1. /\ root' = root /\ dbJobCh' = dbJobCh /\ dbResultCh' = dbResultCh /\ epochByGenKey' = epochByGenKey
      /\ loaded' = loaded /\ items' = items /\ owed' = owed /\ wrong' = wrong /\ sampleSeen' = sampleSeen
  BY DEF workVars, histVars
<1>2. gen' \in Gen /\ (Live' <=> Live)
  BY DEF Idles, SameRest, Live
<1>3. TypeOK'
  BY <1>1, <1>2, ZenonT(30) DEF IInv, TypeOK
<1>4. Live' => LoopOK(gen, dbJobCh, dbResultCh, epochByGenKey, loaded) /\ SampleOK(gen', worker')
  BY <1>2 DEF IInv
<1>5. Live' => LoopOK(gen', dbJobCh', dbResultCh', epochByGenKey', loaded')
  BY <1>1, <1>4, SameRestOK DEF Idles
<1>6. Accounted(gen', owed')
  BY <1>1, ZenonT(30) DEF IInv, Accounted, Idles, SameRest, Sticky, Tracked, Submitted
<1>7. AnswersAreTheirOwn' /\ SamplesMatchIndexRoot'
  BY <1>1, ZenonT(30) DEF IInv, AnswersAreTheirOwn, SamplesMatchIndexRoot
<1>. QED
  BY <1>3, <1>4, <1>5, <1>6, <1>7 DEF IInv

\* A step after which the generation is not live: its claims are withdrawn.
Dies(g, h) ==
    /\ h \in Gen /\ (h.ended \/ h.forceParseFailed)
    /\ Tracked(h) = Tracked(g) /\ h.incomplete = g.incomplete

LEMMA DeadInv ==
    ASSUME IInv, Dies(gen, gen'), worker' \in Worker, dbJobCh' \in Seq(Job), dbResultCh' \in Seq(AnswerSet),
           epochByGenKey' \in Nat, loaded' \in Nat, UNCHANGED <<root, histVars>>
    PROVE  IInv'
<1>1. root' = root /\ items' = items /\ owed' = owed /\ wrong' = wrong /\ sampleSeen' = sampleSeen
  BY DEF histVars
<1>2. gen' \in Gen /\ ~ Live'
  BY DEF Dies, Live
<1>3. TypeOK'
  BY <1>1, <1>2, ZenonT(30) DEF IInv, TypeOK
<1>4. Accounted(gen', owed')
  BY <1>1 DEF IInv, Accounted, Dies
<1>5. AnswersAreTheirOwn' /\ SamplesMatchIndexRoot'
  BY <1>1, ZenonT(30) DEF IInv, AnswersAreTheirOwn, SamplesMatchIndexRoot
<1>. QED
  BY <1>2, <1>3, <1>4, <1>5 DEF IInv

LEMMA EndGenerationInv == IInv /\ EndGeneration => IInv'
<1> SUFFICES ASSUME IInv, EndGeneration PROVE IInv'
  OBVIOUS
<1>1. gen \in Gen /\ dbJobCh \in Seq(Job) /\ TRUE \in Flag
  BY DEF IInv, TypeOK, Flag
<1>2. gen' = [gen EXCEPT !.ended = TRUE]
  BY DEF EndGeneration
<1>3. gen' \in Gen
  BY <1>1, <1>2, ZenonT(30) DEF Gen
<1>4. Dies(gen, gen')
  BY <1>1, <1>2, <1>3 DEF Dies, Tracked, Submitted, Gen
<1>5. dbJobCh' \in Seq(Job)
  <2>1. PICK j : j = [kind |-> "forget", epoch |-> 0, seq |-> 0, ids |-> {}]
    BY ZenonT(30)
  <2>2. j \in Job
    BY <2>1 DEF Job
  <2>3. dbJobCh' = dbJobCh \/ dbJobCh' = Append(dbJobCh, j)
    BY <2>1, ZenonT(30) DEF EndGeneration
  <2>. QED
    BY <1>1, <2>2, <2>3, AppendParts
<1>. QED
  BY <1>4, <1>5, DeadInv DEF EndGeneration, IInv, TypeOK

LEMMA ParserDiesInv == IInv /\ ParserDies => IInv'
<1> SUFFICES ASSUME IInv, ParserDies PROVE IInv'
  OBVIOUS
<1>1. gen \in Gen /\ TRUE \in Flag /\ FALSE \in Flag /\ dbResultCh \in Seq(AnswerSet) /\ epochByGenKey \in Nat
  BY DEF IInv, TypeOK, Flag
<1>2. gen' = [gen EXCEPT !.forceParseFailed = TRUE, !.sampleAlive = FALSE]
  BY DEF ParserDies
<1>3. gen' \in Gen
  BY <1>1, <1>2, ZenonT(30) DEF Gen
<1>4. Dies(gen, gen')
  BY <1>1, <1>2, <1>3 DEF Dies, Tracked, Submitted, Gen
<1>5. dbJobCh' = <<>> /\ worker' = NoWorker /\ loaded' = 0 /\ UNCHANGED <<root, dbResultCh, epochByGenKey, histVars>>
  BY DEF ParserDies
<1>6. dbJobCh' \in Seq(Job)
  BY <1>5
<1>7. worker' \in Worker
  BY <1>5, NoWorkerType
<1>. QED
  BY <1>1, <1>4, <1>5, <1>6, <1>7, DeadInv

\* runSampleWorker: only a sample begun on a ready index was given events to
\* re-check, and what it resolved it resolved in a root.
LEMMA WorkerReadsInv == IInv /\ WorkerReads => IInv'
<1> SUFFICES ASSUME IInv, WorkerReads PROVE IInv'
  OBVIOUS
<1>1. /\ worker \in Worker /\ gen \in Gen /\ worker.events \in Seq(Event) /\ worker.ready \in BOOLEAN
      /\ root \in Nat \ {0} /\ worker.at = "running"
      /\ Live => SampleOK(gen, worker)
  BY ZenonT(30) DEF IInv, TypeOK, Worker, WorkerReads
<1>2. gen' = gen /\ UNCHANGED <<root, workVars, histVars>>
  BY ZenonT(30) DEF WorkerReads
<1>3. Idles(gen, gen')
  BY <1>1, <1>2 DEF Idles, SameRest, SameIndex, Sticky
<1>4. ASSUME NEW r \in Result, worker' = [worker EXCEPT !.at = "read", !.res = r],
             worker.events = <<>> => r.verified = <<>>, r.verified # <<>> \/ HasFiles(r) => r.basis # 0
      PROVE  IInv'
  <2>1. worker' \in Worker /\ worker'.at = "read" /\ worker'.ready = worker.ready /\ worker'.res = r
    BY <1>1, <1>4, ZenonT(30) DEF Worker
  <2>2. Live => SampleOK(gen', worker')
    BY <1>1, <1>2, <1>4, <2>1 DEF SampleOK
  <2>. QED
    BY <1>2, <1>3, <2>1, <2>2, IdlesInv
<1>5. CASE \E kind \in SampleKinds \ {"rootless"}, keep \in SUBSET Range(worker.events) :
             worker' = [worker EXCEPT !.at = "read",
                 !.res = [basis |-> root, kind |-> kind,
                          verified |-> Kept(worker.events, keep),
                          gone |-> Kept(worker.events, Range(worker.events) \ keep)]]
  <2>1. PICK kind \in SampleKinds \ {"rootless"}, keep \in SUBSET Range(worker.events) :
             worker' = [worker EXCEPT !.at = "read",
                 !.res = [basis |-> root, kind |-> kind,
                          verified |-> Kept(worker.events, keep),
                          gone |-> Kept(worker.events, Range(worker.events) \ keep)]]
    BY <1>5, ZenonT(30)
  <2>2. PICK v, w : v = Kept(worker.events, keep) /\ w = Kept(worker.events, Range(worker.events) \ keep)
    OBVIOUS
  <2>3. v \in Seq(Event) /\ w \in Seq(Event) /\ Range(v) = Range(worker.events) \cap keep
    BY <1>1, <2>2, KeptIs
  <2>4. PICK r : r = [basis |-> root, kind |-> kind, verified |-> v, gone |-> w]
    BY ZenonT(30)
  <2>5. r \in Result /\ r.verified = v /\ r.basis = root
    BY <1>1, <2>3, <2>4, IndexAssumption, ZenonT(30) DEF Result
  <2>6. worker' = [worker EXCEPT !.at = "read", !.res = r]
    BY <2>1, <2>2, <2>4, ZenonT(30)
  <2>7. ASSUME worker.events = <<>> PROVE v = <<>>
    <3>1. Range(worker.events) = {}
      BY <2>7 DEF Range
    <3>2. Range(v) = {}
      BY <2>3, <3>1
    <3>3. DOMAIN v = {}
      BY <3>2 DEF Range
    <3>. QED
      BY <2>3, <3>3
  <2>. QED
    BY <1>1, <1>4, <2>5, <2>6, <2>7, ZenonT(30)
<1>6. CASE \E kind \in IF gen.ended THEN {"gone"} ELSE SampleKinds \cap {"rootless", "denied", "gone"} :
             worker' = [worker EXCEPT !.at = "read", !.res = [NoResult EXCEPT !.kind = kind]]
  <2>1. PICK kind \in {"rootless", "denied", "gone"} :
             worker' = [worker EXCEPT !.at = "read", !.res = [NoResult EXCEPT !.kind = kind]]
    BY <1>6, ZenonT(30)
  <2>2. PICK r : r = [NoResult EXCEPT !.kind = kind]
    BY ZenonT(30)
  <2>3. r \in Result /\ r.verified = <<>> /\ r.kind = kind
    <3>1. NoResult \in Result /\ NoResult.verified = <<>>
      BY DEF NoResult, Result
    <3>2. kind \in AllSampleKinds
      BY DEF AllSampleKinds
    <3>. QED
      BY <2>2, <3>1, <3>2 DEF Result
  <2>4. ~ HasFiles(r)
    BY <2>3 DEF HasFiles
  <2>5. worker' = [worker EXCEPT !.at = "read", !.res = r]
    BY <2>1, <2>2, ZenonT(30)
  <2>. QED
    BY <1>4, <2>3, <2>4, <2>5, ZenonT(30)
<1>. QED
  BY <1>5, <1>6, ZenonT(30) DEF WorkerReads

LEMMA SampleTimeoutInv == IInv /\ SampleTimeout => IInv'
<1> SUFFICES ASSUME IInv, SampleTimeout PROVE IInv'
  OBVIOUS
<1>1. worker \in Worker /\ gen \in Gen /\ TRUE \in Flag
  BY DEF IInv, TypeOK, Flag
<1>2. /\ worker' = [worker EXCEPT !.at = "abandoned"] /\ (gen' = gen \/ gen' = [gen EXCEPT !.sampleStalled = TRUE])
      /\ UNCHANGED <<root, workVars, histVars>>
  BY DEF SampleTimeout
<1>3. worker' \in Worker /\ worker'.at = "abandoned"
  BY <1>1, <1>2 DEF Worker
<1>4. gen' \in Gen
  BY <1>1, <1>2, ZenonT(30) DEF Gen
<1>5. Idles(gen, gen')
  BY <1>1, <1>2, <1>4 DEF Idles, SameRest, SameIndex, Sticky, Gen
<1>6. SampleOK(gen', worker')
  BY <1>3 DEF SampleOK
<1>. QED
  BY <1>2, <1>3, <1>5, <1>6, IdlesInv

LEMMA NoSample == ASSUME NEW g PROVE SampleOK(g, NoWorker)
BY DEF SampleOK, NoWorker

LEMMA SampleFinishedInv == IInv /\ SampleFinished => IInv'
<1> SUFFICES ASSUME IInv, SampleFinished PROVE IInv'
  OBVIOUS
<1>1. gen \in Gen /\ FALSE \in Flag
  BY DEF IInv, TypeOK, Flag
<1>2. /\ worker' = NoWorker /\ gen' = [gen EXCEPT !.sampleAlive = FALSE]
      /\ UNCHANGED <<root, workVars, histVars>>
  BY DEF SampleFinished
<1>3. gen' \in Gen
  BY <1>1, <1>2, ZenonT(30) DEF Gen
<1>4. Idles(gen, gen')
  BY <1>1, <1>2, <1>3 DEF Idles, SameRest, SameIndex, Sticky, Gen
<1>5. worker' \in Worker /\ SampleOK(gen', worker')
  BY <1>2, NoSample, NoWorkerType
<1>. QED
  BY <1>2, <1>4, <1>5, IdlesInv

LEMMA HandleSampleResultInv ==
    ASSUME IInv, NEW late, HandleSampleResult(late)
    PROVE  IInv'
<1>1. PICK takes, g : takes = (Live /\ worker.ready /\ HasFiles(worker.res) /\ gen.db = "ok")
                      /\ g = [gen EXCEPT !.sampleAlive = FALSE, !.sampleStalled = FALSE]
  OBVIOUS
<1>2. PICK t : t = IF Live THEN ApplySampleResult(Shared(g, dbJobCh), worker.ready, worker.res, items + 1, late)
                           ELSE Shared(g, dbJobCh)
  OBVIOUS
<1>3. /\ worker.at = "read" /\ items' = (IF takes THEN items + 1 ELSE items)
      /\ owed' = (IF takes THEN owed \cup {items + 1} ELSE owed)
      /\ gen' = t.g /\ dbJobCh' = t.ch /\ worker' = NoWorker
      /\ UNCHANGED <<root, dbResultCh, epochByGenKey, loaded, wrong>>
  BY <1>1, <1>2, ZenonT(30) DEF HandleSampleResult
<1>4. sampleSeen' \in BOOLEAN
  BY ZenonT(30) DEF HandleSampleResult, IInv, TypeOK
<1>5. /\ gen \in Gen /\ dbJobCh \in Seq(Job) /\ dbResultCh \in Seq(AnswerSet) /\ items \in Nat
      /\ owed \in SUBSET Nat /\ FALSE \in Flag /\ worker.ready \in BOOLEAN /\ worker.res \in Result
  BY DEF IInv, TypeOK, Flag, Worker
<1>6. g \in Gen
  BY <1>1, <1>5, ZenonT(30) DEF Gen
<1>7. Idles(gen, g)
  BY <1>1, <1>5, <1>6 DEF Idles, SameRest, SameIndex, Sticky, Gen
<1>8. worker' \in Worker /\ SampleOK(gen', worker')
  BY <1>3, NoSample, NoWorkerType
<1>9. CASE ~ Live
  <2>1. ~ takes /\ gen' = g /\ dbJobCh' = dbJobCh
    BY <1>1, <1>2, <1>3, <1>9, ZenonT(30) DEF Shared
  <2>2. sampleSeen' = sampleSeen
    <3>1. sampleSeen \in BOOLEAN
      BY DEF IInv, TypeOK
    <3>2. \E c \in BOOLEAN : sampleSeen' = (sampleSeen \/ (Live /\ c))
      BY ZenonT(30) DEF HandleSampleResult
    <3>. QED
      BY <1>9, <3>1, <3>2
  <2>3. UNCHANGED <<root, workVars, histVars>>
    BY <1>3, <2>1, <2>2 DEF workVars, histVars
  <2>. QED
    BY <1>7, <1>8, <1>9, <2>1, <2>3, IdlesInv
<1>10. CASE Live
  <2>1. LoopOK(gen, dbJobCh, dbResultCh, epochByGenKey, loaded) /\ SampleOK(gen, worker)
    BY <1>10 DEF IInv
  <2>2. LoopOK(g, dbJobCh, dbResultCh, epochByGenKey, loaded) /\ g.idx = gen.idx /\ g.db = gen.db
        /\ Tracked(g) = Tracked(gen) /\ Sticky(gen, g)
    BY <1>7, <2>1, SameRestOK, ZenonT(30) DEF Idles, SameRest, SameIndex, Tracked, Submitted
  <2>3. PICK s, ids : s = Shared(g, dbJobCh) /\ ids = (IF takes THEN {items + 1} ELSE {})
    BY ZenonT(30)
  <2>4. s \in Loop /\ s.g = g /\ s.ch = dbJobCh /\ t = ApplySampleResult(s, worker.ready, worker.res, items + 1, late)
    BY <1>2, <1>5, <1>6, <1>10, <2>3, SharedLoop
  <2>5. ids = {} \/ (ids = {items + 1} /\ worker.ready /\ HasFiles(worker.res) /\ s.g.db = "ok")
    BY <1>1, <2>2, <2>3, <2>4, ZenonT(30)
  <2>6. /\ worker.ready => s.g.idx = "ready"
        /\ ~ worker.ready => worker.res.verified = <<>>
        /\ worker.res.verified # <<>> \/ HasFiles(worker.res) => worker.res.basis # 0
    BY <1>3, <2>1, <2>2, <2>4, ZenonT(30) DEF SampleOK
  <2>7. items + 1 \in Nat /\ LoopOK(s.g, s.ch, dbResultCh, epochByGenKey, loaded)
    BY <1>5, <2>2, <2>4
  <2>8. Handles(s, t, dbResultCh, epochByGenKey, loaded, ids)
    <3>1. PICK ready, res, id : ready = worker.ready /\ res = worker.res /\ id = items + 1
      OBVIOUS
    <3>2. /\ ready \in BOOLEAN /\ res \in Result /\ id \in Nat /\ t = ApplySampleResult(s, ready, res, id, late)
          /\ ids = {} \/ (ids = {id} /\ ready /\ HasFiles(res) /\ s.g.db = "ok")
          /\ ready => s.g.idx = "ready"
          /\ ~ ready => res.verified = <<>>
          /\ res.verified # <<>> \/ HasFiles(res) => res.basis # 0
      BY <1>5, <2>4, <2>5, <2>6, <2>7, <3>1, ZenonT(30)
    <3>. QED
      BY ONLY <1>5, <2>4, <2>7, <3>2, ApplySampleResultOK, ZenonT(30)
  <2>9. Handles(Shared(gen, dbJobCh), t, dbResultCh, epochByGenKey, loaded, ids)
    <3>1. Shared(gen, dbJobCh).g = gen
      BY DEF Shared
    <3>. QED
      BY <2>2, <2>4, <2>8, <3>1, ZenonT(30) DEF Handles, Sticky
  <2>10. owed' \in SUBSET Nat /\ owed' \subseteq owed \cup ids /\ items' \in Nat
    BY <1>3, <1>5, <2>3
  <2>. QED
    BY <1>3, <1>4, <1>8, <1>10, <2>9, <2>10, HandlesInv
<1>. QED
  BY <1>9, <1>10

LEMMA TailParts ==
    ASSUME NEW X, NEW q \in Seq(X), q # <<>>, NEW p, p = Tail(q)
    PROVE  /\ p \in Seq(X) /\ Len(q) \in Nat \ {0} /\ Len(p) = Len(q) - 1
           /\ DOMAIN q = 1..Len(q) /\ 1 \in DOMAIN q /\ Head(q) = q[1] /\ Head(q) \in X
           /\ \A i \in DOMAIN p : i + 1 \in DOMAIN q /\ p[i] = q[i + 1] /\ (i + 1 = Len(q) => i = Len(p))
           /\ Len(q) = 1 => p = <<>>
OBVIOUS

\* handleBuildJob: the build is alone on its way, and its answer comes last.
LEMMA BuildOK ==
    ASSUME NEW g, NEW ch, NEW rs \in Seq(AnswerSet), NEW ep, NEW ld, LoopOK(g, ch, rs, ep, ld),
           ch # <<>>, Head(ch).kind = "build",
           NEW a \in AnswerSet, a.kind = "build", a.outcome \in {"ok", "settled", "failed", "noChange"}, a.basis # 0,
           NEW ld2, a.outcome = "ok" => ld2 = a.basis,
           NEW c, c = Tail(ch), NEW as, as = Append(rs, a)
    PROVE  LoopOK(g, c, as, Head(ch).epoch, ld2)
<1>1. g \in Gen /\ ch \in Seq(Job) /\ g.epoch \in Nat
  BY GenParts, ZenonT(30) DEF LoopOK
<1>2. /\ 1 \in DOMAIN ch /\ Head(ch) = ch[1] /\ c \in Seq(Job) /\ Len(ch) \in Nat \ {0} /\ (Len(ch) = 1 => c = <<>>)
  BY <1>1, TailParts
<1>3. 1 = Len(ch) /\ g.idx = "building" /\ Head(ch).epoch = g.epoch
  BY <1>2, ZenonT(30) DEF LoopOK, BuildLast
<1>4. c = <<>> /\ DOMAIN c = {}
  BY ONLY <1>2, <1>3
<1>5. \A i \in DOMAIN rs : rs[i].kind \notin {"forget", "build"}
  BY ZenonT(30) DEF LoopOK, BuildLast
<1>6. /\ Len(as) = Len(rs) + 1 /\ DOMAIN as = DOMAIN rs \cup {Len(rs) + 1} /\ as[Len(rs) + 1] = a
      /\ \A i \in DOMAIN rs : as[i] = rs[i]
  BY AppendParts
<1>7. ASSUME NEW i \in DOMAIN as
      PROVE  (i \in DOMAIN rs /\ as[i] = rs[i]) \/ (i = Len(as) /\ as[i] = a)
  BY <1>6
<1>8. \A i \in DOMAIN as : as[i].kind = "lookup" => i \in DOMAIN rs /\ as[i] = rs[i]
  BY <1>7
<1>9. Own(g, c, as)
  BY <1>4, <1>8, ZenonT(30) DEF LoopOK, Own
<1>10. BuildLast(g, c, as)
  BY <1>3, <1>4, <1>5, <1>7, ZenonT(30) DEF BuildLast
<1>11. Epochs(g, c, as, Head(ch).epoch)
  <2>1. \A i \in DOMAIN as : as[i].outcome # "epochStale"
    BY <1>7, ZenonT(30) DEF LoopOK, Epochs
  <2>. QED
    BY <1>3, <1>4, <2>1, ZenonT(30) DEF LoopOK, Epochs
<1>12. Roots(g, c, as, ld2)
  <2>1. \A i \in DOMAIN as : as[i].kind = "build" => as[i] = a
    BY <1>5, <1>7, ZenonT(30)
  <2>2. \A i \in DOMAIN as : as[i].kind = "lookup" /\ as[i].seq = g.lookup.seq /\ g.db = "ok" /\ as[i].basis # 0
               => SampledIn(g.lookup.batches, as[i].basis)
    BY <1>8, ZenonT(30) DEF LoopOK, Roots
  <2>3. /\ \A i \in DOMAIN as : as[i].kind = "build" /\ as[i].outcome \in {"ok", "settled"} => as[i].basis # 0
        /\ \A i \in DOMAIN as : as[i].kind = "build" /\ as[i].outcome = "ok" => ld2 = as[i].basis
    BY <2>1
  <2>. QED
    BY <1>3, <1>4, <2>2, <2>3, ZenonT(30) DEF LoopOK, Roots
<1>. QED
  BY <1>1, <1>2, <1>9, <1>10, <1>11, <1>12, ZenonT(30) DEF LoopOK

LEMMA DBBuildInv == IInv /\ DBBuild => IInv'
<1> SUFFICES ASSUME IInv, DBBuild PROVE IInv'
  OBVIOUS
<1>1. /\ dbJobCh # <<>> /\ Head(dbJobCh).kind = "build" /\ epochByGenKey' = Head(dbJobCh).epoch
      /\ dbJobCh' = Tail(dbJobCh) /\ UNCHANGED <<root, gen, worker, histVars>>
  BY DEF DBBuild
<1>2. /\ root \in Nat \ {0} /\ gen \in Gen /\ dbJobCh \in Seq(Job) /\ dbResultCh \in Seq(AnswerSet) /\ loaded \in Nat
  BY DEF IInv, TypeOK
<1>3. PICK o \in BuildOutcomes : loaded' = o.loaded /\ dbResultCh' = Append(dbResultCh, Answer("build", 0, o.as, root, {}))
  BY DEF DBBuild
<1>4. /\ o.as \in {"ok", "settled", "failed", "noChange"} /\ o.loaded \in Nat /\ (o.as = "ok" => o.loaded = root)
  BY <1>2 DEF BuildOutcomes
<1>5. PICK a : a = Answer("build", 0, o.as, root, {})
  OBVIOUS
<1>6. a \in AnswerSet /\ a.kind = "build" /\ a.outcome = o.as /\ a.basis = root
  BY <1>2, <1>4, <1>5, ZenonT(30) DEF Answer, AnswerSet
<1>7. dbResultCh' \in Seq(AnswerSet) /\ dbResultCh' = Append(dbResultCh, a)
  BY <1>2, <1>3, <1>5, <1>6, AppendParts
<1>8. dbJobCh' \in Seq(Job) /\ epochByGenKey' \in Nat
  <2>1. dbJobCh' \in Seq(Job) /\ Head(dbJobCh) \in Job
    BY <1>1, <1>2, TailParts
  <2>. QED
    BY <1>1, <2>1 DEF Job
<1>9. TypeOK'
  BY <1>1, <1>3, <1>4, <1>7, <1>8, ZenonT(30) DEF IInv, TypeOK, histVars
<1>10. ASSUME Live
       PROVE  LoopOK(gen, dbJobCh', dbResultCh', epochByGenKey', loaded')
  <2>1. LoopOK(gen, dbJobCh, dbResultCh, epochByGenKey, loaded)
    BY <1>10 DEF IInv
  <2>2. PICK ep, ld, c, as : ep = Head(dbJobCh).epoch /\ ld = loaded' /\ c = Tail(dbJobCh) /\ as = Append(dbResultCh, a)
    BY ZenonT(30)
  <2>3. a.basis # 0 /\ (a.outcome = "ok" => ld = a.basis) /\ a.outcome \in {"ok", "settled", "failed", "noChange"}
    BY <1>2, <1>3, <1>4, <1>6, <2>2
  <2>4. LoopOK(gen, c, as, Head(dbJobCh).epoch, ld)
    BY <1>1, <1>2, <1>6, <2>1, <2>2, <2>3, BuildOK, ZenonT(30)
  <2>. QED
    BY <1>1, <1>7, <2>2, <2>4, ZenonT(30)
<1>11. gen' = gen /\ worker' = worker /\ owed' = owed /\ wrong' = wrong
  BY <1>1 DEF histVars
<1>12. Live' => LoopOK(gen', dbJobCh', dbResultCh', epochByGenKey', loaded') /\ SampleOK(gen', worker')
  BY <1>10, <1>11 DEF IInv, Live
<1>13. Accounted(gen', owed') /\ AnswersAreTheirOwn' /\ SamplesMatchIndexRoot'
  BY <1>11, ZenonT(30) DEF IInv, AnswersAreTheirOwn, SamplesMatchIndexRoot
<1>. QED
  BY <1>9, <1>12, <1>13 DEF IInv

\* handleLookupJob: a lookup of the epoch of the index meets that index, and
\* its answer is about the same batches.
LEMMA LookupOK ==
    ASSUME NEW g, NEW ch, NEW rs \in Seq(AnswerSet), NEW ep, NEW ld, LoopOK(g, ch, rs, ep, ld),
           ch # <<>>, Head(ch).kind = "lookup",
           NEW a \in AnswerSet, a.kind = "lookup", a.outcome # "epochStale", a.basis = ld,
           a.seq = Head(ch).seq, a.ids = Head(ch).ids,
           NEW c, c = Tail(ch), NEW as, as = Append(rs, a)
    PROVE  LoopOK(g, c, as, ep, ld)
<1>1. g \in Gen /\ ch \in Seq(Job)
  BY ZenonT(30) DEF LoopOK
<1>2. /\ 1 \in DOMAIN ch /\ Head(ch) = ch[1] /\ c \in Seq(Job)
      /\ \A i \in DOMAIN c : i + 1 \in DOMAIN ch /\ c[i] = ch[i + 1] /\ (i + 1 = Len(ch) => i = Len(c))
  BY <1>1, TailParts
<1>3. \A i \in DOMAIN rs : rs[i].kind \notin {"forget", "build"}
  BY ZenonT(30) DEF LoopOK, BuildLast
<1>4. /\ Len(as) = Len(rs) + 1 /\ DOMAIN as = DOMAIN rs \cup {Len(rs) + 1} /\ as[Len(rs) + 1] = a
      /\ \A i \in DOMAIN rs : as[i] = rs[i]
  BY ONLY rs \in Seq(AnswerSet), a \in AnswerSet, as = Append(rs, a), AppendParts
<1>5. ASSUME NEW i \in DOMAIN as
      PROVE  (i \in DOMAIN rs /\ as[i] = rs[i]) \/ as[i] = a
  BY <1>4, ZenonT(30)
<1>6. \A i \in DOMAIN as : as[i].kind \notin {"forget", "build"}
  BY <1>3, <1>5
<1>7. Own(g, c, as)
  <2>1. /\ a.seq \in 1..g.nextSeq /\ (a.seq = g.lookup.seq => a.ids = Ids(g.lookup.batches))
    BY <1>2, ZenonT(30) DEF LoopOK, Own
  <2>2. \A i \in DOMAIN c : c[i].kind = "lookup" =>
          c[i].seq \in 1..g.nextSeq /\ (c[i].seq = g.lookup.seq => c[i].ids = Ids(g.lookup.batches))
    BY <1>2, ZenonT(30) DEF LoopOK, Own
  <2>3. \A i \in DOMAIN as : as[i].kind = "lookup" =>
          as[i].seq \in 1..g.nextSeq /\ (as[i].seq = g.lookup.seq => as[i].ids = Ids(g.lookup.batches))
    BY <1>5, <2>1, ZenonT(30) DEF LoopOK, Own
  <2>. QED
    BY <2>2, <2>3, ZenonT(30) DEF LoopOK, Own
<1>8. BuildLast(g, c, as)
  BY <1>2, <1>6, ZenonT(30) DEF LoopOK, BuildLast
<1>9. Epochs(g, c, as, ep)
  BY <1>2, <1>5, <1>6, ZenonT(30) DEF LoopOK, Epochs
<1>10. Roots(g, c, as, ld)
  <2>1. a.seq = g.lookup.seq /\ g.db = "ok" => SampledIn(g.lookup.batches, a.basis)
    BY <1>2, ZenonT(30) DEF LoopOK, Roots
  <2>2. \A i \in DOMAIN c : c[i].kind = "lookup" /\ c[i].seq = g.lookup.seq /\ g.db = "ok" => SampledIn(g.lookup.batches, ld)
    BY <1>2, ZenonT(30) DEF LoopOK, Roots
  <2>3. \A i \in DOMAIN as : as[i].kind = "lookup" /\ as[i].seq = g.lookup.seq /\ g.db = "ok" /\ as[i].basis # 0
               => SampledIn(g.lookup.batches, as[i].basis)
    BY <1>5, <2>1, ZenonT(30) DEF LoopOK, Roots
  <2>. QED
    BY <1>6, <2>2, <2>3, ZenonT(30) DEF LoopOK, Roots
<1>. QED
  BY <1>1, <1>2, <1>7, <1>8, <1>9, <1>10, ZenonT(30) DEF LoopOK

LEMMA DBLookupInv == IInv /\ DBLookup => IInv'
<1> SUFFICES ASSUME IInv, DBLookup PROVE IInv'
  OBVIOUS
<1>1. /\ dbJobCh # <<>> /\ Head(dbJobCh).kind = "lookup" /\ dbJobCh' = Tail(dbJobCh)
      /\ UNCHANGED <<root, gen, worker, epochByGenKey, loaded, histVars>>
  BY DEF DBLookup
<1>2. gen \in Gen /\ dbJobCh \in Seq(Job) /\ dbResultCh \in Seq(AnswerSet) /\ loaded \in Nat
  BY DEF IInv, TypeOK
<1>3. PICK j : j = Head(dbJobCh)
  OBVIOUS
<1>4. PICK outcome \in {"answered", "truncated", "failed", "epochStale"} :
        /\ outcome = "epochStale" => j.epoch # epochByGenKey
        /\ dbResultCh' = Append(dbResultCh, Answer("lookup", j.seq, outcome, loaded, j.ids))
  BY <1>3 DEF DBLookup
<1>5. /\ dbJobCh' \in Seq(Job) /\ j \in Job /\ 1 \in DOMAIN dbJobCh /\ j = dbJobCh[1]
  BY <1>1, <1>2, <1>3, TailParts
<1>6. j.seq \in Nat /\ j.ids \in SUBSET Nat
  BY <1>5 DEF Job
<1>7. PICK a : a = Answer("lookup", j.seq, outcome, loaded, j.ids)
  OBVIOUS
<1>8. /\ a \in AnswerSet /\ a.kind = "lookup" /\ a.seq = j.seq /\ a.outcome = outcome /\ a.basis = loaded /\ a.ids = j.ids
  BY <1>2, <1>6, <1>7, ZenonT(30) DEF Answer, AnswerSet
<1>9. dbResultCh' \in Seq(AnswerSet) /\ dbResultCh' = Append(dbResultCh, a)
  BY <1>2, <1>4, <1>7, <1>8, AppendParts
<1>10. TypeOK'
  BY <1>1, <1>5, <1>9, ZenonT(30) DEF IInv, TypeOK, histVars
<1>11. ASSUME Live
       PROVE  LoopOK(gen, dbJobCh', dbResultCh', epochByGenKey, loaded)
  <2>1. LoopOK(gen, dbJobCh, dbResultCh, epochByGenKey, loaded)
    BY <1>11 DEF IInv
  <2>2. j.epoch = epochByGenKey
    BY <1>1, <1>3, <1>5, <2>1, ZenonT(30) DEF LoopOK, Epochs
  <2>3. PICK c, as : c = Tail(dbJobCh) /\ as = Append(dbResultCh, a)
    BY ZenonT(30)
  <2>4. a.outcome # "epochStale" /\ a.seq = Head(dbJobCh).seq /\ a.ids = Head(dbJobCh).ids
    BY <1>3, <1>4, <1>8, <2>2
  <2>5. LoopOK(gen, c, as, epochByGenKey, loaded)
    BY <1>1, <1>2, <1>8, <2>1, <2>3, <2>4, LookupOK, ZenonT(30)
  <2>. QED
    BY <1>1, <1>9, <2>3, <2>5
<1>12. gen' = gen /\ worker' = worker /\ owed' = owed /\ wrong' = wrong /\ epochByGenKey' = epochByGenKey /\ loaded' = loaded
  BY <1>1 DEF histVars
<1>13. Live' => LoopOK(gen', dbJobCh', dbResultCh', epochByGenKey', loaded') /\ SampleOK(gen', worker')
  BY <1>11, <1>12 DEF IInv, Live
<1>14. Accounted(gen', owed') /\ AnswersAreTheirOwn' /\ SamplesMatchIndexRoot'
  BY <1>12, ZenonT(30) DEF IInv, AnswersAreTheirOwn, SamplesMatchIndexRoot
<1>. QED
  BY <1>10, <1>13, <1>14 DEF IInv

LEMMA DeadStays ==
    ASSUME IInv, ~ Live, gen' = gen
    PROVE  Dies(gen, gen')
BY DEF IInv, TypeOK, Live, Dies

\* Only the end of a generation sends a forget.
LEMMA DBForgetInv == IInv /\ DBForget => IInv'
<1> SUFFICES ASSUME IInv, DBForget PROVE IInv'
  OBVIOUS
<1>1. /\ dbJobCh # <<>> /\ Head(dbJobCh).kind = "forget" /\ epochByGenKey' = 0 /\ loaded' = 0
      /\ dbResultCh' = Append(dbResultCh, Answer("forget", 0, "ok", 0, {})) /\ dbJobCh' = Tail(dbJobCh)
      /\ UNCHANGED <<root, gen, worker, histVars>>
  BY DEF DBForget
<1>2. gen \in Gen /\ dbJobCh \in Seq(Job) /\ dbResultCh \in Seq(AnswerSet) /\ worker \in Worker
  BY DEF IInv, TypeOK
<1>3. dbJobCh' \in Seq(Job) /\ 1 \in DOMAIN dbJobCh /\ Head(dbJobCh) = dbJobCh[1]
  BY <1>1, <1>2, TailParts
<1>4. ~ Live
  BY <1>1, <1>3, ZenonT(30) DEF IInv, LoopOK, BuildLast
<1>5. PICK a : a = Answer("forget", 0, "ok", 0, {})
  OBVIOUS
<1>6. a \in AnswerSet
  BY <1>5, ZenonT(30) DEF Answer, AnswerSet
<1>7. dbResultCh' \in Seq(AnswerSet)
  BY <1>1, <1>2, <1>5, <1>6, AppendParts
<1>. QED
  BY <1>1, <1>2, <1>3, <1>4, <1>7, DeadStays, DeadInv

LEMMA IgnoreDBResultInv == IInv /\ IgnoreDBResult => IInv'
<1> SUFFICES ASSUME IInv, IgnoreDBResult PROVE IInv'
  OBVIOUS
<1>1. /\ dbResultCh # <<>> /\ (~ Live \/ Head(dbResultCh).kind = "forget") /\ dbResultCh' = Tail(dbResultCh)
      /\ UNCHANGED <<root, gen, worker, dbJobCh, epochByGenKey, loaded, histVars>>
  BY DEF IgnoreDBResult
<1>2. /\ gen \in Gen /\ dbJobCh \in Seq(Job) /\ dbResultCh \in Seq(AnswerSet) /\ worker \in Worker
      /\ epochByGenKey \in Nat /\ loaded \in Nat
  BY DEF IInv, TypeOK
<1>3. dbResultCh' \in Seq(AnswerSet) /\ 1 \in DOMAIN dbResultCh /\ Head(dbResultCh) = dbResultCh[1]
  BY <1>1, <1>2, TailParts
<1>4. ~ Live
  BY <1>1, <1>3 DEF IInv, LoopOK, BuildLast
<1>. QED
  BY <1>1, <1>2, <1>3, <1>4, DeadStays, DeadInv

\* applyBuildResult: its answer is the only thing on its way.
LEMMA BuiltOK ==
    ASSUME NEW g, NEW ch, NEW rs \in Seq(AnswerSet), NEW ep, NEW ld, LoopOK(g, ch, rs, ep, ld),
           rs # <<>>, Head(rs).kind = "build", NEW as, as = Tail(rs),
           NEW h \in Gen, h.nextSeq = g.nextSeq, h.lookup = g.lookup, h.queued = g.queued, h.epoch = g.epoch,
           \/ h.idx = "failed" /\ h.basis = g.basis
           \/ h.idx = "ready" /\ h.db # "ok" /\ h.basis = Head(rs).basis /\ Head(rs).outcome = "settled"
           \/ h.idx = "ready" /\ h.basis = Head(rs).basis /\ Head(rs).outcome = "ok"
    PROVE  LoopOK(h, ch, as, ep, ld) /\ g.idx = "building"
<1>1. 1 \in DOMAIN rs /\ Head(rs) = rs[1] /\ Len(rs) \in Nat \ {0} /\ (Len(rs) = 1 => as = <<>>)
  BY TailParts, ZenonT(30)
<1>2. 1 = Len(rs) /\ g.idx = "building" /\ ch = <<>> /\ ch \in Seq(Job)
  BY <1>1, ZenonT(30) DEF LoopOK, BuildLast
<1>. DOMAIN ch = {}
  BY ONLY <1>2
<1>3. as = <<>> /\ DOMAIN as = {}
  BY <1>1, <1>2, ZenonT(30)
<1>4. ep = g.epoch
  BY <1>1, ZenonT(30) DEF LoopOK, Epochs
<1>5. /\ Head(rs).outcome \in {"ok", "settled"} => Head(rs).basis # 0
      /\ Head(rs).outcome = "ok" => ld = Head(rs).basis
  BY <1>1, ZenonT(30) DEF LoopOK, Roots
<1>6. \A i \in DOMAIN g.queued : g.queued[i].epoch <= g.epoch /\ g.queued[i].epoch # g.epoch
  BY <1>2, ZenonT(30) DEF LoopOK, Epochs
<1>7. Own(h, ch, as)
  BY <1>2, <1>3, ZenonT(30) DEF LoopOK, Own
<1>8. BuildLast(h, ch, as)
  BY <1>2, <1>3, ZenonT(30) DEF BuildLast
<1>9. Epochs(h, ch, as, ep)
  BY <1>2, <1>3, <1>4, <1>6, ZenonT(30) DEF Epochs
<1>10. Roots(h, ch, as, ld)
  BY <1>2, <1>3, <1>5, <1>6, ZenonT(30) DEF Roots
<1>. QED
  BY <1>2, <1>7, <1>8, <1>9, <1>10, ZenonT(30) DEF LoopOK

LEMMA ApplyBuildResultInv == IInv /\ ApplyBuildResult => IInv'
<1> SUFFICES ASSUME IInv, ApplyBuildResult PROVE IInv'
  OBVIOUS
<1>1. PICK res : res = Head(dbResultCh)
  OBVIOUS
<1>2. /\ Live /\ dbResultCh # <<>> /\ res.kind = "build" /\ dbResultCh' = Tail(dbResultCh)
      /\ UNCHANGED <<root, worker, dbJobCh, epochByGenKey, loaded, items, owed, wrong>>
  BY <1>1 DEF ApplyBuildResult
<1>3. sampleSeen' \in BOOLEAN
  BY ZenonT(30) DEF ApplyBuildResult
<1>4. /\ gen \in Gen /\ dbJobCh \in Seq(Job) /\ dbResultCh \in Seq(AnswerSet) /\ worker \in Worker
      /\ LoopOK(gen, dbJobCh, dbResultCh, epochByGenKey, loaded) /\ SampleOK(gen, worker) /\ Accounted(gen, owed)
  BY <1>2 DEF IInv, TypeOK
<1>5. dbResultCh' \in Seq(AnswerSet) /\ res \in AnswerSet
  BY <1>1, <1>2, <1>4, TailParts
<1>6. res.basis \in Num /\ TRUE \in Flag /\ FALSE \in Flag /\ "ready" \in Idx /\ "failed" \in Idx
      /\ "absent" \in DBState /\ "error" \in DBState /\ "ok" \in DBState
  BY <1>5 DEF AnswerSet, Num, Flag, Idx, DBState
<1>7. /\ gen' \in Gen /\ gen'.nextSeq = gen.nextSeq /\ gen'.lookup = gen.lookup /\ gen'.queued = gen.queued
      /\ gen'.epoch = gen.epoch /\ gen'.pending = gen.pending /\ gen'.held = gen.held /\ gen'.incomplete = gen.incomplete
      /\ \/ gen'.idx = "failed" /\ gen'.basis = gen.basis
         \/ gen'.idx = "ready" /\ gen'.db # "ok" /\ gen'.basis = res.basis /\ res.outcome = "settled"
         \/ gen'.idx = "ready" /\ gen'.basis = res.basis /\ res.outcome = "ok"
  <2>1. CASE res.outcome = "settled" /\ gen' = [gen EXCEPT !.idx = "ready", !.db = "absent", !.basis = res.basis,
                                                           !.postIndexConfirmed = TRUE]
    <3>1. gen' \in Gen
      BY <1>4, <1>6, <2>1, ZenonT(30) DEF Gen
    <3>. QED
      BY <1>4, <2>1, <3>1 DEF Gen
  <2>2. CASE gen' = [gen EXCEPT !.idx = "failed", !.db = "error"]
    <3>1. gen' \in Gen
      BY <1>4, <1>6, <2>2, ZenonT(30) DEF Gen
    <3>. QED
      BY <1>4, <2>2, <3>1 DEF Gen
  <2>3. CASE res.outcome = "ok" /\ gen' = [gen EXCEPT !.idx = "ready", !.db = "ok", !.basis = res.basis,
                                                      !.postIndexConfirmed = FALSE, !.parseFailed = FALSE]
    <3>1. gen' \in Gen
      BY <1>4, <1>6, <2>3, ZenonT(30) DEF Gen
    <3>. QED
      BY <1>4, <2>3, <3>1 DEF Gen
  <2>4. CASE gen' = [gen EXCEPT !.idx = "failed", !.db = "error", !.parseFailed = TRUE]
    <3>1. gen' \in Gen
      BY <1>4, <1>6, <2>4, ZenonT(30) DEF Gen
    <3>. QED
      BY <1>4, <2>4, <3>1 DEF Gen
  <2>. QED
    BY <1>1, <2>1, <2>2, <2>3, <2>4, ZenonT(30) DEF ApplyBuildResult
<1>8. LoopOK(gen', dbJobCh, dbResultCh', epochByGenKey, loaded) /\ gen.idx = "building"
  <2>1. PICK h, as : h = gen' /\ as = dbResultCh'
    OBVIOUS
  <2>2. /\ h \in Gen /\ h.nextSeq = gen.nextSeq /\ h.lookup = gen.lookup /\ h.queued = gen.queued
        /\ h.epoch = gen.epoch /\ as = Tail(dbResultCh) /\ Head(dbResultCh).kind = "build"
        /\ \/ h.idx = "failed" /\ h.basis = gen.basis
           \/ h.idx = "ready" /\ h.db # "ok" /\ h.basis = Head(dbResultCh).basis /\ Head(dbResultCh).outcome = "settled"
           \/ h.idx = "ready" /\ h.basis = Head(dbResultCh).basis /\ Head(dbResultCh).outcome = "ok"
    BY ONLY <1>1, <1>2, <1>7, <2>1
  <2>3. LoopOK(h, dbJobCh, as, epochByGenKey, loaded) /\ gen.idx = "building"
    BY <1>2, <1>4, <2>2, BuiltOK, ZenonT(30)
  <2>. QED
    BY <2>1, <2>3
<1>9. TypeOK'
  BY <1>2, <1>3, <1>5, <1>7, ZenonT(30) DEF IInv, TypeOK
<1>10. SampleOK(gen', worker')
  BY <1>2, <1>4, <1>8, ZenonT(30) DEF SampleOK
<1>11. Accounted(gen', owed')
  BY <1>2, <1>4, <1>7, ZenonT(30) DEF Accounted, Tracked, Submitted
<1>12. AnswersAreTheirOwn' /\ SamplesMatchIndexRoot'
  BY <1>2, ZenonT(30) DEF IInv, AnswersAreTheirOwn, SamplesMatchIndexRoot
<1>. QED
  BY <1>2, <1>8, <1>9, <1>10, <1>11, <1>12 DEF IInv

\* The loop takes an answer.
LEMMA TailOK ==
    ASSUME NEW g, NEW ch, NEW rs \in Seq(AnswerSet), NEW ep, NEW ld, LoopOK(g, ch, rs, ep, ld),
           rs # <<>>, NEW as, as = Tail(rs)
    PROVE  LoopOK(g, ch, as, ep, ld)
<1>1. \A i \in DOMAIN as : i + 1 \in DOMAIN rs /\ as[i] = rs[i + 1] /\ (i + 1 = Len(rs) => i = Len(as))
  BY TailParts
<1>2. Own(g, ch, as)
  BY <1>1, ZenonT(30) DEF LoopOK, Own
<1>3. BuildLast(g, ch, as)
  BY <1>1, ZenonT(30) DEF LoopOK, BuildLast
<1>4. Epochs(g, ch, as, ep)
  BY <1>1, ZenonT(30) DEF LoopOK, Epochs
<1>5. Roots(g, ch, as, ld)
  BY <1>1, ZenonT(30) DEF LoopOK, Roots
<1>. QED
  BY <1>2, <1>3, <1>4, <1>5 DEF LoopOK

\* flushQueuedCandidates, once the outstanding lookup is answered.
Answered(g, h) ==
    /\ h \in Gen /\ SameIndex(g, h) /\ h.nextSeq = g.nextSeq /\ h.lookup = NoLookup /\ h.queued = g.queued
    /\ h.pending = g.pending /\ h.held = g.held /\ Sticky(g, h)

Flushed(g, h, t, rs, ep, ld) ==
    /\ t \in Loop /\ LoopOK(t.g, t.ch, rs, ep, ld) /\ SameIndex(g, t.g) /\ Sticky(h, t.g)
    /\ t.g.pending = g.pending /\ t.g.held = g.held
    /\ t.g.incomplete \/ Ids(g.queued) \subseteq Submitted(t.g)

LEMMA FlushOK ==
    ASSUME NEW g, NEW ch, NEW rs \in Seq(AnswerSet), NEW ep, NEW ld, LoopOK(g, ch, rs, ep, ld),
           NEW h, Answered(g, h), NEW t, t = Flush(Shared(h, ch))
    PROVE  Flushed(g, h, t, rs, ep, ld)
<1>1. /\ g \in Gen /\ ch \in Seq(Job) /\ h \in Gen /\ h.incomplete \in Flag /\ h.queued = g.queued
      /\ g.queued \in Seq(BatchSet) /\ h.epoch = g.epoch
  BY GenParts, ZenonT(30) DEF LoopOK, Answered, Gen, SameIndex
<1>2. PICK current, f : /\ current = {b \in Range(g.queued) : b.epoch = g.epoch}
                        /\ f = (h.incomplete \/ current # Range(g.queued))
  BY ZenonT(30)
<1>3. f \in Flag /\ (h.incomplete => f) /\ (~ f => current = Range(g.queued))
  BY <1>1, <1>2, ZenonT(30) DEF Flag
<1>4. <<>> \in BatchQueue
  BY DEF BatchQueue
<1>5. PICK k : k = [h EXCEPT !.queued = <<>>, !.incomplete = f]
  OBVIOUS
<1>6. k \in Gen
  BY <1>1, <1>3, <1>4, <1>5, ZenonT(30) DEF Gen
<1>7. /\ Cleared(g, k) /\ k.incomplete = f /\ Sticky(h, k) /\ k.pending = g.pending /\ k.held = g.held
      /\ k.idx = g.idx /\ k.basis = g.basis /\ k.lookup = NoLookup
  BY <1>1, <1>3, <1>5, <1>6 DEF Gen, Cleared, Answered, SameIndex, Sticky
<1>8. PICK u, bs : u = Shared(k, ch) /\ bs = Kept(g.queued, current)
  OBVIOUS
<1>9. t = IF current = {} THEN u ELSE SubmitBatches(u, bs)
  <2>1. Shared(h, ch).g = h /\ Shared(h, ch).ch = ch
    BY DEF Shared
  <2>. QED
    BY <1>1, <1>2, <1>5, <1>8, <2>1, ZenonT(30) DEF Flush
<1>10. u \in Loop /\ u.g = k /\ u.ch = ch
  BY <1>1, <1>6, <1>8, SharedLoop
<1>11. LoopOK(u.g, u.ch, rs, ep, ld)
  BY <1>7, <1>10, ClearedOK
<1>12. bs \in Seq(BatchSet) /\ Range(bs) = current
  <2>1. Range(g.queued) \cap current = current
    BY <1>2, ZenonT(30)
  <2>. QED
    BY <1>1, <1>8, <2>1, KeptIs, ZenonT(30)
<1>13. ~ f => Ids(bs) = Ids(g.queued)
  BY <1>3, <1>12, ZenonT(30) DEF Ids
<1>14. CASE current = {}
  <2>1. t = u /\ Ids(bs) = {}
    BY <1>9, <1>12, <1>14, ZenonT(30) DEF Ids
  <2>2. k.incomplete \/ Ids(g.queued) \subseteq Submitted(k)
    BY <1>7, <1>13, <2>1, ZenonT(30)
  <2>. QED
    BY <1>7, <1>10, <1>11, <2>1, <2>2, ZenonT(30) DEF Flushed, Cleared
<1>15. CASE current # {}
  <2>1. t = SubmitBatches(u, bs)
    BY <1>9, <1>15
  <2>2. ASSUME NEW b \in current
        PROVE  \E i \in DOMAIN g.queued : b = g.queued[i] /\ g.queued[i].epoch = g.epoch
    BY <1>2, <2>2, ZenonT(30) DEF Range
  <2>3. g.idx = "ready"
    BY <1>15, <2>2, ZenonT(30) DEF LoopOK, Epochs
  <2>4. SampledIn(bs, g.basis)
    <3>1. ASSUME NEW i \in DOMAIN bs, bs[i].src \in {"sample", "pending"}
          PROVE  bs[i].root = g.basis
      <4>1. bs[i] \in current
        BY <1>12, ZenonT(30) DEF Range
      <4>. QED
        BY <2>2, <3>1, <4>1, ZenonT(30) DEF LoopOK, Roots
    <3>. QED
      BY <3>1 DEF SampledIn
  <2>5. Sends(u, t, rs, ep, ld, Ids(bs))
    <3>1. u.g.lookup = NoLookup /\ u.g.idx = "ready" /\ SampledIn(bs, u.g.basis)
      BY <1>7, <1>10, <2>3, <2>4, ZenonT(30)
    <3>. QED
      BY <1>10, <1>11, <1>12, <2>1, <3>1, SubmitBatchesOK, ZenonT(30)
  <2>6. SameIndex(g, t.g) /\ Sticky(h, t.g) /\ t.g.pending = g.pending /\ t.g.held = g.held
    BY <1>7, <1>10, <2>5, ZenonT(30) DEF Sends, SameIndex, Sticky, Cleared
  <2>7. t.g.incomplete \/ Ids(g.queued) \subseteq Submitted(t.g)
    BY <1>7, <1>10, <1>13, <2>5, ZenonT(30) DEF Sends, Sticky
  <2>. QED
    BY <2>5, <2>6, <2>7, ZenonT(30) DEF Sends, Flushed
<1>. QED
  BY <1>14, <1>15

\* An answer to the outstanding lookup credits its own batches, and those of
\* samples from the index of their root.
LEMMA MiscreditedOK ==
    ASSUME NEW rs \in Seq(AnswerSet), NEW i \in DOMAIN rs, rs[i].kind = "lookup", rs[i].seq = gen.lookup.seq,
           LoopOK(gen, dbJobCh, rs, epochByGenKey, loaded),
           NEW a \in Miscredited(rs[i], gen.lookup.batches)
    PROVE  a.why # "lookup" /\ ~ (a.src \in {"sample", "pending"} /\ a.db = "ok" /\ a.why = "root")
<1>1. PICK res, q : res = rs[i] /\ q = gen.lookup.batches
  BY ZenonT(30)
<1>2. res.ids = Ids(q)
  BY <1>1, ZenonT(30) DEF LoopOK, Own
<1>3. res.basis # 0
  BY <1>1, ZenonT(30) DEF Miscredited
<1>4. gen.db = "ok" => SampledIn(q, res.basis)
  BY <1>1, <1>3, ZenonT(30) DEF LoopOK, Roots
<1>5. \A b \in Range(q) : b.id \in res.ids
  BY <1>2 DEF Ids
<1>6. gen.db = "ok" => \A b \in Range(q) : b.src \in {"sample", "pending"} => b.root = res.basis
  BY <1>4, ZenonT(30) DEF SampledIn, Range
<1>7. PICK b \in Range(q) : a = [src |-> b.src, db |-> gen.db, why |-> "root"] /\ b.root # res.basis
  BY <1>1, <1>3, <1>5, ZenonT(30) DEF Miscredited
<1>8. a.src = b.src /\ a.db = gen.db /\ a.why = "root"
  BY <1>7, ZenonT(30)
<1>. QED
  BY <1>6, <1>7, <1>8, ZenonT(30)

LEMMA ApplyLookupResultInv == IInv /\ ApplyLookupResult => IInv'
<1> SUFFICES ASSUME IInv, ApplyLookupResult PROVE IInv'
  OBVIOUS
<1>1. PICK res, done, as : res = Head(dbResultCh) /\ done = gen.lookup.batches /\ as = Tail(dbResultCh)
  BY ZenonT(30)
<1>2. /\ Live /\ dbResultCh # <<>> /\ res.kind = "lookup" /\ dbResultCh' = as
      /\ UNCHANGED <<root, worker, epochByGenKey, loaded, items>>
  BY <1>1 DEF ApplyLookupResult
<1>3. /\ gen \in Gen /\ dbJobCh \in Seq(Job) /\ dbResultCh \in Seq(AnswerSet) /\ worker \in Worker /\ owed \in SUBSET Nat
      /\ LoopOK(gen, dbJobCh, dbResultCh, epochByGenKey, loaded) /\ SampleOK(gen, worker) /\ Accounted(gen, owed)
  BY <1>2 DEF IInv, TypeOK
<1>4. as \in Seq(AnswerSet) /\ res \in AnswerSet /\ 1 \in DOMAIN dbResultCh /\ res = dbResultCh[1]
  BY <1>1, <1>2, <1>3, TailParts
<1>5. LoopOK(gen, dbJobCh, as, epochByGenKey, loaded)
  BY <1>1, <1>2, <1>3, TailOK, ZenonT(30)
<1>6. CASE gen.lookup = NoLookup \/ res.seq # gen.lookup.seq
  <2>1. UNCHANGED <<gen, dbJobCh, owed, wrong, sampleSeen>>
    BY <1>1, <1>6 DEF ApplyLookupResult
  <2>2. TypeOK'
    BY <1>2, <1>4, <2>1, ZenonT(30) DEF IInv, TypeOK
  <2>3. LoopOK(gen', dbJobCh', dbResultCh', epochByGenKey', loaded') /\ SampleOK(gen', worker') /\ Accounted(gen', owed')
    BY <1>2, <1>3, <1>5, <2>1
  <2>4. AnswersAreTheirOwn' /\ SamplesMatchIndexRoot'
    BY <2>1, ZenonT(30) DEF IInv, AnswersAreTheirOwn, SamplesMatchIndexRoot
  <2>. QED
    BY <2>2, <2>3, <2>4 DEF IInv
<1>7. CASE gen.lookup # NoLookup /\ res.seq = gen.lookup.seq
  <2>1. PICK g : g = [gen EXCEPT !.lookup = NoLookup]
    BY ZenonT(30)
  <2>2. PICK h : h = CASE res.outcome \in {"epochStale", "failed"} -> [g EXCEPT !.incomplete = TRUE]
                       [] res.outcome = "truncated" -> [g EXCEPT !.incomplete = TRUE, !.postIndexConfirmed = TRUE]
                       [] OTHER -> [g EXCEPT !.postIndexConfirmed = TRUE]
    BY ZenonT(30)
  <2>3. PICK t : t = Flush(Shared(h, dbJobCh))
    OBVIOUS
  <2>4. /\ gen' = t.g /\ dbJobCh' = t.ch
        /\ owed' = owed \ (IF res.outcome = "answered" THEN Ids(done) ELSE {})
        /\ wrong' = wrong \cup Miscredited(res, done)
    BY <1>1, <1>7, <2>1, <2>2, <2>3, ZenonT(30) DEF ApplyLookupResult
  <2>5. sampleSeen' \in BOOLEAN
    BY <1>1, <1>7, ZenonT(30) DEF ApplyLookupResult
  <2>6. NoLookup \in Lookup /\ TRUE \in Flag
    BY DEF NoLookup, Lookup, Flag
  <2>7. g \in Gen
    BY <1>3, <2>1, <2>6, ZenonT(30) DEF Gen
  <2>8. res.outcome \in {"answered", "truncated", "failed", "epochStale"}
    BY <1>2, <1>4 DEF AnswerSet
  <2>9. \/ h = [g EXCEPT !.incomplete = TRUE]
        \/ h = [g EXCEPT !.incomplete = TRUE, !.postIndexConfirmed = TRUE]
        \/ h = [g EXCEPT !.postIndexConfirmed = TRUE] /\ res.outcome = "answered"
    BY <2>2, <2>8
  <2>10. h \in Gen
    BY <2>6, <2>7, <2>9, ZenonT(30) DEF Gen
  <2>11. Answered(gen, h) /\ (h.incomplete \/ res.outcome = "answered")
    BY <1>3, <2>1, <2>7, <2>9, <2>10, ZenonT(30) DEF Gen, Answered, SameIndex, Sticky
  <2>12. Flushed(gen, h, t, as, epochByGenKey, loaded)
    BY <1>4, <1>5, <2>3, <2>11, FlushOK, ZenonT(30)
  <2>13. gen' \in Gen /\ dbJobCh' \in Seq(Job) /\ LoopOK(gen', dbJobCh', as, epochByGenKey, loaded) /\ gen'.idx = gen.idx
    BY <2>4, <2>12, LoopParts, ZenonT(30) DEF Flushed, SameIndex
  <2>14. TypeOK'
    <3>1. owed' \in SUBSET Nat
      BY <1>3, <2>4, ZenonT(30)
    <3>. QED
      BY <1>2, <1>4, <2>5, <2>13, <3>1, ZenonT(30) DEF IInv, TypeOK
  <2>15. LoopOK(gen', dbJobCh', dbResultCh', epochByGenKey', loaded') /\ SampleOK(gen', worker')
    BY <1>2, <1>3, <2>13, ZenonT(30) DEF SampleOK
  <2>16. Accounted(gen', owed')
    <3>1. SUFFICES ASSUME ~ gen'.incomplete PROVE owed' \subseteq Tracked(gen')
      BY DEF Accounted
    <3>2. ~ h.incomplete /\ ~ gen.incomplete /\ Ids(gen.queued) \subseteq Submitted(gen')
          /\ gen'.pending = gen.pending /\ gen'.held = gen.held
      BY <2>4, <2>11, <2>12, <3>1, ZenonT(30) DEF Flushed, Answered, Sticky
    <3>3. owed' = owed \ Ids(done) /\ owed \subseteq Tracked(gen)
      BY <1>3, <2>4, <2>11, <3>2, ZenonT(30) DEF Accounted
    <3>. QED
      BY <1>1, <3>2, <3>3 DEF Tracked, Submitted
  <2>17. AnswersAreTheirOwn' /\ SamplesMatchIndexRoot'
    <3>1. ASSUME NEW a \in wrong'
          PROVE  a.why # "lookup" /\ ~ (a.src \in {"sample", "pending"} /\ a.db = "ok" /\ a.why = "root")
      <4>1. CASE a \in wrong
        BY <4>1 DEF IInv, AnswersAreTheirOwn, SamplesMatchIndexRoot
      <4>2. CASE a \in Miscredited(res, done)
        BY <1>1, <1>2, <1>3, <1>4, <1>7, <4>2, MiscreditedOK, ZenonT(30)
      <4>. QED
        BY <2>4, <4>1, <4>2
    <3>. QED
      BY <3>1, ZenonT(30) DEF AnswersAreTheirOwn, SamplesMatchIndexRoot
  <2>. QED
    BY <2>14, <2>15, <2>16, <2>17 DEF IInv
<1>. QED
  BY <1>6, <1>7

LEMMA NextInv == IInv /\ [Next]_vars => IInv'
<1> SUFFICES ASSUME IInv, [Next]_vars PROVE IInv'
  OBVIOUS
<1>1. CASE UNCHANGED vars
  <2>1. /\ gen' = gen /\ worker' = worker /\ UNCHANGED <<root, workVars, histVars>>
    BY <1>1 DEF vars
  <2>2. Idles(gen, gen') /\ worker' \in Worker /\ (Live => SampleOK(gen', worker'))
    BY <2>1 DEF IInv, TypeOK, Idles, SameRest, SameIndex, Sticky
  <2>. QED
    BY <2>1, <2>2, IdlesInv
<1>2. CASE LoopStep
  BY <1>2, UsageEventInv, DiscoveryPassInv, EndGenerationInv, SampleTimeoutInv, SampleFinishedInv,
     HandleSampleResultInv, ApplyBuildResultInv, ApplyLookupResultInv, IgnoreDBResultInv, ZenonT(30)
  DEF LoopStep, SampleResult
<1>3. CASE DBWorkerStep
  BY <1>3, DBBuildInv, DBLookupInv, DBForgetInv, ParserDiesInv DEF DBWorkerStep
<1>. QED
  BY <1>1, <1>2, <1>3, ChangeRootInv, WorkerReadsInv DEF Next

LEMMA Invariance == Spec => []IInv
BY InitInv, NextInv, PTL DEF Spec

-----------------------------------------------------------------------------
(* The claims *)

\* Whenever the main body may read "not observed" from the generation, every
\* observation the loop took in has been looked up and applied: none was lost at
\* a full channel or queue, expired, or swallowed by a rebuild, without the
\* generation withdrawing the claim (submitCandidateBatches, recordPendingEvent,
\* the expirations of dispatchWork, flushQueuedCandidates).
THEOREM NothingDroppedQuietlyHolds == Spec => []NothingDroppedQuietly
<1>1. IInv => NothingDroppedQuietly
  <2> SUFFICES ASSUME IInv, Eligible PROVE owed = {}
    BY DEF NothingDroppedQuietly
  <2>1. /\ ~ gen.incomplete /\ gen.lookup = NoLookup /\ gen.queued = <<>> /\ gen.held = <<>> /\ gen.pending = <<>>
    <3>1. PublishedState = "observing" /\ ~ PublishedIncomplete
      BY DEF Eligible
    <3>2. gen.pending = <<>>
      BY <3>1 DEF PublishedState
    <3>. QED
      BY <3>1, <3>2 DEF PublishedIncomplete
  <2>2. Ids(gen.lookup.batches) = {} /\ Ids(gen.queued) = {} /\ Ids(gen.held) = {} /\ Ids(gen.pending) = {}
    BY <2>1, IdsEmpty DEF NoLookup
  <2>. QED
    BY <2>1, <2>2, ZenonT(30) DEF IInv, Accounted, Tracked, Submitted
<1>. QED
  BY Invariance, <1>1, PTL

\* What samples saw, or re-checked, is only credited from an index built from
\* the root they saw it in (the epoch and the basis of applySampleResult).
THEOREM SamplesMatchIndexRootHolds == Spec => []SamplesMatchIndexRoot
<1>1. IInv => SamplesMatchIndexRoot
  BY DEF IInv
<1>. QED
  BY Invariance, <1>1, PTL

\* The late answer of a lookup that was given up on is not taken for the answer
\* of its successor (the sequence number of applyLookupResult).
THEOREM AnswersAreTheirOwnHolds == Spec => []AnswersAreTheirOwn
<1>1. IInv => AnswersAreTheirOwn
  BY DEF IInv
<1>. QED
  BY Invariance, <1>1, PTL

\* No lookup of a live generation reaches the dbworker under another epoch than
\* that of the index it holds (the epochByGenKey of runDBWorker).
THEOREM LookupsMeetTheirEpochHolds == Spec => []LookupsMeetTheirEpoch
<1>1. IInv => LookupsMeetTheirEpoch
  BY ZenonT(30) DEF IInv, LoopOK, Epochs, LookupsMeetTheirEpoch, Range
<1>. QED
  BY Invariance, <1>1, PTL
=============================================================================
