-------------------------- MODULE BuildQueueProofs --------------------------
(***************************************************************************)
(* The queue of index builds for any set of generations, any capacity of   *)
(* the channels and any stall limit.                                       *)
(***************************************************************************)
EXTENDS BuildQueue, FiniteSetTheorems, TLAPS

Job == [kind : {"build", "forget"}, g : Gens]

\* Everything between the loop's send and the loop's receive, in order.
Pending == dbResultCh \o dbJobCh

TypeInv ==
    /\ status \in [Gens -> {"unseen", "live", "ended", "pruned"}]
    /\ idxState \in [Gens -> {"idle", "building", "ready", "failed"}]
    /\ dbJobCh \in Seq(Job) /\ dbResultCh \in Seq(Job)

\* A generation has at most a build and then a forget in p.
InOrder(p) ==
    \A i, j \in 1..Len(p) : i < j /\ p[i].g = p[j].g => p[i].kind = "build" /\ p[j].kind = "forget"

\* Only a generation that has ended is forgotten, and an unseen one has no job.
Timely(p, st) ==
    \A i \in 1..Len(p) :
      /\ st[p[i].g] # "unseen"
      /\ p[i].kind = "forget" => st[p[i].g] \in {"ended", "pruned"}

\* A live generation is building while a build of it is in p, and only then.
Tracked(p, st, idx) ==
    /\ \A i \in 1..Len(p) : p[i].kind = "build" /\ st[p[i].g] = "live" => idx[p[i].g] = "building"
    /\ \A g \in Gens : st[g] = "live" /\ idx[g] = "building" => \E i \in 1..Len(p) : p[i] = [kind |-> "build", g |-> g]

\* The inductive invariant.  A generation the loop has not seen has an idle
\* index, so that a first sighting starts without a build under way.
IInv ==
    /\ TypeInv
    /\ InOrder(Pending) /\ Timely(Pending, status) /\ Tracked(Pending, status, idxState)
    /\ \A g \in Gens : status[g] = "unseen" => idxState[g] = "idle"

\* The entries of two sequences put together.
LEMMA Concatenated ==
    ASSUME NEW S, NEW p \in Seq(S), NEW q \in Seq(S)
    PROVE  /\ p \o q \in Seq(S) /\ Len(p \o q) = Len(p) + Len(q)
           /\ \A i \in 1..Len(p) : i \in 1..Len(p \o q) /\ (p \o q)[i] = p[i]
           /\ \A i \in 1..Len(q) : Len(p) + i \in 1..Len(p \o q) /\ (p \o q)[Len(p) + i] = q[i]
           /\ \A i \in 1..Len(p \o q) : i \notin 1..Len(p) => i - Len(p) \in 1..Len(q) /\ (p \o q)[i] = q[i - Len(p)]
OBVIOUS

\* Putting sequences together is associative.
LEMMA Associative ==
    ASSUME NEW S, NEW p \in Seq(S), NEW q \in Seq(S), NEW r \in Seq(S)
    PROVE  p \o (q \o r) = (p \o q) \o r
OBVIOUS

\* The entries of a sequence of jobs are jobs.
LEMMA JobParts ==
    ASSUME NEW p \in Seq(Job)
    PROVE  \A i \in 1..Len(p) :
             /\ p[i] \in Job /\ p[i].g \in Gens /\ p[i].kind \in {"build", "forget"}
             /\ p[i] = [kind |-> p[i].kind, g |-> p[i].g]
<1>. SUFFICES ASSUME NEW i \in 1..Len(p)
              PROVE  /\ p[i] \in Job /\ p[i].g \in Gens /\ p[i].kind \in {"build", "forget"}
                     /\ p[i] = [kind |-> p[i].kind, g |-> p[i].g]
  OBVIOUS
<1>1. p[i] \in Job
  OBVIOUS
<1>2. \A job \in Job : /\ job.g \in Gens /\ job.kind \in {"build", "forget"}
                       /\ job = [kind |-> job.kind, g |-> job.g]
  BY DEF Job
<1>. QED
  BY <1>1, <1>2

\* What the sends of one pass add to the channel: jobs of the given kind, for
\* different generations of the given ones (submitDBJob).
Sent(q, kind, gs) ==
    /\ q \in Seq(Job)
    /\ \A i \in 1..Len(q) : q[i].kind = kind /\ q[i].g \in gs
    /\ \A i, j \in 1..Len(q) : i # j => q[i].g # q[j].g

\* submitDBJob only ever appends to the channel.
LEMMA SendsAppend ==
    ASSUME NEW ch \in Seq(Job), NEW kind \in {"build", "forget"}, NEW gs \in SUBSET Gens,
           NEW out \in Sends(ch, kind, gs)
    PROVE  \E q : Sent(q, kind, gs) /\ out = ch \o q
<1>1. PICK F \in SUBSET gs : \E f \in SetToSeqs(F) : out = ch \o [i \in 1..Len(f) |-> [kind |-> kind, g |-> f[i]]]
  BY DEF Sends
<1>2. PICK f \in SetToSeqs(F) : out = ch \o [i \in 1..Len(f) |-> [kind |-> kind, g |-> f[i]]]
  BY <1>1
<1>3. Cardinality(F) \in Nat
  BY GenerationsAssumption, FS_Subset, FS_CardinalityType
<1>4. /\ f \in [1..Cardinality(F) -> F] /\ \A i, j \in 1..Cardinality(F) : i # j => f[i] # f[j]
  BY <1>2 DEF SetToSeqs
<1>5. Len(f) = Cardinality(F)
  BY <1>3, <1>4
<1>. DEFINE q == [i \in 1..Len(f) |-> [kind |-> kind, g |-> f[i]]]
<1>6. q \in [1..Cardinality(F) -> Job]
  BY <1>4, <1>5 DEF Job
<1>7. q \in Seq(Job) /\ Len(q) = Cardinality(F)
  BY <1>3, <1>6
<1>8. \A i \in 1..Len(q) : q[i].kind = kind /\ q[i].g = f[i] /\ f[i] \in gs
  BY <1>4, <1>5, <1>7
<1>9. Sent(q, kind, gs)
  BY <1>4, <1>7, <1>8 DEF Sent
<1>. QED
  BY <1>2, <1>9, ZenonT(30)

\* Jobs sent after p keep it in order when those of a generation with a job in
\* p are forgets, and its jobs in p builds.
LEMMA InOrderAppend ==
    ASSUME NEW p \in Seq(Job), NEW q, NEW kind, NEW gs, InOrder(p), Sent(q, kind, gs),
           \A i \in 1..Len(p), k \in 1..Len(q) : p[i].g = q[k].g => p[i].kind = "build" /\ kind = "forget"
    PROVE  InOrder(p \o q)
<1>. SUFFICES ASSUME NEW i \in 1..Len(p \o q), NEW j \in 1..Len(p \o q), i < j, (p \o q)[i].g = (p \o q)[j].g
              PROVE  (p \o q)[i].kind = "build" /\ (p \o q)[j].kind = "forget"
  BY DEF InOrder
<1>0. q \in Seq(Job) /\ Len(p) \in Nat /\ Len(q) \in Nat
  BY DEF Sent
<1>1. CASE i \in 1..Len(p) /\ j \in 1..Len(p)
  BY <1>0, <1>1, Concatenated DEF InOrder
<1>2. CASE i \in 1..Len(p) /\ j \notin 1..Len(p)
  <2>1. /\ j - Len(p) \in 1..Len(q) /\ (p \o q)[j] = q[j - Len(p)] /\ (p \o q)[i] = p[i]
    BY <1>0, <1>2, Concatenated
  <2>. QED
    BY <1>2, <2>1 DEF Sent
<1>3. CASE i \notin 1..Len(p)
  <2>1. /\ i - Len(p) \in 1..Len(q) /\ (p \o q)[i] = q[i - Len(p)]
    BY <1>0, <1>3, Concatenated
  <2>2. j \notin 1..Len(p)
    BY <1>0, <1>3
  <2>3. /\ j - Len(p) \in 1..Len(q) /\ (p \o q)[j] = q[j - Len(p)]
    BY <1>0, <2>2, Concatenated
  <2>4. i - Len(p) # j - Len(p)
    BY <1>0
  <2>. QED
    BY <2>1, <2>3, <2>4 DEF Sent
<1>. QED
  BY <1>1, <1>2, <1>3

\* The dbworker moves a job from one channel to the other: the order stays.
LEMMA MoveHead ==
    ASSUME NEW S, NEW p \in Seq(S), NEW q \in Seq(S), q # <<>>
    PROVE  /\ Append(p, Head(q)) \in Seq(S) /\ Tail(q) \in Seq(S)
           /\ Append(p, Head(q)) \o Tail(q) = p \o q
OBVIOUS

\* The loop takes the first job of all.
LEMMA TakeHead ==
    ASSUME NEW S, NEW p \in Seq(S), NEW q \in Seq(S), p # <<>>
    PROVE  /\ Tail(p) \in Seq(S) /\ Tail(p) \o q = Tail(p \o q) /\ p \o q # <<>> /\ Head(p \o q) = Head(p)
OBVIOUS

\* Initially nothing is queued.
LEMMA InitIInv == Init => IInv
BY DEF Init, GenerationsInit, IInv, TypeInv, InOrder, Timely, Tracked, Pending

\* What a discovery pass does to the status of a generation.
LEMMA PassStatus ==
    ASSUME TypeInv, NEW cur, Turnover(cur)
    PROVE  /\ status' \in [Gens -> {"unseen", "live", "ended", "pruned"}]
           /\ \A g \in Gens :
                /\ Reconciled(cur)[g] = "live" <=> status'[g] = "live"
                /\ status[g] = "live" => status'[g] = IF g \in cur THEN "live" ELSE "ended"
                /\ status[g] = "live" /\ Reconciled(cur)[g] = "ended" => status'[g] = "ended"
                /\ status[g] = "unseen" => status'[g] \in {"unseen", "live"}
                /\ status[g] \in {"ended", "pruned"} => status'[g] \in {"ended", "pruned"}
<1>1. \A g \in Gens : endedFor'[g] = IF status[g] = "ended" THEN endedFor[g] + 1 ELSE 0
  BY DEF Turnover
<1>2. \A g \in Gens : status'[g] = IF endedFor'[g] > Retain THEN "pruned" ELSE Reconciled(cur)[g]
  BY DEF Turnover
<1>3. \A g \in Gens : Reconciled(cur)[g] = IF status[g] = "unseen" /\ g \in cur THEN "live"
                                          ELSE IF status[g] = "live" /\ g \notin cur THEN "ended" ELSE status[g]
  BY DEF Reconciled
<1>4. \A g \in Gens : status[g] # "ended" => ~(endedFor'[g] > Retain)
  BY <1>1, GenerationsAssumption
<1>5. \A g \in Gens : status[g] \in {"unseen", "live", "ended", "pruned"}
  BY DEF TypeInv
<1>6. \A g \in Gens : status'[g] \in {"unseen", "live", "ended", "pruned"}
  BY <1>2, <1>3, <1>5
<1>7. status' \in [Gens -> {"unseen", "live", "ended", "pruned"}]
  BY <1>6 DEF Turnover
<1>. QED
  BY <1>2, <1>3, <1>4, <1>5, <1>7

\* The dbworker's step changes nothing that the invariant speaks of.
LEMMA DBWorkStep == ASSUME IInv, DBWork PROVE IInv'
<1>1. /\ dbJobCh \in Seq(Job) /\ dbResultCh \in Seq(Job) /\ dbJobCh # <<>>
      /\ dbResultCh' = Append(dbResultCh, Head(dbJobCh)) /\ dbJobCh' = Tail(dbJobCh)
      /\ status' = status /\ idxState' = idxState
  BY DEF IInv, TypeInv, DBWork, generationVars
<1>2. Pending' = Pending /\ dbJobCh' \in Seq(Job) /\ dbResultCh' \in Seq(Job)
  BY <1>1, MoveHead DEF Pending
<1>. QED
  BY <1>1, <1>2 DEF IInv, TypeInv

\* An index that is given up was ready, so no build of it is under way.
LEMMA GiveUpStep == ASSUME IInv, NEW h \in Gens, IndexGivenUp(h) PROVE IInv'
<1>1. /\ status[h] = "live" /\ idxState[h] = "ready" /\ idxState' = [idxState EXCEPT ![h] = "idle"]
      /\ status' = status /\ Pending' = Pending /\ dbJobCh' = dbJobCh /\ dbResultCh' = dbResultCh
  BY DEF IndexGivenUp, generationVars, Pending
<1>2. \A g \in Gens : idxState'[g] = IF g = h THEN "idle" ELSE idxState[g]
  BY <1>1 DEF IInv, TypeInv
<1>3. TypeInv'
  BY <1>1 DEF IInv, TypeInv
<1>4. Pending \in Seq(Job)
  BY Concatenated DEF IInv, TypeInv, Pending
<1>5. Tracked(Pending, status, idxState')
  BY <1>1, <1>2, <1>4, JobParts DEF IInv, Tracked
<1>. QED
  BY <1>1, <1>2, <1>3, <1>5 DEF IInv

\* The loop takes a result: the one build of its generation leaves the
\* channels as the generation leaves state building.
LEMMA ResultStep == ASSUME IInv, ApplyDBResult PROVE IInv'
<1>. DEFINE p == Pending
            res == Head(dbResultCh)
<1>1. /\ dbJobCh \in Seq(Job) /\ dbResultCh \in Seq(Job) /\ dbResultCh # <<>>
      /\ dbResultCh' = Tail(dbResultCh) /\ dbJobCh' = dbJobCh /\ status' = status
  BY DEF IInv, TypeInv, ApplyDBResult, generationVars
<1>2. PICK as \in {"ready", "failed"} :
        idxState' = IF res.kind = "build" /\ status[res.g] = "live" THEN [idxState EXCEPT ![res.g] = as] ELSE idxState
  BY DEF ApplyDBResult
<1>3. /\ p \in Seq(Job) /\ p # <<>> /\ Head(p) = res /\ Pending' = Tail(p) /\ dbResultCh' \in Seq(Job)
  BY <1>1, TakeHead, Concatenated, SMTT(30) DEF Pending
<1>4. /\ Len(p) \in Nat \ {0} /\ p[1] = res /\ 1 \in 1..Len(p) /\ res \in Job
      /\ Len(Tail(p)) = Len(p) - 1
      /\ \A i \in 1..Len(Tail(p)) : i + 1 \in 1..Len(p) /\ Tail(p)[i] = p[i + 1] /\ p[i + 1] \in Job
  BY <1>3
<1>5. /\ res.g \in Gens /\ idxState \in [Gens -> {"idle", "building", "ready", "failed"}]
      /\ \A i \in 1..Len(p) : p[i].g \in Gens
  BY <1>3, <1>4, JobParts, ZenonT(30) DEF IInv, TypeInv
<1>6. \A g \in Gens : idxState'[g] = IF g = res.g /\ res.kind = "build" /\ status[g] = "live" THEN as ELSE idxState[g]
  BY <1>2, <1>5
<1>7. TypeInv'
  BY <1>1, <1>2, <1>3, <1>5 DEF IInv, TypeInv
<1>8. InOrder(Tail(p)) /\ Timely(Tail(p), status)
  <2>1. \A i, j \in 1..Len(Tail(p)) : i < j => i + 1 < j + 1
    BY <1>4
  <2>. QED
    BY <1>4, <2>1 DEF IInv, InOrder, Timely
<1>9. ASSUME NEW i \in 1..Len(Tail(p)), Tail(p)[i].kind = "build", status[Tail(p)[i].g] = "live"
      PROVE  idxState'[Tail(p)[i].g] = "building"
  <2>1. i + 1 \in 1..Len(p) /\ 1 < i + 1 /\ Tail(p)[i] = p[i + 1]
    BY <1>4
  <2>2. p[1].g # p[i + 1].g
    BY <1>4, <1>9, <2>1 DEF IInv, InOrder
  <2>3. idxState[p[i + 1].g] = "building"
    BY <1>9, <2>1 DEF IInv, Tracked
  <2>. QED
    BY <1>4, <1>5, <1>6, <2>1, <2>2, <2>3
<1>10. ASSUME NEW g \in Gens, status[g] = "live", idxState'[g] = "building"
       PROVE  \E i \in 1..Len(Tail(p)) : Tail(p)[i] = [kind |-> "build", g |-> g]
  <2>1. res.g = g => res.kind = "build"
    BY <1>4, <1>10 DEF IInv, Timely, Job
  <2>2. g # res.g /\ idxState[g] = "building"
    BY <1>6, <1>10, <2>1
  <2>3. PICK i \in 1..Len(p) : p[i] = [kind |-> "build", g |-> g]
    BY <1>10, <2>2 DEF IInv, Tracked
  <2>4. i # 1
    BY <1>4, <2>2, <2>3
  <2>5. i - 1 \in 1..Len(Tail(p)) /\ Tail(p)[i - 1] = p[i]
    BY <1>4, <2>4
  <2>. QED
    BY <2>3, <2>5
<1>11. \A g \in Gens : status[g] = "unseen" => idxState'[g] = "idle"
  BY <1>6 DEF IInv
<1>. QED
  BY <1>1, <1>3, <1>7, <1>8, <1>9, <1>10, <1>11, ZenonT(30) DEF IInv, Tracked

\* A discovery pass: forgets for the generations it ends, then builds for live
\* ones that have none under way.
LEMMA DiscoveryStep == ASSUME IInv, NEW cur, ApplyDiscoveryResult(cur) PROVE IInv'
<1>. DEFINE st == Reconciled(cur)
            ended == WithStatus(status, "live") \cap WithStatus(st, "ended")
            want == WantBuild(st)
            p == Pending
<1>0. PICK forgets \in Sends(dbJobCh, "forget", ended) : \E ch \in Sends(forgets, "build", want) :
        /\ Turnover(cur) /\ dbJobCh' = ch /\ dbResultCh' = dbResultCh
        /\ idxState' = [g \in Gens |-> IF g \in want \cap Jobs(ch, "build") THEN "building" ELSE idxState[g]]
  BY DEF ApplyDiscoveryResult
<1>1. PICK ch \in Sends(forgets, "build", want) :
        /\ Turnover(cur) /\ dbJobCh' = ch /\ dbResultCh' = dbResultCh
        /\ idxState' = [g \in Gens |-> IF g \in want \cap Jobs(ch, "build") THEN "building" ELSE idxState[g]]
  BY <1>0
<1>. DEFINE submitted == want \cap Jobs(ch, "build")
<1>2. /\ dbJobCh \in Seq(Job) /\ dbResultCh \in Seq(Job) /\ ended \in SUBSET Gens /\ want \in SUBSET Gens
      /\ idxState \in [Gens -> {"idle", "building", "ready", "failed"}] /\ TypeInv
  BY DEF IInv, TypeInv, WithStatus, WantBuild
<1>3. PICK a : Sent(a, "forget", ended) /\ forgets = dbJobCh \o a
  BY <1>2, SendsAppend
<1>4. forgets \in Seq(Job) /\ a \in Seq(Job)
  BY <1>2, <1>3, Concatenated DEF Sent
<1>5. PICK b : Sent(b, "build", want) /\ ch = forgets \o b
  BY <1>2, <1>4, SendsAppend
<1>6. b \in Seq(Job) /\ ch \in Seq(Job)
  BY <1>4, <1>5, Concatenated DEF Sent
<1>7. p \in Seq(Job) /\ p \o a \in Seq(Job) /\ Pending' = (p \o a) \o b
  <2>1. dbResultCh \o forgets = p \o a
    <3>1. dbResultCh \o (dbJobCh \o a) = (dbResultCh \o dbJobCh) \o a
      <4>1. dbResultCh \in Seq(Job) /\ dbJobCh \in Seq(Job) /\ a \in Seq(Job)
        BY <1>2, <1>4
      <4>. QED
        BY <4>1, Associative
    <3>. QED
      BY <1>3, <3>1, Zenon DEF Pending
  <2>2. dbResultCh \o ch = (dbResultCh \o forgets) \o b
    <3>1. dbResultCh \o (forgets \o b) = (dbResultCh \o forgets) \o b
      <4>1. dbResultCh \in Seq(Job) /\ forgets \in Seq(Job) /\ b \in Seq(Job)
        BY <1>2, <1>4, <1>6
      <4>. QED
        BY <4>1, Associative
    <3>. QED
      BY <1>5, <3>1, Zenon
  <2>. QED
    BY <1>1, <1>2, <1>4, <2>1, <2>2, Concatenated DEF Pending
<1>8. \A g \in ended : status[g] = "live" /\ status'[g] = "ended"
  BY <1>1, <1>2, PassStatus DEF WithStatus
<1>9. \A g \in want : g \in Gens /\ status'[g] = "live" /\ idxState[g] \in {"idle", "failed"}
  BY <1>1, <1>2, PassStatus DEF WithStatus, WantBuild
<1>10. \A g \in Gens : status'[g] = "live" => status[g] \in {"unseen", "live"}
  BY <1>1, <1>2, PassStatus DEF TypeInv
<1>11. \A i \in 1..Len(p) : p[i] \in Job /\ p[i].g \in Gens /\ p[i].kind \in {"build", "forget"}
  BY <1>7, JobParts
<1>12. \A i \in 1..Len(p) : p[i].g \in ended => p[i].kind = "build"
  BY <1>8, <1>11 DEF IInv, Timely
<1>13. \A i \in 1..Len(p) : p[i].g \notin want
  <2>. SUFFICES ASSUME NEW i \in 1..Len(p), p[i].g \in want PROVE FALSE
    OBVIOUS
  <2>1. status[p[i].g] = "live"
    BY <1>9, <1>10, <1>11 DEF IInv, Timely
  <2>2. p[i].kind = "build"
    BY <1>11, <2>1 DEF IInv, Timely
  <2>3. idxState[p[i].g] = "building"
    BY <2>1, <2>2 DEF IInv, Tracked
  <2>. QED
    BY <1>9, <2>3
<1>14. ended \cap want = {}
  BY <1>8, <1>9
<1>15. InOrder(p \o a)
  BY <1>3, <1>7, <1>12, InOrderAppend DEF IInv, Sent
<1>16. \A i \in 1..Len(p \o a) : (p \o a)[i].g \notin want
  <2>. SUFFICES ASSUME NEW i \in 1..Len(p \o a) PROVE (p \o a)[i].g \notin want
    OBVIOUS
  <2>1. CASE i \in 1..Len(p)
    BY <1>4, <1>7, <1>13, <2>1, Concatenated
  <2>2. CASE i \notin 1..Len(p)
    BY <1>3, <1>4, <1>7, <1>14, <2>2, Concatenated, SMTT(30) DEF Sent
  <2>. QED
    BY <2>1, <2>2
<1>17. InOrder((p \o a) \o b)
  BY <1>5, <1>7, <1>15, <1>16, InOrderAppend, ZenonT(30) DEF Sent
<1>. DEFINE r == (p \o a) \o b
<1>18. \A i \in 1..Len(r) : \/ \E k \in 1..Len(p) : r[i] = p[k]
                            \/ r[i].kind = "forget" /\ r[i].g \in ended
                            \/ r[i].kind = "build" /\ r[i].g \in submitted
  <2>. SUFFICES ASSUME NEW i \in 1..Len(r)
                PROVE  \/ \E k \in 1..Len(p) : r[i] = p[k]
                       \/ r[i].kind = "forget" /\ r[i].g \in ended
                       \/ r[i].kind = "build" /\ r[i].g \in submitted
    OBVIOUS
  <2>1. CASE i \in 1..Len(p \o a)
    <3>1. r[i] = (p \o a)[i]
      BY <1>6, <1>7, <2>1, Concatenated
    <3>2. CASE i \in 1..Len(p)
      BY <1>4, <1>7, <3>1, <3>2, Concatenated
    <3>3. CASE i \notin 1..Len(p)
      BY <1>3, <1>4, <1>7, <2>1, <3>1, <3>3, Concatenated, SMTT(30) DEF Sent
    <3>. QED
      BY <3>2, <3>3
  <2>2. CASE i \notin 1..Len(p \o a)
    <3>. DEFINE k == i - Len(p \o a)
    <3>1. k \in 1..Len(b) /\ r[i] = b[k]
      BY <1>6, <1>7, <2>2, Concatenated
    <3>2. b[k].kind = "build" /\ b[k].g \in want
      BY <1>5, <3>1 DEF Sent
    <3>3. Len(forgets) + k \in 1..Len(ch) /\ ch[Len(forgets) + k] = b[k]
      BY <1>4, <1>5, <1>6, <3>1, Concatenated
    <3>4. b[k].g \in Jobs(ch, "build")
      BY <3>2, <3>3, SMTT(30) DEF Jobs
    <3>. QED
      BY <3>1, <3>2, <3>4
  <2>. QED
    BY <2>1, <2>2
<1>19. Timely(r, status')
  <2>. SUFFICES ASSUME NEW i \in 1..Len(r)
                PROVE  /\ status'[r[i].g] # "unseen"
                       /\ r[i].kind = "forget" => status'[r[i].g] \in {"ended", "pruned"}
    BY DEF Timely
  <2>1. CASE \E k \in 1..Len(p) : r[i] = p[k]
    <3>1. PICK k \in 1..Len(p) : r[i] = p[k]
      BY <2>1
    <3>2. p[k].g \in Gens /\ status[p[k].g] # "unseen" /\ (p[k].kind = "forget" => status[p[k].g] \in {"ended", "pruned"})
      BY <1>11 DEF IInv, Timely
    <3>3. status[p[k].g] \in {"live", "ended", "pruned"}
      BY <1>2, <3>2 DEF TypeInv
    <3>. QED
      BY <1>1, <1>2, <3>1, <3>2, <3>3, PassStatus
  <2>2. CASE r[i].kind = "forget" /\ r[i].g \in ended
    BY <1>8, <2>2
  <2>3. CASE r[i].kind = "build" /\ r[i].g \in submitted
    BY <1>9, <2>3
  <2>. QED
    BY <1>18, <2>1, <2>2, <2>3
<1>20. \A g \in Gens : idxState'[g] = IF g \in submitted THEN "building" ELSE idxState[g]
  BY <1>1
<1>21. ASSUME NEW i \in 1..Len(r), r[i].kind = "build", status'[r[i].g] = "live"
       PROVE  idxState'[r[i].g] = "building"
  <2>1. CASE \E k \in 1..Len(p) : r[i] = p[k]
    <3>1. PICK k \in 1..Len(p) : r[i] = p[k]
      BY <2>1
    <3>2. status[p[k].g] = "live"
      BY <1>10, <1>11, <1>21, <3>1 DEF IInv, Timely
    <3>3. idxState[p[k].g] = "building"
      BY <1>21, <3>1, <3>2 DEF IInv, Tracked
    <3>. QED
      BY <1>11, <1>20, <3>1, <3>3
  <2>2. CASE r[i].g \in submitted
    BY <1>2, <1>20, <2>2
  <2>. QED
    BY <1>18, <1>21, <2>1, <2>2
<1>22. ASSUME NEW g \in Gens, status'[g] = "live", idxState'[g] = "building"
       PROVE  \E i \in 1..Len(r) : r[i] = [kind |-> "build", g |-> g]
  <2>1. CASE g \in submitted
    <3>1. PICK j \in 1..Len(ch) : ch[j].kind = "build" /\ ch[j].g = g
      BY <2>1 DEF Jobs
    <3>2. ch[j] = [kind |-> "build", g |-> g]
      BY <1>6, <3>1, JobParts
    <3>3. dbResultCh \o ch = r
      BY <1>1, <1>7 DEF Pending
    <3>4. Len(dbResultCh) + j \in 1..Len(r) /\ r[Len(dbResultCh) + j] = ch[j]
      <4>1. Len(dbResultCh) + j \in 1..Len(dbResultCh \o ch) /\ (dbResultCh \o ch)[Len(dbResultCh) + j] = ch[j]
        BY <1>2, <1>6, Concatenated
      <4>. HIDE DEF r
      <4>. QED
        BY <3>3, <4>1
    <3>. QED
      BY <3>2, <3>4
  <2>2. CASE g \notin submitted
    <3>1. idxState[g] = "building" /\ status[g] = "live"
      BY <1>10, <1>20, <1>22, <2>2 DEF IInv
    <3>2. PICK i \in 1..Len(p) : p[i] = [kind |-> "build", g |-> g]
      BY <3>1 DEF IInv, Tracked
    <3>3. i \in 1..Len(p \o a) /\ (p \o a)[i] = p[i]
      BY <1>4, <1>7, Concatenated
    <3>4. i \in 1..Len(r) /\ r[i] = (p \o a)[i]
      BY <1>6, <1>7, <3>3, Concatenated
    <3>. QED
      BY <3>2, <3>3, <3>4
  <2>. QED
    BY <2>1, <2>2
<1>23. ASSUME NEW g \in Gens, status'[g] = "unseen"
       PROVE  idxState'[g] = "idle"
  <2>1. status[g] = "unseen"
    BY <1>1, <1>2, <1>23, PassStatus DEF TypeInv
  <2>2. g \notin submitted
    BY <1>9, <1>23
  <2>. QED
    BY <1>20, <2>1, <2>2 DEF IInv
<1>24. TypeInv'
  <2>1. status' \in [Gens -> {"unseen", "live", "ended", "pruned"}]
    BY <1>1, <1>2, PassStatus
  <2>2. idxState' \in [Gens -> {"idle", "building", "ready", "failed"}]
    BY <1>1, <1>2
  <2>. QED
    BY <1>1, <1>2, <1>6, <2>1, <2>2 DEF TypeInv
<1>25. Tracked(r, status', idxState')
  BY <1>21, <1>22 DEF Tracked
<1>. QED
  BY <1>7, <1>17, <1>19, <1>23, <1>24, <1>25 DEF IInv

\* IInv is inductive.
LEMMA NextIInv == ASSUME IInv, [Next]_vars PROVE IInv'
<1>1. CASE Discovery
  BY <1>1, DiscoveryStep DEF Discovery
<1>2. CASE \E g \in Gens : IndexGivenUp(g)
  BY <1>2, GiveUpStep
<1>3. CASE DBWork
  BY <1>3, DBWorkStep
<1>4. CASE ApplyDBResult
  BY <1>4, ResultStep
<1>5. CASE UNCHANGED vars
  <2>1. status' = status /\ idxState' = idxState /\ dbJobCh' = dbJobCh /\ dbResultCh' = dbResultCh
    BY <1>5 DEF vars
  <2>2. Pending' = Pending
    BY <2>1 DEF Pending
  <2>. QED
    BY <2>1, <2>2 DEF IInv, TypeInv
<1>. QED
  BY <1>1, <1>2, <1>3, <1>4, <1>5 DEF Next

\* The parser is told to forget a generation only after its last build, for
\* any number of generations and any capacity (endGeneration, submitDBJob).
THEOREM ForgetLast == Spec => []ForgetComesLast
<1>1. IInv => ForgetComesLast
  BY DEF IInv, InOrder, ForgetComesLast, Pending
<1>2. IInv /\ [Next]_vars => IInv'
  BY NextIInv
<1>. QED
  BY InitIInv, <1>1, <1>2, PTL DEF Spec

\* A live generation is in state building exactly while it has one build in
\* the channels (maybeSubmitBuild, applyBuildResult).
THEOREM OneBuild == Spec => []BuildingMeansOneBuild
<1>1. ASSUME IInv PROVE BuildingMeansOneBuild
  <2>. DEFINE p == Pending
              builds(g) == {i \in 1..Len(p) : p[i] = [kind |-> "build", g |-> g]}
  <2>. SUFFICES ASSUME NEW g \in Gens, status[g] = "live"
                PROVE  Cardinality(builds(g)) = IF idxState[g] = "building" THEN 1 ELSE 0
    BY DEF BuildingMeansOneBuild, WithStatus, Pending
  <2>0. Len(p) \in Nat
    BY <1>1, Concatenated DEF IInv, TypeInv, Pending
  <2>1. CASE idxState[g] = "building"
    <3>1. PICK i \in 1..Len(p) : p[i] = [kind |-> "build", g |-> g]
      BY <1>1, <2>1 DEF IInv, Tracked
    <3>2. \A j \in builds(g) : j = i
      <4>. SUFFICES ASSUME NEW j \in builds(g), j # i PROVE FALSE
        OBVIOUS
      <4>1. j \in 1..Len(p) /\ p[j] = [kind |-> "build", g |-> g]
        OBVIOUS
      <4>2. i < j \/ j < i
        BY <2>0, <4>1
      <4>. QED
        BY <1>1, <3>1, <4>1, <4>2 DEF IInv, InOrder
    <3>3. builds(g) = {i}
      BY <3>1, <3>2
    <3>. QED
      BY <2>1, <3>3, FS_Singleton
  <2>2. CASE idxState[g] # "building"
    <3>1. builds(g) = {}
      BY <1>1, <2>2 DEF IInv, Tracked
    <3>. QED
      BY <2>2, <3>1, FS_EmptySet
  <2>. QED
    BY <2>1, <2>2
<1>2. IInv /\ [Next]_vars => IInv'
  BY NextIInv
<1>. QED
  BY InitIInv, <1>1, <1>2, PTL DEF Spec
=============================================================================
