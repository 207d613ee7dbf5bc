---------------------------- MODULE SessionProofs ----------------------------
(***************************************************************************)
(* A Sensor session: the evidence writer's hand-over, for any number of    *)
(* snapshots; the slots of the sample workers, for any set of generations  *)
(* and any number of slots; and what an answer of resolveEventGeneration   *)
(* is worth, for any clock tick, any number of restarts and anything the   *)
(* session may know of them.                                               *)
(***************************************************************************)
EXTENDS EvidenceWriter, SampleDispatch, EventOwner, FiniteSetTheorems, TLAPS

-----------------------------------------------------------------------------
(* The owner of an event (EventOwner) *)

\* A container's real runs: init's PID, its first and its last nanosecond
\* (so far).  No two of them overlap.
Runs(R, from, to) ==
    /\ from \in [R -> Nat] /\ to \in [R -> Nat]
    /\ \A p, q \in R : p # q => to[p] < from[q] \/ to[q] < from[p]

\* What the session may know of them: start as /proc reports it, and a moment
\* at which init was really seen alive.
Knowledge(gens, R, from, to) ==
    \A g \in gens :
      /\ g.pid \in R /\ g.start = Tick(from[g.pid]) /\ g.alive \in Nat
      /\ g.alive > 0 => g.alive <= to[g.pid]

\* An event of a process of run o.  Init is the only process that has both
\* its PID and its start tick.
EventOf(ev, o, R, from, to) ==
    /\ o \in R /\ ev.ns \in Nat /\ from[o] <= ev.ns /\ ev.ns <= to[o]
    /\ \A p \in R : ev.tgid = p /\ Tick(ev.ns) = Tick(from[p]) => p = o

\* The clock: a tick begins at or before each of its nanoseconds, the next
\* one after (bootNsToTicks, ticksToNs).
LEMMA TickBounds ==
    ASSUME NEW ns \in Nat
    PROVE  /\ Tick(ns) \in Nat
           /\ TicksToNs(Tick(ns)) <= ns
           /\ ns < TicksToNs(Tick(ns)) + NsPerTick
<1>1. TicksToNs(Tick(ns)) <= ns
  BY TickAssumption DEF Tick, TicksToNs
<1>2. ns < TicksToNs(Tick(ns)) + NsPerTick
  BY TickAssumption DEF Tick, TicksToNs
<1>3. Tick(ns) \in Nat
  BY TickAssumption DEF Tick
<1>. QED
  BY <1>1, <1>2, <1>3

\* In the order of ticks, a later start is a whole tick later.
LEMMA TicksOrdered ==
    ASSUME NEW a \in Nat, NEW b \in Nat, a < b
    PROVE  TicksToNs(a) + NsPerTick <= TicksToNs(b)
<1>1. NsPerTick * (b - (a + 1)) >= 0
  BY TickAssumption
<1>2. TicksToNs(b) - (TicksToNs(a) + NsPerTick) = NsPerTick * (b - (a + 1))
  BY TickAssumption DEF TicksToNs
<1>. QED
  BY <1>1, <1>2, TickAssumption DEF TicksToNs

\* A direct proof names the run the event came from, whatever else is known:
\* the loop of step 1 in resolveEventGeneration may stop at any generation.
LEMMA DirectProofIsOwner ==
    ASSUME NEW R, NEW from, NEW to, Runs(R, from, to),
           NEW gens, Knowledge(gens, R, from, to),
           NEW ev, NEW o, EventOf(ev, o, R, from, to),
           NEW g \in gens, DirectProof(g, ev)
    PROVE  g.pid = o
<1>1. /\ g.pid \in R /\ o \in R /\ ev.ns \in Nat
      /\ from[g.pid] \in Nat /\ to[g.pid] \in Nat /\ from[o] \in Nat /\ to[o] \in Nat
      /\ g.start = Tick(from[g.pid]) /\ g.alive \in Nat
      /\ from[o] <= ev.ns /\ ev.ns <= to[o]
  BY DEF Runs, Knowledge, EventOf
<1>2. CASE WithinOwnStartTick(g, ev)
  BY <1>1, <1>2 DEF DirectProof, ProvenToBeInitItself, EventOf
<1>3. CASE ~WithinOwnStartTick(g, ev)
  <2>1. /\ g.alive > 0 /\ ev.ns <= g.alive /\ TicksToNs(g.start) <= ev.ns
    BY <1>3 DEF DirectProof
  <2>2. ev.ns <= to[g.pid]
    BY <1>1, <2>1 DEF Knowledge
  <2>3. TicksToNs(g.start) + NsPerTick <= ev.ns
    <3>1. TicksToNs(g.start) \in Nat
      BY <1>1, TickBounds, TickAssumption DEF TicksToNs
    <3>. QED
      BY <1>1, <1>3, <2>1, <3>1, TickAssumption DEF WithinOwnStartTick
  <2>4. from[g.pid] <= ev.ns
    <3>1. from[g.pid] < TicksToNs(g.start) + NsPerTick
      BY <1>1, TickBounds
    <3>2. TicksToNs(g.start) \in Nat
      BY <1>1, TickBounds, TickAssumption DEF TicksToNs
    <3>. QED
      BY <1>1, <2>3, <3>1, <3>2, TickAssumption
  <2>5. \A p, q \in R : p # q => to[p] < from[q] \/ to[q] < from[p]
    BY DEF Runs
  <2>. QED
    BY <1>1, <2>2, <2>4, <2>5
<1>. QED
  BY <1>2, <1>3

\* Whatever the session knows, resolveEventGeneration only ever resolves an
\* event to the run it came from.
THEOREM ResolvedIsOwner ==
    ASSUME NEW R, NEW from, NEW to, Runs(R, from, to),
           NEW gens, Knowledge(gens, R, from, to),
           NEW ev, NEW o, EventOf(ev, o, R, from, to),
           Resolution(gens, ev).kind = "resolved"
    PROVE  Resolution(gens, ev).pid = o
<1>1. Proven(gens, ev) # {}
  BY DEF Resolution
<1>. DEFINE g == CHOOSE h \in Proven(gens, ev) : TRUE
<1>2. gens # {}
  BY <1>1 DEF Proven
<1>3. Resolution(gens, ev) = [kind |-> "resolved", pid |-> g.pid]
  BY <1>1, <1>2 DEF Resolution
<1>4. g \in gens /\ DirectProof(g, ev)
  BY <1>1 DEF Proven
<1>5. g.pid = o
  BY <1>4, DirectProofIsOwner
<1>. QED
  BY <1>3, <1>5

-----------------------------------------------------------------------------
\* Generations of one container: one init per clock tick, and a last one in
\* every set of them (there are finitely many).
Timeline(gens) ==
    /\ \A g \in gens : g.start \in Nat
    /\ \A g, h \in gens : g.start = h.start => g = h
    /\ \A S \in SUBSET gens : S # {} => \E g \in S : \A h \in S : h.start <= g.start

\* h is what has become of g.  Samples see only the newest generation alive and
\* checks are only begun of it (submitGenConfirmRequest), but the answer of a
\* check under way when its generation was replaced still counts
\* (applyGenConfirmResult): checked are the generations with such a check.
StillIs(h, g, gens, checked) ==
    /\ h.pid = g.pid /\ h.start = g.start
    /\ h = g \/ g \in checked \/ \A k \in gens : k.start <= g.start

\* What the session may know later, until it forgets one of the generations:
\* those it has, and newer ones.
LaterKnown(gens, more, checked) ==
    /\ \A g \in gens : \E h \in more : StillIs(h, g, gens, checked)
    /\ \A h \in more : \/ \E g \in gens : StillIs(h, g, gens, checked)
                       \/ \A g \in gens : g.start < h.start

\* LastStarted finds the newest generation of a set.
LEMMA LastStartedIsLast ==
    ASSUME NEW gens, Timeline(gens), NEW S \in SUBSET gens, S # {}
    PROVE  LastStarted(S) \in S /\ \A h \in S : h.start <= LastStarted(S).start
BY DEF Timeline, LastStarted

\* When the answer is a gap.
LEMMA GapMeans ==
    ASSUME NEW gens, NEW ev
    PROVE  Resolution(gens, ev).kind = "gap"
             <=> /\ gens # {} /\ Proven(gens, ev) = {} /\ Earlier(gens, ev) # {}
                 /\ \/ WithinOwnStartTick(LastStarted(Earlier(gens, ev)), ev)
                    \/ LastStarted(Earlier(gens, ev)) # LastStarted(gens)
BY DEF Resolution

\* routeGapLoss is final but for a late answer: an event once given up because
\* no generation could be proven its owner would be given up again, whatever
\* restarts are noticed and whichever init samples and later checks see alive.
\* Only a check that was under way already, of a generation replaced since, can
\* still prove that generation the owner; nothing else is lost by never queuing
\* the event (resolveEventGeneration).
THEOREM GapUnlessLateAnswer ==
    ASSUME NEW gens, Timeline(gens), NEW checked, NEW more, Timeline(more),
           LaterKnown(gens, more, checked),
           NEW ev, ev.ns \in Nat, Resolution(gens, ev).kind = "gap"
    PROVE  \/ Resolution(more, ev).kind = "gap"
           \/ \E g \in checked \cap gens, h \in more :
                /\ h # g /\ h.pid = g.pid /\ h.start = g.start /\ ev.ns <= h.alive
                /\ \E k \in gens : ~(k.start <= g.start)
                /\ Resolution(more, ev) = [kind |-> "resolved", pid |-> g.pid]
<1>. DEFINE best == LastStarted(Earlier(gens, ev))
            last == LastStarted(gens)
            best2 == LastStarted(Earlier(more, ev))
            last2 == LastStarted(more)
<1>1. /\ gens # {} /\ Proven(gens, ev) = {} /\ Earlier(gens, ev) # {}
      /\ WithinOwnStartTick(best, ev) \/ best # last
  BY GapMeans
<1>2. /\ best \in gens /\ TicksToNs(best.start) <= ev.ns
      /\ \A g \in Earlier(gens, ev) : g.start <= best.start
  BY <1>1, LastStartedIsLast DEF Earlier
<1>3. last \in gens /\ \A g \in gens : g.start <= last.start
  BY <1>1, LastStartedIsLast
<1>4. ASSUME NEW h \in more, \A g \in gens : g.start < h.start
      PROVE  ~(TicksToNs(h.start) <= ev.ns)
  <2>1. /\ best.start \in Nat /\ last.start \in Nat /\ h.start \in Nat
        /\ TicksToNs(best.start) \in Nat /\ TicksToNs(last.start) \in Nat /\ TicksToNs(h.start) \in Nat
    BY <1>2, <1>3, TickAssumption DEF Timeline, TicksToNs
  <2>2. CASE WithinOwnStartTick(best, ev)
    <3>1. TicksToNs(best.start) + NsPerTick <= TicksToNs(h.start)
      BY <1>2, <1>4, <2>1, TicksOrdered
    <3>. QED
      BY <2>1, <2>2, <3>1, TickAssumption DEF WithinOwnStartTick
  <2>3. CASE best # last
    <3>1. last \notin Earlier(gens, ev)
      BY <1>2, <1>3, <2>1, <2>3 DEF Timeline, Earlier
    <3>2. TicksToNs(last.start) > ev.ns
      BY <1>3, <2>1, <3>1 DEF Earlier
    <3>3. TicksToNs(last.start) + NsPerTick <= TicksToNs(h.start)
      BY <1>3, <1>4, <2>1, TicksOrdered
    <3>. QED
      BY <2>1, <3>2, <3>3, TickAssumption
  <2>. QED
    BY <1>1, <2>2, <2>3
<1>5. ASSUME NEW h \in Earlier(more, ev)
      PROVE  \E g \in Earlier(gens, ev) : StillIs(h, g, gens, checked)
  BY <1>4, <1>5 DEF LaterKnown, Earlier, StillIs
<1>6. Earlier(more, ev) # {} /\ more # {}
  <2>1. PICK h \in more : StillIs(h, best, gens, checked)
    BY <1>2 DEF LaterKnown
  <2>. QED
    BY <1>2, <2>1 DEF Earlier, StillIs
<1>7. /\ best2 \in Earlier(more, ev)
      /\ \A h \in Earlier(more, ev) : h.start <= best2.start
  BY <1>6, LastStartedIsLast DEF Earlier
<1>8. best2.start = best.start
  <2>1. PICK h \in more : StillIs(h, best, gens, checked)
    BY <1>2 DEF LaterKnown
  <2>2. best.start <= best2.start
    BY <1>2, <1>7, <2>1 DEF Earlier, StillIs
  <2>3. best2.start <= best.start
    BY <1>2, <1>5, <1>7 DEF StillIs
  <2>4. best.start \in Nat /\ best2.start \in Nat
    BY <1>2, <1>7 DEF Timeline, Earlier
  <2>. QED
    BY <2>2, <2>3, <2>4
<1>9. ASSUME NEW h \in Proven(more, ev)
      PROVE  \E g \in checked \cap gens :
                /\ h # g /\ h.pid = g.pid /\ h.start = g.start /\ ev.ns <= h.alive
                /\ \E k \in gens : ~(k.start <= g.start)
  <2>1. h \in more /\ DirectProof(h, ev)
    BY <1>9 DEF Proven
  <2>2. TicksToNs(h.start) <= ev.ns
    BY <2>1 DEF DirectProof, WithinOwnStartTick
  <2>3. PICK g \in Earlier(gens, ev) : StillIs(h, g, gens, checked)
    BY <1>5, <2>1, <2>2 DEF Earlier
  <2>4. g \in gens /\ ~DirectProof(g, ev) /\ h # g
    BY <1>1, <2>1, <2>3 DEF Proven, Earlier
  <2>5. h.pid = g.pid /\ h.start = g.start /\ (g \in checked \/ \A k \in gens : k.start <= g.start)
    BY <2>3, <2>4 DEF StillIs
  <2>6. /\ g.start \in Nat /\ last.start \in Nat /\ best.start \in Nat
        /\ \A k \in gens : k.start = g.start => k = g
    BY <1>2, <1>3, <2>4 DEF Timeline
  <2>7. ~WithinOwnStartTick(h, ev) /\ ~WithinOwnStartTick(g, ev)
    BY <2>1, <2>4, <2>5 DEF DirectProof, ProvenToBeInitItself, WithinOwnStartTick
  <2>8. ev.ns <= h.alive
    BY <2>1, <2>7 DEF DirectProof
  <2>9. ~ \A k \in gens : k.start <= g.start
    <3>1. SUFFICES ASSUME \A k \in gens : k.start <= g.start PROVE FALSE
      OBVIOUS
    <3>2. last.start <= g.start /\ g.start <= last.start
      BY <1>3, <2>4, <3>1
    <3>3. best.start <= g.start /\ g.start <= best.start
      BY <1>2, <2>3, <3>1
    <3>4. last.start = g.start /\ best.start = g.start
      BY <2>6, <3>2, <3>3
    <3>5. g = last /\ g = best
      BY <1>2, <1>3, <2>6, <3>4
    <3>. QED
      BY <1>1, <2>7, <3>5
  <2>. QED
    BY <2>4, <2>5, <2>8, <2>9
<1>10. WithinOwnStartTick(best2, ev) \/ best2 # last2
  <2>1. CASE WithinOwnStartTick(best, ev)
    BY <1>8, <2>1 DEF WithinOwnStartTick
  <2>2. CASE best # last
    <3>1. PICK h \in more : StillIs(h, last, gens, checked)
      BY <1>3 DEF LaterKnown
    <3>2. last2 \in more /\ h.start <= last2.start
      BY <1>6, LastStartedIsLast
    <3>3. best.start \in Nat /\ last.start \in Nat /\ last2.start \in Nat /\ best.start # last.start
      BY <1>2, <1>3, <2>2, <3>2 DEF Timeline
    <3>. QED
      BY <1>2, <1>3, <1>8, <3>1, <3>2, <3>3 DEF StillIs
  <2>. QED
    BY <1>1, <2>1, <2>2
<1>11. CASE Proven(more, ev) = {}
  BY <1>6, <1>10, <1>11, GapMeans
<1>12. CASE Proven(more, ev) # {}
  <2>. DEFINE h == CHOOSE h \in Proven(more, ev) : TRUE
  <2>1. h \in Proven(more, ev)
    BY <1>12
  <2>2. Resolution(more, ev) = [kind |-> "resolved", pid |-> h.pid]
    BY <1>6, <1>12 DEF Resolution
  <2>. HIDE DEF h
  <2>3. PICK g \in checked \cap gens :
          /\ h # g /\ h.pid = g.pid /\ h.start = g.start /\ ev.ns <= h.alive
          /\ \E k \in gens : ~(k.start <= g.start)
    BY <1>9, <2>1
  <2>4. h \in more
    BY <2>1 DEF Proven
  <2>. QED
    BY <2>2, <2>3, <2>4
<1>. QED
  BY <1>11, <1>12

-----------------------------------------------------------------------------
(* The hand-over to the writer (EvidenceWriter) *)

(* What appending one write to the log leaves alone.                         *)
LEMMA LogAppend ==
    ASSUME NEW l \in Seq(WriteType), NEW w \in WriteType
    PROVE  /\ Append(l, w) \in Seq(WriteType)
           /\ Append(l, w) # <<>>
           /\ Len(Append(l, w)) = Len(l) + 1
           /\ Append(l, w)[Len(l) + 1] = w
           /\ \A i \in 1..Len(l) : Append(l, w)[i] = l[i]
  OBVIOUS

(* A streak of a prefix of the log stays one when the log grows: a report    *)
(* waiting in a channel does not become wrong.                               *)
LEMMA StreakOfPrefix ==
    ASSUME NEW l \in Seq(WriteType), NEW w \in WriteType,
           NEW n \in Nat, n <= Len(l), NEW k \in Nat, IsStreak(l, n, k)
    PROVE  IsStreak(Append(l, w), n, k)
  BY LogAppend DEF IsStreak

(* The count runWriter keeps is the streak of the whole log after a write.   *)
LEMMA StreakOfWrite ==
    ASSUME NEW l \in Seq(WriteType), NEW w \in WriteType,
           NEW k \in Nat, IsStreak(l, Len(l), k)
    PROVE  IsStreak(Append(l, w), Len(l) + 1, IF w.ok THEN 0 ELSE k + 1)
  <1>1. CASE w.ok
    BY <1>1, LogAppend DEF IsStreak
  <1>2. CASE ~ w.ok
    BY <1>2, LogAppend DEF IsStreak
  <1> QED BY <1>1, <1>2

(* The slots hold at most one entry, so taking the head empties them.        *)
LEMMA OneSlot ==
    ASSUME NEW T, NEW s \in Seq(T), Len(s) <= 1
    PROVE  s # <<>> => Head(s) = s[1] /\ Head(s) \in T /\ Tail(s) = <<>>
  OBVIOUS

USE DEF Job, Report, JobType, ReportType

LEMMA InitInv == Init => IInv
  <1> SUFFICES ASSUME Init PROVE IInv
    OBVIOUS
  <1> USE DEF Init
  <1>1. TypeOK
    <2>1. job \in JobType
      OBVIOUS
    <2>2. writerCh \in Seq(JobType) /\ Len(writerCh) <= 1
      OBVIOUS
    <2>3. log \in Seq(WriteType)
      OBVIOUS
    <2>4. reportCh \in Seq(ReportType) /\ doneCh \in Seq(ReportType)
      OBVIOUS
    <2> QED
      BY <2>1, <2>2, <2>3, <2>4, ZenonT(30) DEF TypeOK
  <1>2. SendNeverBlocks /\ WrittenInOrder /\ OrderInv
    BY DEF SendNeverBlocks, WrittenInOrder, OrderInv
  <1>3. StreakIsTrue /\ ReportInv
    BY DEF StreakIsTrue, IsStreak, ReportInv
  <1>4. FinalIsLast /\ FinalInv
    BY DEF FinalIsLast, FinalInv
  <1> QED
    BY <1>1, <1>2, <1>3, <1>4 DEF IInv

(* The steps of the session loop preserve the invariant.                     *)
LEMMA LoopStepInv == IInv /\ LoopStep => IInv'
  <1> SUFFICES ASSUME IInv, LoopStep PROVE IInv'
    OBVIOUS
  <1> USE DEF IInv
  <1>1. CASE SubmitDrain
    BY <1>1 DEF SubmitDrain, writerVars, TypeOK, SendNeverBlocks, WrittenInOrder, OrderInv,
         StreakIsTrue, ReportInv, TrueReport, FinalIsLast, FinalInv, FinalWritten
  <1>2. CASE SubmitSend
    BY <1>2 DEF SubmitSend, writerVars, TypeOK, SendNeverBlocks, WrittenInOrder, OrderInv,
         StreakIsTrue, ReportInv, TrueReport, FinalIsLast, FinalInv, FinalWritten
  <1>3. CASE FinalDrain
    BY <1>3 DEF FinalDrain, writerVars, TypeOK, SendNeverBlocks, WrittenInOrder, OrderInv,
         StreakIsTrue, ReportInv, TrueReport, FinalIsLast, FinalInv, FinalWritten
  <1>4. CASE FinalSend
    BY <1>4 DEF FinalSend, writerVars, TypeOK, SendNeverBlocks, WrittenInOrder, OrderInv,
         StreakIsTrue, ReportInv, TrueReport, FinalIsLast, FinalInv, FinalWritten
  <1>5. CASE FinalReturn
    <2>1. Head(doneCh) = doneCh[1] /\ Head(doneCh) \in ReportType /\ Tail(doneCh) = <<>>
      BY <1>5, OneSlot, ZenonT(30) DEF FinalReturn, TypeOK
    <2> QED
      BY <1>5, <2>1 DEF FinalReturn, Apply, writerVars, TypeOK, SendNeverBlocks, WrittenInOrder,
         OrderInv, StreakIsTrue, ReportInv, TrueReport, FinalIsLast, FinalInv, FinalWritten
  <1>6. CASE ReceiveReport
    <2>1. Head(reportCh) = reportCh[1] /\ Head(reportCh) \in ReportType /\ Tail(reportCh) = <<>>
      BY <1>6, OneSlot, ZenonT(30) DEF ReceiveReport, TypeOK
    <2> QED
      BY <1>6, <2>1 DEF ReceiveReport, Apply, writerVars, TypeOK, SendNeverBlocks, WrittenInOrder,
         OrderInv, StreakIsTrue, ReportInv, TrueReport, FinalIsLast, FinalInv, FinalWritten
  <1> QED
    BY <1>1, <1>2, <1>3, <1>4, <1>5, <1>6 DEF LoopStep

(* A write appends to the log: its order, and every streak known so far.     *)
LEMMA WriteInv == IInv /\ WriterWrite => IInv'
  <1> SUFFICES ASSUME IInv, WriterWrite PROVE IInv'
    OBVIOUS
  <1> USE DEF IInv
  <1>1. PICK ok, modified \in BOOLEAN :
           log' = Append(log, [snap |-> job.snap, ok |-> ok, modified |-> modified])
    BY DEF WriterWrite
  <1> DEFINE w == [snap |-> job.snap, ok |-> ok, modified |-> modified]
  <1>2. w \in WriteType /\ w.snap = job.snap
    BY DEF TypeOK, WriteType
  <1>3. /\ log' = Append(log, w)
        /\ log \in Seq(WriteType) /\ log' \in Seq(WriteType) /\ log' # <<>>
        /\ Len(log) \in Nat /\ Len(log') = Len(log) + 1
        /\ log'[Len(log')] = w
        /\ \A i \in 1..Len(log) : log'[i] = log[i] /\ log[i].snap \in Nat
    <2>1. \A i \in 1..Len(log) : log[i] \in WriteType
      BY DEF TypeOK
    <2>2. \A i \in 1..Len(log) : log[i].snap \in Nat
      BY <2>1 DEF WriteType
    <2> QED
      BY <1>1, <1>2, <2>2, LogAppend DEF TypeOK
  <1> HIDE DEF w
  <1>4. consecutiveFailures' = IF w.ok THEN 0 ELSE consecutiveFailures + 1
    BY <1>3 DEF WriterWrite
  <1>5. TypeOK'
    BY <1>3, <1>4 DEF WriterWrite, loopVars, TypeOK
  <1>6. SendNeverBlocks'
    BY DEF WriterWrite, loopVars, SendNeverBlocks, TypeOK, FinalInv
  <1>7. WrittenInOrder'
    <2> SUFFICES ASSUME NEW i \in 1..Len(log'), NEW j \in 1..Len(log'), i < j
                 PROVE  log'[i].snap < log'[j].snap
      BY DEF WrittenInOrder
    <2>1. CASE j = Len(log')
      <3>1. i \in 1..Len(log) /\ log'[i] = log[i] /\ log'[j].snap = job.snap
        BY <1>2, <1>3, <2>1
      <3> QED
        BY <3>1 DEF WriterWrite, OrderInv
    <2>2. CASE j # Len(log')
      <3> DEFINE n == Len(log)
                 m == Len(log')
      <3>a. n \in Nat /\ m = n + 1 /\ i \in 1..m /\ j \in 1..m /\ i < j /\ j # m
        BY <1>3, <2>2
      <3> HIDE DEF n, m
      <3>b. i \in 1..n /\ j \in 1..n
        BY <3>a
      <3>1. i \in 1..Len(log) /\ j \in 1..Len(log)
        BY <3>b DEF n
      <3>2. log'[i] = log[i] /\ log'[j] = log[j]
        BY <1>3, <3>1
      <3> QED
        BY <3>1, <3>2 DEF WrittenInOrder
    <2> QED BY <2>1, <2>2
  <1>8. OrderInv'
    <2>1. \A i \in 1..Len(log') : log'[i].snap <= job.snap
      <3> SUFFICES ASSUME NEW i \in 1..Len(log') PROVE log'[i].snap <= job.snap
        OBVIOUS
      <3>1. CASE i = Len(log')
        BY <1>2, <1>3, <3>1 DEF TypeOK
      <3>2. CASE i # Len(log')
        BY <1>3, <3>2 DEF OrderInv
      <3> QED BY <3>1, <3>2
    <2> QED
      BY <2>1 DEF WriterWrite, loopVars, OrderInv
  <1>9. /\ IsStreak(log', Len(log'), consecutiveFailures')
        /\ IsStreak(log', seen, writeFailureStreak) /\ seen <= Len(log')
    <2>1. IsStreak(log', Len(log'), consecutiveFailures')
      BY <1>2, <1>3, <1>4, StreakOfWrite DEF StreakIsTrue, TypeOK
    <2>2. IsStreak(log', seen, writeFailureStreak)
      BY <1>2, <1>3, StreakOfPrefix DEF StreakIsTrue, TypeOK
    <2> QED
      BY <1>3, <2>1, <2>2 DEF StreakIsTrue, TypeOK
  <1>10. StreakIsTrue'
    BY <1>9 DEF WriterWrite, loopVars, StreakIsTrue
  <1>11. ASSUME NEW rep \in ReportType, TrueReport(rep)
         PROVE  rep.upTo <= Len(log') /\ IsStreak(log', rep.upTo, rep.consecutiveFailures)
    BY <1>2, <1>3, <1>11, StreakOfPrefix DEF TrueReport
  <1>12. ReportInv'
    <2>1. reportCh # <<>> => reportCh[1] \in ReportType
      BY OneSlot, ZenonT(30) DEF TypeOK
    <2>2. doneCh # <<>> => doneCh[1] \in ReportType
      BY OneSlot, ZenonT(30) DEF TypeOK
    <2>3. reportCh' = reportCh /\ doneCh' = doneCh /\ loopAt' = loopAt /\ seen' = seen
      BY DEF WriterWrite, loopVars
    <2>4. (reportCh # <<>> => TrueReport(reportCh[1])) /\ (doneCh # <<>> => TrueReport(doneCh[1]))
      BY DEF ReportInv
    <2>5. reportCh # <<>> =>
             /\ reportCh[1].upTo <= Len(log')
             /\ IsStreak(log', reportCh[1].upTo, reportCh[1].consecutiveFailures)
      BY <1>11, <2>1, <2>4
    <2>6. doneCh # <<>> =>
             /\ doneCh[1].upTo <= Len(log')
             /\ IsStreak(log', doneCh[1].upTo, doneCh[1].consecutiveFailures)
      BY <1>11, <2>2, <2>4
    <2> QED
      BY <1>3, <2>3, <2>5, <2>6 DEF ReportInv, TrueReport
  <1>13. FinalIsLast'
    BY DEF WriterWrite, loopVars, FinalIsLast
  <1>14. FinalInv'
    BY <1>2, <1>3 DEF WriterWrite, loopVars, FinalInv, FinalWritten
  <1> QED
    BY <1>5, <1>6, <1>7, <1>8, <1>10, <1>12, <1>13, <1>14

(* The steps of the writer goroutine preserve the invariant.                 *)
LEMMA WriterStepInv == IInv /\ WriterStep => IInv'
  <1> SUFFICES ASSUME IInv, WriterStep PROVE IInv'
    OBVIOUS
  <1> USE DEF IInv
  <1>1. CASE WriterReceive
    <2>1. Head(writerCh) = writerCh[1] /\ Head(writerCh) \in JobType /\ Tail(writerCh) = <<>>
      BY <1>1, OneSlot, ZenonT(30) DEF WriterReceive, TypeOK
    <2>2. \A i \in 1..Len(log) : log[i].snap \in Nat
      <3>1. \A i \in 1..Len(log) : log[i] \in WriteType
        BY DEF TypeOK
      <3> QED BY <3>1 DEF WriteType
    <2>3. TypeOK' /\ SendNeverBlocks' /\ WrittenInOrder'
      BY <1>1, <2>1 DEF WriterReceive, loopVars, TypeOK, SendNeverBlocks, WrittenInOrder
    <2>4. OrderInv'
      BY <1>1, <2>1, <2>2 DEF WriterReceive, loopVars, TypeOK, OrderInv, SendNeverBlocks
    <2>5. StreakIsTrue' /\ ReportInv'
      BY <1>1 DEF WriterReceive, loopVars, StreakIsTrue, ReportInv, TrueReport
    <2>6. FinalIsLast' /\ FinalInv'
      BY <1>1, <2>1 DEF WriterReceive, loopVars, FinalIsLast, FinalInv, FinalWritten
    <2> QED
      BY <2>3, <2>4, <2>5, <2>6
  <1>2. CASE WriterWrite
    BY <1>2, WriteInv
  <1>3. ASSUME log # <<>>
        PROVE  /\ CurrentReport \in ReportType
               /\ CurrentReport.upTo = Len(log)
               /\ TrueReport(CurrentReport)
    <2>1. log[Len(log)] \in WriteType
      BY <1>3 DEF TypeOK
    <2>2. log[Len(log)].modified \in BOOLEAN
      BY <2>1 DEF WriteType
    <2> QED
      BY <2>2 DEF CurrentReport, TypeOK, StreakIsTrue, TrueReport
  <1>4. CASE WriterReportDone
    <2> DEFINE rep == CurrentReport
    <2>1. rep \in ReportType /\ rep.upTo = Len(log) /\ TrueReport(rep) /\ doneCh' = <<rep>>
      BY <1>3, <1>4 DEF WriterReportDone, ReportInv
    <2> HIDE DEF rep
    <2> QED
      BY <1>4, <2>1 DEF WriterReportDone, loopVars, TypeOK, SendNeverBlocks, WrittenInOrder,
         OrderInv, StreakIsTrue, ReportInv, TrueReport, FinalIsLast, FinalInv, FinalWritten
  <1>5. CASE WriterReportDrain
    BY <1>5 DEF WriterReportDrain, loopVars, TypeOK, SendNeverBlocks, WrittenInOrder,
       OrderInv, StreakIsTrue, ReportInv, TrueReport, FinalIsLast, FinalInv, FinalWritten
  <1>6. CASE WriterReportSend
    <2> DEFINE rep == CurrentReport
    <2>1. rep \in ReportType /\ rep.upTo = Len(log) /\ TrueReport(rep) /\ reportCh' = <<rep>>
      BY <1>3, <1>6 DEF WriterReportSend, ReportInv
    <2> HIDE DEF rep
    <2> QED
      BY <1>6, <2>1 DEF WriterReportSend, loopVars, TypeOK, SendNeverBlocks, WrittenInOrder,
         OrderInv, StreakIsTrue, ReportInv, TrueReport, FinalIsLast, FinalInv, FinalWritten
  <1> QED
    BY <1>1, <1>2, <1>4, <1>5, <1>6 DEF WriterStep

LEMMA StepInv == IInv /\ [Next]_vars => IInv'
  <1> SUFFICES ASSUME IInv, [Next]_vars PROVE IInv'
    OBVIOUS
  <1>1. CASE LoopStep
    BY <1>1, LoopStepInv
  <1>2. CASE WriterStep
    BY <1>2, WriterStepInv
  <1>3. CASE UNCHANGED vars
    BY <1>3 DEF IInv, vars, loopVars, writerVars, TypeOK, SendNeverBlocks, WrittenInOrder,
       OrderInv, StreakIsTrue, ReportInv, TrueReport, FinalIsLast, FinalInv, FinalWritten
  <1> QED
    BY <1>1, <1>2, <1>3 DEF Next

(* The inductive invariant of the hand-over holds in every session, however  *)
(* many snapshots it builds.                                                 *)
THEOREM Invariance == Spec => []IInv
  <1>1. IInv /\ [Next]_vars => IInv'
    BY StepInv
  <1> QED
    BY <1>1, InitInv, PTL DEF Spec

(* Typing of the channels and counters of the writer hand-over.              *)
THEOREM TypeCorrect == Spec => []TypeOK
  <1>1. IInv => TypeOK
    BY DEF IInv
  <1> QED BY <1>1, Invariance, PTL

(* No send of submitSnapshot, submitFinalSnapshot or runWriter ever blocks.  *)
THEOREM NeverBlocks == Spec => []SendNeverBlocks
  <1>1. IInv => SendNeverBlocks
    BY DEF IInv
  <1> QED BY <1>1, Invariance, PTL

(* The evidence file only ever moves to newer snapshots.                     *)
THEOREM InOrder == Spec => []WrittenInOrder
  <1>1. IInv => WrittenInOrder
    BY DEF IInv
  <1> QED BY <1>1, Invariance, PTL

(* The streak the degraded status is decided by is a true one.               *)
THEOREM TrueStreak == Spec => []StreakIsTrue
  <1>1. IInv => StreakIsTrue
    BY DEF IInv
  <1> QED BY <1>1, Invariance, PTL

(* When Run returns, the final snapshot was the last thing written.          *)
THEOREM FinalLast == Spec => []FinalIsLast
  <1>1. IInv => FinalIsLast
    BY DEF IInv
  <1> QED BY <1>1, Invariance, PTL

(* The loop applies reports in the order of the writes they describe.        *)
THEOREM Forward == Spec => ReportsMoveForward
  <1>1. IInv /\ [Next]_vars => [seen' >= seen]_vars
    <2> SUFFICES ASSUME IInv, Next PROVE seen' >= seen
      BY DEF vars, loopVars, IInv, TypeOK
    <2>1. CASE FinalReturn
      <3>1. Head(doneCh) = doneCh[1]
        BY <2>1, OneSlot DEF FinalReturn, IInv, TypeOK
      <3> QED
        BY <2>1, <3>1 DEF FinalReturn, Apply, IInv, TypeOK, FinalInv, StreakIsTrue
    <2>2. CASE ReceiveReport
      <3>1. Head(reportCh) = reportCh[1]
        BY <2>2, OneSlot DEF ReceiveReport, IInv, TypeOK
      <3> QED
        BY <2>2, <3>1 DEF ReceiveReport, Apply, IInv, TypeOK, ReportInv
    <2>3. CASE UNCHANGED seen
      BY <2>3 DEF IInv, TypeOK
    <2> QED
      BY <2>1, <2>2, <2>3 DEF Next, LoopStep, WriterStep, loopVars, SubmitDrain,
         SubmitSend, FinalDrain, FinalSend, WriterReceive, WriterWrite, WriterReportDone,
         WriterReportDrain, WriterReportSend
  <1> QED BY <1>1, Invariance, PTL DEF Spec, ReportsMoveForward

-----------------------------------------------------------------------------
(* The slots of the sample workers (SampleDispatch) *)

Alive == {g \in Gens : sampleAlive[g]}

LedgerInv == LedgerTypeOK /\ LedgerExact

(* The generations with a flag set, and any part of them, are finitely many. *)
LEMMA AliveFinite == IsFiniteSet(Alive) /\ IsFiniteSet(Workers)
  BY GenerationsAssumption, FS_Subset DEF Alive, Workers, GenerationsAssumption

(* GiveBackSlot takes one flag and one of the count, or neither.            *)
LEMMA SlotGivenBack ==
  ASSUME LedgerInv, NEW g \in Gens, sampleAlive[g], GiveBackSlot(g)
  PROVE  /\ sampleAlive' \in [Gens -> BOOLEAN]
         /\ aliveSampleWorkers' \in Nat
         /\ aliveSampleWorkers' <= Slots
         /\ aliveSampleWorkers' = Cardinality(Alive')
         /\ \A h \in Gens : h # g => sampleAlive'[h] = sampleAlive[h]
         /\ sampleAlive'[g] = (status[g] = "pruned")
<1>1. CASE status[g] = "pruned"
  BY <1>1, ZenonT(30) DEF GiveBackSlot, LedgerInv, LedgerTypeOK, LedgerExact, Alive
<1>2. CASE status[g] # "pruned"
  <2>1. /\ sampleAlive' = [sampleAlive EXCEPT ![g] = FALSE]
        /\ aliveSampleWorkers' = aliveSampleWorkers - 1
    BY <1>2 DEF GiveBackSlot
  <2>2. Alive' = Alive \ {g} /\ g \in Alive
    BY <2>1 DEF Alive, LedgerInv, LedgerTypeOK
  <2>3. Cardinality(Alive') = Cardinality(Alive) - 1 /\ Cardinality(Alive) \in Nat /\ Cardinality(Alive') \in Nat
    BY <2>2, AliveFinite, FS_RemoveElement, FS_CardinalityType
  <2>4. aliveSampleWorkers = Cardinality(Alive) /\ aliveSampleWorkers <= Slots
    BY DEF LedgerInv, LedgerExact, Alive
  <2>5. aliveSampleWorkers' = Cardinality(Alive')
    BY <2>1, <2>3, <2>4
  <2>6. aliveSampleWorkers' <= Slots
    BY <2>1, <2>3, <2>4, SampleAssumption DEF SampleAssumption
  <2> QED BY <1>2, <2>1, <2>3, <2>5, <2>6, ZenonT(30) DEF LedgerInv, LedgerTypeOK
<1> QED BY <1>1, <1>2

(* The end of a worker: it disappears and its slot is given back.           *)
LEMMA WorkerEnds ==
  ASSUME LedgerInv, NEW g \in Gens, sample[g] # "none", GiveBackSlot(g),
         sample' = [sample EXCEPT ![g] = "none"], UNCHANGED status
  PROVE  LedgerExact' /\ sampleAlive' \in [Gens -> BOOLEAN] /\ aliveSampleWorkers' \in Nat
<1>1. sampleAlive[g]
  BY DEF LedgerInv, LedgerExact, Workers
<1>2. /\ sampleAlive' \in [Gens -> BOOLEAN]
      /\ aliveSampleWorkers' \in Nat
      /\ aliveSampleWorkers' <= Slots
      /\ aliveSampleWorkers' = Cardinality(Alive')
      /\ \A h \in Gens : h # g => sampleAlive'[h] = sampleAlive[h]
      /\ sampleAlive'[g] = (status[g] = "pruned")
  BY <1>1, SlotGivenBack
<1>3. \A h \in Gens : sample'[h] = IF h = g THEN "none" ELSE sample[h]
  BY DEF LedgerInv, LedgerTypeOK
<1>4. \A h \in Gens : status'[h] # "pruned" => (sampleAlive'[h] <=> h \in Workers')
  BY <1>2, <1>3, ZenonT(30) DEF LedgerInv, LedgerTypeOK, LedgerExact, Workers
<1>5. \A h \in Workers' : sampleAlive'[h]
  BY <1>2, <1>3 DEF LedgerInv, LedgerExact, Workers
<1> QED BY <1>2, <1>4, <1>5 DEF LedgerExact, Alive

(* A discovery pass fills free slots only, and only for generations whose   *)
(* flag is clear.                                                           *)
LEMMA SamplePassKeeps == ASSUME LedgerInv, SamplePass PROVE LedgerInv'
<1>0. PICK cur \in Sightings : \E S \in Started(Reconciled(cur)) :
        /\ Turnover(cur)
        /\ sample' = [g \in Gens |-> IF g \in S THEN "running" ELSE sample[g]]
        /\ sampleAlive' = [g \in Gens |-> g \in S \/ sampleAlive[g]]
        /\ aliveSampleWorkers' = aliveSampleWorkers + Cardinality(S)
        /\ UNCHANGED <<sampleStalled, lastVerifiedAt>>
  BY DEF SamplePass, DispatchSamples
<1>1. PICK S \in Started(Reconciled(cur)) :
        /\ Turnover(cur)
        /\ sample' = [g \in Gens |-> IF g \in S THEN "running" ELSE sample[g]]
        /\ sampleAlive' = [g \in Gens |-> g \in S \/ sampleAlive[g]]
        /\ aliveSampleWorkers' = aliveSampleWorkers + Cardinality(S)
        /\ UNCHANGED <<sampleStalled, lastVerifiedAt>>
  BY <1>0
<1>2. /\ S \subseteq Gens
      /\ \A g \in S : ~ sampleAlive[g]
      /\ S # {} => aliveSampleWorkers + Cardinality(S) <= Slots
  BY DEF Started, Candidates, WithStatus
<1>3. \A g \in Gens : /\ status'[g] \in {"unseen", "live", "ended", "pruned"}
                      /\ status[g] = "pruned" => status'[g] = "pruned"
  BY <1>1 DEF Turnover, Reconciled, LedgerInv, LedgerTypeOK
<1>4. status' \in [Gens -> {"unseen", "live", "ended", "pruned"}] /\ endedFor' \in [Gens -> Nat]
  BY <1>1, <1>3 DEF Turnover, LedgerInv, LedgerTypeOK
<1>5. /\ sample' \in [Gens -> {"none", "running", "late"}]
      /\ sampleAlive' \in [Gens -> BOOLEAN]
  BY <1>1 DEF LedgerInv, LedgerTypeOK
<1>6. IsFiniteSet(S) /\ Cardinality(S) \in Nat /\ (S = {} => Cardinality(S) = 0)
  BY <1>2, GenerationsAssumption, FS_Subset, FS_CardinalityType, FS_EmptySet DEF GenerationsAssumption
<1>7. Alive' = Alive \cup S /\ Alive \cap S = {}
  BY <1>1, <1>2, ZenonT(30) DEF Alive
<1>8. Cardinality(Alive') = Cardinality(Alive) + Cardinality(S)
  <2>1. Cardinality(Alive \cup S) = Cardinality(Alive) + Cardinality(S) - Cardinality(Alive \cap S)
    BY <1>6, AliveFinite, FS_Union
  <2>2. Cardinality(Alive \cap S) = 0
    BY <1>7, FS_EmptySet
  <2> QED BY <1>6, <1>7, <2>1, <2>2, AliveFinite, FS_CardinalityType
<1>9. aliveSampleWorkers' = Cardinality(Alive') /\ aliveSampleWorkers' \in Nat /\ aliveSampleWorkers' <= Slots
  <2>1. aliveSampleWorkers = Cardinality(Alive) /\ aliveSampleWorkers \in Nat /\ aliveSampleWorkers <= Slots
    BY DEF LedgerInv, LedgerTypeOK, LedgerExact, Alive
  <2>2. aliveSampleWorkers' = aliveSampleWorkers + Cardinality(S)
    BY <1>1
  <2> QED BY <2>1, <2>2, <1>2, <1>6, <1>8, SampleAssumption DEF SampleAssumption
<1>10. \A g \in Gens : status'[g] # "pruned" => (sampleAlive'[g] <=> g \in Workers')
  BY <1>1, <1>3, ZenonT(30) DEF LedgerInv, LedgerTypeOK, LedgerExact, Workers
<1>11. \A g \in Workers' : sampleAlive'[g]
  BY <1>1, ZenonT(30) DEF LedgerInv, LedgerExact, Workers
<1> QED BY <1>1, <1>4, <1>5, <1>9, <1>10, <1>11 DEF LedgerInv, LedgerTypeOK, LedgerExact, Alive

(* The ranks of the last verified times stay natural numbers.               *)
LEMMA VerifiedType == ASSUME NEW g \in Gens PROVE Verified(g) \in [Gens -> Nat]
<1> DEFINE others == {h \in Gens \ {g} : lastVerifiedAt[h] # 0}
<1>1. Cardinality(others) \in Nat
  BY GenerationsAssumption, FS_Subset, FS_CardinalityType DEF GenerationsAssumption
<1>2. \A h \in Gens : Cardinality({k \in others : lastVerifiedAt[k] <= lastVerifiedAt[h]}) \in Nat
  BY GenerationsAssumption, FS_Subset, FS_CardinalityType DEF GenerationsAssumption
<1> QED BY <1>1, <1>2 DEF Verified

(* The inductive invariant.                                                 *)
LEMMA LedgerInvariance == SampleSpec => []LedgerInv
<1>1. SampleInit => LedgerInv
  <2> SUFFICES ASSUME SampleInit PROVE LedgerInv OBVIOUS
  <2>1. Alive = {} /\ Workers = {}
    BY DEF SampleInit, Alive, Workers
  <2>2. Cardinality(Alive) = 0
    BY <2>1, FS_EmptySet
  <2>3. LedgerTypeOK
    BY DEF SampleInit, GenerationsInit, LedgerTypeOK
  <2>4. LedgerExact
    BY <2>1, <2>2, SampleAssumption DEF SampleInit, LedgerExact, Alive, Workers, SampleAssumption
  <2> QED BY <2>3, <2>4 DEF LedgerInv
<1>2. LedgerInv /\ [SampleNext]_sampleVars => LedgerInv'
  <2> SUFFICES ASSUME LedgerInv, [SampleNext]_sampleVars PROVE LedgerInv' OBVIOUS
  <2>1. CASE SamplePass
    BY <2>1, SamplePassKeeps
  <2>2. ASSUME NEW g \in Gens, SampleTimeout(g) PROVE LedgerInv'
    <3>1. LedgerTypeOK'
      BY <2>2 DEF SampleTimeout, generationVars, LedgerInv, LedgerTypeOK
    <3>2. Workers' = Workers
      BY <2>2 DEF SampleTimeout, Workers, LedgerInv, LedgerTypeOK
    <3>3. LedgerExact'
      BY <2>2, <3>2 DEF SampleTimeout, generationVars, LedgerInv, LedgerExact
    <3> QED BY <3>1, <3>3 DEF LedgerInv
  <2>3. ASSUME NEW g \in Gens, SampleFinished(g) PROVE LedgerInv'
    <3>1. LedgerExact' /\ sampleAlive' \in [Gens -> BOOLEAN] /\ aliveSampleWorkers' \in Nat
      BY <2>3, WorkerEnds, ZenonT(30) DEF SampleFinished, generationVars
    <3>2. LedgerTypeOK'
      BY <2>3, <3>1, ZenonT(30) DEF SampleFinished, generationVars, LedgerInv, LedgerTypeOK
    <3> QED BY <3>1, <3>2 DEF LedgerInv
  <2>4. ASSUME NEW g \in Gens, NEW confirmed \in BOOLEAN, SampleResult(g, confirmed) PROVE LedgerInv'
    <3>1. LedgerExact' /\ sampleAlive' \in [Gens -> BOOLEAN] /\ aliveSampleWorkers' \in Nat
      BY <2>4, WorkerEnds, ZenonT(30) DEF SampleResult, generationVars
    <3>2. lastVerifiedAt' \in [Gens -> Nat]
      BY <2>4, VerifiedType DEF SampleResult, LedgerInv, LedgerTypeOK
    <3>3. LedgerTypeOK'
      BY <2>4, <3>1, <3>2, ZenonT(30) DEF SampleResult, generationVars, LedgerInv, LedgerTypeOK
    <3> QED BY <3>1, <3>3 DEF LedgerInv
  <2>5. CASE UNCHANGED sampleVars
    BY <2>5 DEF sampleVars, LedgerInv, LedgerTypeOK, LedgerExact, Workers
  <2> QED BY <2>1, <2>2, <2>3, <2>4, <2>5 DEF SampleNext, WorkerStep
<1> QED BY <1>1, <1>2, PTL DEF SampleSpec

(* The ledger is well formed in every state.                                *)
THEOREM LedgerTypeCorrect == SampleSpec => []LedgerTypeOK
BY LedgerInvariance, PTL DEF LedgerInv

(* dispatchWork's ledger is exact: flags, count and workers agree.          *)
THEOREM ExactLedger == SampleSpec => []LedgerExact
BY LedgerInvariance, PTL DEF LedgerInv

(* There are never more sample workers than maxConcurrentSampleWorkers.     *)
THEOREM BoundedSlots == SampleSpec => []SlotsBounded
<1>1. LedgerInv => SlotsBounded
  <2> SUFFICES ASSUME LedgerInv PROVE SlotsBounded OBVIOUS
  <2>1. Workers \subseteq Alive
    BY DEF LedgerInv, LedgerExact, Workers, Alive
  <2>2. Cardinality(Workers) <= Cardinality(Alive)
    BY <2>1, AliveFinite, FS_Subset
  <2>3. Cardinality(Alive) <= Slots
    BY DEF LedgerInv, LedgerExact, Alive
  <2> QED BY <2>2, <2>3, AliveFinite, FS_CardinalityType, SampleAssumption DEF SlotsBounded, SampleAssumption
<1> QED BY LedgerInvariance, <1>1, PTL

(* Only a sample taken within its budget clears the stalled mark.           *)
THEOREM StallHeld == SampleSpec => StalledUntilTimely
<1> DEFINE Clears == \A g \in Gens : sampleStalled[g] /\ ~ sampleStalled'[g] => sample[g] = "running" /\ sample'[g] = "none"
<1>1. LedgerInv /\ [SampleNext]_sampleVars => [Clears]_sampleVars
  <2> SUFFICES ASSUME LedgerInv, SampleNext, NEW g \in Gens, sampleStalled[g], ~ sampleStalled'[g]
               PROVE sample[g] = "running" /\ sample'[g] = "none"
    BY DEF sampleVars
  <2>1. CASE SamplePass
    BY <2>1 DEF SamplePass, DispatchSamples
  <2>2. ASSUME NEW h \in Gens, SampleTimeout(h) PROVE FALSE
    BY <2>2 DEF SampleTimeout, LedgerInv, LedgerTypeOK
  <2>3. ASSUME NEW h \in Gens, SampleFinished(h) PROVE FALSE
    BY <2>3 DEF SampleFinished
  <2>4. ASSUME NEW h \in Gens, NEW confirmed \in BOOLEAN, SampleResult(h, confirmed)
        PROVE sample[g] = "running" /\ sample'[g] = "none"
    BY <2>4 DEF SampleResult, LedgerInv, LedgerTypeOK
  <2> QED BY <2>1, <2>2, <2>3, <2>4 DEF SampleNext, WorkerStep
<1> QED BY LedgerInvariance, <1>1, PTL DEF SampleSpec, StalledUntilTimely
=============================================================================
