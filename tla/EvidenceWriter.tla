--------------------------- MODULE EvidenceWriter ---------------------------
(***************************************************************************)
(* The hand-over of evidence snapshots from the Sensor's session loop to   *)
(* the writer goroutine (internal/sensor/writer.go and the parts of        *)
(* session.go that submit snapshots and read reports).                     *)
(*                                                                         *)
(* Two goroutines share two one-slot channels.  Each side empties the slot *)
(* it sends to before it sends ("latest wins"), and the drain and the send *)
(* are separate steps here because the other side runs between them.  A    *)
(* snapshot is represented by its number: the n-th one the loop built.     *)
(***************************************************************************)
EXTENDS Naturals, Sequences

CONSTANT MaxSnapshots       \* bound: snapshots one session builds, final one included

ASSUME MaxSnapshotsAssumption == MaxSnapshots \in Nat \ {0}

VARIABLES
    loopAt,                 \* where the session loop is
    built,                  \* number of the last snapshot the loop built
    writerCh,               \* one-slot channel loop -> writer (jobs)
    writerAt,               \* where the writer goroutine is
    job,                    \* the job the writer holds
    consecutiveFailures,    \* runWriter's local streak
    reportCh,               \* one-slot channel writer -> loop (ordinary reports)
    doneCh,                 \* the final job's own one-slot channel
    writeFailureStreak,     \* the loop's copy of the streak
    lastWriteModified,      \* the loop's copy of the last report's modified flag
    log,                    \* history: every write attempted, in order
    seen                    \* history: how many writes the loop's copies reflect

loopVars == <<loopAt, built, writeFailureStreak, lastWriteModified, seen>>
writerVars == <<writerAt, job, consecutiveFailures, log>>
vars == <<loopVars, writerVars, writerCh, reportCh, doneCh>>

Job(n, final) == [snap |-> n, final |-> final]

(* A report carries the flags of the write it reports; "upTo" is history:   *)
(* the number of writes made when the report was put together.              *)
Report(failures, modified, n) ==
    [consecutiveFailures |-> failures, modified |-> modified, upTo |-> n]

Init ==
    /\ loopAt = "select"
    /\ built = 0
    /\ writerCh = <<>>
    /\ writerAt = "receive"
    /\ job = Job(0, FALSE)
    /\ consecutiveFailures = 0
    /\ reportCh = <<>>
    /\ doneCh = <<>>
    /\ writeFailureStreak = 0
    /\ lastWriteModified = FALSE
    /\ log = <<>>
    /\ seen = 0

-----------------------------------------------------------------------------
(* The session loop *)

(* Mutant: the send is made without emptying the slot first.                *)
SubmitDrain_NoDrain ==
    /\ loopAt = "select"
    /\ built + 1 < MaxSnapshots
    /\ built' = built + 1
    /\ loopAt' = "send"
    /\ UNCHANGED <<writeFailureStreak, lastWriteModified, seen, writerVars, writerCh, reportCh, doneCh>>

(* Mutant: the new snapshot, not the queued one, is dropped.                *)
SubmitDrain_KeepOld ==
    /\ loopAt = "select"
    /\ built + 1 < MaxSnapshots
    /\ built' = built + 1
    /\ loopAt' = IF writerCh = <<>> THEN "send" ELSE "select"
    /\ UNCHANGED <<writeFailureStreak, lastWriteModified, seen, writerVars, writerCh, reportCh, doneCh>>

(* submitSnapshot, first half: build a snapshot and empty the slot.         *)
SubmitDrain ==
    /\ loopAt = "select"
    /\ built + 1 < MaxSnapshots
    /\ built' = built + 1
    /\ writerCh' = <<>>
    /\ loopAt' = "send"
    /\ UNCHANGED <<writeFailureStreak, lastWriteModified, seen, writerVars, reportCh, doneCh>>

(* submitSnapshot, second half.  The send needs a free slot.                *)
SubmitSend ==
    /\ loopAt = "send"
    /\ writerCh = <<>>
    /\ writerCh' = <<Job(built, FALSE)>>
    /\ loopAt' = "select"
    /\ UNCHANGED <<built, writeFailureStreak, lastWriteModified, seen, writerVars, reportCh, doneCh>>

(* submitFinalSnapshot, first half: cancellation, a dead parser or failed   *)
(* isolation makes the loop build its last snapshot.                        *)
FinalDrain ==
    /\ loopAt = "select"
    /\ built' = built + 1
    /\ writerCh' = <<>>
    /\ loopAt' = "sendFinal"
    /\ UNCHANGED <<writeFailureStreak, lastWriteModified, seen, writerVars, reportCh, doneCh>>

(* Mutant: the last snapshot is submitted like any other, without waiting.   *)
FinalSend_NoWait ==
    /\ loopAt = "sendFinal"
    /\ writerCh = <<>>
    /\ writerCh' = <<Job(built, FALSE)>>
    /\ loopAt' = "returned"
    /\ UNCHANGED <<built, writeFailureStreak, lastWriteModified, seen, writerVars, reportCh, doneCh>>

FinalSend ==
    /\ loopAt = "sendFinal"
    /\ writerCh = <<>>
    /\ writerCh' = <<Job(built, TRUE)>>
    /\ loopAt' = "awaitDone"
    /\ UNCHANGED <<built, writeFailureStreak, lastWriteModified, seen, writerVars, reportCh, doneCh>>

(* Mutant: the loop counts the failure reports it happens to receive.       *)
Apply_CountsReports(rep) ==
    /\ writeFailureStreak' = IF rep.consecutiveFailures = 0 THEN 0 ELSE writeFailureStreak + 1
    /\ lastWriteModified' = rep.modified
    /\ seen' = rep.upTo

(* The loop copies whatever a report carries.                               *)
Apply(rep) ==
    /\ writeFailureStreak' = rep.consecutiveFailures
    /\ lastWriteModified' = rep.modified
    /\ seen' = rep.upTo

(* Mutant: the loop goes on after its final write.                          *)
FinalReturn_Continues ==
    /\ loopAt = "awaitDone"
    /\ doneCh # <<>>
    /\ Apply(Head(doneCh))
    /\ doneCh' = Tail(doneCh)
    /\ loopAt' = "select"
    /\ UNCHANGED <<built, writerVars, writerCh, reportCh>>

(* submitFinalSnapshot returns, writeFinalSnapshotAndWait records the       *)
(* outcome, and Run returns.                                                *)
FinalReturn ==
    /\ loopAt = "awaitDone"
    /\ doneCh # <<>>
    /\ Apply(Head(doneCh))
    /\ doneCh' = Tail(doneCh)
    /\ loopAt' = "returned"
    /\ UNCHANGED <<built, writerVars, writerCh, reportCh>>

(* The writerReportCh case of the loop's select.                            *)
ReceiveReport ==
    /\ loopAt = "select"
    /\ reportCh # <<>>
    /\ Apply(Head(reportCh))
    /\ reportCh' = Tail(reportCh)
    /\ UNCHANGED <<loopAt, built, writerVars, writerCh, doneCh>>

-----------------------------------------------------------------------------
(* The writer goroutine *)

WriterReceive ==
    /\ writerAt = "receive"
    /\ writerCh # <<>>
    /\ job' = Head(writerCh)
    /\ writerCh' = Tail(writerCh)
    /\ writerAt' = "write"
    /\ UNCHANGED <<loopVars, consecutiveFailures, log, reportCh, doneCh>>

(* Mutant: a failed snapshot is queued again, over a newer one.             *)
WriterWrite_Requeue ==
    /\ writerAt = "write"
    /\ \E ok, modified \in BOOLEAN :
          log' = Append(log, [snap |-> job.snap, ok |-> ok, modified |-> modified])
    /\ consecutiveFailures' = IF log'[Len(log')].ok THEN 0 ELSE consecutiveFailures + 1
    /\ writerCh' = IF log'[Len(log')].ok THEN writerCh ELSE <<job>>
    /\ writerAt' = IF job.final THEN "reportDone" ELSE "drainReport"
    /\ UNCHANGED <<loopVars, job, reportCh, doneCh>>

(* enforceWriteLimits, WriteFD and the count of failures in a row.          *)
WriterWrite ==
    /\ writerAt = "write"
    /\ \E ok, modified \in BOOLEAN :
          log' = Append(log, [snap |-> job.snap, ok |-> ok, modified |-> modified])
    /\ consecutiveFailures' = IF log'[Len(log')].ok THEN 0 ELSE consecutiveFailures + 1
    /\ writerAt' = IF job.final THEN "reportDone" ELSE "drainReport"
    /\ UNCHANGED <<loopVars, job, writerCh, reportCh, doneCh>>

CurrentReport == Report(consecutiveFailures, log[Len(log)].modified, Len(log))

WriterReportDone ==
    /\ writerAt = "reportDone"
    /\ doneCh = <<>>
    /\ doneCh' = <<CurrentReport>>
    /\ writerAt' = "receive"
    /\ UNCHANGED <<loopVars, job, consecutiveFailures, log, writerCh, reportCh>>

(* Mutant: the writer waits for the loop to take the previous report.        *)
WriterReportDrain_Blocking ==
    /\ writerAt = "drainReport"
    /\ writerAt' = "sendReport"
    /\ UNCHANGED <<loopVars, job, consecutiveFailures, log, writerCh, reportCh, doneCh>>

WriterReportDrain ==
    /\ writerAt = "drainReport"
    /\ reportCh' = <<>>
    /\ writerAt' = "sendReport"
    /\ UNCHANGED <<loopVars, job, consecutiveFailures, log, writerCh, doneCh>>

WriterReportSend ==
    /\ writerAt = "sendReport"
    /\ reportCh = <<>>
    /\ reportCh' = <<CurrentReport>>
    /\ writerAt' = "receive"
    /\ UNCHANGED <<loopVars, job, consecutiveFailures, log, writerCh, doneCh>>

-----------------------------------------------------------------------------
LoopStep ==
    \/ SubmitDrain \/ SubmitSend
    \/ FinalDrain \/ FinalSend \/ FinalReturn
    \/ ReceiveReport

WriterStep ==
    \/ WriterReceive \/ WriterWrite
    \/ WriterReportDone \/ WriterReportDrain \/ WriterReportSend

Next == LoopStep \/ WriterStep

Spec == Init /\ [][Next]_vars

(* Both goroutines are runnable whenever a channel operation of theirs can   *)
(* proceed, and the Go scheduler runs a runnable goroutine.  The loop's      *)
(* choice to submit or to stop is its environment's, and is not fair.        *)
Fairness ==
    /\ WF_vars(WriterStep)
    /\ WF_vars(SubmitSend) /\ WF_vars(FinalSend) /\ WF_vars(FinalReturn)

FairSpec == Spec /\ Fairness

-----------------------------------------------------------------------------
(* Properties *)

JobType == [snap : Nat, final : BOOLEAN]
ReportType == [consecutiveFailures : Nat, modified : BOOLEAN, upTo : Nat]
WriteType == [snap : Nat, ok : BOOLEAN, modified : BOOLEAN]

(* Every variable of the hand-over stays in its type, and the three          *)
(* channels never hold more than their capacity of one.                      *)
TypeOK ==
    /\ loopAt \in {"select", "send", "sendFinal", "awaitDone", "returned"}
    /\ built \in Nat
    /\ writerCh \in Seq(JobType) /\ Len(writerCh) <= 1
    /\ writerAt \in {"receive", "write", "reportDone", "drainReport", "sendReport"}
    /\ job \in JobType
    /\ consecutiveFailures \in Nat
    /\ reportCh \in Seq(ReportType) /\ Len(reportCh) <= 1
    /\ doneCh \in Seq(ReportType) /\ Len(doneCh) <= 1
    /\ writeFailureStreak \in Nat
    /\ lastWriteModified \in BOOLEAN
    /\ log \in Seq(WriteType)
    /\ seen \in Nat

(* submitSnapshot, submitFinalSnapshot and runWriter never block on a send:  *)
(* after the drain the slot is free, whatever the other goroutine did.       *)
SendNeverBlocks ==
    /\ loopAt \in {"send", "sendFinal"} => writerCh = <<>>
    /\ writerAt = "sendReport" => reportCh = <<>>
    /\ writerAt = "reportDone" => doneCh = <<>>

(* The writer never overwrites a snapshot with an older one: the file goes   *)
(* through strictly newer snapshots although the slot drops some of them.    *)
WrittenInOrder ==
    \A i, j \in 1..Len(log) : i < j => log[i].snap < log[j].snap

(* The last k of the first n writes in l failed, the one before did not.     *)
IsStreak(l, n, k) ==
    /\ k \in 0..n
    /\ \A i \in 1..n : i > n - k => ~ l[i].ok
    /\ k < n => l[n - k].ok

(* The streak the loop decides "degraded" by is the number of writes that    *)
(* really failed in a row up to some write, although reports are replaced    *)
(* in the slot before the loop reads them; so is the writer's own count.     *)
StreakIsTrue ==
    /\ IsStreak(log, seen, writeFailureStreak) /\ seen <= Len(log)
    /\ IsStreak(log, Len(log), consecutiveFailures)

(* writeFinalSnapshotAndWait: when Run returns, the last write attempted is  *)
(* the final snapshot, nothing is left in the writer's slot, and the loop    *)
(* has that very write's outcome.                                            *)
FinalIsLast ==
    loopAt = "returned" =>
        /\ log # <<>>
        /\ log[Len(log)].snap = built
        /\ seen = Len(log)
        /\ writerCh = <<>> /\ writerAt = "receive"

(* The loop never goes back to the outcome of an earlier write: reports are  *)
(* applied in the order of the writes they describe.                         *)
ReportsMoveForward == [][seen' >= seen]_vars

(* What makes the safety properties inductive. Order: the job the writer     *)
(* holds is the newest it has received, and the slot holds a newer one.      *)
OrderInv ==
    /\ \A i \in 1..Len(log) : log[i].snap <= job.snap
    /\ writerAt = "write" => \A i \in 1..Len(log) : log[i].snap < job.snap
    /\ job.snap <= built
    /\ writerCh # <<>> => job.snap < writerCh[1].snap /\ writerCh[1].snap <= built
    /\ loopAt \in {"send", "sendFinal"} => job.snap < built

(* Reports: one in a channel tells the true streak of a write the loop has   *)
(* not gone past.                                                            *)
TrueReport(rep) ==
    rep.upTo <= Len(log) /\ IsStreak(log, rep.upTo, rep.consecutiveFailures)

ReportInv ==
    /\ writerAt \in {"reportDone", "drainReport", "sendReport"} => log # <<>>
    /\ reportCh # <<>> => TrueReport(reportCh[1])
    /\ doneCh # <<>> => TrueReport(doneCh[1])
    /\ reportCh # <<>> /\ loopAt # "returned" => seen <= reportCh[1].upTo

(* The final job: from the moment it is sent the slot holds nothing newer,   *)
(* and its report is on its own channel only after it was written.           *)
FinalWritten == log # <<>> /\ log[Len(log)].snap = built /\ writerCh = <<>>

FinalInv ==
    /\ writerCh # <<>> => (writerCh[1].final <=> loopAt = "awaitDone")
    /\ writerCh # <<>> /\ writerCh[1].final => writerCh[1].snap = built
    /\ writerAt = "write" /\ job.final =>
          loopAt = "awaitDone" /\ writerCh = <<>> /\ job.snap = built
    /\ writerAt = "reportDone" => loopAt = "awaitDone" /\ FinalWritten
    /\ doneCh # <<>> =>
          /\ loopAt = "awaitDone" /\ writerAt = "receive" /\ FinalWritten
          /\ doneCh[1].upTo = Len(log)
    /\ loopAt = "returned" => doneCh = <<>>

IInv ==
    /\ TypeOK
    /\ SendNeverBlocks
    /\ WrittenInOrder /\ OrderInv
    /\ StreakIsTrue /\ ReportInv
    /\ FinalIsLast /\ FinalInv

(* A session that is told to stop does stop: waiting for the final write     *)
(* cannot deadlock with the writer reporting an earlier one.                 *)
FinalReturns == loopAt = "sendFinal" ~> loopAt = "returned"

(* Every snapshot the loop builds reaches the writer, or a newer one does.   *)
LatestIsWritten ==
    \A n \in 1..MaxSnapshots :
        built = n ~> \E i \in 1..Len(log) : log[i].snap >= n
=============================================================================
