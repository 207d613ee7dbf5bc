---------------------------- MODULE EvidenceFile ----------------------------
(***************************************************************************)
(* The evidence file between the Sensor, which overwrites it in place      *)
(* (evidence.WriteFD: pwrite from offset 0, ftruncate, fsync), and the     *)
(* main body, which reads it whenever it likes (evidence.FileProvider.Load *)
(* and Reader.Read).  Nothing synchronises the two.                        *)
(*                                                                         *)
(* The file is a sequence of blocks, the unit one side sees of the other's *)
(* progress: some body blocks and one trailer block per snapshot.  A       *)
(* snapshot is its number; blocks of different snapshots differ, so the    *)
(* checksum of a body matches exactly when all its blocks are that         *)
(* snapshot's.                                                             *)
(***************************************************************************)
EXTENDS Naturals, Sequences, FiniteSets

CONSTANTS
    MaxWrites,          \* bound: snapshots written
    BodyLens,           \* the body lengths, in blocks, a snapshot may have
    MaxTime,            \* bound on the clock
    StalenessThreshold, \* evidence.StalenessThreshold, in clock units
    WritesMayFail       \* whether a write may fail or the Sensor be killed in it

ASSUME FileAssumption ==
    /\ MaxWrites \in Nat /\ MaxTime \in Nat /\ StalenessThreshold \in Nat
    /\ BodyLens \subseteq Nat \ {0}
    /\ WritesMayFail \in BOOLEAN

VARIABLES
    now,          \* the wall clock
    created,      \* the file exists
    file,         \* the blocks on disk
    heartbeat,    \* HeartbeatAt of every snapshot begun, by number
    writerAt,     \* which system call of WriteFD is next
    full,         \* the encoded snapshot being written
    off,          \* blocks of it already written
    readerAt,     \* idle, in the first read, waiting, in the second read
    data,         \* what the current read has collected
    readNow,      \* p.now() at the start of the Load
    prev,         \* FileProvider.prev: number of the last snapshot returned, 0 for nil
    result,       \* outcome of the last Load
    given,        \* history: the newest snapshot a Load has returned
    committed,    \* history: the newest snapshot whose write returned nil
    committedAtStart, \* history: committed when the current Load began
    disturbed     \* history: a write was in progress or failed during the current Load, or its file is not a committed one

fileVars == <<created, file, heartbeat, writerAt, full, off, committed>>
readVars == <<readerAt, data, readNow, prev, given, result, committedAtStart>>
vars == <<now, fileVars, readVars, disturbed>>

Body(n, i) == [kind |-> "body", snap |-> n, pos |-> i]
Trailer(n, len) == [kind |-> "trailer", snap |-> n, pos |-> len]

(* encodeWithTrailer: the body, then the line that records its length and   *)
(* checksum.                                                                *)
Encode(n, len) == [i \in 1..len + 1 |-> IF i <= len THEN Body(n, i) ELSE Trailer(n, len)]

NoResult == [kind |-> "none", snap |-> 0, body |-> <<>>]

Init ==
    /\ now = 0
    /\ created = FALSE /\ file = <<>> /\ heartbeat = <<>>
    /\ writerAt = "idle" /\ full = <<>> /\ off = 0
    /\ readerAt = "idle" /\ data = <<>> /\ readNow = 0 /\ prev = 0 /\ given = 0
    /\ result = NoResult
    /\ committed = 0 /\ committedAtStart = 0 /\ disturbed = FALSE

Tick ==
    /\ now < MaxTime
    /\ now' = now + 1
    /\ UNCHANGED <<fileVars, readVars, disturbed>>

-----------------------------------------------------------------------------
(* WriteFD *)

(* Run opens the file, creating it, before its first write.                 *)
OpenFile ==
    /\ ~ created
    /\ created' = TRUE
    /\ UNCHANGED <<now, file, heartbeat, writerAt, full, off, committed, readVars, disturbed>>

BeginWrite ==
    /\ created /\ writerAt = "idle"
    /\ Len(heartbeat) < MaxWrites
    /\ heartbeat' = Append(heartbeat, now)
    /\ \E len \in BodyLens : full' = Encode(Len(heartbeat) + 1, len)
    /\ off' = 0
    /\ writerAt' = "pwrite"
    /\ disturbed' = TRUE
    /\ UNCHANGED <<now, created, file, committed, readVars>>

(* Part of a pwrite that a concurrent read can see: one more block.         *)
Pwrite ==
    /\ writerAt = "pwrite"
    /\ file' = [i \in 1..(IF off + 1 > Len(file) THEN off + 1 ELSE Len(file)) |->
                   IF i = off + 1 THEN full[i] ELSE file[i]]
    /\ off' = off + 1
    /\ writerAt' = IF off + 1 = Len(full) THEN "ftruncate" ELSE "pwrite"
    /\ UNCHANGED <<now, created, heartbeat, full, committed, readVars, disturbed>>

(* Mutant: the file keeps the tail of a longer predecessor.                 *)
Ftruncate_Skipped ==
    /\ writerAt = "ftruncate"
    /\ writerAt' = "fsync"
    /\ UNCHANGED <<now, created, file, heartbeat, full, off, committed, readVars, disturbed>>

Ftruncate ==
    /\ writerAt = "ftruncate"
    /\ file' = SubSeq(file, 1, Len(full))
    /\ writerAt' = "fsync"
    /\ UNCHANGED <<now, created, heartbeat, full, off, committed, readVars, disturbed>>

Fsync ==
    /\ writerAt = "fsync"
    /\ writerAt' = "idle" /\ full' = <<>> /\ off' = 0
    /\ committed' = Len(heartbeat)
    /\ UNCHANGED <<now, created, file, heartbeat, readVars, disturbed>>

(* Any of the three calls fails, or the Sensor dies: what is on disk stays, *)
(* and the next write starts over at offset 0.                              *)
WriteFails ==
    /\ WritesMayFail
    /\ writerAt # "idle"
    /\ writerAt' = "idle" /\ full' = <<>> /\ off' = 0
    /\ UNCHANGED <<now, created, file, heartbeat, committed, readVars, disturbed>>

-----------------------------------------------------------------------------
(* FileProvider.Load *)

BeginLoad ==
    /\ readerAt = "idle"
    /\ readerAt' = "first"
    /\ data' = <<>>
    /\ readNow' = now
    /\ result' = NoResult
    /\ committedAtStart' = committed
    /\ disturbed' = (writerAt # "idle" \/ committed # Len(heartbeat))
    /\ UNCHANGED <<now, fileVars, prev, given>>

(* io.ReadAll gets the next block.                                          *)
ReadBlock ==
    /\ readerAt \in {"first", "second"}
    /\ Len(data) < Len(file)
    /\ data' = Append(data, file[Len(data) + 1])
    /\ UNCHANGED <<now, fileVars, readerAt, readNow, prev, given, result, committedAtStart, disturbed>>

AtEOF == created /\ readerAt \in {"first", "second"} /\ Len(data) >= Len(file)

TrailersIn(d) == {i \in 1..Len(d) : d[i].kind = "trailer"}
LastTrailer(d) == CHOOSE i \in TrailersIn(d) : \A j \in TrailersIn(d) : j <= i

(* Mutant: only the length is compared.                                     *)
VerifyTrailer_LengthOnly(d) ==
    IF TrailersIn(d) = {} THEN "invalid"
    ELSE LET idx == LastTrailer(d) IN
         IF idx # Len(d) THEN "invalid"
         ELSE IF d[idx].pos = idx - 1 THEN "ok"
         ELSE "torn"

(* verifyTrailer: no trailer, or something after its line, is "invalid"; a  *)
(* length or a checksum that does not match the body before it is "torn".   *)
VerifyTrailer(d) ==
    IF TrailersIn(d) = {} THEN "invalid"
    ELSE LET idx == LastTrailer(d) IN
         IF idx # Len(d) THEN "invalid"
         ELSE IF d[idx].pos = idx - 1 /\ \A i \in 1..idx - 1 : d[i] = Body(d[idx].snap, i) THEN "ok"
         ELSE "torn"

(* Mutant: prev is only ever set once.                                      *)
ReturnSnapshot_KeepsFirst ==
    /\ result' = [kind |-> "read", snap |-> data[Len(data)].snap, body |-> data]
    /\ prev' = IF prev = 0 THEN data[Len(data)].snap ELSE prev
    /\ given' = result'.snap
    /\ readerAt' = "idle" /\ data' = <<>>
    /\ UNCHANGED <<now, fileVars, readNow, committedAtStart, disturbed>>

ReturnSnapshot ==
    /\ result' = [kind |-> "read", snap |-> data[Len(data)].snap, body |-> data]
    /\ prev' = data[Len(data)].snap
    /\ given' = result'.snap
    /\ readerAt' = "idle" /\ data' = <<>>
    /\ UNCHANGED <<now, fileVars, readNow, committedAtStart, disturbed>>

ReturnError(kind) ==
    /\ result' = [kind |-> kind, snap |-> 0, body |-> <<>>]
    /\ readerAt' = "idle" /\ data' = <<>>
    /\ UNCHANGED <<now, fileVars, readNow, prev, given, committedAtStart, disturbed>>

ReadSucceeds ==
    /\ AtEOF
    /\ VerifyTrailer(data) = "ok"
    /\ ReturnSnapshot

(* The file is not there: ErrNotReporting.                                  *)
ReadMissing ==
    /\ ~ created
    /\ readerAt = "first"
    /\ ReturnError("not_reporting")

ReadInvalid ==
    /\ AtEOF
    /\ VerifyTrailer(data) = "invalid"
    /\ ReturnError("invalid")

(* A torn first read: wait RetryDelay and read once more.                   *)
Retry ==
    /\ AtEOF /\ readerAt = "first"
    /\ VerifyTrailer(data) = "torn"
    /\ readerAt' = "second"
    /\ data' = <<>>
    /\ UNCHANGED <<now, fileVars, readNow, prev, given, result, committedAtStart, disturbed>>

IsStale(heartbeatAt, t) == t > heartbeatAt + StalenessThreshold

(* A torn second read: the previous snapshot if its heartbeat is fresh.     *)
RetryTorn ==
    /\ AtEOF /\ readerAt = "second"
    /\ VerifyTrailer(data) = "torn"
    /\ IF prev # 0 /\ ~ IsStale(heartbeat[prev], readNow)
       THEN /\ result' = [kind |-> "previous", snap |-> prev, body |-> <<>>]
            /\ given' = prev
            /\ readerAt' = "idle" /\ data' = <<>>
            /\ UNCHANGED <<now, fileVars, readNow, prev, committedAtStart, disturbed>>
       ELSE ReturnError("torn")

-----------------------------------------------------------------------------
WriterStep == OpenFile \/ BeginWrite \/ Pwrite \/ Ftruncate \/ Fsync \/ WriteFails

ReaderStep == BeginLoad \/ ReadBlock \/ ReadSucceeds \/ ReadMissing \/ ReadInvalid \/ Retry \/ RetryTorn

Next == Tick \/ WriterStep \/ ReaderStep

Spec == Init /\ [][Next]_vars

-----------------------------------------------------------------------------
(* Properties *)

(* What Load returns from the file is one whole snapshot as the Sensor      *)
(* encoded it, never a mixture of two, whatever the writer was doing.       *)
ReadsWholeSnapshot ==
    result.kind = "read" => \E len \in BodyLens : result.body = Encode(result.snap, len)

(* A Load that no write overlaps, on a file whose last write returned nil,  *)
(* succeeds by reading that very snapshot.                                  *)
QuietReadSucceeds ==
    ~ disturbed /\ result.kind # "none" /\ committedAtStart # 0 =>
        result.kind = "read" /\ result.snap = committedAtStart

Answered == result.kind \in {"read", "previous"}

(* The main body never goes back to an older snapshot than one it was given *)
(* (Load after Load, fallbacks included).                                   *)
LoadsMoveForward == [][Answered' /\ ~ Answered => result'.snap >= given]_vars

(* What verifyTrailer's comment says: a missing or malformed trailer "is    *)
(* not what a torn write in progress looks like".  With no failed write, a  *)
(* Load that starts on a file holding a committed snapshot is never         *)
(* answered "invalid".  It does not hold for long over short snapshots.     *)
TornWriteIsRetryable == result.kind = "invalid" => committedAtStart = 0
=============================================================================
