------------------------- MODULE EvidenceFileProofs -------------------------
(***************************************************************************)
(* The exchange of snapshots through the evidence file, for any number of  *)
(* snapshots of any lengths, and with any writes failing.                  *)
(***************************************************************************)
EXTENDS EvidenceFile, TLAPS

\* The blocks of the snapshots begun so far, of which there are n.
Blocks(n) ==
    {Body(s, i) : s \in 1..n, i \in Nat \ {0}} \cup {Trailer(s, len) : s \in 1..n, len \in BodyLens}

TypeInv ==
    /\ now \in Nat /\ readNow \in Nat /\ off \in Nat /\ committed \in Nat
    /\ created \in BOOLEAN /\ disturbed \in BOOLEAN
    /\ writerAt \in {"idle", "pwrite", "ftruncate", "fsync"}
    /\ readerAt \in {"idle", "first", "second"}
    /\ heartbeat \in Seq(Nat)
    /\ file \in Seq(Blocks(Len(heartbeat))) /\ data \in Seq(Blocks(Len(heartbeat)))
    /\ prev \in 0..Len(heartbeat)
    /\ result.kind \in {"read", "previous"} => result.snap \in 1..Len(heartbeat)

\* p is the beginning of q.
Prefix(p, q) == Len(p) <= Len(q) /\ \A i \in 1..Len(p) : p[i] = q[i]

Whole(f, n) == \E len \in BodyLens : f = Encode(n, len)

\* How far the write of the newest snapshot has come, and that a file whose
\* last write returned nil is that snapshot.
WriterInv ==
    /\ heartbeat # <<>> => created
    /\ committed <= Len(heartbeat)
    /\ writerAt # "idle" => committed < Len(heartbeat) /\ Whole(full, Len(heartbeat)) /\ off <= Len(full)
    /\ writerAt = "pwrite" => off < Len(full)
    /\ writerAt # "idle" => off <= Len(file) /\ \A i \in 1..off : file[i] = full[i]
    /\ writerAt \in {"ftruncate", "fsync"} => off = Len(full)
    /\ writerAt = "fsync" => file = full
    /\ writerAt = "idle" /\ committed = Len(heartbeat) /\ committed # 0 => Whole(file, committed)

\* An undisturbed Load sees a file that does not change.
QuietInv ==
    ~ disturbed =>
        /\ writerAt = "idle" /\ committed = Len(heartbeat) /\ committedAtStart = committed
        /\ Prefix(data, file)

\* The first block of the file only ever gets newer.
ForwardInv ==
    /\ given = prev
    /\ prev # 0 => file # <<>> /\ file[1].snap >= prev
    /\ data # <<>> => file # <<>> /\ file[1].snap >= data[1].snap /\ data[1].snap >= prev

IInv ==
    /\ TypeInv /\ WriterInv /\ QuietInv /\ ForwardInv
    /\ ReadsWholeSnapshot /\ QuietReadSucceeds

-----------------------------------------------------------------------------
\* The fields of the two kinds of block.
LEMMA Parts ==
    ASSUME NEW n, NEW i
    PROVE  /\ Body(n, i).kind = "body" /\ Body(n, i).snap = n
           /\ Trailer(n, i).kind = "trailer" /\ Trailer(n, i).snap = n /\ Trailer(n, i).pos = i
BY DEF Body, Trailer

\* What a block is.
LEMMA BlockFacts ==
    ASSUME NEW n \in Nat, NEW b \in Blocks(n)
    PROVE  /\ b.snap \in 1..n /\ b.kind \in {"body", "trailer"}
           /\ b.kind = "trailer" => b = Trailer(b.snap, b.pos) /\ b.pos \in BodyLens
BY DEF Blocks, Body, Trailer

\* Blocks stay blocks when another snapshot is begun.
LEMMA BlocksGrow ==
    ASSUME NEW n \in Nat, NEW m \in Nat, n <= m
    PROVE  Blocks(n) \subseteq Blocks(m) /\ Seq(Blocks(n)) \subseteq Seq(Blocks(m))
<1>1. Blocks(n) \subseteq Blocks(m)
  BY DEF Blocks
<1>2. ASSUME NEW q \in Seq(Blocks(n)) PROVE q \in Seq(Blocks(m))
  <2>1. q \in [1..Len(q) -> Blocks(n)] /\ Len(q) \in Nat
    OBVIOUS
  <2>2. q \in [1..Len(q) -> Blocks(m)]
    BY <1>1, <2>1
  <2>. QED
    BY <2>1, <2>2
<1>. QED
  BY <1>1, <1>2

\* What encodeWithTrailer makes: body blocks, then the one trailer.
LEMMA EncodeFacts ==
    ASSUME NEW m \in Nat, NEW n \in 1..m, NEW len \in BodyLens
    PROVE  /\ Encode(n, len) \in Seq(Blocks(m)) /\ Len(Encode(n, len)) = len + 1 /\ len \in Nat \ {0}
           /\ Encode(n, len)[len + 1] = Trailer(n, len)
           /\ \A i \in 1..len : Encode(n, len)[i] = Body(n, i)
<1>1. len \in Nat \ {0}
  BY FileAssumption
<1>2. \A i \in 1..len + 1 : (IF i <= len THEN Body(n, i) ELSE Trailer(n, len)) \in Blocks(m)
  BY <1>1 DEF Blocks
<1>3. Encode(n, len) \in [1..len + 1 -> Blocks(m)]
  BY <1>2 DEF Encode
<1>4. Encode(n, len) \in Seq(Blocks(m)) /\ Len(Encode(n, len)) = len + 1
  BY <1>1, <1>3
<1>. QED
  BY <1>1, <1>4 DEF Encode

\* verifyTrailer accepts what encodeWithTrailer makes.
LEMMA WholeVerifies ==
    ASSUME NEW m \in Nat, NEW n \in 1..m, NEW d, Whole(d, n)
    PROVE  VerifyTrailer(d) = "ok" /\ d[Len(d)].snap = n
<1>1. PICK len \in BodyLens : d = Encode(n, len)
  BY DEF Whole
<1>2. /\ Len(d) = len + 1 /\ len \in Nat \ {0} /\ d[len + 1] = Trailer(n, len)
      /\ \A i \in 1..len : d[i] = Body(n, i)
  BY <1>1, EncodeFacts
<1>3. TrailersIn(d) = {len + 1}
  <2>1. \A i \in 1..len + 1 : d[i].kind = "trailer" <=> i = len + 1
    <3>. SUFFICES ASSUME NEW i \in 1..len + 1 PROVE d[i].kind = "trailer" <=> i = len + 1
      OBVIOUS
    <3>1. CASE i = len + 1
      BY <1>2, <3>1, Parts
    <3>2. CASE i # len + 1
      <4>1. i \in 1..len
        BY <1>2, <3>2
      <4>2. d[i].kind = "body"
        BY <1>2, <4>1, Parts
      <4>. QED
        BY <3>2, <4>2
    <3>. QED
      BY <3>1, <3>2
  <2>. QED
    BY <1>2, <2>1 DEF TrailersIn
<1>4. LastTrailer(d) = len + 1
  BY <1>2, <1>3 DEF LastTrailer
<1>5. d[len + 1].pos = len /\ d[len + 1].snap = n
  BY <1>2, Parts
<1>. QED
  BY <1>2, <1>3, <1>4, <1>5 DEF VerifyTrailer

\* verifyTrailer accepts nothing else: one whole snapshot, whose first block
\* is of the snapshot its trailer names.
LEMMA VerifiesWhole ==
    ASSUME NEW m \in Nat, NEW d \in Seq(Blocks(m)), VerifyTrailer(d) = "ok"
    PROVE  /\ d # <<>> /\ d[Len(d)].snap \in 1..m
           /\ Whole(d, d[Len(d)].snap) /\ d[1].snap = d[Len(d)].snap
<1>. DEFINE idx == LastTrailer(d)
<1>1. TrailersIn(d) # {} /\ idx = Len(d) /\ d[idx].pos = idx - 1 /\ \A i \in 1..idx - 1 : d[i] = Body(d[idx].snap, i)
  BY DEF VerifyTrailer
<1>2. Len(d) \in Nat \ {0} /\ d # <<>> /\ d[Len(d)] \in Blocks(m)
  BY <1>1 DEF TrailersIn
<1>3. \A i \in 1..Len(d) : i # Len(d) => d[i].kind = "body"
  <2>. SUFFICES ASSUME NEW i \in 1..Len(d), i # Len(d) PROVE d[i].kind = "body"
    OBVIOUS
  <2>1. i \in 1..idx - 1
    BY <1>1, <1>2
  <2>2. d[i] = Body(d[idx].snap, i)
    BY <1>1, <2>1
  <2>. QED
    BY <2>2, Parts
<1>4. d[Len(d)].kind = "trailer"
  BY <1>1, <1>3 DEF TrailersIn
<1>. DEFINE n == d[Len(d)].snap
            len == d[Len(d)].pos
<1>5. d[Len(d)] = Trailer(n, len) /\ len \in BodyLens /\ n \in 1..m
  BY <1>2, <1>4, BlockFacts
<1>6. len \in Nat \ {0} /\ Len(d) = len + 1
  BY <1>1, <1>2, <1>5, FileAssumption
<1>7. d = Encode(n, len)
  <2>1. d = [i \in 1..Len(d) |-> d[i]]
    OBVIOUS
  <2>2. \A i \in 1..Len(d) : d[i] = IF i <= len THEN Body(n, i) ELSE Trailer(n, len)
    BY <1>1, <1>5, <1>6
  <2>. HIDE DEF n, len
  <2>3. d = [i \in 1..len + 1 |-> IF i <= len THEN Body(n, i) ELSE Trailer(n, len)]
    BY <1>6, <2>1, <2>2
  <2>. QED
    BY <2>3 DEF Encode
<1>8. d[1].snap = n
  <2>1. 1 \in 1..idx - 1
    BY <1>1, <1>6
  <2>2. d[1] = Body(n, 1)
    BY <1>1, <2>1
  <2>. HIDE DEF n
  <2>. QED
    BY <2>2, Parts
<1>. QED
  BY <1>2, <1>5, <1>7, <1>8 DEF Whole

-----------------------------------------------------------------------------
\* The properties only speak of the reader's result, of the heartbeats and of
\* whether the Load was disturbed.
Props == ReadsWholeSnapshot /\ QuietReadSucceeds

\* Initially there is no file.
LEMMA InitIInv == Init => IInv
<1>. SUFFICES ASSUME Init PROVE IInv
  OBVIOUS
<1>1. /\ heartbeat = <<>> /\ Len(heartbeat) = 0 /\ file = <<>> /\ data = <<>> /\ result.kind = "none"
      /\ now = 0 /\ readNow = 0 /\ off = 0 /\ committed = 0 /\ committedAtStart = 0 /\ prev = 0 /\ given = 0
      /\ created = FALSE /\ disturbed = FALSE /\ writerAt = "idle" /\ readerAt = "idle"
  BY DEF Init, NoResult
<1>2. TypeInv
  <2>1. heartbeat \in Seq(Nat)
    BY <1>1
  <2>2. file \in Seq(Blocks(Len(heartbeat))) /\ data \in Seq(Blocks(Len(heartbeat)))
    BY <1>1
  <2>3. created \in BOOLEAN /\ disturbed \in BOOLEAN
    BY <1>1
  <2>4. prev \in 0..Len(heartbeat)
    BY <1>1
  <2>5. /\ now \in Nat /\ readNow \in Nat /\ off \in Nat /\ committed \in Nat
        /\ writerAt = "idle" /\ readerAt = "idle" /\ result.kind = "none"
    BY <1>1
  <2>. QED
    BY <2>1, <2>2, <2>3, <2>4, <2>5 DEF TypeInv
<1>3. WriterInv
  BY <1>1 DEF WriterInv
<1>4. QuietInv
  BY <1>1 DEF QuietInv, Prefix
<1>5. ForwardInv
  BY <1>1 DEF ForwardInv
<1>. QED
  BY <1>1, <1>2, <1>3, <1>4, <1>5 DEF IInv, ReadsWholeSnapshot, QuietReadSucceeds

\* Run opens the file, and the clock moves: nothing the invariant relates.
LEMMA QuietSteps == ASSUME IInv, Tick \/ OpenFile PROVE IInv'
<1>0. now' \in Nat /\ created' \in BOOLEAN /\ (created' = created \/ created' = TRUE)
  <2>1. now' = now \/ now' = now + 1
    BY DEF Tick, OpenFile
  <2>2. created' = created \/ created' = TRUE
    BY Zenon DEF Tick, OpenFile, fileVars
  <2>3. created \in BOOLEAN /\ now \in Nat
    BY DEF IInv, TypeInv
  <2>4. created' \in BOOLEAN
    BY <2>2, <2>3, Zenon
  <2>5. now' \in Nat
    BY <2>1, <2>3
  <2>. QED
    BY <2>2, <2>4, <2>5, Zenon
<1>1. /\ heartbeat' = heartbeat /\ file' = file /\ writerAt' = writerAt /\ full' = full /\ off' = off
      /\ committed' = committed
      /\ readerAt' = readerAt /\ data' = data /\ readNow' = readNow /\ prev' = prev /\ given' = given
      /\ result' = result /\ committedAtStart' = committedAtStart /\ disturbed' = disturbed
  BY DEF Tick, OpenFile, fileVars, readVars
<1>2. TypeInv'
  BY <1>0, <1>1 DEF IInv, TypeInv
<1>3. WriterInv'
  BY <1>0, <1>1 DEF IInv, WriterInv
<1>4. QuietInv' /\ ForwardInv'
  BY <1>1 DEF IInv, QuietInv, ForwardInv
<1>. QED
  BY <1>1, <1>2, <1>3, <1>4 DEF IInv, ReadsWholeSnapshot, QuietReadSucceeds

\* A snapshot is begun.
LEMMA BeginWriteStep == ASSUME IInv, BeginWrite PROVE IInv'
<1>. DEFINE n == Len(heartbeat)
<1>1. /\ heartbeat \in Seq(Nat) /\ n \in Nat /\ heartbeat' = Append(heartbeat, now) /\ now \in Nat
      /\ heartbeat' \in Seq(Nat) /\ Len(heartbeat') = n + 1 /\ heartbeat' # <<>>
      /\ \A i \in 1..n : heartbeat'[i] = heartbeat[i]
  <2>1. heartbeat \in Seq(Nat) /\ now \in Nat /\ heartbeat' = Append(heartbeat, now)
    BY DEF BeginWrite, IInv, TypeInv
  <2>. QED
    BY <2>1
<1>2. PICK len \in BodyLens : full' = Encode(n + 1, len)
  BY DEF BeginWrite
<1>3. full' \in Seq(Blocks(n + 1)) /\ Len(full') = len + 1 /\ len \in Nat \ {0}
  BY <1>1, <1>2, EncodeFacts
<1>4. /\ created /\ created' = created /\ writerAt' = "pwrite" /\ off' = 0 /\ disturbed' = TRUE
      /\ file' = file /\ committed' = committed /\ now' = now /\ data' = data /\ prev' = prev
      /\ readNow' = readNow /\ readerAt' = readerAt /\ result' = result /\ given' = given
  BY DEF BeginWrite, readVars
<1>5. Seq(Blocks(n)) \subseteq Seq(Blocks(n + 1))
  BY <1>1, BlocksGrow
<1>6. TypeInv'
  BY <1>1, <1>4, <1>5 DEF IInv, TypeInv
<1>7. WriterInv'
  <2>1. Whole(full', n + 1)
    BY <1>2 DEF Whole
  <2>2. committed < n + 1
    BY <1>1 DEF IInv, TypeInv, WriterInv
  <2>3. file \in Seq(Blocks(n))
    BY DEF IInv, TypeInv
  <2>4. off' <= Len(full') /\ off' < Len(full') /\ off' <= Len(file') /\ \A i \in 1..off' : file'[i] = full'[i]
    BY <1>3, <1>4, <2>3
  <2>5. committed' <= Len(heartbeat') /\ committed' < Len(heartbeat') /\ Whole(full', Len(heartbeat'))
    BY <1>1, <1>4, <2>1, <2>2 DEF IInv, TypeInv
  <2>6. created'
    BY <1>4
  <2>. QED
    BY <1>4, <2>4, <2>5, <2>6 DEF WriterInv
<1>8. QuietInv' /\ ForwardInv'
  BY <1>4 DEF IInv, QuietInv, ForwardInv
<1>9. ReadsWholeSnapshot' /\ QuietReadSucceeds'
  BY <1>4 DEF IInv, ReadsWholeSnapshot, QuietReadSucceeds
<1>. QED
  BY <1>6, <1>7, <1>8, <1>9 DEF IInv

\* One more block of the newest snapshot reaches the file.
LEMMA PwriteStep == ASSUME IInv, Pwrite PROVE IInv'
<1>. DEFINE n == Len(heartbeat)
            size == IF off + 1 > Len(file) THEN off + 1 ELSE Len(file)
<1>1. /\ writerAt = "pwrite" /\ off' = off + 1
      /\ file' = [i \in 1..size |-> IF i = off + 1 THEN full[i] ELSE file[i]]
      /\ writerAt' = IF off + 1 = Len(full) THEN "ftruncate" ELSE "pwrite"
      /\ now' = now /\ created' = created /\ heartbeat' = heartbeat /\ full' = full /\ committed' = committed
      /\ readerAt' = readerAt /\ data' = data /\ readNow' = readNow /\ prev' = prev /\ given' = given
      /\ result' = result /\ committedAtStart' = committedAtStart /\ disturbed' = disturbed
  BY DEF Pwrite, readVars
<1>2. /\ n \in Nat /\ off \in Nat /\ file \in Seq(Blocks(n)) /\ data \in Seq(Blocks(n))
      /\ Whole(full, n) /\ off < Len(full) /\ off <= Len(file) /\ committed < n
      /\ \A i \in 1..off : file[i] = full[i]
  BY <1>1 DEF IInv, TypeInv, WriterInv
<1>3. PICK len \in BodyLens : full = Encode(n, len)
  BY <1>2 DEF Whole
<1>4. n \in 1..n
  BY <1>2 DEF IInv, TypeInv
<1>5. /\ full \in Seq(Blocks(n)) /\ Len(full) = len + 1 /\ len \in Nat \ {0}
      /\ \A i \in 1..len : full[i] = Body(n, i)
  BY <1>2, <1>3, <1>4, EncodeFacts
<1>6. full[1].snap = n
  BY <1>5, Parts
<1>7. off + 1 \in 1..Len(full) /\ full[off + 1] \in Blocks(n) /\ size \in Nat \ {0} /\ off + 1 \in 1..size
  BY <1>2, <1>5
<1>8. \A i \in 1..size : i # off + 1 => i \in 1..Len(file)
  BY <1>2
<1>9. file' \in [1..size -> Blocks(n)]
  BY <1>1, <1>2, <1>7, <1>8
<1>10. file' \in Seq(Blocks(n)) /\ Len(file') = size /\ file' # <<>>
  BY <1>7, <1>9
<1>11. \A i \in 1..off + 1 : file'[i] = full[i]
  BY <1>1, <1>2, <1>7
<1>12. TypeInv'
  BY <1>1, <1>2, <1>10 DEF IInv, TypeInv
<1>13. WriterInv'
  BY <1>1, <1>2, <1>5, <1>7, <1>10, <1>11 DEF IInv, WriterInv
<1>14. QuietInv' /\ disturbed
  BY <1>1 DEF IInv, QuietInv
<1>15. ForwardInv'
  <2>1. off = 0 => file'[1] = full[1]
    BY <1>11, <1>2
  <2>2. off # 0 => file # <<>> /\ file'[1] = file[1]
    BY <1>1, <1>2, <1>7
  <2>3. prev <= n
    BY DEF IInv, TypeInv
  <2>4. data # <<>> => data[1].snap \in 1..n
    BY <1>2, BlockFacts
  <2>5. CASE off = 0
    <3>1. file'[1].snap = n /\ file' # <<>> /\ prev' = prev /\ data' = data /\ given' = given
      BY <1>1, <1>6, <1>10, <2>1, <2>5
    <3>2. data # <<>> => n >= data[1].snap
      BY <1>2, <2>4
    <3>. QED
      BY <2>3, <3>1, <3>2 DEF IInv, TypeInv, ForwardInv
  <2>6. CASE off # 0
    BY <1>1, <1>10, <2>2, <2>6 DEF IInv, ForwardInv
  <2>. QED
    BY <2>5, <2>6
<1>16. Props'
  BY <1>1, <1>14 DEF Props, IInv, ReadsWholeSnapshot, QuietReadSucceeds
<1>. QED
  BY <1>12, <1>13, <1>14, <1>15, <1>16 DEF IInv, Props

\* The rest of a longer predecessor is cut off.
LEMMA FtruncateStep == ASSUME IInv, Ftruncate PROVE IInv'
<1>. DEFINE n == Len(heartbeat)
<1>1. /\ writerAt = "ftruncate" /\ file' = SubSeq(file, 1, Len(full)) /\ writerAt' = "fsync"
      /\ now' = now /\ created' = created /\ heartbeat' = heartbeat /\ full' = full /\ off' = off
      /\ committed' = committed
      /\ readerAt' = readerAt /\ data' = data /\ readNow' = readNow /\ prev' = prev /\ given' = given
      /\ result' = result /\ committedAtStart' = committedAtStart /\ disturbed' = disturbed
  BY DEF Ftruncate, readVars
<1>2. /\ n \in Nat /\ file \in Seq(Blocks(n)) /\ Whole(full, n) /\ off = Len(full) /\ off <= Len(file)
      /\ committed < n /\ \A i \in 1..off : file[i] = full[i]
  BY <1>1 DEF IInv, TypeInv, WriterInv
<1>3. PICK len \in BodyLens : full = Encode(n, len)
  BY <1>2 DEF Whole
<1>4. n \in 1..n
  BY <1>2 DEF IInv, TypeInv
<1>5. full \in Seq(Blocks(n)) /\ Len(full) = len + 1 /\ len \in Nat \ {0}
  BY <1>2, <1>3, <1>4, EncodeFacts
<1>6. /\ file' \in Seq(Blocks(n)) /\ Len(file') = Len(full)
      /\ \A i \in 1..Len(full) : file'[i] = file[i]
  BY <1>1, <1>2, <1>5
<1>7. file' = full
  BY <1>2, <1>5, <1>6
<1>8. TypeInv' /\ WriterInv'
  BY <1>1, <1>2, <1>5, <1>6, <1>7 DEF IInv, TypeInv, WriterInv
<1>9. QuietInv' /\ disturbed
  BY <1>1 DEF IInv, QuietInv
<1>10. file # <<>> /\ file' # <<>> /\ file'[1] = file[1]
  BY <1>2, <1>5, <1>6
<1>11. ForwardInv'
  BY <1>1, <1>10 DEF IInv, ForwardInv
<1>12. Props'
  BY <1>1, <1>9 DEF Props, IInv, ReadsWholeSnapshot, QuietReadSucceeds
<1>. QED
  BY <1>8, <1>9, <1>11, <1>12 DEF IInv, Props

\* The write returns: with nil, or with an error from any of its calls.
LEMMA WriteEnds == ASSUME IInv, Fsync \/ WriteFails PROVE IInv'
<1>1. /\ writerAt # "idle" /\ writerAt' = "idle" /\ off' = 0 /\ file' = file
      /\ now' = now /\ created' = created /\ heartbeat' = heartbeat
      /\ readerAt' = readerAt /\ data' = data /\ readNow' = readNow /\ prev' = prev /\ given' = given
      /\ result' = result /\ committedAtStart' = committedAtStart /\ disturbed' = disturbed
      /\ committed' = committed \/ (writerAt = "fsync" /\ committed' = Len(heartbeat))
  BY DEF Fsync, WriteFails, readVars
<1>2. /\ Len(heartbeat) \in Nat /\ committed < Len(heartbeat) /\ committed \in Nat
      /\ writerAt = "fsync" => Whole(file, Len(heartbeat))
  BY <1>1 DEF IInv, TypeInv, WriterInv
<1>3. TypeInv'
  BY <1>1, <1>2 DEF IInv, TypeInv
<1>4. WriterInv'
  BY <1>1, <1>2 DEF IInv, WriterInv
<1>5. disturbed
  BY <1>1 DEF IInv, QuietInv
<1>. QED
  BY <1>1, <1>3, <1>4, <1>5 DEF IInv, QuietInv, ForwardInv, ReadsWholeSnapshot, QuietReadSucceeds

-----------------------------------------------------------------------------
\* A Load leaves the file and its writer alone.
LEMMA WriterAlone ==
    ASSUME IInv, UNCHANGED fileVars
    PROVE  WriterInv' /\ Len(heartbeat') = Len(heartbeat) /\ heartbeat' = heartbeat
BY DEF fileVars, IInv, WriterInv

\* A Load begins; it counts as disturbed from the start if a write is under
\* way or the last one failed.
LEMMA BeginLoadStep == ASSUME IInv, BeginLoad PROVE IInv'
<1>1. /\ data' = <<>> /\ readNow' = now /\ result' = NoResult /\ committedAtStart' = committed
      /\ disturbed' = (writerAt # "idle" \/ committed # Len(heartbeat)) /\ readerAt' = "first"
      /\ now' = now /\ prev' = prev /\ given' = given /\ UNCHANGED fileVars
  BY DEF BeginLoad
<1>2. created' = created /\ file' = file /\ heartbeat' = heartbeat /\ writerAt' = writerAt /\ off' = off /\ committed' = committed
  BY <1>1 DEF fileVars
<1>3. WriterInv'
  BY <1>1, WriterAlone
<1>4. result'.kind = "none"
  BY <1>1 DEF NoResult
<1>5. disturbed' \in BOOLEAN
  BY <1>1
<1>6. data' \in Seq(Blocks(Len(heartbeat)))
  BY <1>1
<1>7. TypeInv'
  BY <1>1, <1>2, <1>4, <1>5, <1>6 DEF IInv, TypeInv
<1>8. QuietInv'
  <2>1. file \in Seq(Blocks(Len(heartbeat)))
    BY DEF IInv, TypeInv
  <2>2. Prefix(data', file')
    BY <1>1, <1>2, <2>1 DEF Prefix
  <2>3. ~disturbed' => writerAt = "idle" /\ committed = Len(heartbeat)
    BY <1>1
  <2>. QED
    BY <1>1, <1>2, <2>2, <2>3 DEF QuietInv
<1>9. ForwardInv'
  BY <1>1, <1>2 DEF IInv, ForwardInv
<1>. QED
  BY <1>3, <1>4, <1>7, <1>8, <1>9 DEF IInv, ReadsWholeSnapshot, QuietReadSucceeds

\* The reader gets one more block.
LEMMA ReadBlockStep == ASSUME IInv, ReadBlock PROVE IInv'
<1>. DEFINE n == Len(heartbeat)
            b == file[Len(data) + 1]
<1>1. /\ Len(data) < Len(file) /\ data' = Append(data, b)
      /\ now' = now /\ UNCHANGED fileVars /\ readerAt' = readerAt /\ readNow' = readNow /\ prev' = prev
      /\ given' = given /\ result' = result /\ committedAtStart' = committedAtStart /\ disturbed' = disturbed
  BY DEF ReadBlock
<1>2. created' = created /\ file' = file /\ heartbeat' = heartbeat /\ writerAt' = writerAt /\ off' = off /\ committed' = committed
  BY <1>1 DEF fileVars
<1>3. WriterInv'
  BY <1>1, WriterAlone
<1>4. /\ n \in Nat /\ file \in Seq(Blocks(n)) /\ data \in Seq(Blocks(n)) /\ Len(data) \in Nat /\ Len(file) \in Nat
      /\ prev \in 0..n
  BY DEF IInv, TypeInv
<1>5. Len(data) + 1 \in 1..Len(file) /\ b \in Blocks(n)
  BY <1>1, <1>4
<1>6. /\ data' \in Seq(Blocks(n)) /\ Len(data') = Len(data) + 1 /\ data' # <<>> /\ data'[Len(data) + 1] = b
      /\ \A i \in 1..Len(data) : data'[i] = data[i]
  BY <1>1, <1>4, <1>5
<1>7. TypeInv'
  BY <1>1, <1>2, <1>6 DEF IInv, TypeInv
<1>8. Prefix(data, file) => Prefix(data', file)
  BY <1>1, <1>4, <1>6 DEF Prefix
<1>9. QuietInv'
  BY <1>1, <1>2, <1>8 DEF IInv, QuietInv
<1>10. file # <<>> /\ file[1] \in Blocks(n) /\ file[1].snap \in 1..n
  BY <1>1, <1>4, BlockFacts
<1>11. ForwardInv'
  <2>1. CASE data = <<>>
    <3>1. data'[1] = file[1]
      BY <1>6, <2>1
    <3>2. file[1].snap >= prev
      BY <1>4, <1>10 DEF IInv, ForwardInv
    <3>. QED
      BY <1>1, <1>2, <1>10, <3>1, <3>2 DEF IInv, ForwardInv
  <2>2. CASE data # <<>>
    <3>1. data'[1] = data[1]
      BY <1>4, <1>6, <2>2
    <3>. QED
      BY <1>1, <1>2, <2>2, <3>1 DEF IInv, ForwardInv
  <2>. QED
    BY <2>1, <2>2
<1>. QED
  BY <1>1, <1>2, <1>3, <1>7, <1>9, <1>11 DEF IInv, ReadsWholeSnapshot, QuietReadSucceeds

\* At the end of the file, an undisturbed Load after a committed write has
\* that snapshot.
LEMMA QuietData ==
    ASSUME IInv, AtEOF, ~disturbed, committedAtStart # 0
    PROVE  VerifyTrailer(data) = "ok" /\ data[Len(data)].snap = committedAtStart
<1>. DEFINE n == Len(heartbeat)
<1>1. /\ committedAtStart = committed /\ committed = n /\ n \in Nat /\ n \in 1..n
      /\ Whole(file, n) /\ Prefix(data, file) /\ Len(data) >= Len(file)
      /\ file \in Seq(Blocks(n)) /\ data \in Seq(Blocks(n))
  BY DEF IInv, QuietInv, WriterInv, TypeInv, AtEOF
<1>2. data = file
  BY <1>1 DEF Prefix
<1>. QED
  BY <1>1, <1>2, WholeVerifies

\* What ends a Load leaves all but the reader alone.
LEMMA LoadEnds ==
    ASSUME IInv, UNCHANGED fileVars, now' = now, readNow' = readNow, disturbed' = disturbed,
           committedAtStart' = committedAtStart, readerAt' \in {"idle", "second"}, data' = <<>>,
           prev' \in 0..Len(heartbeat), given' = prev', prev' # 0 => file # <<>> /\ file[1].snap >= prev',
           result'.kind \in {"read", "previous"} => result'.snap \in 1..Len(heartbeat),
           ReadsWholeSnapshot', QuietReadSucceeds'
    PROVE  IInv'
<1>1. created' = created /\ file' = file /\ heartbeat' = heartbeat /\ writerAt' = writerAt /\ off' = off /\ committed' = committed
  BY DEF fileVars
<1>2. WriterInv'
  BY WriterAlone
<1>3. data' \in Seq(Blocks(Len(heartbeat))) /\ file \in Seq(Blocks(Len(heartbeat)))
  BY DEF IInv, TypeInv
<1>4. TypeInv'
  BY <1>1, <1>3 DEF IInv, TypeInv
<1>5. Prefix(data', file)
  BY <1>3 DEF Prefix
<1>6. QuietInv'
  BY <1>1, <1>5 DEF IInv, QuietInv
<1>7. ForwardInv'
  BY <1>1 DEF ForwardInv
<1>. QED
  BY <1>2, <1>4, <1>6, <1>7 DEF IInv

\* The file is read as a whole snapshot, not older than the last one returned.
LEMMA ReadSucceedsStep ==
    ASSUME IInv, ReadSucceeds
    PROVE  IInv' /\ result'.kind = "read" /\ result'.snap >= given
<1>. DEFINE n == Len(heartbeat)
            s == data[Len(data)].snap
<1>1. /\ AtEOF /\ VerifyTrailer(data) = "ok"
      /\ result' = [kind |-> "read", snap |-> s, body |-> data] /\ prev' = s /\ given' = result'.snap
      /\ readerAt' = "idle" /\ data' = <<>>
      /\ now' = now /\ UNCHANGED fileVars /\ readNow' = readNow /\ committedAtStart' = committedAtStart
      /\ disturbed' = disturbed
  BY DEF ReadSucceeds, ReturnSnapshot
<1>2. n \in Nat /\ data \in Seq(Blocks(n)) /\ prev \in 0..n
  BY DEF IInv, TypeInv
<1>3. data # <<>> /\ s \in 1..n /\ Whole(data, s) /\ data[1].snap = s
  BY <1>1, <1>2, VerifiesWhole
<1>4. result'.kind = "read" /\ result'.snap = s /\ result'.body = data
  BY <1>1
<1>5. ReadsWholeSnapshot'
  BY <1>3, <1>4 DEF ReadsWholeSnapshot, Whole
<1>6. QuietReadSucceeds'
  BY <1>1, <1>4, QuietData DEF QuietReadSucceeds
<1>8. file # <<>> /\ file[1].snap >= s /\ s >= prev /\ given = prev
  BY <1>3 DEF IInv, ForwardInv
<1>9. given' = prev' /\ prev' \in 0..n
  BY <1>1, <1>3, <1>4
<1>10. IInv'
  BY <1>1, <1>3, <1>4, <1>5, <1>6, <1>8, <1>9, LoadEnds
<1>. QED
  BY <1>4, <1>8, <1>10

\* The Load is answered with an error.
LEMMA ErrorStep ==
    ASSUME IInv, NEW kind \in {"not_reporting", "invalid", "torn"}, ReturnError(kind),
           committedAtStart # 0 => disturbed
    PROVE  IInv' /\ result'.kind = kind
<1>1. /\ result'.kind = kind /\ readerAt' = "idle" /\ data' = <<>>
      /\ now' = now /\ UNCHANGED fileVars /\ readNow' = readNow /\ prev' = prev /\ given' = given
      /\ committedAtStart' = committedAtStart /\ disturbed' = disturbed
  BY DEF ReturnError
<1>2. ReadsWholeSnapshot' /\ QuietReadSucceeds'
  BY <1>1 DEF ReadsWholeSnapshot, QuietReadSucceeds
<1>3. /\ prev' \in 0..Len(heartbeat) /\ given' = prev'
      /\ prev' # 0 => file # <<>> /\ file[1].snap >= prev'
      /\ ~(result'.kind \in {"read", "previous"})
  BY <1>1 DEF IInv, TypeInv, ForwardInv
<1>. QED
  BY <1>1, <1>2, <1>3, LoadEnds

\* There is no file yet, or it does not verify, at the end of a Load or before
\* it tries again.
LEMMA FailedReadStep ==
    ASSUME IInv, ReadMissing \/ ReadInvalid \/ Retry
    PROVE  IInv' /\ ~(result'.kind \in {"read", "previous"} /\ result' # result)
<1>1. CASE ReadMissing
  <2>1. committedAtStart # 0 => disturbed
    BY <1>1 DEF ReadMissing, IInv, QuietInv, WriterInv, TypeInv
  <2>. QED
    BY <1>1, <2>1, ErrorStep DEF ReadMissing
<1>2. CASE ReadInvalid
  <2>1. committedAtStart # 0 => disturbed
    BY <1>2, QuietData DEF ReadInvalid
  <2>. QED
    BY <1>2, <2>1, ErrorStep DEF ReadInvalid
<1>3. CASE Retry
  <2>1. /\ readerAt' = "second" /\ data' = <<>> /\ result' = result
        /\ now' = now /\ UNCHANGED fileVars /\ readNow' = readNow /\ prev' = prev /\ given' = given
        /\ committedAtStart' = committedAtStart /\ disturbed' = disturbed
    BY <1>3 DEF Retry
  <2>2. heartbeat' = heartbeat
    BY <2>1 DEF fileVars
  <2>3. ReadsWholeSnapshot' /\ QuietReadSucceeds'
    BY <2>1, <2>2 DEF IInv, ReadsWholeSnapshot, QuietReadSucceeds
  <2>4. /\ prev' \in 0..Len(heartbeat) /\ given' = prev'
        /\ prev' # 0 => file # <<>> /\ file[1].snap >= prev'
        /\ result'.kind \in {"read", "previous"} => result'.snap \in 1..Len(heartbeat)
    BY <2>1 DEF IInv, TypeInv, ForwardInv
  <2>. QED
    BY <2>1, <2>3, <2>4, LoadEnds
<1>. QED
  BY <1>1, <1>2, <1>3

\* The second read is torn too: the snapshot in memory, while it is fresh.
LEMMA RetryTornStep ==
    ASSUME IInv, RetryTorn
    PROVE  IInv' /\ (result'.kind \in {"read", "previous"} => result'.snap >= given)
<1>1. AtEOF /\ VerifyTrailer(data) = "torn"
  BY DEF RetryTorn
<1>2. committedAtStart # 0 => disturbed
  BY <1>1, QuietData
<1>3. CASE prev # 0 /\ ~ IsStale(heartbeat[prev], readNow)
  <2>1. /\ result' = [kind |-> "previous", snap |-> prev, body |-> <<>>] /\ given' = prev
        /\ readerAt' = "idle" /\ data' = <<>>
        /\ now' = now /\ UNCHANGED fileVars /\ readNow' = readNow /\ prev' = prev
        /\ committedAtStart' = committedAtStart /\ disturbed' = disturbed
    BY <1>3 DEF RetryTorn
  <2>2. result'.kind = "previous" /\ result'.snap = prev /\ heartbeat' = heartbeat
    BY <2>1 DEF fileVars
  <2>3. prev \in 1..Len(heartbeat) /\ heartbeat[prev] \in Nat /\ readNow \in Nat /\ given = prev
    BY <1>3 DEF IInv, TypeInv, ForwardInv
  <2>5. ReadsWholeSnapshot' /\ QuietReadSucceeds'
    BY <1>2, <2>1, <2>2 DEF ReadsWholeSnapshot, QuietReadSucceeds
  <2>6. /\ prev' \in 0..Len(heartbeat) /\ given' = prev'
        /\ prev' # 0 => file # <<>> /\ file[1].snap >= prev'
        /\ result'.snap \in 1..Len(heartbeat)
    BY <2>1, <2>2, <2>3 DEF IInv, TypeInv, ForwardInv
  <2>7. IInv'
    BY <2>1, <2>5, <2>6, LoadEnds
  <2>. QED
    BY <2>2, <2>3, <2>7
<1>4. CASE ~(prev # 0 /\ ~ IsStale(heartbeat[prev], readNow))
  <2>1. ReturnError("torn")
    BY <1>4 DEF RetryTorn
  <2>. QED
    BY <1>2, <2>1, ErrorStep
<1>. QED
  BY <1>3, <1>4

\* IInv is inductive.
LEMMA NextIInv == ASSUME IInv, [Next]_vars PROVE IInv'
<1>1. CASE UNCHANGED vars
  <2>1. UNCHANGED fileVars /\ UNCHANGED <<now, readerAt, data, readNow, prev, given, result, committedAtStart, disturbed>>
    BY <1>1 DEF vars, readVars
  <2>2. WriterInv'
    BY <2>1, WriterAlone
  <2>. QED
    BY <2>1, <2>2 DEF fileVars, IInv, TypeInv, QuietInv, ForwardInv, ReadsWholeSnapshot, QuietReadSucceeds
<1>2. CASE Next
  BY <1>2, QuietSteps, BeginWriteStep, PwriteStep, FtruncateStep, WriteEnds, BeginLoadStep, ReadBlockStep,
     ReadSucceedsStep, FailedReadStep, RetryTornStep DEF Next, WriterStep, ReaderStep
<1>. QED
  BY <1>1, <1>2

-----------------------------------------------------------------------------
\* What a Load takes from the file is one whole snapshot, for any number and
\* any lengths of snapshots, whatever write it overlapped (verifyTrailer).
THEOREM WholeSnapshots == Spec => []ReadsWholeSnapshot
<1>1. IInv /\ [Next]_vars => IInv'
  BY NextIInv
<1>2. IInv => ReadsWholeSnapshot
  BY DEF IInv
<1>. QED
  BY InitIInv, <1>1, <1>2, PTL DEF Spec

\* A Load that no write overlaps, after a write that returned nil, gives that
\* write's snapshot: no shorter snapshot is spoilt by the rest of a longer one
\* (WriteFD truncates; verifyTrailer).
THEOREM QuietReads == Spec => []QuietReadSucceeds
<1>1. IInv /\ [Next]_vars => IInv'
  BY NextIInv
<1>2. IInv => QuietReadSucceeds
  BY DEF IInv
<1>. QED
  BY InitIInv, <1>1, <1>2, PTL DEF Spec

\* No Load returns an older snapshot than the one before: the first block of
\* the file is never older than what was returned (WriteFD, FileProvider.prev).
THEOREM NeverOlder == Spec => LoadsMoveForward
<1>1. IInv /\ [Next]_vars => IInv'
  BY NextIInv
<1>2. ASSUME IInv, [Next]_vars
      PROVE  [Answered' /\ ~ Answered => result'.snap >= given]_vars
  <2>. SUFFICES ASSUME Next, Answered', ~ Answered
                PROVE  result'.snap >= given
    BY <1>2 DEF Answered
  <2>1. CASE Tick \/ WriterStep
    BY <2>1 DEF Answered, Tick, WriterStep, OpenFile, BeginWrite, Pwrite, Ftruncate, Fsync, WriteFails, readVars
  <2>2. CASE BeginLoad \/ ReadBlock
    BY <2>2 DEF Answered, BeginLoad, ReadBlock, NoResult
  <2>3. CASE ReadMissing \/ ReadInvalid \/ Retry
    BY <1>2, <2>3, FailedReadStep DEF Answered
  <2>. QED
    BY <1>2, <2>1, <2>2, <2>3, ReadSucceedsStep, RetryTornStep DEF Next, ReaderStep, Answered
<1>. QED
  BY InitIInv, <1>1, <1>2, PTL DEF Spec, LoadsMoveForward
=============================================================================
