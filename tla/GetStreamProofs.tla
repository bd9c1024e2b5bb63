-------------------------- MODULE GetStreamProofs --------------------------
(***************************************************************************)
(* Proofs about GetStream, for every set of clients, every set of envelope *)
(* sizes, every number of envelopes and crashes, and every budget.         *)
(***************************************************************************)
EXTENDS GetStream, SequenceTheorems, FiniteSetTheorems, TLAPS

\* Frame i ends where the next one starts, or where the stream does.
Contiguous(i) ==
  FrameEnd(log[i]) = IF i < Len(log) THEN log[i + 1].at ELSE tail

(***************************************************************************)
(* The shape of the stream: frames start behind the version byte and       *)
(* behind one another; each of them is contiguous with its successor, up   *)
(* to the first one a crash cut; that one starts inside the file.          *)
(***************************************************************************)
LogInv ==
  /\ disk <= tail
  /\ writer = "open" => disk >= 1
  /\ writer # "open" => tail = disk
  /\ Len(log) = 0 => tail <= 1
  /\ Len(log) > 0 => log[1].at = 1
  /\ \A i \in 1..Len(log) : log[i].at >= 1 /\ log[i].at < tail
  /\ \A i, j \in 1..Len(log) : i < j => log[i].at < log[j].at
  /\ \A i \in 1..Len(log) : (\A t \in tornAt : log[i].at < t) => Contiguous(i)
  /\ \A t \in tornAt : t < disk /\ \E j \in 1..Len(log) : log[j].at = t

\* Client c has been sent the frames 1..m, and the last of them is in the file.
PrefixSent(c) ==
  /\ sent[c] = [i \in 1..Len(sent[c]) |-> i]
  /\ Len(sent[c]) <= Len(log)
  /\ off[c] = OffsetAfter(Len(sent[c]))
  /\ Len(sent[c]) > 0 => log[Len(sent[c])].at < disk

\* Where the next read of client c's worker starts: a first one at the offset.
ReadAt(c) == IF phase[c] = "reading" THEN pos[c] ELSE off[c]

FetchInv(c) ==
  /\ BeforeTear(off[c]) /\ ~astray[c] => PrefixSent(c)
  /\ off[c] >= 1
  /\ phase[c] = "idle" => off[c] = ResumeOffset(fetched[c])
  /\ phase[c] = "waiting" => off[c] = ResumeOffset(start[c])
  /\ phase[c] \in {"reading", "replied"} => off[c] >= 2
  /\ ~partial[c] => fetched[c] <= disk /\ (off[c] <= disk \/ off[c] = 1)
  /\ ~partial[c] => ReadAt(c) = off[c]

BudgetInv(c) ==
  LET bytes == Lesser(ServerMaxBytes, limit[c].bytes)
      envs  == Lesser(ServerMaxEnvelopes, limit[c].envelopes)
      count == Len(sent[c]) - base[c]
  IN /\ phase[c] = "reading" =>
          /\ bytesRead[c] + bytesLeft[c] = bytes
          /\ envsLeft[c] >= 1
          /\ limit[c].envelopes > 0 => count + envsLeft[c] = envs
          /\ Sizes # {}
     /\ phase[c] = "replied" =>
          /\ \E n \in Sizes : bytesRead[c] <= bytes + BytesRead(n)
          /\ limit[c].envelopes > 0 => count <= envs

\* The callbacks lag behind by the segment under way.
CountInv(c) ==
  /\ base[c] <= Len(sent[c])
  /\ Len(delivered[c]) =
       IF phase[c] \in {"reading", "replied"} THEN base[c] ELSE Len(sent[c])

IInv ==
  /\ TypeOK
  /\ LogInv
  /\ \A c \in Clients : FetchInv(c)
  /\ \A c \in Clients : BudgetInv(c)
  /\ \A c \in Clients : CountInv(c)

----------------------------------------------------------------------------
(* The frame format and what a read returns                                *)

\* The reader's arithmetic agrees with the prefix protobuf wrote.
LEMMA SizeFacts ==
  ASSUME NEW n \in Sizes
  PROVE  /\ n \in Nat
         /\ VarintSize(n) \in Nat
         /\ FrameSize(n) \in Nat
         /\ BytesRead(n) = FrameSize(n)
         /\ BytesRead(n) >= 2
  BY SMT, SizesAssumption DEF VarintSize, FrameSize, BytesRead

\* What is known of a frame of the log.
LEMMA FrameFacts ==
  ASSUME StoreTypeOK, NEW i \in 1..Len(log)
  PROVE  /\ log[i] \in Frames
         /\ log[i].at \in Nat
         /\ log[i].size \in Sizes
         /\ FrameEnd(log[i]) \in Nat
         /\ FrameEnd(log[i]) = log[i].at + BytesRead(log[i].size)
         /\ FrameEnd(log[i]) > log[i].at + 1
  <1>1. log[i] \in Frames
    BY ElementOfSeq DEF StoreTypeOK
  <1>2. log[i].at \in Nat /\ log[i].size \in Sizes
    BY <1>1 DEF Frames
  <1> QED BY <1>1, <1>2, SizeFacts DEF FrameEnd

\* The bytes of a frame end inside the file.
LEMMA ExtentFacts ==
  ASSUME StoreTypeOK, NEW i \in 1..Len(log)
  PROVE  ExtentEnd(i) \in Nat /\ ExtentEnd(i) <= disk
  <1>1. Len(log) \in Nat /\ disk \in Nat
    BY LenProperties DEF StoreTypeOK
  <1>2. CASE i < Len(log)
    <2>1. i + 1 \in 1..Len(log)
      BY <1>1, <1>2
    <2> QED BY <1>1, <2>1, FrameFacts DEF ExtentEnd
  <1>3. CASE ~(i < Len(log))
    BY <1>1, <1>3 DEF ExtentEnd
  <1> QED BY <1>2, <1>3

\* Every read returns a failure or moves the offset on by the size of a frame,
\* and a read that returns a whole envelope stays inside the file and leaves
\* the parser where the offset goes.
LEMMA ReadShape ==
  ASSUME StoreTypeOK, NEW o \in Nat, NEW r \in ReadResults(o), r.ok
  PROVE  /\ o < disk
         /\ r.env \in Nat
         /\ r.whole \in BOOLEAN
         /\ r.stop \in Nat
         /\ \E n \in Sizes : r.bytes = BytesRead(n)
         /\ r.whole => o + r.bytes <= disk /\ r.stop = o + r.bytes
  <1>1. CASE o >= disk
    BY <1>1 DEF ReadResults, ReadFailure
  <1>2. ASSUME NEW e \in Nat, NEW w \in BOOLEAN, NEW n \in Sizes, r = ReadSuccess(e, w, n, o)
        PROVE  /\ r.env = e /\ r.whole = w /\ r.bytes = BytesRead(n)
               /\ r.stop = Lesser(o + BytesRead(n), disk) /\ r.stop \in Nat
               /\ BytesRead(n) \in Nat
    <2>1. /\ r.env = e /\ r.whole = w /\ r.bytes = BytesRead(n)
          /\ r.stop = Lesser(o + BytesRead(n), disk)
      BY <1>2, SizeFacts DEF ReadSuccess
    <2> QED BY <2>1, SizeFacts DEF Lesser, StoreTypeOK
  <1>3. ASSUME r \in ReadGarbage(o)
        PROVE  /\ r.env \in Nat /\ r.whole = FALSE /\ r.stop \in Nat
               /\ \E n \in Sizes : r.bytes = BytesRead(n)
    <2>1. PICK n \in Sizes : r = ReadSuccess(0, FALSE, n, o)
      <3>1. r # ReadFailure
        BY DEF ReadFailure
      <3> QED BY <1>3, <3>1 DEF ReadGarbage
    <2>2. 0 \in Nat /\ FALSE \in BOOLEAN
      OBVIOUS
    <2>3. r.env = 0 /\ r.whole = FALSE /\ r.bytes = BytesRead(n) /\ r.stop \in Nat
      BY <1>2, <2>1, <2>2
    <2> QED BY <2>3
  <1>4. ASSUME NEW i \in 1..Len(log), log[i].at = o, r \in ReadFrame(i)
        PROVE  /\ r.env \in Nat /\ r.whole \in BOOLEAN /\ r.stop \in Nat
               /\ \E n \in Sizes : r.bytes = BytesRead(n)
               /\ r.whole => o + r.bytes <= disk /\ r.stop = o + r.bytes
    <2>1. CASE FrameEnd(log[i]) <= ExtentEnd(i)
      <3>1. r = ReadSuccess(i, TRUE, log[i].size, o) /\ i \in Nat
        BY <1>4, <2>1 DEF ReadFrame
      <3>2. log[i].size \in Sizes /\ FrameEnd(log[i]) \in Nat
            /\ FrameEnd(log[i]) = o + BytesRead(log[i].size)
        BY <1>4, FrameFacts
      <3>3. ExtentEnd(i) \in Nat /\ ExtentEnd(i) <= disk /\ disk \in Nat
        BY ExtentFacts DEF StoreTypeOK
      <3>4. o + BytesRead(log[i].size) <= disk
        BY <2>1, <3>2, <3>3
      <3>5. /\ r.env = i /\ r.whole = TRUE /\ r.bytes = BytesRead(log[i].size)
            /\ r.stop = Lesser(o + BytesRead(log[i].size), disk) /\ r.stop \in Nat
        BY <1>2, <3>1, <3>2
      <3>6. r.stop = o + BytesRead(log[i].size)
        BY <3>2, <3>3, <3>4, <3>5 DEF Lesser
      <3> QED BY <3>1, <3>2, <3>4, <3>5, <3>6
    <2>2. CASE r = ReadSuccess(IF ExtentEnd(i) = disk THEN i ELSE 0, FALSE, log[i].size, o)
      <3>1. log[i].size \in Sizes /\ (IF ExtentEnd(i) = disk THEN i ELSE 0) \in Nat
        BY FrameFacts
      <3> QED BY <1>2, <2>2, <3>1
    <2>3. CASE r \in ReadGarbage(o)
      BY <1>3, <2>3
    <2>4. r # ReadFailure
      BY DEF ReadFailure
    <2> QED BY <1>4, <2>1, <2>2, <2>3, <2>4 DEF ReadFrame
  <1>5. CASE o < disk
    <2>1. CASE \E i \in 1..Len(log) : log[i].at = o
      <3>1. PICK i \in 1..Len(log) : log[i].at = o /\ r \in ReadFrame(i)
        BY <1>5, <2>1 DEF ReadResults, StoreTypeOK
      <3> QED BY <1>4, <1>5, <3>1
    <2>2. CASE ~ \E i \in 1..Len(log) : log[i].at = o
      <3>1. r \in ReadGarbage(o)
        BY <1>5, <2>2 DEF ReadResults, StoreTypeOK
      <3> QED BY <1>3, <1>5, <3>1
    <2> QED BY <2>1, <2>2
  <1> QED BY <1>1, <1>5 DEF StoreTypeOK

\* A read at the start of a contiguous frame returns that frame, if anything,
\* and all of it unless it is the last one begun in the file.
LEMMA ReadContiguous ==
  ASSUME StoreTypeOK, LogInv,
         NEW k \in 1..Len(log), Contiguous(k),
         NEW r \in ReadResults(log[k].at), r.ok
  PROVE  /\ r.env = k
         /\ log[k].at + r.bytes = FrameEnd(log[k])
         /\ k < Len(log) /\ log[k + 1].at < disk => r.stop = FrameEnd(log[k])
  <1>1. log[k].at < disk
    BY FrameFacts, ReadShape
  <1>2. \A j \in 1..Len(log) : log[j].at = log[k].at => j = k
    <2> TAKE j \in 1..Len(log)
    <2>1. log[j].at \in Nat /\ log[k].at \in Nat
      BY FrameFacts
    <2> QED BY <2>1 DEF LogInv
  <1>3. r \in ReadFrame(k)
    <2>1. ~(log[k].at >= disk)
      BY <1>1, FrameFacts DEF StoreTypeOK
    <2> QED BY <1>2, <2>1 DEF ReadResults
  <1>4. \/ ExtentEnd(k) = FrameEnd(log[k])
        \/ ExtentEnd(k) = disk /\ ~(k < Len(log) /\ log[k + 1].at < disk)
    BY DEF ExtentEnd, Contiguous
  <1>5. FrameEnd(log[k]) \in Nat /\ FrameEnd(log[k]) = log[k].at + BytesRead(log[k].size)
    BY FrameFacts
  <1>6. r # ReadFailure
    BY DEF ReadFailure
  <1>7. CASE FrameEnd(log[k]) <= ExtentEnd(k)
    <2>1. r = ReadSuccess(k, TRUE, log[k].size, log[k].at)
      BY <1>3, <1>7 DEF ReadFrame
    <2>2. r.env = k /\ r.whole = TRUE /\ r.bytes = BytesRead(log[k].size)
      BY <2>1 DEF ReadSuccess
    <2>3. log[k].at \in Nat
      BY FrameFacts
    <2> QED BY <1>5, <2>2, <2>3, ReadShape
  <1>8. CASE ~(FrameEnd(log[k]) <= ExtentEnd(k))
    <2>1. ExtentEnd(k) = disk /\ ~(k < Len(log) /\ log[k + 1].at < disk)
      BY <1>4, <1>5, <1>8
    <2> QED BY <1>3, <1>5, <1>6, <1>8, <2>1 DEF ReadFrame, ReadSuccess
  <1> QED BY <1>7, <1>8

----------------------------------------------------------------------------
(* The writer                                                              *)

\* Steps of the writer that leave the log alone.
LEMMA QuietStoreStep ==
  ASSUME StoreTypeOK, LogInv, UNCHANGED <<log, tornAt>>,
         tail' \in Nat, disk' \in Nat, disk <= disk', disk' <= tail',
         writer' \in {"none", "opening", "open"}, crashes' \in Nat,
         Len(log) > 0 => tail' = tail,
         Len(log) = 0 => tail' <= 1,
         writer' = "open" => disk' >= 1,
         writer' # "open" => tail' = disk'
  PROVE  StoreTypeOK' /\ LogInv'
  <1>1. StoreTypeOK'
    BY DEF StoreTypeOK
  <1>2. Len(log) \in Nat
    BY LenProperties DEF StoreTypeOK
  <1>3. \A i \in 1..Len(log) : Contiguous(i)' <=> Contiguous(i)
    BY <1>2 DEF Contiguous, FrameEnd
  <1>4. \A t \in tornAt : t < disk'
    <2> TAKE t \in tornAt
    <2>1. t \in Nat /\ disk \in Nat
      BY DEF StoreTypeOK
    <2>2. t < disk
      BY DEF LogInv
    <2> QED BY <2>1, <2>2
  <1>5. (\A i \in 1..Len(log) : log[i].at >= 1 /\ log[i].at < tail)'
    BY <1>2 DEF LogInv
  <1> QED BY <1>1, <1>2, <1>3, <1>4, <1>5 DEF LogInv

\* An envelope appended to the buffer starts where the stream ends.
LEMMA WriteEnvelopeStep ==
  ASSUME StoreTypeOK, LogInv, NEW n \in Sizes, WriteEnvelope(n)
  PROVE  /\ StoreTypeOK' /\ LogInv'
         /\ disk <= disk'
         /\ Len(log) <= Len(log')
         /\ \A i \in 1..Len(log) : log'[i] = log[i]
  <1> DEFINE f == [at |-> tail, size |-> n]
  <1>1. f \in Frames /\ log \in Seq(Frames) /\ Len(log) \in Nat
    BY LenProperties DEF StoreTypeOK, Frames
  <1>2. /\ log' = Append(log, f)
        /\ tail' = tail + FrameSize(n)
        /\ disk' \in disk..tail'
        /\ UNCHANGED <<writer, tornAt, crashes>>
        /\ writer = "open"
    BY DEF WriteEnvelope
  <1>3. /\ log' \in Seq(Frames)
        /\ Len(log') = Len(log) + 1
        /\ \A i \in 1..Len(log) : log'[i] = log[i]
        /\ log'[Len(log) + 1] = f
    BY <1>1, <1>2, AppendProperties
  <1>4. /\ tail \in Nat /\ disk \in Nat /\ FrameSize(n) \in Nat /\ FrameSize(n) >= 2
        /\ tail' \in Nat /\ disk' \in Nat
        /\ disk <= disk' /\ disk' <= tail' /\ tail + 2 <= tail'
    BY <1>2, SizeFacts DEF StoreTypeOK
  <1>5. StoreTypeOK'
    BY <1>2, <1>3, <1>4 DEF StoreTypeOK
  <1>6. \A i \in 1..Len(log) : log[i].at \in Nat /\ log[i].at >= 1 /\ log[i].at < tail
    BY FrameFacts DEF LogInv
  <1>7. 1 <= disk /\ disk <= tail
    BY <1>2 DEF LogInv
  <1>8. (\A i, j \in 1..Len(log) : i < j => log[i].at < log[j].at)'
    <2> SUFFICES ASSUME NEW i \in 1..Len(log'), NEW j \in 1..Len(log'), i < j
                 PROVE  log'[i].at < log'[j].at
      OBVIOUS
    <2>1. i \in 1..Len(log)
      BY <1>1, <1>3
    <2>2. CASE j \in 1..Len(log)
      BY <1>3, <2>1, <2>2 DEF LogInv
    <2>3. CASE j = Len(log) + 1
      BY <1>3, <1>6, <2>1, <2>3
    <2> QED BY <1>1, <1>3, <2>2, <2>3
  <1>9. (\A i \in 1..Len(log) : log[i].at >= 1 /\ log[i].at < tail)'
    <2> SUFFICES ASSUME NEW i \in 1..Len(log')
                 PROVE  log'[i].at >= 1 /\ log'[i].at < tail'
      OBVIOUS
    <2>1. CASE i \in 1..Len(log)
      BY <1>3, <1>4, <1>6, <2>1
    <2>2. CASE i = Len(log) + 1
      BY <1>3, <1>4, <1>7, <2>2
    <2> QED BY <1>1, <1>3, <2>1, <2>2
  <1>10. (Len(log) > 0 => log[1].at = 1)'
    <2>1. CASE Len(log) = 0
      BY <1>3, <1>4, <1>7, <2>1 DEF LogInv
    <2>2. CASE Len(log) > 0
      BY <1>1, <1>3, <2>2 DEF LogInv
    <2> QED BY <1>1, <2>1, <2>2
  <1>11. (\A i \in 1..Len(log) : (\A t \in tornAt : log[i].at < t) => Contiguous(i))'
    <2> SUFFICES ASSUME NEW i \in 1..Len(log'), \A t \in tornAt' : log'[i].at < t
                 PROVE  Contiguous(i)'
      OBVIOUS
    <2>1. CASE i \in 1..Len(log)
      <3>1. Contiguous(i)
        BY <1>2, <1>3, <2>1 DEF LogInv
      <3>2. CASE i < Len(log)
        <4>1. i + 1 \in 1..Len(log)
          BY <1>1, <3>2
        <4> QED BY <1>1, <1>3, <2>1, <3>1, <3>2, <4>1 DEF Contiguous, FrameEnd
      <3>3. CASE i = Len(log)
        BY <1>1, <1>3, <2>1, <3>1, <3>3 DEF Contiguous, FrameEnd
      <3> QED BY <1>1, <2>1, <3>2, <3>3
    <2>2. CASE i = Len(log) + 1
      BY <1>1, <1>2, <1>3, <2>2 DEF Contiguous, FrameEnd
    <2> QED BY <1>1, <1>3, <2>1, <2>2
  <1>12. (\A t \in tornAt : t < disk /\ \E j \in 1..Len(log) : log[j].at = t)'
    <2> SUFFICES ASSUME NEW t \in tornAt
                 PROVE  t < disk' /\ \E j \in 1..Len(log') : log'[j].at = t
      BY <1>2
    <2>1. PICK j \in 1..Len(log) : log[j].at = t
      BY DEF LogInv
    <2>2. j \in 1..Len(log') /\ log'[j].at = t
      BY <1>1, <1>3, <2>1
    <2>3. t \in Nat /\ t < disk
      BY DEF LogInv, StoreTypeOK
    <2> QED BY <1>4, <2>2, <2>3
  <1>13. /\ disk' <= tail'
         /\ writer' = "open" => disk' >= 1
         /\ writer' # "open" => tail' = disk'
         /\ Len(log') = 0 => tail' <= 1
    BY <1>1, <1>2, <1>3, <1>4, <1>7
  <1>14. LogInv'
    BY <1>8, <1>9, <1>10, <1>11, <1>12, <1>13 DEF LogInv
  <1> QED BY <1>1, <1>3, <1>4, <1>5, <1>14

\* A crash leaves the frames that start in the file; if it cuts the last of them
\* the stream is contiguous up to that one.
LEMMA CrashStep ==
  ASSUME StoreTypeOK, LogInv, Crash
  PROVE  /\ StoreTypeOK' /\ LogInv'
         /\ disk' = disk
         /\ tornAt \subseteq tornAt'
         /\ \A i \in 1..Len(log) :
              log[i].at < disk => i \in 1..Len(log') /\ log'[i] = log[i]
  <1>1. PICK k \in 0..Len(log) :
          /\ \A i \in 1..Len(log) : (i <= k) <=> (log[i].at < disk)
          /\ log' = SubSeq(log, 1, k)
          /\ tornAt' = IF tornAt = {} /\ k > 0 /\ disk < FrameEnd(log[k])
                       THEN {log[k].at} ELSE tornAt
    BY DEF Crash
  <1>2. writer' = "none" /\ tail' = disk /\ disk' = disk /\ crashes' = crashes + 1
    BY DEF Crash
  <1>3. /\ log \in Seq(Frames) /\ Len(log) \in Nat /\ tail \in Nat /\ disk \in Nat
        /\ tornAt \in SUBSET Nat /\ crashes \in Nat
    BY LenProperties DEF StoreTypeOK
  <1>4. k \in Nat /\ k <= Len(log) /\ 1..k \subseteq 1..Len(log)
    BY <1>1, <1>3
  <1>5. /\ log' \in Seq(Frames)
        /\ Len(log') = k
        /\ \A i \in 1..k : log'[i] = log[i]
    <2>1. \A i \in 1..k : log[i] \in Frames
      BY <1>4, FrameFacts
    <2>2. /\ SubSeq(log, 1, k) \in Seq(Frames)
          /\ Len(SubSeq(log, 1, k)) = IF 1 <= k THEN k - 1 + 1 ELSE 0
          /\ \A i \in 1..(k - 1 + 1) : SubSeq(log, 1, k)[i] = log[1 + i - 1]
      BY <1>4, <2>1, SubSeqProperties
    <2> QED BY <1>1, <1>4, <2>2
  <1>6. tornAt' \in SUBSET Nat
    BY <1>1, <1>3, <1>4, FrameFacts
  <1>7. StoreTypeOK'
    BY <1>2, <1>3, <1>5, <1>6 DEF StoreTypeOK
  <1>8. \A i \in 1..k : log[i].at \in Nat /\ log[i].at >= 1 /\ log[i].at < disk
    BY <1>1, <1>4, FrameFacts DEF LogInv
  <1>9. \A t \in tornAt : t \in Nat /\ t < disk /\ \E j \in 1..k : log[j].at = t
    <2> TAKE t \in tornAt
    <2>1. t \in Nat /\ t < disk
      BY <1>3 DEF LogInv
    <2>2. PICK j \in 1..Len(log) : log[j].at = t
      BY DEF LogInv
    <2>3. j \in 1..k
      BY <1>1, <1>4, <2>1, <2>2
    <2> QED BY <2>1, <2>2, <2>3
  <1>10. tornAt \subseteq tornAt'
    BY <1>1
  <1>11. (\A t \in tornAt : t < disk /\ \E j \in 1..Len(log) : log[j].at = t)'
    <2> SUFFICES ASSUME NEW t \in tornAt'
                 PROVE  t < disk /\ \E j \in 1..k : log'[j].at = t
      BY <1>2, <1>5
    <2>1. CASE t \in tornAt
      BY <1>5, <1>9, <2>1
    <2>2. CASE t \notin tornAt
      <3>1. k > 0 /\ t = log[k].at
        BY <1>1, <2>2
      <3>2. k \in 1..k
        BY <1>4, <3>1
      <3> QED BY <1>5, <1>8, <3>1, <3>2
    <2> QED BY <2>1, <2>2
  <1>12. (\A i \in 1..Len(log) : (\A t \in tornAt : log[i].at < t) => Contiguous(i))'
    <2> SUFFICES ASSUME NEW i \in 1..k, \A t \in tornAt' : log[i].at < t
                 PROVE  Contiguous(i)'
      BY <1>5
    <2>1. i \in 1..Len(log) /\ log'[i] = log[i] /\ i \in Nat
      BY <1>4, <1>5
    <2>2. Contiguous(i)
      BY <1>10, <2>1 DEF LogInv
    <2>3. CASE i < k
      <3>1. i + 1 \in 1..k
        BY <1>4, <2>1, <2>3
      <3> QED BY <1>4, <1>5, <2>1, <2>2, <2>3, <3>1 DEF Contiguous, FrameEnd
    <2>4. CASE i = k
      <3>1. tornAt = {}
        <4> SUFFICES ASSUME NEW t \in tornAt PROVE FALSE
          OBVIOUS
        <4>1. PICK j \in 1..k : log[j].at = t
          BY <1>9
        <4>2. log[i].at < log[j].at
          BY <1>10, <4>1
        <4>3. j = i \/ j < i
          BY <1>4, <2>4
        <4>4. log[j].at < log[i].at \/ log[j].at = log[i].at
          BY <1>4, <2>1, <4>3 DEF LogInv
        <4> QED BY <1>8, <4>2, <4>4
      <3>2. FrameEnd(log[k]) <= disk
        <4>1. CASE disk < FrameEnd(log[k])
          <5>1. tornAt' = {log[k].at}
            BY <1>1, <1>4, <2>4, <3>1, <4>1
          <5> QED BY <1>8, <2>4, <5>1
        <4> QED BY <1>3, <2>1, <2>4, <4>1, FrameFacts
      <3>3. disk <= FrameEnd(log[k])
        <4>1. CASE k < Len(log)
          <5>1. k + 1 \in 1..Len(log) /\ ~(k + 1 <= k)
            BY <1>3, <1>4, <4>1
          <5>2. ~(log[k + 1].at < disk)
            BY <1>1, <5>1
          <5> QED BY <1>3, <2>2, <2>4, <4>1, <5>1, <5>2, FrameFacts DEF Contiguous
        <4>2. CASE k = Len(log)
          BY <1>3, <2>2, <2>4, <4>2 DEF Contiguous, LogInv
        <4> QED BY <1>3, <1>4, <4>1, <4>2
      <3>4. FrameEnd(log[k]) = disk
        BY <1>3, <2>1, <2>4, <3>2, <3>3, FrameFacts
      <3> QED BY <1>2, <1>5, <2>1, <2>4, <3>4 DEF Contiguous, FrameEnd
    <2> QED BY <1>4, <2>3, <2>4
  <1>13. k = 0 => disk <= 1
    <2> SUFFICES ASSUME k = 0 PROVE disk <= 1
      OBVIOUS
    <2>1. CASE Len(log) = 0
      BY <1>3, <2>1 DEF LogInv
    <2>2. CASE Len(log) > 0
      <3>1. 1 \in 1..Len(log) /\ ~(1 <= k)
        BY <1>3, <2>2
      <3>2. ~(log[1].at < disk) /\ log[1].at = 1
        BY <1>1, <2>2, <3>1 DEF LogInv
      <3> QED BY <1>3, <3>2
    <2> QED BY <1>3, <2>1, <2>2
  <1>14. (\A i, j \in 1..Len(log) : i < j => log[i].at < log[j].at)'
    BY <1>4, <1>5 DEF LogInv
  <1>15. (\A i \in 1..Len(log) : log[i].at >= 1 /\ log[i].at < tail)'
    BY <1>2, <1>5, <1>8
  <1>16. (Len(log) > 0 => log[1].at = 1)'
    BY <1>4, <1>5 DEF LogInv
  <1>17. /\ disk' <= tail'
         /\ writer' = "open" => disk' >= 1
         /\ writer' # "open" => tail' = disk'
         /\ Len(log') = 0 => tail' <= 1
    BY <1>2, <1>3, <1>5, <1>13
  <1>18. LogInv'
    BY <1>11, <1>12, <1>14, <1>15, <1>16, <1>17 DEF LogInv
  <1>19. \A i \in 1..Len(log) : log[i].at < disk => i \in 1..Len(log') /\ log'[i] = log[i]
    BY <1>1, <1>4, <1>5
  <1> QED BY <1>2, <1>7, <1>10, <1>18, <1>19

\* What every step of the writer does to a reader: the file never shrinks and
\* the frames that start in it stay where they are.
LEMMA StoreStep ==
  ASSUME StoreTypeOK, LogInv, StoreNext
  PROVE  /\ StoreTypeOK' /\ LogInv'
         /\ disk <= disk'
         /\ tornAt \subseteq tornAt'
         /\ \A i \in 1..Len(log) :
              log[i].at < disk => i \in 1..Len(log') /\ log'[i] = log[i]
  <1>1. /\ Len(log) \in Nat /\ tail \in Nat /\ disk \in Nat /\ crashes \in Nat
        /\ disk <= tail
    BY LenProperties DEF StoreTypeOK, LogInv
  <1>2. CASE OpenOutputStream
    BY <1>1, <1>2, QuietStoreStep DEF OpenOutputStream, LogInv
  <1>3. CASE WriteStreamHeader
    <2>1. Len(log) > 0 => disk > 0
      <3>1. ASSUME Len(log) > 0 PROVE log[1].at < tail /\ log[1].at = 1
        BY <1>1, <3>1 DEF LogInv
      <3> QED BY <1>1, <1>3, <3>1 DEF WriteStreamHeader, LogInv
    <2> QED BY <1>1, <1>3, <2>1, QuietStoreStep DEF WriteStreamHeader, LogInv
  <1>4. ASSUME NEW n \in Sizes, WriteEnvelope(n)
        PROVE  /\ StoreTypeOK' /\ LogInv'
               /\ disk <= disk'
               /\ tornAt \subseteq tornAt'
               /\ \A i \in 1..Len(log) :
                    log[i].at < disk => i \in 1..Len(log') /\ log'[i] = log[i]
    <2>1. tornAt' = tornAt
      BY <1>4 DEF WriteEnvelope
    <2>2. Len(log') \in Nat
      BY <1>4, WriteEnvelopeStep, LenProperties DEF StoreTypeOK
    <2> QED BY <1>1, <1>4, <2>1, <2>2, WriteEnvelopeStep
  <1>5. CASE FlushOutputStreams
    BY <1>1, <1>5, QuietStoreStep DEF FlushOutputStreams, LogInv
  <1>6. CASE CloseOutputStream
    BY <1>1, <1>6, QuietStoreStep DEF CloseOutputStream, LogInv
  <1>7. CASE Crash
    BY <1>1, <1>7, CrashStep
  <1> QED BY <1>2, <1>3, <1>4, <1>5, <1>6, <1>7 DEF StoreNext

----------------------------------------------------------------------------
(* The reader                                                              *)

\* A reader in front of a tear and of the end of the file is at the next frame.
LEMMA NextFrame ==
  ASSUME TypeOK, LogInv, NEW c \in Clients, FetchInv(c),
         BeforeTear(off[c]), ~astray[c], off[c] < disk
  PROVE  /\ PrefixSent(c)
         /\ Len(sent[c]) \in Nat
         /\ Len(sent[c]) + 1 \in 1..Len(log)
         /\ log[Len(sent[c]) + 1].at = off[c]
  <1> DEFINE m == Len(sent[c])
  <1>1. /\ StoreTypeOK /\ off[c] \in Nat /\ sent[c] \in Seq(Nat)
        /\ Len(log) \in Nat /\ tail \in Nat /\ disk \in Nat
    BY LenProperties DEF TypeOK, StoreTypeOK
  <1>2. m \in Nat
    BY <1>1, LenProperties
  <1>3. \A t \in tornAt : off[c] <= t /\ t \in Nat
    BY <1>1 DEF BeforeTear, StoreTypeOK
  <1>4. PrefixSent(c) /\ m <= Len(log) /\ off[c] = OffsetAfter(m)
    BY DEF FetchInv, PrefixSent
  <1>5. m < Len(log) /\ log[m + 1].at = off[c]
    <2>1. CASE m = 0
      <3>1. Len(log) > 0
        BY <1>1, <1>4, <2>1 DEF OffsetAfter, LogInv
      <3> QED BY <1>1, <1>4, <2>1, <3>1 DEF OffsetAfter, LogInv
    <2>2. CASE m > 0
      <3>1. m \in 1..Len(log)
        BY <1>1, <1>2, <1>4, <2>2
      <3>2. off[c] = FrameEnd(log[m])
        BY <1>4, <2>2 DEF OffsetAfter
      <3>3. log[m].at \in Nat /\ log[m].at < off[c]
        BY <1>1, <3>1, <3>2, FrameFacts
      <3>4. \A t \in tornAt : log[m].at < t
        BY <1>1, <1>3, <3>3
      <3>5. Contiguous(m)
        BY <3>1, <3>4 DEF LogInv
      <3>6. tail >= disk
        BY <1>1 DEF LogInv
      <3> QED BY <1>1, <1>2, <1>4, <3>2, <3>5, <3>6 DEF Contiguous
    <2> QED BY <1>2, <2>1, <2>2
  <1> QED BY <1>1, <1>2, <1>4, <1>5

\* In front of a tear, the envelope read next is the next frame of the log.
LEMMA ReadExtendsPrefix ==
  ASSUME TypeOK, LogInv, NEW c \in Clients, FetchInv(c),
         NEW r \in ReadResults(off[c]), r.ok, ~astray[c], BeforeTear(off[c] + r.bytes)
  PROVE  /\ PrefixSent(c)
         /\ Len(sent[c]) + 1 \in 1..Len(log)
         /\ r.env = Len(sent[c]) + 1
         /\ off[c] + r.bytes = FrameEnd(log[Len(sent[c]) + 1])
         /\ log[Len(sent[c]) + 1].at < disk
  <1> DEFINE m == Len(sent[c])
  <1>1. /\ StoreTypeOK /\ off[c] \in Nat /\ sent[c] \in Seq(Nat)
        /\ Len(log) \in Nat /\ tail \in Nat /\ disk \in Nat
    BY LenProperties DEF TypeOK, StoreTypeOK
  <1>2. m \in Nat
    BY <1>1, LenProperties
  <1>3. off[c] < disk /\ r.bytes \in Nat /\ r.bytes >= 2
    BY <1>1, ReadShape, SizeFacts
  <1>4. \A t \in tornAt : off[c] < t /\ t \in Nat
    <2> TAKE t \in tornAt
    <2>1. t \in Nat
      BY <1>1 DEF StoreTypeOK
    <2>2. off[c] + r.bytes <= t
      BY DEF BeforeTear
    <2> QED BY <1>1, <1>3, <2>1, <2>2
  <1>5. BeforeTear(off[c])
    BY <1>1, <1>4 DEF BeforeTear
  <1>6. PrefixSent(c) /\ m + 1 \in 1..Len(log) /\ log[m + 1].at = off[c]
    BY <1>3, <1>5, NextFrame
  <1>7. Contiguous(m + 1)
    BY <1>4, <1>6 DEF LogInv
  <1>8. r.env = m + 1 /\ off[c] + r.bytes = FrameEnd(log[m + 1])
    BY <1>1, <1>6, <1>7, ReadContiguous
  <1> QED BY <1>3, <1>6, <1>8

\* A read that succeeds keeps the reader's part of the invariant.
LEMMA ReadKeepsFetch ==
  ASSUME TypeOK, LogInv, NEW c \in Clients, FetchInv(c),
         NEW r \in ReadResults(ReadAt(c)), r.ok,
         UNCHANGED <<storeVars, fetched>>,
         off' = [off EXCEPT ![c] = @ + r.bytes],
         pos' = [pos EXCEPT ![c] = r.stop],
         astray' = [astray EXCEPT ![c] = @ \/ ReadAt(c) # off[c]],
         sent' = [sent EXCEPT ![c] = Append(@, r.env)],
         partial' = [partial EXCEPT ![c] = @ \/ ~r.whole],
         phase'[c] \in {"reading", "replied"}
  PROVE  FetchInv(c)'
  <1>1. /\ StoreTypeOK /\ off[c] \in Nat /\ sent[c] \in Seq(Nat)
        /\ partial[c] \in BOOLEAN /\ fetched[c] \in Nat /\ ReadAt(c) \in Nat
        /\ log' = log /\ disk' = disk /\ tornAt' = tornAt
        /\ fetched' = fetched
    BY DEF TypeOK, storeVars, ReadAt
  <1>2. off'[c] = off[c] + r.bytes /\ pos'[c] = r.stop /\ sent'[c] = Append(sent[c], r.env)
        /\ astray'[c] = (astray[c] \/ ReadAt(c) # off[c])
        /\ partial'[c] = (partial[c] \/ ~r.whole)
    BY DEF TypeOK
  <1>3. /\ r.env \in Nat /\ r.bytes \in Nat /\ r.whole \in BOOLEAN
        /\ r.whole => ReadAt(c) + r.bytes <= disk /\ r.stop = ReadAt(c) + r.bytes
        /\ r.bytes >= 2
    BY <1>1, ReadShape, SizeFacts
  <1>4. ASSUME BeforeTear(off[c])', ~astray'[c] PROVE PrefixSent(c)'
    <2> DEFINE m == Len(sent[c])
    <2>1. BeforeTear(off[c] + r.bytes)
      BY <1>1, <1>2, <1>4 DEF BeforeTear
    <2>2. /\ PrefixSent(c)
          /\ m + 1 \in 1..Len(log)
          /\ r.env = m + 1
          /\ off[c] + r.bytes = FrameEnd(log[m + 1])
          /\ log[m + 1].at < disk
      <3>1. ReadAt(c) = off[c] /\ ~astray[c]
        BY <1>2, <1>4
      <3> QED BY <2>1, <3>1, ReadExtendsPrefix
    <2>3. m \in Nat /\ Len(sent'[c]) = m + 1 /\ Len(log) \in Nat
      BY <1>1, <1>2, <1>3, AppendProperties, LenProperties DEF StoreTypeOK
    <2>4. sent'[c] = [i \in 1..(m + 1) |-> i]
      <3>1. sent[c] = [i \in 1..m |-> i]
        BY <2>2 DEF PrefixSent
      <3>2. sent'[c] \in Seq(Nat)
        BY <1>1, <1>2, <1>3, AppendProperties
      <3> DEFINE s == sent'[c]
      <3>6. s \in Seq(Nat) /\ Len(s) = m + 1
        BY <2>3, <3>2
      <3> HIDE DEF s
      <3>7. DOMAIN s = 1..(m + 1) /\ s = [i \in DOMAIN s |-> s[i]]
        BY <3>6, LenProperties
      <3>3. DOMAIN sent'[c] = 1..(m + 1) /\ sent'[c] = [i \in DOMAIN sent'[c] |-> sent'[c][i]]
        BY <3>7 DEF s
      <3>4. /\ \A i \in 1..m : sent'[c][i] = sent[c][i]
            /\ sent'[c][m + 1] = r.env
        BY <1>1, <1>2, <1>3, AppendProperties
      <3>5. \A i \in 1..(m + 1) : sent'[c][i] = i
        BY <2>2, <2>3, <3>1, <3>4
      <3> QED BY <3>3, <3>5
    <2>5. /\ sent'[c] = [i \in 1..Len(sent'[c]) |-> i]
          /\ Len(sent'[c]) \in 1..Len(log')
          /\ off'[c] = FrameEnd(log'[Len(sent'[c])])
          /\ log'[Len(sent'[c])].at < disk'
      BY <1>1, <1>2, <2>2, <2>3, <2>4
    <2>6. /\ Len(sent'[c]) <= Len(log')
          /\ Len(sent'[c]) # 0
      BY <1>1, <2>3, <2>5
    <2> QED BY <2>5, <2>6 DEF PrefixSent, OffsetAfter, FrameEnd
  <1>5. ASSUME ~partial'[c]
        PROVE  fetched'[c] <= disk' /\ off'[c] <= disk' /\ pos'[c] = off'[c]
    <2>1. ~partial[c] /\ r.whole
      BY <1>2, <1>5
    <2>2. ReadAt(c) = off[c] /\ fetched[c] <= disk
      BY <2>1 DEF FetchInv
    <2> QED BY <1>1, <1>2, <1>3, <2>1, <2>2
  <1>6. off'[c] >= 2
    BY <1>1, <1>2, <1>3
  <1>7. ~partial'[c] => ReadAt(c)' = off'[c]
    BY <1>5 DEF ReadAt
  <1>8. phase'[c] # "idle" /\ phase'[c] # "waiting" /\ off'[c] >= 1
    BY <1>1, <1>2, <1>3
  <1> QED BY <1>4, <1>5, <1>6, <1>7, <1>8, Zenon DEF FetchInv

\* The writer disturbs no reader.
LEMMA WriterKeepsFetch ==
  ASSUME TypeOK, LogInv, NEW c \in Clients, FetchInv(c),
         StoreNext, UNCHANGED clientVars
  PROVE  FetchInv(c)'
  <1>1. /\ StoreTypeOK /\ off[c] \in Nat /\ sent[c] \in Seq(Nat)
        /\ fetched[c] \in Nat /\ disk \in Nat /\ Len(log) \in Nat
    BY LenProperties DEF TypeOK, StoreTypeOK
  <1>2. /\ StoreTypeOK' /\ LogInv'
        /\ disk <= disk'
        /\ tornAt \subseteq tornAt'
        /\ \A i \in 1..Len(log) :
             log[i].at < disk => i \in 1..Len(log') /\ log'[i] = log[i]
    BY <1>1, StoreStep
  <1>3. disk' \in Nat /\ Len(log') \in Nat /\ Len(sent[c]) \in Nat
    BY <1>1, <1>2, LenProperties DEF StoreTypeOK
  <1>4. /\ off' = off /\ sent' = sent /\ fetched' = fetched /\ start' = start
        /\ phase' = phase /\ partial' = partial /\ pos' = pos /\ astray' = astray
    BY DEF clientVars
  <1>5. ASSUME BeforeTear(off[c])', ~astray[c] PROVE PrefixSent(c)'
    <2>1. BeforeTear(off[c])
      BY <1>2, <1>4, <1>5 DEF BeforeTear
    <2>2. PrefixSent(c)
      BY <1>5, <2>1 DEF FetchInv
    <2>3. CASE Len(sent[c]) = 0
      BY <1>3, <1>4, <2>2, <2>3 DEF PrefixSent, OffsetAfter
    <2>4. CASE Len(sent[c]) > 0
      <3>1. Len(sent[c]) \in 1..Len(log) /\ log[Len(sent[c])].at < disk
        BY <1>1, <1>3, <2>2, <2>4 DEF PrefixSent
      <3>2. Len(sent[c]) \in 1..Len(log') /\ log'[Len(sent[c])] = log[Len(sent[c])]
        BY <1>2, <3>1
      <3>3. log[Len(sent[c])].at \in Nat
        BY <1>1, <3>1, FrameFacts
      <3>4. log'[Len(sent[c])].at < disk'
        BY <1>1, <1>2, <1>3, <3>1, <3>2, <3>3
      <3> QED BY <1>3, <1>4, <2>2, <2>4, <3>2, <3>4 DEF PrefixSent, OffsetAfter, FrameEnd
    <2> QED BY <1>3, <2>3, <2>4
  <1>6. ~partial'[c] => fetched'[c] <= disk' /\ (off'[c] <= disk' \/ off'[c] = 1)
    BY <1>1, <1>2, <1>3, <1>4 DEF FetchInv
  <1> QED BY <1>4, <1>5, <1>6 DEF FetchInv, ReadAt

\* A step that leaves the file and the reader's position alone.
LEMMA IdleKeepsFetch ==
  ASSUME TypeOK, NEW c \in Clients, FetchInv(c),
         UNCHANGED storeVars,
         off'[c] = off[c], sent'[c] = sent[c], partial'[c] = partial[c],
         astray'[c] = astray[c], phase'[c] # "reading",
         phase'[c] = "idle" => off[c] = ResumeOffset(fetched'[c]),
         phase'[c] = "waiting" => off[c] = ResumeOffset(start'[c]),
         phase'[c] \in {"reading", "replied"} => phase[c] \in {"reading", "replied"},
         ~partial[c] => fetched'[c] <= disk
  PROVE  FetchInv(c)'
  <1>1. log' = log /\ disk' = disk /\ tornAt' = tornAt
    BY DEF storeVars
  <1>2. BeforeTear(off[c])' => BeforeTear(off[c])
    BY <1>1 DEF BeforeTear
  <1>3. PrefixSent(c) => PrefixSent(c)'
    BY <1>1 DEF PrefixSent, OffsetAfter, FrameEnd
  <1> QED BY <1>1, <1>2, <1>3 DEF FetchInv, ReadAt

----------------------------------------------------------------------------
(* The response on the wire                                                *)

WireFrames == [kind : {"start", "envelope", "end"}, env : Nat]

\* What the client takes for the envelopes of a segment: frames of the wire,
\* as many as the segment has envelopes.
LEMMA SegmentFacts ==
  ASSUME NEW s \in Seq(Nat)
  PROVE  /\ SegmentEnvelopes(Wire(s)) \in Seq(WireFrames)
         /\ Len(SegmentEnvelopes(Wire(s))) = Len(s)
  <1> DEFINE a == <<Frame("start", 0)>>
             e == Envelopes(s)
             z == <<Frame("end", 0)>>
  <1>1. Len(s) \in Nat
    BY LenProperties
  <1>2. /\ a \in Seq(WireFrames) /\ Len(a) = 1
        /\ z \in Seq(WireFrames) /\ Len(z) = 1
    BY DEF Frame, WireFrames
  <1>3. e \in Seq(WireFrames) /\ Len(e) = Len(s)
    <2>1. \A i \in 1..Len(s) : Frame("envelope", s[i]) \in WireFrames
      BY ElementOfSeq DEF Frame, WireFrames
    <2> QED BY <1>1, <2>1 DEF Envelopes
  <1>4. a \o a \in Seq(WireFrames) /\ Len(a \o a) = 2
    BY <1>2, ConcatProperties
  <1>5. a \o a \o e \in Seq(WireFrames) /\ Len(a \o a \o e) = 2 + Len(s)
    BY <1>3, <1>4, ConcatProperties
  <1>6. Wire(s) \in Seq(WireFrames) /\ Len(Wire(s)) = Len(s) + 3
    <2>1. /\ (a \o a \o e) \o z \in Seq(WireFrames)
          /\ Len((a \o a \o e) \o z) = Len(a \o a \o e) + Len(z)
      BY <1>2, <1>5, ConcatProperties
    <2> QED BY <1>1, <1>2, <1>5, <2>1 DEF Wire
  <1> DEFINE w == Wire(s)
  <1> HIDE DEF w
  <1>7. \A i \in 2..(Len(w) - 2) : w[i] \in WireFrames
    <2> TAKE i \in 2..(Len(w) - 2)
    <2>1. i \in 1..Len(w)
      BY <1>1, <1>6 DEF w
    <2> QED BY <1>6, <2>1, ElementOfSeq DEF w
  <1>8. Len(w) - 2 \in Int /\ Len(w) - 2 = Len(s) + 1
    BY <1>1, <1>6 DEF w
  <1>9. /\ SubSeq(w, 2, Len(w) - 2) \in Seq(WireFrames)
        /\ Len(SubSeq(w, 2, Len(w) - 2)) =
             IF 2 <= Len(w) - 2 THEN (Len(w) - 2) - 2 + 1 ELSE 0
    BY <1>7, <1>8, SubSeqProperties
  <1> QED BY <1>1, <1>8, <1>9 DEF SegmentEnvelopes, w

\* The segment under way is what was sent since base.
LEMMA SegmentTyped ==
  ASSUME TypeOK, NEW c \in Clients, base[c] <= Len(sent[c])
  PROVE  Segment(c) \in Seq(Nat) /\ Len(Segment(c)) = Len(sent[c]) - base[c]
  <1>1. base[c] \in Nat /\ sent[c] \in Seq(Nat) /\ Len(sent[c]) \in Nat
    BY LenProperties DEF TypeOK
  <1>2. \A i \in (base[c] + 1)..Len(sent[c]) : sent[c][i] \in Nat
    <2> TAKE i \in (base[c] + 1)..Len(sent[c])
    <2>1. i \in 1..Len(sent[c])
      BY <1>1
    <2> QED BY <1>1, <2>1, ElementOfSeq
  <1>3. /\ SubSeq(sent[c], base[c] + 1, Len(sent[c])) \in Seq(Nat)
        /\ Len(SubSeq(sent[c], base[c] + 1, Len(sent[c]))) =
             IF base[c] + 1 <= Len(sent[c]) THEN Len(sent[c]) - (base[c] + 1) + 1 ELSE 0
    BY <1>1, <1>2, SubSeqProperties
  <1> QED BY <1>1, <1>3 DEF Segment

----------------------------------------------------------------------------
(* Steps of one client and the worker that serves it                       *)

\* The parts of the invariant that are about one client.
ClientInv(c) == FetchInv(c) /\ BudgetInv(c) /\ CountInv(c)

\* Nothing of client d changes.
Untouched(d) ==
  /\ phase'[d] = phase[d] /\ fetched'[d] = fetched[d] /\ start'[d] = start[d]
  /\ target'[d] = target[d] /\ limit'[d] = limit[d] /\ off'[d] = off[d]
  /\ pos'[d] = pos[d] /\ astray'[d] = astray[d]
  /\ base'[d] = base[d] /\ bytesRead'[d] = bytesRead[d]
  /\ bytesLeft'[d] = bytesLeft[d] /\ envsLeft'[d] = envsLeft[d]
  /\ sent'[d] = sent[d] /\ delivered'[d] = delivered[d] /\ partial'[d] = partial[d]

LEMMA UntouchedKeeps ==
  ASSUME NEW d \in Clients, ClientInv(d), UNCHANGED storeVars, Untouched(d)
  PROVE  ClientInv(d)'
  <1>1. log' = log /\ disk' = disk /\ tornAt' = tornAt
    BY DEF storeVars
  <1>2. FetchInv(d)'
    BY <1>1 DEF ClientInv, Untouched, FetchInv, BeforeTear, PrefixSent, OffsetAfter,
                FrameEnd, ReadAt
  <1>3. BudgetInv(d)'
    BY DEF ClientInv, Untouched, BudgetInv
  <1>4. CountInv(d)'
    BY DEF ClientInv, Untouched, CountInv
  <1> QED BY <1>2, <1>3, <1>4 DEF ClientInv

\* A step of client c or its worker leaves the store and the other clients alone.
LEMMA OnlyOneClient ==
  ASSUME TypeOK, NEW c \in Clients, Worker(c) \/ Client(c)
  PROVE  /\ UNCHANGED storeVars
         /\ \A d \in Clients : d # c => Untouched(d)
  <1>1. UNCHANGED storeVars
    BY DEF Worker, Client, Mirror, ReceiveSegment, DropError, OpenFails,
           ReadFirst, ReadNext, EndSegment
  <1> SUFFICES ASSUME NEW d \in Clients, d # c PROVE Untouched(d)
    BY <1>1
  <1>2. CASE Mirror(c)
    BY <1>2 DEF Mirror, Untouched, TypeOK
  <1>3. CASE ReceiveSegment(c)
    BY <1>3 DEF ReceiveSegment, Untouched, TypeOK
  <1>4. CASE DropError(c)
    BY <1>4 DEF DropError, Untouched, TypeOK
  <1>5. CASE OpenFails(c)
    BY <1>5 DEF OpenFails, Untouched, TypeOK
  <1>6. CASE ReadFirst(c)
    <2>1. PICK r \in ReadResults(ResumeOffset(start[c])) :
            /\ off' = [off EXCEPT ![c] = ResumeOffset(start[c]) + r.bytes]
            /\ pos' = [pos EXCEPT ![c] = r.stop]
            /\ base' = [base EXCEPT ![c] = Len(sent[c])]
            /\ sent' = [sent EXCEPT ![c] = Append(@, r.env)]
            /\ partial' = [partial EXCEPT ![c] = @ \/ ~r.whole]
            /\ bytesRead' = [bytesRead EXCEPT ![c] = r.bytes]
            /\ envsLeft' = [envsLeft EXCEPT ![c] =
                              Decrement(Lesser(ServerMaxEnvelopes, limit[c].envelopes))]
            /\ \/ /\ bytesLeft' = [bytesLeft EXCEPT ![c] =
                                     Lesser(ServerMaxBytes, limit[c].bytes) - r.bytes]
                  /\ phase' = [phase EXCEPT ![c] = "reading"]
               \/ /\ bytesLeft' = [bytesLeft EXCEPT ![c] = Lesser(ServerMaxBytes, limit[c].bytes)]
                  /\ phase' = [phase EXCEPT ![c] = "replied"]
      BY <1>6, Zenon DEF ReadFirst
    <2>2. UNCHANGED <<fetched, start, target, limit, delivered, astray>>
      BY <1>6 DEF ReadFirst
    <2> QED BY <2>1, <2>2 DEF Untouched, TypeOK
  <1>7. CASE ReadNext(c)
    <2>1. PICK r \in ReadResults(pos[c]) :
            /\ off' = [off EXCEPT ![c] = @ + r.bytes]
            /\ pos' = [pos EXCEPT ![c] = r.stop]
            /\ astray' = [astray EXCEPT ![c] = @ \/ pos[c] # off[c]]
            /\ sent' = [sent EXCEPT ![c] = Append(@, r.env)]
            /\ partial' = [partial EXCEPT ![c] = @ \/ ~r.whole]
            /\ bytesRead' = [bytesRead EXCEPT ![c] = @ + r.bytes]
            /\ \/ envsLeft' = [envsLeft EXCEPT ![c] = Decrement(@)]
               \/ envsLeft' = envsLeft
            /\ \/ bytesLeft' = [bytesLeft EXCEPT ![c] = @ - r.bytes]
               \/ bytesLeft' = bytesLeft
            /\ phase' = [phase EXCEPT ![c] = "replied"] \/ phase' = phase
      BY <1>7, Zenon DEF ReadNext
    <2>2. UNCHANGED <<fetched, start, target, limit, base, delivered>>
      BY <1>7 DEF ReadNext
    <2> QED BY <2>1, <2>2 DEF Untouched, TypeOK
  <1>8. CASE EndSegment(c)
    BY <1>8 DEF EndSegment, Untouched, TypeOK
  <1> QED BY <1>2, <1>3, <1>4, <1>5, <1>6, <1>7, <1>8 DEF Worker, Client

\* The limits of a request and the budgets the server derives from them.
LEMMA LimitFacts ==
  ASSUME TypeOK, NEW c \in Clients
  PROVE  /\ Word \in Nat /\ Word >= 2
         /\ limit[c].bytes \in Nat /\ limit[c].envelopes \in Nat
         /\ Lesser(ServerMaxBytes, limit[c].bytes) \in 0..(Word - 1)
         /\ Lesser(ServerMaxEnvelopes, limit[c].envelopes) \in 0..(Word - 1)
         /\ limit[c].envelopes > 0 => Lesser(ServerMaxEnvelopes, limit[c].envelopes) >= 1
  <1>1. /\ limit[c].bytes \in 0..(Word - 1) /\ limit[c].envelopes \in 0..(Word - 1)
        /\ Word \in Nat /\ Word >= 2
    BY LimitsAssumption DEF TypeOK
  <1>2. ServerMaxBytes \in 1..(Word - 1) /\ ServerMaxEnvelopes \in 1..(Word - 1)
    BY LimitsAssumption
  <1> QED BY <1>1, <1>2 DEF Lesser

\* Mirror, DropError, OpenFails and EndSegment only move the control on.
LEMMA ControlSteps ==
  ASSUME TypeOK, LogInv, NEW c \in Clients, ClientInv(c),
         Mirror(c) \/ DropError(c) \/ OpenFails(c) \/ EndSegment(c)
  PROVE  TypeOK' /\ ClientInv(c)'
  <1>1. /\ UNCHANGED <<storeVars, fetched, limit, off, pos, base, bytesRead, bytesLeft,
                       envsLeft, sent, delivered, partial, astray>>
        /\ phase' \in [Clients -> Phases]
        /\ target' \in [Clients -> Nat]
        /\ start' \in [Clients -> Nat]
    <2>1. CASE Mirror(c)
      BY <2>1 DEF Mirror, TypeOK, StoreTypeOK, Phases
    <2>2. CASE DropError(c)
      BY <2>2 DEF DropError, TypeOK, Phases
    <2>3. CASE OpenFails(c)
      BY <2>3 DEF OpenFails, TypeOK, Phases
    <2>4. CASE EndSegment(c)
      BY <2>4 DEF EndSegment, TypeOK, Phases
    <2> QED BY <2>1, <2>2, <2>3, <2>4
  <1>2. StoreTypeOK'
    BY <1>1 DEF TypeOK, StoreTypeOK, storeVars
  <1>3. TypeOK'
    BY <1>1, <1>2 DEF TypeOK
  <1>4. \/ /\ phase[c] = "idle" /\ phase'[c] \in {"hung", "waiting"}
           /\ start'[c] = fetched[c]
        \/ phase[c] = "error" /\ phase'[c] = "hung" /\ start' = start
        \/ phase[c] = "waiting" /\ phase'[c] = "error" /\ start' = start
        \/ phase[c] = "reading" /\ phase'[c] = "replied" /\ start' = start
    BY DEF Mirror, DropError, OpenFails, EndSegment, TypeOK
  <1>5. FetchInv(c)'
    BY <1>1, <1>4, IdleKeepsFetch DEF ClientInv, FetchInv
  <1>6. CountInv(c)'
    BY <1>1, <1>4 DEF ClientInv, CountInv
  <1>7. BudgetInv(c)'
    <2>1. CASE phase'[c] \in {"hung", "waiting", "error"}
      BY <2>1 DEF BudgetInv
    <2>2. CASE phase[c] = "reading" /\ phase'[c] = "replied"
      <3>1. PICK n \in Sizes : TRUE
        BY <2>2 DEF ClientInv, BudgetInv
      <3>2. /\ bytesRead[c] \in Nat /\ bytesLeft[c] \in Nat /\ envsLeft[c] \in Nat
            /\ Len(sent[c]) \in Nat /\ base[c] \in Nat /\ BytesRead(n) \in Nat
        BY SizeFacts, LenProperties, LimitsAssumption DEF TypeOK
      <3>3. /\ bytesRead[c] + bytesLeft[c] = Lesser(ServerMaxBytes, limit[c].bytes)
            /\ limit[c].envelopes > 0 =>
                 Len(sent[c]) - base[c] + envsLeft[c] =
                   Lesser(ServerMaxEnvelopes, limit[c].envelopes)
        BY <2>2 DEF ClientInv, BudgetInv
      <3>4. bytesRead[c] <= Lesser(ServerMaxBytes, limit[c].bytes) + BytesRead(n)
        BY <3>2, <3>3
      <3>5. limit[c].envelopes > 0 =>
              Len(sent[c]) - base[c] <= Lesser(ServerMaxEnvelopes, limit[c].envelopes)
        BY <3>2, <3>3
      <3> QED BY <1>1, <2>2, <3>4, <3>5 DEF BudgetInv
    <2> QED BY <1>4, <2>1, <2>2
  <1> QED BY <1>3, <1>5, <1>6, <1>7 DEF ClientInv

\* The client gets a segment and asks for the next one or returns.
LEMMA ReceiveStep ==
  ASSUME TypeOK, LogInv, NEW c \in Clients, ClientInv(c), ReceiveSegment(c)
  PROVE  TypeOK' /\ ClientInv(c)'
  <1>1. /\ phase[c] = "replied"
        /\ delivered' = [delivered EXCEPT ![c] = @ \o SegmentEnvelopes(Wire(Segment(c)))]
        /\ start' = [start EXCEPT ![c] = off[c]]
        /\ UNCHANGED <<storeVars, target, off, pos, base, bytesRead, bytesLeft,
                       envsLeft, sent, partial, astray>>
    BY DEF ReceiveSegment
  <1>2. \/ /\ off[c] >= target[c]
           /\ phase' = [phase EXCEPT ![c] = "idle"]
           /\ fetched' = [fetched EXCEPT ![c] = off[c]]
        \/ /\ phase' = [phase EXCEPT ![c] = "waiting"]
           /\ fetched' = fetched
    BY DEF ReceiveSegment
  <1>3. limit' \in [Clients -> RequestLimits]
    <2>1. PICK l \in RequestLimits : limit' = [limit EXCEPT ![c] = l]
      BY DEF ReceiveSegment
    <2> QED BY <2>1 DEF TypeOK
  <1>4. /\ delivered[c] \in Seq(WireFrames) /\ Len(delivered[c]) = base[c]
        /\ base[c] <= Len(sent[c])
        /\ base[c] \in Nat /\ Len(sent[c]) \in Nat
    BY <1>1, LenProperties DEF ClientInv, CountInv, TypeOK, WireFrames
  <1> DEFINE new == SegmentEnvelopes(Wire(Segment(c)))
  <1>5. new \in Seq(WireFrames) /\ Len(new) = Len(sent[c]) - base[c]
    BY <1>4, SegmentTyped, SegmentFacts
  <1> HIDE DEF new
  <1>6. /\ delivered[c] \o new \in Seq(WireFrames)
        /\ Len(delivered[c] \o new) = Len(sent[c])
    <2>1. /\ delivered[c] \o new \in Seq(WireFrames)
          /\ Len(delivered[c] \o new) = Len(delivered[c]) + Len(new)
      BY <1>4, <1>5, ConcatProperties
    <2> QED BY <1>4, <1>5, <2>1
  <1>7. delivered' \in [Clients -> Seq(WireFrames)] /\ delivered'[c] = delivered[c] \o new
    BY <1>1, <1>6 DEF TypeOK, WireFrames, new
  <1>8. TypeOK'
    <2>1. StoreTypeOK'
      BY <1>1 DEF TypeOK, StoreTypeOK, storeVars
    <2>2. phase' \in [Clients -> Phases] /\ fetched' \in [Clients -> Nat]
      BY <1>2 DEF TypeOK, Phases
    <2> QED BY <1>1, <1>3, <1>7, <2>1, <2>2 DEF TypeOK, WireFrames
  <1>9. FetchInv(c)'
    <2>1. off[c] \in Nat /\ off[c] >= 2 /\ fetched[c] \in Nat /\ disk \in Nat
      BY <1>1 DEF ClientInv, FetchInv, TypeOK, StoreTypeOK
    <2>2. off[c] = ResumeOffset(off[c])
      BY <2>1 DEF ResumeOffset
    <2>3. start'[c] = off[c]
      BY <1>1 DEF TypeOK
    <2>4. \/ phase'[c] = "idle" /\ fetched'[c] = off[c]
          \/ phase'[c] = "waiting" /\ fetched'[c] = fetched[c]
      BY <1>2 DEF TypeOK
    <2>5. ~partial[c] => fetched'[c] <= disk
      BY <2>1, <2>4 DEF ClientInv, FetchInv
    <2> QED BY <1>1, <2>2, <2>3, <2>4, <2>5, IdleKeepsFetch DEF ClientInv
  <1>10. phase'[c] \in {"idle", "waiting"}
    BY <1>2 DEF TypeOK
  <1>11. BudgetInv(c)'
    BY <1>10 DEF BudgetInv
  <1>12. CountInv(c)'
    BY <1>1, <1>4, <1>6, <1>7, <1>10 DEF CountInv
  <1> QED BY <1>8, <1>9, <1>11, <1>12 DEF ClientInv

\* The first envelope of a segment.
LEMMA ReadFirstStep ==
  ASSUME TypeOK, LogInv, NEW c \in Clients, ClientInv(c), ReadFirst(c)
  PROVE  TypeOK' /\ ClientInv(c)'
  <1> DEFINE bytes == Lesser(ServerMaxBytes, limit[c].bytes)
             top   == Lesser(ServerMaxEnvelopes, limit[c].envelopes)
             envs  == Decrement(top)
  <1>1. phase[c] = "waiting" /\ off[c] = ResumeOffset(start[c])
        /\ UNCHANGED <<storeVars, fetched, start, target, limit, delivered, astray>>
    BY DEF ReadFirst, ClientInv, FetchInv
  <1>2. PICK r \in ReadResults(off[c]) :
          /\ r.ok
          /\ off' = [off EXCEPT ![c] = off[c] + r.bytes]
          /\ pos' = [pos EXCEPT ![c] = r.stop]
          /\ base' = [base EXCEPT ![c] = Len(sent[c])]
          /\ sent' = [sent EXCEPT ![c] = Append(@, r.env)]
          /\ partial' = [partial EXCEPT ![c] = @ \/ ~r.whole]
          /\ bytesRead' = [bytesRead EXCEPT ![c] = r.bytes]
          /\ envsLeft' = [envsLeft EXCEPT ![c] = envs]
          /\ \/ /\ r.bytes < bytes /\ envs # 0
                /\ bytesLeft' = [bytesLeft EXCEPT ![c] = bytes - r.bytes]
                /\ phase' = [phase EXCEPT ![c] = "reading"]
             \/ /\ bytesLeft' = [bytesLeft EXCEPT ![c] = bytes]
                /\ phase' = [phase EXCEPT ![c] = "replied"]
    BY <1>1, Zenon DEF ReadFirst
  <1> HIDE DEF bytes, top, envs
  <1>3. /\ off[c] \in Nat /\ sent[c] \in Seq(Nat) /\ Len(sent[c]) \in Nat
        /\ StoreTypeOK
    BY LenProperties DEF TypeOK
  <1>4. PICK n \in Sizes : r.bytes = BytesRead(n)
    BY <1>2, <1>3, ReadShape
  <1>5. /\ r.env \in Nat /\ r.stop \in Nat /\ r.whole \in BOOLEAN
        /\ BytesRead(n) \in Nat /\ BytesRead(n) >= 2 /\ r.bytes = BytesRead(n)
    BY <1>2, <1>3, <1>4, ReadShape, SizeFacts
  <1>6. /\ bytes \in 0..(Word - 1) /\ top \in 0..(Word - 1) /\ Word \in Nat /\ Word >= 2
        /\ limit[c].envelopes \in Nat
        /\ limit[c].envelopes > 0 => top >= 1
    BY LimitFacts DEF bytes, top
  <1>7. /\ envs \in 0..(Word - 1)
        /\ limit[c].envelopes > 0 => envs = top - 1
    BY <1>6 DEF envs, Decrement
  <1>8. /\ phase'[c] \in {"reading", "replied"}
        /\ phase' \in [Clients -> Phases]
        /\ bytesLeft' \in [Clients -> 0..(Word - 1)]
    <2>1. CASE /\ r.bytes < bytes
               /\ bytesLeft' = [bytesLeft EXCEPT ![c] = bytes - r.bytes]
               /\ phase' = [phase EXCEPT ![c] = "reading"]
      <3>1. bytes - r.bytes \in 0..(Word - 1)
        BY <1>5, <1>6, <2>1
      <3> QED BY <2>1, <3>1 DEF TypeOK, Phases
    <2>2. CASE /\ bytesLeft' = [bytesLeft EXCEPT ![c] = bytes]
               /\ phase' = [phase EXCEPT ![c] = "replied"]
      BY <1>6, <2>2 DEF TypeOK, Phases
    <2> QED BY <1>2, <2>1, <2>2
  <1>9. Append(sent[c], r.env) \in Seq(Nat) /\ Len(Append(sent[c], r.env)) = Len(sent[c]) + 1
    BY <1>3, <1>5, AppendProperties
  <1>10. /\ sent'[c] = Append(sent[c], r.env) /\ base'[c] = Len(sent[c])
         /\ bytesRead'[c] = BytesRead(n) /\ envsLeft'[c] = envs
         /\ limit'[c] = limit[c] /\ delivered'[c] = delivered[c]
    BY <1>1, <1>2, <1>5 DEF TypeOK
  <1>11. TypeOK'
    <2>1. StoreTypeOK'
      BY <1>1 DEF TypeOK, StoreTypeOK, storeVars
    <2>4. off[c] + r.bytes \in Nat /\ r.bytes \in Nat
      BY <1>3, <1>5
    <2>2. /\ off' \in [Clients -> Nat] /\ pos' \in [Clients -> Nat]
          /\ base' \in [Clients -> Nat]
          /\ bytesRead' \in [Clients -> Nat] /\ envsLeft' \in [Clients -> 0..(Word - 1)]
          /\ sent' \in [Clients -> Seq(Nat)]
      BY <1>2, <1>3, <1>5, <1>7, <1>9, <2>4 DEF TypeOK
    <2>3. partial' \in [Clients -> BOOLEAN]
      BY <1>2, <1>5, Zenon DEF TypeOK
    <2> QED BY <1>1, <1>8, <2>1, <2>2, <2>3 DEF TypeOK
  <1>12. FetchInv(c)'
    <2>1. ReadAt(c) = off[c]
      BY <1>1 DEF ReadAt
    <2>2. astray' = [astray EXCEPT ![c] = @ \/ ReadAt(c) # off[c]]
      BY <1>1, <2>1, Zenon DEF TypeOK
    <2>3. off' = [off EXCEPT ![c] = @ + r.bytes]
      BY <1>2
    <2> QED BY <1>1, <1>2, <1>8, <2>1, <2>2, <2>3, ReadKeepsFetch DEF ClientInv
  <1>13. CountInv(c)'
    <2>1. Len(delivered[c]) = Len(sent[c])
      BY <1>1 DEF ClientInv, CountInv
    <2> QED BY <1>3, <1>8, <1>9, <1>10, <2>1 DEF CountInv
  <1>14. Len(sent'[c]) - base'[c] = 1
    BY <1>3, <1>9, <1>10
  <1>15. BudgetInv(c)'
    <2>1. CASE phase'[c] = "replied"
      <3>1. bytesRead'[c] <= bytes + BytesRead(n)
        BY <1>5, <1>6, <1>10
      <3>2. limit'[c].envelopes > 0 => Len(sent'[c]) - base'[c] <= top
        BY <1>6, <1>10, <1>14
      <3> QED BY <1>10, <2>1, <3>1, <3>2 DEF BudgetInv, bytes, top
    <2>2. CASE phase'[c] = "reading"
      <3>1. envs # 0 /\ bytesLeft'[c] = bytes - BytesRead(n)
        BY <1>2, <1>5, <2>2 DEF TypeOK
      <3>2. bytesRead'[c] + bytesLeft'[c] = bytes
        BY <1>5, <1>6, <1>10, <3>1
      <3>3. envsLeft'[c] >= 1
        BY <1>6, <1>7, <1>10, <3>1
      <3>4. limit'[c].envelopes > 0 => Len(sent'[c]) - base'[c] + envsLeft'[c] = top
        BY <1>6, <1>7, <1>10, <1>14
      <3> QED BY <1>10, <2>2, <3>2, <3>3, <3>4 DEF BudgetInv, bytes, top
    <2> QED BY <1>8, <2>1, <2>2
  <1> QED BY <1>11, <1>12, <1>13, <1>15 DEF ClientInv

\* Every further envelope of a segment.
LEMMA ReadNextStep ==
  ASSUME TypeOK, LogInv, NEW c \in Clients, ClientInv(c), ReadNext(c)
  PROVE  TypeOK' /\ ClientInv(c)'
  <1> DEFINE bytes == Lesser(ServerMaxBytes, limit[c].bytes)
             top   == Lesser(ServerMaxEnvelopes, limit[c].envelopes)
             count == Len(sent[c]) - base[c]
  <1>1. /\ phase[c] = "reading"
        /\ UNCHANGED <<storeVars, fetched, start, target, limit, base, delivered>>
    BY DEF ReadNext
  <1>2. PICK r \in ReadResults(pos[c]) :
          /\ r.ok
          /\ off' = [off EXCEPT ![c] = @ + r.bytes]
          /\ pos' = [pos EXCEPT ![c] = r.stop]
          /\ astray' = [astray EXCEPT ![c] = @ \/ pos[c] # off[c]]
          /\ sent' = [sent EXCEPT ![c] = Append(@, r.env)]
          /\ partial' = [partial EXCEPT ![c] = @ \/ ~r.whole]
          /\ bytesRead' = [bytesRead EXCEPT ![c] = @ + r.bytes]
          /\ \/ /\ r.bytes > bytesLeft[c]
                /\ phase' = [phase EXCEPT ![c] = "replied"]
                /\ envsLeft' = envsLeft /\ bytesLeft' = bytesLeft
             \/ /\ ~(r.bytes > bytesLeft[c])
                /\ envsLeft' = [envsLeft EXCEPT ![c] = Decrement(@)]
                /\ \/ /\ envsLeft[c] = 1
                      /\ phase' = [phase EXCEPT ![c] = "replied"]
                      /\ bytesLeft' = bytesLeft
                   \/ /\ envsLeft[c] # 1
                      /\ bytesLeft' = [bytesLeft EXCEPT ![c] = @ - r.bytes]
                      /\ phase' = phase
    BY Zenon DEF ReadNext
  <1>3. /\ off[c] \in Nat /\ pos[c] \in Nat
        /\ sent[c] \in Seq(Nat) /\ Len(sent[c]) \in Nat
        /\ StoreTypeOK
        /\ bytesRead[c] \in Nat /\ bytesLeft[c] \in 0..(Word - 1) /\ base[c] \in Nat
        /\ envsLeft[c] \in 0..(Word - 1) /\ Word \in Nat
    BY LenProperties, LimitsAssumption DEF TypeOK
  <1>4. PICK n \in Sizes : r.bytes = BytesRead(n)
    BY <1>2, <1>3, ReadShape
  <1>5. /\ r.env \in Nat /\ r.stop \in Nat /\ r.whole \in BOOLEAN
        /\ BytesRead(n) \in Nat /\ BytesRead(n) >= 2 /\ r.bytes = BytesRead(n)
    BY <1>2, <1>3, <1>4, ReadShape, SizeFacts
  <1>6. /\ bytes \in Nat /\ top \in Nat /\ limit[c].envelopes \in Nat
    BY <1>3, LimitFacts
  <1>7. /\ bytesRead[c] + bytesLeft[c] = bytes
        /\ envsLeft[c] >= 1
        /\ limit[c].envelopes > 0 => count + envsLeft[c] = top
        /\ Len(delivered[c]) = base[c] /\ base[c] <= Len(sent[c])
    BY <1>1 DEF ClientInv, BudgetInv, CountInv
  <1> HIDE DEF bytes, top
  <1>8. \/ /\ BytesRead(n) > bytesLeft[c]
           /\ phase'[c] = "replied" /\ envsLeft'[c] = envsLeft[c]
        \/ /\ BytesRead(n) <= bytesLeft[c]
           /\ envsLeft[c] = 1
           /\ phase'[c] = "replied" /\ envsLeft'[c] = envsLeft[c] - 1
        \/ /\ BytesRead(n) <= bytesLeft[c]
           /\ envsLeft[c] > 1
           /\ phase'[c] = "reading" /\ envsLeft'[c] = envsLeft[c] - 1
           /\ bytesLeft'[c] = bytesLeft[c] - BytesRead(n)
    <2>1. Decrement(envsLeft[c]) = envsLeft[c] - 1
      BY <1>3, <1>7 DEF Decrement
    <2>2. /\ [phase EXCEPT ![c] = "replied"][c] = "replied"
          /\ [envsLeft EXCEPT ![c] = Decrement(@)][c] = envsLeft[c] - 1
          /\ [bytesLeft EXCEPT ![c] = @ - BytesRead(n)][c] = bytesLeft[c] - BytesRead(n)
      BY <2>1 DEF TypeOK
    <2>3. phase[c] = "reading"
      BY DEF ReadNext
    <2> DEFINE size == BytesRead(n)
    <2>4. CASE size > bytesLeft[c]
      <3>1. phase' = [phase EXCEPT ![c] = "replied"] /\ envsLeft' = envsLeft
        BY <1>2, <1>5, <2>4
      <3> QED BY <2>2, <2>4, <3>1
    <2>5. CASE ~(size > bytesLeft[c])
      <3> DEFINE left == envsLeft[c]
      <3>1. /\ envsLeft' = [envsLeft EXCEPT ![c] = Decrement(@)]
            /\ \/ left = 1 /\ phase' = [phase EXCEPT ![c] = "replied"]
               \/ /\ left # 1 /\ phase' = phase
                  /\ bytesLeft' = [bytesLeft EXCEPT ![c] = @ - size]
        BY <1>2, <1>5, <2>5
      <3>2. size <= bytesLeft[c] /\ (left # 1 => left > 1)
        BY <1>3, <1>5, <1>7, <2>5
      <3> QED BY <2>2, <2>3, <3>1, <3>2
    <2> QED BY <2>4, <2>5
  <1>9. /\ Append(sent[c], r.env) \in Seq(Nat)
        /\ Len(Append(sent[c], r.env)) = Len(sent[c]) + 1
    BY <1>3, <1>5, AppendProperties
  <1>10. /\ sent'[c] = Append(sent[c], r.env) /\ base'[c] = base[c]
         /\ bytesRead'[c] = bytesRead[c] + BytesRead(n)
         /\ limit'[c] = limit[c] /\ delivered'[c] = delivered[c]
    BY <1>1, <1>2, <1>5 DEF TypeOK
  <1>11. TypeOK'
    <2>1. StoreTypeOK'
      BY <1>1 DEF TypeOK, StoreTypeOK, storeVars
    <2>2. bytesRead[c] + r.bytes \in Nat /\ off[c] + r.bytes \in Nat
      <3>1. r.bytes \in Nat /\ bytesRead[c] \in Nat /\ off[c] \in Nat
        BY <1>3, <1>5, Zenon
      <3> QED BY <3>1, SMT
    <2>3. /\ off' \in [Clients -> Nat] /\ pos' \in [Clients -> Nat]
          /\ bytesRead' \in [Clients -> Nat] /\ sent' \in [Clients -> Seq(Nat)]
      BY <1>2, <1>3, <1>5, <1>9, <2>2 DEF TypeOK
    <2>4. Decrement(envsLeft[c]) \in 0..(Word - 1)
      BY <1>3, <1>7 DEF Decrement
    <2>5. envsLeft' \in [Clients -> 0..(Word - 1)]
      BY <1>2, <2>4 DEF TypeOK
    <2>6. BytesRead(n) <= bytesLeft[c] => bytesLeft[c] - BytesRead(n) \in 0..(Word - 1)
      BY <1>3, <1>5
    <2>7. ~(r.bytes > bytesLeft[c]) => bytesLeft[c] - r.bytes \in 0..(Word - 1)
      BY <1>3, <1>5, <2>6
    <2>8. bytesLeft' \in [Clients -> 0..(Word - 1)] /\ phase' \in [Clients -> Phases]
      BY <1>2, <2>7 DEF TypeOK, Phases
    <2>9. partial' \in [Clients -> BOOLEAN] /\ astray' \in [Clients -> BOOLEAN]
      BY <1>2, <1>5, Zenon DEF TypeOK
    <2> QED BY <1>1, <2>1, <2>3, <2>5, <2>8, <2>9 DEF TypeOK
  <1>12. FetchInv(c)'
    <2>1. ReadAt(c) = pos[c]
      BY <1>1 DEF ReadAt
    <2> QED BY <1>1, <1>2, <1>8, <2>1, ReadKeepsFetch DEF ClientInv
  <1>13. CountInv(c)'
    BY <1>3, <1>7, <1>8, <1>9, <1>10 DEF CountInv
  <1>14. Len(sent'[c]) - base'[c] = count + 1
    BY <1>3, <1>9, <1>10
  <1>15. BudgetInv(c)'
    <2>1. CASE phase'[c] = "replied"
      <3>1. bytesRead'[c] <= bytes + BytesRead(n)
        BY <1>3, <1>5, <1>6, <1>7, <1>10
      <3>2. limit'[c].envelopes > 0 => Len(sent'[c]) - base'[c] <= top
        BY <1>3, <1>6, <1>7, <1>10, <1>14
      <3> QED BY <1>10, <2>1, <3>1, <3>2 DEF BudgetInv, bytes, top
    <2>2. CASE phase'[c] = "reading"
      <3>1. bytesRead'[c] + bytesLeft'[c] = bytes
        BY <1>3, <1>5, <1>7, <1>8, <1>10, <2>2
      <3>2. envsLeft'[c] >= 1
        BY <1>3, <1>8, <2>2
      <3>3. limit'[c].envelopes > 0 => Len(sent'[c]) - base'[c] + envsLeft'[c] = top
        <4>1. count \in Int /\ envsLeft[c] \in Int
          BY <1>3
        <4>2. envsLeft'[c] = envsLeft[c] - 1 /\ limit'[c] = limit[c]
          BY <1>8, <1>10, <2>2
        <4> HIDE DEF count
        <4> QED BY <1>7, <1>14, <4>1, <4>2
      <3> QED BY <1>10, <2>2, <3>1, <3>2, <3>3 DEF BudgetInv, bytes, top
    <2> QED BY <1>8, <2>1, <2>2
  <1> QED BY <1>11, <1>12, <1>13, <1>15 DEF ClientInv

----------------------------------------------------------------------------
(* The theorems                                                            *)

\* The invariant holds initially.
LEMMA Initially ==
  ASSUME Init PROVE IInv
  <1>1. StoreTypeOK /\ LogInv
    <2>1. << >> \in Seq(Frames) /\ Len(<< >>) = 0
      BY EmptySeq
    <2> QED BY <2>1 DEF Init, StoreInit, StoreTypeOK, LogInv
  <1>2. TypeOK
    <2>1. << >> \in Seq(Nat) /\ << >> \in Seq(WireFrames) /\ Word \in Nat /\ Word >= 2
      BY EmptySeq, LimitsAssumption
    <2> QED BY <1>1, <2>1 DEF Init, TypeOK, Phases, WireFrames
  <1>3. ASSUME NEW c \in Clients PROVE ClientInv(c)
    <2>1. /\ phase[c] = "idle" /\ fetched[c] = 0 /\ off[c] = 1 /\ base[c] = 0
          /\ sent[c] = << >> /\ delivered[c] = << >> /\ partial[c] = FALSE
          /\ astray[c] = FALSE
          /\ log = << >> /\ disk = 0 /\ tornAt = {}
      BY DEF Init, StoreInit
    <2>2. Len(sent[c]) = 0 /\ Len(delivered[c]) = 0 /\ Len(log) = 0
      BY <2>1, EmptySeq
    <2>3. PrefixSent(c)
      <3>1. sent[c] = [i \in 1..0 |-> i]
        BY <2>1
      <3> QED BY <2>1, <2>2, <3>1 DEF PrefixSent, OffsetAfter
    <2>4. FetchInv(c)
      BY <2>1, <2>3 DEF FetchInv, ResumeOffset, ReadAt
    <2> QED BY <2>1, <2>2, <2>4 DEF ClientInv, BudgetInv, CountInv
  <1> QED BY <1>1, <1>2, <1>3 DEF IInv, ClientInv

\* Every step of the system preserves it.
LEMMA Inductive ==
  ASSUME IInv, [Next]_vars
  PROVE  IInv'
  <1> USE DEF IInv, ClientInv
  <1>1. TypeOK /\ StoreTypeOK /\ LogInv /\ \A c \in Clients : ClientInv(c)
    BY DEF TypeOK
  <1>2. CASE Writer
    <2>1. StoreTypeOK' /\ LogInv' /\ UNCHANGED clientVars /\ StoreNext
      BY <1>1, <1>2, StoreStep DEF Writer
    <2>2. TypeOK'
      BY <1>1, <2>1 DEF TypeOK, clientVars
    <2>3. ASSUME NEW c \in Clients PROVE FetchInv(c)' /\ BudgetInv(c)' /\ CountInv(c)'
      <3>1. FetchInv(c)'
        BY <1>1, <2>1, WriterKeepsFetch
      <3>2. BudgetInv(c)'
        BY <1>1, <2>1 DEF BudgetInv, clientVars
      <3>3. CountInv(c)'
        BY <1>1, <2>1 DEF CountInv, clientVars
      <3> QED BY <3>1, <3>2, <3>3
    <2> QED BY <2>1, <2>2, <2>3
  <1>3. ASSUME NEW c \in Clients, Worker(c) \/ Client(c) PROVE IInv'
    <2>1. UNCHANGED storeVars /\ \A d \in Clients : d # c => Untouched(d)
      BY <1>1, <1>3, OnlyOneClient
    <2>2. TypeOK' /\ ClientInv(c)'
      <3>1. CASE Mirror(c) \/ DropError(c) \/ OpenFails(c) \/ EndSegment(c)
        BY <1>1, <3>1, ControlSteps
      <3>2. CASE ReceiveSegment(c)
        BY <1>1, <3>2, ReceiveStep
      <3>3. CASE ReadFirst(c)
        BY <1>1, <3>3, ReadFirstStep
      <3>4. CASE ReadNext(c)
        BY <1>1, <3>4, ReadNextStep
      <3> QED BY <1>3, <3>1, <3>2, <3>3, <3>4 DEF Worker, Client
    <2>3. LogInv'
      BY <1>1, <2>1 DEF LogInv, Contiguous, FrameEnd, storeVars
    <2>4. ASSUME NEW d \in Clients, d # c PROVE ClientInv(d)'
      BY <1>1, <2>1, <2>4, UntouchedKeeps
    <2> QED BY <2>2, <2>3, <2>4
  <1>4. CASE UNCHANGED vars
    <2>1. UNCHANGED storeVars /\ UNCHANGED clientVars
      BY <1>4 DEF vars
    <2>2. TypeOK' /\ LogInv'
      BY <1>1, <2>1 DEF TypeOK, StoreTypeOK, LogInv, Contiguous, FrameEnd,
                        storeVars, clientVars
    <2>3. ASSUME NEW d \in Clients PROVE ClientInv(d)'
      <3>1. Untouched(d)
        BY <2>1 DEF Untouched, clientVars
      <3> QED BY <1>1, <2>1, <3>1, UntouchedKeeps
    <2> QED BY <2>2, <2>3
  <1> QED BY <1>2, <1>3, <1>4 DEF Next

\* The invariant holds in every reachable state.
THEOREM Invariance == Spec => []IInv
  <1>1. Init => IInv
    BY Initially
  <1>2. IInv /\ [Next]_vars => IInv'
    BY Inductive
  <1> QED BY <1>1, <1>2, PTL DEF Spec

\* The state of store, workers and clients is always well-typed; in particular
\* the uint32 budgets of ProcessGetStream stay in their width.
THEOREM TypeCorrect == Spec => []TypeOK
  <1>1. IInv => TypeOK
    BY DEF IInv
  <1> QED BY <1>1, Invariance, PTL

\* A client that follows the offsets it is given misses and repeats nothing in
\* front of a torn frame, as long as none of its segments read on from inside an
\* envelope the end of the file had cut (ProcessGetStream, Client::GetStream).
THEOREM Gapless == Spec => []GaplessFetch
  <1>1. IInv => GaplessFetch
    BY DEF IInv, FetchInv, PrefixSent, GaplessFetch
  <1> QED BY <1>1, Invariance, PTL

\* What a client recorded as fetched is in the file, unless a torn envelope was
\* parsed (bytes_read in InputStream::ReadEnvelope, flushing in FileOutputStream).
THEOREM OnDisk == Spec => []FetchedIsOnDisk
  <1>1. IInv => FetchedIsOnDisk
    BY DEF IInv, FetchInv, FetchedIsOnDisk
  <1> QED BY <1>1, Invariance, PTL

\* A finished call has handed over as many envelopes as segments announced
\* (Pump's doubled frame against HandleRequestResponse's missing one).
THEOREM Counts == Spec => []CountsAgree
  <1>1. IInv => CountsAgree
    BY DEF IInv, CountInv, CountsAgree
  <1> QED BY <1>1, Invariance, PTL

\* No segment exceeds its budgets by more than the last envelope's bytes
\* (bytes_left and envelopes_left in ProcessGetStream).
THEOREM Budget == Spec => []SegmentBudget
  <1>1. ASSUME IInv, NEW c \in Clients, phase[c] \in {"reading", "replied"}
        PROVE  /\ \E n \in Sizes :
                    bytesRead[c] <= Lesser(ServerMaxBytes, limit[c].bytes) + BytesRead(n)
               /\ limit[c].envelopes > 0 =>
                    Len(sent[c]) - base[c]
                      <= Lesser(ServerMaxEnvelopes, limit[c].envelopes)
    <2>1. TypeOK /\ BudgetInv(c)
      BY <1>1 DEF IInv
    <2>2. CASE phase[c] = "replied"
      BY <2>1, <2>2 DEF BudgetInv
    <2>3. CASE phase[c] = "reading"
      <3>1. PICK n \in Sizes : TRUE
        BY <2>1, <2>3 DEF BudgetInv
      <3>2. /\ bytesRead[c] \in Nat /\ bytesLeft[c] \in Nat /\ envsLeft[c] \in Nat
            /\ Len(sent[c]) \in Nat /\ base[c] \in Nat /\ BytesRead(n) \in Nat
        BY <2>1, SizeFacts, LenProperties, LimitsAssumption DEF TypeOK
      <3>3. /\ bytesRead[c] + bytesLeft[c] = Lesser(ServerMaxBytes, limit[c].bytes)
            /\ limit[c].envelopes > 0 =>
                 Len(sent[c]) - base[c] + envsLeft[c] =
                   Lesser(ServerMaxEnvelopes, limit[c].envelopes)
        BY <2>1, <2>3 DEF BudgetInv
      <3>4. bytesRead[c] <= Lesser(ServerMaxBytes, limit[c].bytes) + BytesRead(n)
        BY <3>2, <3>3
      <3>5. limit[c].envelopes > 0 =>
              Len(sent[c]) - base[c] <= Lesser(ServerMaxEnvelopes, limit[c].envelopes)
        BY <3>2, <3>3
      <3> QED BY <3>4, <3>5
    <2> QED BY <1>1, <2>2, <2>3
  <1>2. IInv => SegmentBudget
    BY <1>1 DEF SegmentBudget
  <1> QED BY <1>2, Invariance, PTL

----------------------------------------------------------------------------
(* The stream as a log: the invariant the refinement needs                 *)

\* At most one frame is the first one a crash cut.
OneTear == \A s, t \in tornAt : s = t

\* A reader behind a tear has been sent the torn frame, or what it took for it.
TearInv(c) ==
  ~astray[c] /\ ~BeforeTear(off[c]) =>
    \A i \in 1..Len(log) : log[i].at \in tornAt => i <= Len(sent[c])

RefInv == IInv /\ OneTear /\ \A c \in Clients : TearInv(c)

\* The frames of log l that begin before offset d.
BegunIn(l, d) == {i \in 1..Len(l) : l[i].at < d}

\* The first frame of log l that starts at an offset of ts.
TornIn(l, ts) == IF ts = {} THEN 0 ELSE CHOOSE i \in 1..Len(l) : l[i].at \in ts

\* There, a read that succeeds returns that frame, unless it is the torn one.
LEMMA NextRead ==
  ASSUME TypeOK, LogInv, OneTear, NEW c \in Clients, FetchInv(c),
         BeforeTear(off[c]), ~astray[c], NEW r \in ReadResults(off[c]), r.ok,
         NEW t \in Nat, tornAt \subseteq {t}, tornAt = {} \/ off[c] < t
  PROVE  /\ Len(sent[c]) + 1 \in 1..Len(log)
         /\ Contiguous(Len(sent[c]) + 1)
         /\ r.env = Len(sent[c]) + 1
         /\ off[c] + r.bytes = FrameEnd(log[Len(sent[c]) + 1])
         /\ Len(sent[c]) + 1 < Len(log) /\ log[Len(sent[c]) + 2].at < disk =>
              r.stop = off[c] + r.bytes
  <1>1. StoreTypeOK /\ off[c] \in Nat /\ off[c] < disk
    BY ReadShape DEF TypeOK
  <1>2. Len(sent[c]) + 1 \in 1..Len(log) /\ log[Len(sent[c]) + 1].at = off[c]
    BY <1>1, NextFrame
  <1>3. \A s \in tornAt : log[Len(sent[c]) + 1].at < s
    BY <1>2
  <1>4. Contiguous(Len(sent[c]) + 1)
    BY <1>2, <1>3 DEF LogInv
  <1>5. Len(sent[c]) \in Nat
    BY LenProperties DEF TypeOK
  <1>6. (Len(sent[c]) + 1) + 1 = Len(sent[c]) + 2
    BY <1>5
  <1> QED BY <1>1, <1>2, <1>4, <1>6, ReadContiguous

\* A read keeps the reader's distance from the torn frame.
LEMMA ReadKeepsTear ==
  ASSUME TypeOK, LogInv, OneTear, NEW c \in Clients, FetchInv(c), TearInv(c),
         NEW r \in ReadResults(ReadAt(c)), r.ok,
         UNCHANGED storeVars,
         off' = [off EXCEPT ![c] = @ + r.bytes],
         astray' = [astray EXCEPT ![c] = @ \/ ReadAt(c) # off[c]],
         sent' = [sent EXCEPT ![c] = Append(@, r.env)]
  PROVE  TearInv(c)'
  <1> DEFINE m == Len(sent[c])
  <1>1. /\ StoreTypeOK /\ off[c] \in Nat /\ sent[c] \in Seq(Nat) /\ ReadAt(c) \in Nat
        /\ log' = log /\ tornAt' = tornAt /\ Len(log) \in Nat
    BY LenProperties DEF TypeOK, StoreTypeOK, storeVars, ReadAt
  <1>2. r.env \in Nat /\ ReadAt(c) < disk /\ r.bytes \in Nat
    BY <1>1, ReadShape, SizeFacts
  <1>3. off'[c] = off[c] + r.bytes /\ Len(sent'[c]) = m + 1 /\ m \in Nat
        /\ astray'[c] = (astray[c] \/ ReadAt(c) # off[c])
    BY <1>1, <1>2, AppendProperties, LenProperties DEF TypeOK
  <1> SUFFICES ASSUME ~astray[c], ReadAt(c) = off[c], ~BeforeTear(off[c] + r.bytes),
                      NEW i \in 1..Len(log), log[i].at \in tornAt
               PROVE  i <= m + 1
    BY <1>1, <1>3 DEF TearInv, BeforeTear
  <1>4. CASE ~BeforeTear(off[c])
    BY <1>3, <1>4 DEF TearInv
  <1>5. CASE BeforeTear(off[c])
    <2> SUFFICES ASSUME m + 1 < i PROVE FALSE
      BY <1>3
    <2>1. m + 1 \in 1..Len(log) /\ log[m + 1].at = off[c]
      BY <1>1, <1>2, <1>5, NextFrame
    <2>2. log[m + 1].at < log[i].at /\ log[i].at \in Nat
      BY <1>1, <2>1, FrameFacts DEF LogInv
    <2>3. tornAt \subseteq {log[i].at}
      BY DEF OneTear
    <2>4. Contiguous(m + 1) /\ off[c] + r.bytes = FrameEnd(log[m + 1])
      BY <1>5, <2>1, <2>2, <2>3, NextRead
    <2>5. m + 2 \in 1..Len(log) /\ off[c] + r.bytes = log[m + 2].at
      BY <1>1, <1>3, <2>4 DEF Contiguous
    <2>6. m + 2 < i \/ m + 2 = i
      BY <1>3
    <2>7. off[c] + r.bytes <= log[i].at
      <3>1. log[m + 2].at \in Nat
        BY <1>1, <2>5, FrameFacts
      <3>2. m + 2 < i => log[m + 2].at < log[i].at
        BY <2>5 DEF LogInv
      <3> QED BY <2>2, <2>5, <2>6, <3>1, <3>2
    <2> QED BY <2>3, <2>7 DEF BeforeTear
  <1> QED BY <1>4, <1>5

\* A torn frame stays where it is.
LEMMA TornStays ==
  ASSUME StoreTypeOK, LogInv, StoreNext, NEW i \in 1..Len(log'), log'[i].at \in tornAt
  PROVE  i \in 1..Len(log) /\ log[i] = log'[i]
  <1>1. /\ StoreTypeOK' /\ LogInv'
        /\ \A j \in 1..Len(log) : log[j].at < disk => j \in 1..Len(log') /\ log'[j] = log[j]
    BY StoreStep
  <1>2. PICK j \in 1..Len(log) : log[j].at = log'[i].at /\ log[j].at < disk
    BY DEF LogInv
  <1>3. j \in 1..Len(log') /\ log'[j] = log[j] /\ log'[j].at = log'[i].at
    BY <1>1, <1>2
  <1>4. log[j].at \in Nat
    BY <1>2, FrameFacts
  <1>5. \A p, q \in 1..Len(log') : p < q => log'[p].at < log'[q].at
    BY <1>1 DEF LogInv
  <1>6. ~(i < j) /\ ~(j < i)
    BY <1>3, <1>4, <1>5
  <1>7. i = j
    BY <1>6
  <1> QED BY <1>3, <1>7

\* What a crash does to the log, the file and the record of the tear.
LEMMA CrashFacts ==
  ASSUME StoreTypeOK, LogInv, Crash
  PROVE  \E k \in 0..Len(log) :
           /\ \A i \in 1..Len(log) : (i <= k) <=> (log[i].at < disk)
           /\ Len(log') = k
           /\ disk' = disk
           /\ \/ tornAt' = tornAt
              \/ tornAt = {} /\ k \in 1..Len(log) /\ tornAt' = {log[k].at}
  <1>1. PICK k \in 0..Len(log) :
          /\ \A i \in 1..Len(log) : (i <= k) <=> (log[i].at < disk)
          /\ log' = SubSeq(log, 1, k)
          /\ tornAt' = IF tornAt = {} /\ k > 0 /\ disk < FrameEnd(log[k])
                       THEN {log[k].at} ELSE tornAt
    BY DEF Crash
  <1>2. disk' = disk /\ log \in Seq(Frames) /\ Len(log) \in Nat
    BY LenProperties DEF Crash, StoreTypeOK
  <1>3. Len(log') = k
    <2>1. \A i \in 1..k : log[i] \in Frames
      BY <1>2, FrameFacts
    <2>2. Len(SubSeq(log, 1, k)) = IF 1 <= k THEN k - 1 + 1 ELSE 0
      BY <1>2, <2>1, SubSeqProperties
    <2> QED BY <1>1, <1>2, <2>2
  <1> QED BY <1>1, <1>2, <1>3

\* Only a crash tears, and only once.
LEMMA OnlyCrashTears ==
  ASSUME StoreNext
  PROVE  tornAt' = tornAt \/ Crash
  BY DEF StoreNext, OpenOutputStream, WriteStreamHeader, WriteEnvelope,
         FlushOutputStreams, CloseOutputStream

\* The writer moves no reader over a tear that it had not read.
LEMMA WriterKeepsTear ==
  ASSUME TypeOK, LogInv, OneTear, NEW c \in Clients, FetchInv(c), TearInv(c),
         StoreNext, UNCHANGED clientVars
  PROVE  TearInv(c)'
  <1> DEFINE m == Len(sent[c])
  <1>1. /\ StoreTypeOK /\ off' = off /\ sent' = sent /\ astray' = astray
        /\ off[c] \in Nat /\ sent[c] \in Seq(Nat) /\ m \in Nat /\ Len(log) \in Nat
    BY LenProperties DEF TypeOK, StoreTypeOK, clientVars
  <1>2. CASE tornAt' = tornAt
    BY <1>1, <1>2, TornStays DEF TearInv, BeforeTear
  <1>3. CASE Crash
    <2>1. PICK k \in 0..Len(log) :
            /\ Len(log') = k
            /\ \/ tornAt' = tornAt
               \/ tornAt = {} /\ k \in 1..Len(log) /\ tornAt' = {log[k].at}
      BY <1>1, <1>3, CrashFacts
    <2>2. CASE tornAt = {} /\ k \in 1..Len(log) /\ tornAt' = {log[k].at}
      <3> SUFFICES ASSUME ~astray[c], log[k].at < off[c], m < k PROVE FALSE
        <4>1. log[k].at \in Nat
          BY <1>1, <2>2, FrameFacts
        <4>2. ~(m < k) => \A i \in 1..Len(log') : i <= m
          BY <1>1, <2>1
        <4> QED BY <1>1, <2>2, <4>1, <4>2 DEF TearInv, BeforeTear
      <3>1. PrefixSent(c)
        BY <2>2 DEF FetchInv, BeforeTear
      <3>2. off[c] = OffsetAfter(m)
        BY <3>1 DEF PrefixSent
      <3>3. log[k].at \in Nat /\ log[k].at >= 1
        BY <1>1, <2>2, FrameFacts DEF LogInv
      <3>4. m # 0
        BY <3>2, <3>3 DEF OffsetAfter
      <3>5. m \in 1..Len(log) /\ m + 1 \in 1..Len(log)
        BY <1>1, <2>2, <3>4
      <3>6. Contiguous(m)
        BY <2>2, <3>5 DEF LogInv
      <3>7. off[c] = log[m + 1].at
        BY <1>1, <3>2, <3>4, <3>5, <3>6 DEF OffsetAfter, Contiguous
      <3>8. m + 1 = k \/ log[m + 1].at < log[k].at
        BY <1>1, <2>2, <3>5 DEF LogInv
      <3> QED BY <1>1, <3>3, <3>7, <3>8
    <2> QED BY <1>2, <2>1, <2>2
  <1> QED BY <1>2, <1>3, OnlyCrashTears

\* Nothing else moves a reader.
LEMMA QuietKeepsTear ==
  ASSUME NEW d \in Clients, TearInv(d), UNCHANGED storeVars,
         off'[d] = off[d], sent'[d] = sent[d], astray'[d] = astray[d]
  PROVE  TearInv(d)'
  BY DEF TearInv, BeforeTear, storeVars

\* Every action of a client or its worker, reduced to what it does to the reader.
LEMMA ReaderMoves ==
  ASSUME TypeOK, NEW c \in Clients, FetchInv(c), Worker(c) \/ Client(c)
  PROVE  \/ /\ UNCHANGED <<off, pos, sent, delivered, astray>>
            /\ phase'[c] # "reading"
         \/ /\ \E r \in ReadResults(ReadAt(c)) :
                 /\ r.ok
                 /\ off' = [off EXCEPT ![c] = @ + r.bytes]
                 /\ pos' = [pos EXCEPT ![c] = r.stop]
                 /\ astray' = [astray EXCEPT ![c] = @ \/ ReadAt(c) # off[c]]
                 /\ sent' = [sent EXCEPT ![c] = Append(@, r.env)]
            /\ delivered' = delivered
         \/ ReceiveSegment(c) /\ UNCHANGED <<off, pos, sent, astray>>
  <1>1. CASE Mirror(c) \/ DropError(c) \/ OpenFails(c) \/ EndSegment(c)
    BY <1>1 DEF Mirror, DropError, OpenFails, EndSegment, TypeOK
  <1>2. CASE ReceiveSegment(c)
    BY <1>2 DEF ReceiveSegment
  <1>3. CASE ReadFirst(c)
    <2>1. /\ off[c] = ResumeOffset(start[c]) /\ ReadAt(c) = off[c]
          /\ delivered' = delivered /\ astray' = astray
      BY <1>3 DEF ReadFirst, FetchInv, ReadAt
    <2>2. astray' = [astray EXCEPT ![c] = @ \/ ReadAt(c) # off[c]]
      BY <2>1, Zenon DEF TypeOK
    <2>3. PICK r \in ReadResults(ReadAt(c)) :
            /\ r.ok
            /\ off' = [off EXCEPT ![c] = off[c] + r.bytes]
            /\ pos' = [pos EXCEPT ![c] = r.stop]
            /\ sent' = [sent EXCEPT ![c] = Append(@, r.env)]
      BY <1>3, <2>1, Zenon DEF ReadFirst
    <2>4. off' = [off EXCEPT ![c] = @ + r.bytes]
      BY <2>3
    <2> QED BY <2>1, <2>2, <2>3, <2>4, Zenon
  <1>4. CASE ReadNext(c)
    <2>1. ReadAt(c) = pos[c]
      BY <1>4 DEF ReadNext, ReadAt
    <2> QED BY <1>4, <2>1, Zenon DEF ReadNext
  <1> QED BY <1>1, <1>2, <1>3, <1>4 DEF Worker, Client

LEMMA RefInductive ==
  ASSUME RefInv, [Next]_vars
  PROVE  RefInv'
  <1> USE DEF RefInv
  <1>1. /\ IInv' /\ TypeOK /\ StoreTypeOK /\ LogInv
        /\ \A c \in Clients : FetchInv(c)
    BY Inductive DEF IInv, TypeOK
  <1>2. CASE Writer
    <2>1. StoreNext /\ UNCHANGED clientVars
      BY <1>2 DEF Writer
    <2>2. OneTear'
      BY <1>1, <2>1, OnlyCrashTears, CrashFacts DEF OneTear
    <2>3. ASSUME NEW c \in Clients PROVE TearInv(c)'
      BY <1>1, <2>1, WriterKeepsTear
    <2> QED BY <1>1, <2>2, <2>3
  <1>3. ASSUME NEW c \in Clients, Worker(c) \/ Client(c) PROVE RefInv'
    <2>1. UNCHANGED storeVars /\ \A d \in Clients : d # c => Untouched(d)
      BY <1>1, <1>3, OnlyOneClient
    <2>2. OneTear'
      BY <2>1 DEF OneTear, storeVars
    <2>3. TearInv(c)'
      <3>1. CASE UNCHANGED <<off, sent, astray>>
        BY <2>1, <3>1, QuietKeepsTear
      <3>2. ASSUME NEW r \in ReadResults(ReadAt(c)), r.ok,
                   off' = [off EXCEPT ![c] = @ + r.bytes],
                   astray' = [astray EXCEPT ![c] = @ \/ ReadAt(c) # off[c]],
                   sent' = [sent EXCEPT ![c] = Append(@, r.env)]
            PROVE  TearInv(c)'
        BY <1>1, <2>1, <3>2, ReadKeepsTear
      <3> QED BY <1>1, <1>3, <3>1, <3>2, ReaderMoves
    <2>4. ASSUME NEW d \in Clients, d # c PROVE TearInv(d)'
      BY <2>1, <2>4, QuietKeepsTear DEF Untouched
    <2> QED BY <1>1, <2>2, <2>3, <2>4
  <1>4. CASE UNCHANGED vars
    <2>1. UNCHANGED storeVars /\ UNCHANGED <<off, sent, tornAt, astray>>
      BY <1>4 DEF vars, storeVars, clientVars
    <2>2. \A c \in Clients : TearInv(c)'
      BY <2>1, QuietKeepsTear
    <2> QED BY <1>1, <2>1, <2>2 DEF OneTear
  <1> QED BY <1>2, <1>3, <1>4 DEF Next

\* The invariant with what it says of the first tear: there is one only, and a
\* reader not astray whose offset is behind it has counted the envelope that was
\* cut.
THEOREM RefInvariance == Spec => []RefInv
  <1>1. Init => RefInv
    BY Initially DEF RefInv, Init, StoreInit, OneTear, TearInv, BeforeTear
  <1>2. RefInv /\ [Next]_vars => RefInv'
    BY RefInductive
  <1> QED BY <1>1, <1>2, PTL DEF Spec

----------------------------------------------------------------------------
\* The frames begun in the file are counted like a prefix of the log.
LEMMA BegunFacts ==
  ASSUME NEW l \in Seq(Frames), NEW d \in Nat
  PROVE  /\ IsFiniteSet(BegunIn(l, d))
         /\ Cardinality(BegunIn(l, d)) \in Nat
         /\ Cardinality(BegunIn(l, d)) <= Len(l)
         /\ (\A i \in 1..Len(l) : l[i].at < d) => Cardinality(BegunIn(l, d)) = Len(l)
  <1>1. Len(l) \in Nat
    BY LenProperties
  <1>2. IsFiniteSet(1..Len(l)) /\ Cardinality(1..Len(l)) = Len(l)
    BY <1>1, FS_Interval
  <1>3. BegunIn(l, d) \in SUBSET (1..Len(l))
    BY DEF BegunIn
  <1>4. IsFiniteSet(BegunIn(l, d)) /\ Cardinality(BegunIn(l, d)) <= Len(l)
    BY <1>2, <1>3, FS_Subset
  <1>5. Cardinality(BegunIn(l, d)) \in Nat
    BY <1>4, FS_CardinalityType
  <1>6. (\A i \in 1..Len(l) : l[i].at < d) => BegunIn(l, d) = 1..Len(l)
    BY DEF BegunIn
  <1> QED BY <1>2, <1>4, <1>5, <1>6

\* With the frames in order, frame k is begun only when there are k of them.
LEMMA BegunAtLeast ==
  ASSUME NEW l \in Seq(Frames), NEW d \in Nat, NEW k \in 1..Len(l), l[k].at < d,
         \A i, j \in 1..Len(l) : i < j => l[i].at < l[j].at
  PROVE  k <= Cardinality(BegunIn(l, d))
  <1>1. Len(l) \in Nat /\ k \in Nat
    BY LenProperties
  <1>2. ASSUME NEW i \in 1..k PROVE i \in BegunIn(l, d)
    <2>1. i \in 1..Len(l) /\ (i < k \/ i = k)
      BY <1>1
    <2>2. l[i] \in Frames /\ l[k] \in Frames
      BY <2>1, ElementOfSeq
    <2>3. l[i].at \in Nat /\ l[k].at \in Nat
      BY <2>2 DEF Frames
    <2> QED BY <2>1, <2>3 DEF BegunIn
  <1>3. IsFiniteSet(1..k) /\ Cardinality(1..k) = k
    BY <1>1, FS_Interval
  <1>4. Cardinality(1..k) <= Cardinality(BegunIn(l, d))
    BY <1>2, BegunFacts, FS_Subset
  <1> QED BY <1>3, <1>4

\* The last frame begun tells their number.
LEMMA BegunExactly ==
  ASSUME NEW l \in Seq(Frames), NEW d \in Nat, NEW k \in 1..Len(l), l[k].at < d,
         ~(k < Len(l) /\ l[k + 1].at < d),
         \A i, j \in 1..Len(l) : i < j => l[i].at < l[j].at
  PROVE  Cardinality(BegunIn(l, d)) = k
  <1>1. Len(l) \in Nat /\ k \in Nat
    BY LenProperties
  <1>2. k <= Cardinality(BegunIn(l, d))
    BY BegunAtLeast
  <1>3. BegunIn(l, d) \in SUBSET (1..k)
    <2> SUFFICES ASSUME NEW i \in 1..Len(l), l[i].at < d, k < i PROVE FALSE
      BY <1>1 DEF BegunIn
    <2>1. k + 1 \in 1..Len(l) /\ (k + 1 < i \/ k + 1 = i)
      BY <1>1
    <2>2. l[i] \in Frames /\ l[k + 1] \in Frames
      BY <2>1, ElementOfSeq
    <2>3. l[i].at \in Nat /\ l[k + 1].at \in Nat
      BY <2>2 DEF Frames
    <2>4. l[k + 1].at <= l[i].at
      BY <2>1, <2>3
    <2> QED BY <1>1, <2>1, <2>3, <2>4
  <1>4. IsFiniteSet(1..k) /\ Cardinality(1..k) = k
    BY <1>1, FS_Interval
  <1>5. Cardinality(BegunIn(l, d)) <= k
    BY <1>3, <1>4, FS_Subset
  <1>6. Cardinality(BegunIn(l, d)) \in Nat
    BY BegunFacts
  <1> QED BY <1>1, <1>2, <1>5, <1>6

\* Frames that stay keep the count from falling.
LEMMA BegunGrows ==
  ASSUME NEW l \in Seq(Frames), NEW d \in Nat, NEW m \in Seq(Frames), NEW e \in Nat, d <= e,
         \A i \in 1..Len(l) : l[i].at < d => i \in 1..Len(m) /\ m[i] = l[i]
  PROVE  Cardinality(BegunIn(l, d)) <= Cardinality(BegunIn(m, e))
  <1>1. BegunIn(l, d) \in SUBSET BegunIn(m, e)
    <2> SUFFICES ASSUME NEW i \in 1..Len(l), l[i].at < d PROVE i \in 1..Len(m) /\ m[i].at < e
      BY DEF BegunIn
    <2>1. l[i] \in Frames
      BY ElementOfSeq
    <2> QED BY <2>1 DEF Frames
  <1> QED BY <1>1, BegunFacts, FS_Subset

\* The torn frame is named by its offset.
LEMMA TornFacts ==
  ASSUME NEW l \in Seq(Frames), NEW ts, NEW i \in 1..Len(l), l[i].at \in ts,
         \A s, t \in ts : s = t,
         \A p, q \in 1..Len(l) : p < q => l[p].at < l[q].at
  PROVE  TornIn(l, ts) = i
  <1> DEFINE j == CHOOSE p \in 1..Len(l) : l[p].at \in ts
  <1>1. ts # {} /\ Len(l) \in Nat
    BY LenProperties
  <1>2. j \in 1..Len(l) /\ l[j].at \in ts
    OBVIOUS
  <1>3. TornIn(l, ts) = j
    BY <1>1 DEF TornIn
  <1> HIDE DEF j
  <1>4. l[j].at = l[i].at
    BY <1>2
  <1>5. l[i] \in Frames
    BY ElementOfSeq
  <1>6. ~(i < j) /\ ~(j < i)
    BY <1>2, <1>4, <1>5 DEF Frames
  <1> QED BY <1>1, <1>2, <1>3, <1>6

LEMMA MappingFacts ==
  ASSUME StoreTypeOK, LogInv, OneTear
  PROVE  /\ Begun = BegunIn(log, disk)
         /\ TornFrame = TornIn(log, tornAt)
         /\ tornAt = {} => TornFrame = 0
         /\ \A i \in 1..Len(log) : log[i].at \in tornAt => TornFrame = i
         /\ tornAt # {} => TornFrame \in 1..Len(log) /\ tornAt = {log[TornFrame].at}
  <1>1. log \in Seq(Frames)
    BY DEF StoreTypeOK
  <1>2. \A i \in 1..Len(log) : log[i].at \in tornAt => TornIn(log, tornAt) = i
    BY <1>1, TornFacts DEF LogInv, OneTear
  <1>3. Begun = BegunIn(log, disk) /\ TornFrame = TornIn(log, tornAt)
    BY DEF Begun, BegunIn, TornFrame, TornIn
  <1>4. tornAt # {} => \E i \in 1..Len(log) : log[i].at \in tornAt
    BY DEF LogInv
  <1>5. tornAt # {} => TornFrame \in 1..Len(log) /\ tornAt = {log[TornFrame].at}
    BY <1>2, <1>3, <1>4 DEF OneTear
  <1>6. tornAt = {} => TornFrame = 0
    BY DEF TornFrame
  <1> QED BY <1>2, <1>3, <1>5, <1>6

\* A reader is in front of the tear as long as it was sent less than the torn frame.
LEMMA IntactFacts ==
  ASSUME RefInv, NEW c \in Clients, ~astray[c]
  PROVE  /\ Len(sent[c]) \in Nat
         /\ Log!Intact(Len(sent[c])) => BeforeTear(off[c])
         /\ Log!Intact(Len(sent[c]) + 1) =>
              BeforeTear(off[c]) /\ (off[c] < disk => tornAt = {} \/ off[c] < log[TornFrame].at)
  <1> DEFINE m == Len(sent[c])
  <1>1. /\ TypeOK /\ StoreTypeOK /\ LogInv /\ OneTear /\ FetchInv(c) /\ TearInv(c)
        /\ m \in Nat /\ off[c] \in Nat /\ Len(log) \in Nat
    BY LenProperties DEF RefInv, IInv, TypeOK, StoreTypeOK
  <1>2. CASE tornAt = {}
    BY <1>1, <1>2 DEF BeforeTear
  <1>3. CASE tornAt # {}
    <2> DEFINE T == TornFrame
    <2>1. T \in 1..Len(log) /\ tornAt = {log[T].at}
      BY <1>1, <1>3, MappingFacts
    <2> HIDE DEF T
    <2>2. ~BeforeTear(off[c]) => T <= m
      BY <1>1, <2>1 DEF TearInv
    <2>3. Log!Intact(m) => m < T
      BY <1>1, <2>1 DEF Log!Intact, T
    <2>4. Log!Intact(m + 1) => m + 1 < T
      BY <1>1, <2>1 DEF Log!Intact, T
    <2>5. ASSUME BeforeTear(off[c]), m + 1 < T, off[c] < disk PROVE off[c] < log[T].at
      BY <1>1, <2>1, <2>5, NextFrame DEF LogInv
    <2> QED BY <1>1, <2>1, <2>2, <2>3, <2>4, <2>5 DEF T
  <1> QED BY <1>2, <1>3

\* What a read takes for an envelope is one of the log, or none (0).
LEMMA ReadWithin ==
  ASSUME StoreTypeOK, NEW o \in Nat, NEW r \in ReadResults(o)
  PROVE  r.env \in 0..Len(log)
  <1>1. Len(log) \in Nat
    BY LenProperties DEF StoreTypeOK
  <1>2. ASSUME NEW p, r \in ReadGarbage(p) PROVE r.env = 0
    BY <1>2 DEF ReadGarbage, ReadFailure, ReadSuccess
  <1>3. ASSUME NEW i \in 1..Len(log), r \in ReadFrame(i) PROVE r.env \in {0, i}
    BY <1>2, <1>3 DEF ReadFrame, ReadFailure, ReadSuccess
  <1>4. \/ r = ReadFailure
        \/ r \in ReadGarbage(o)
        \/ \E i \in 1..Len(log) : r \in ReadFrame(i)
    BY DEF ReadResults
  <1> QED BY <1>1, <1>2, <1>3, <1>4 DEF ReadFailure

\* Whether the worker of client d is inside an envelope it gave in part.
Midway(d) == phase[d] = "reading" /\ pos[d] # off[d]

LEMMA MidwayFacts ==
  ASSUME NEW c \in Clients
  PROVE  /\ Midway(c) <=> ReadAt(c) # off[c]
         /\ Log!OnTrack(c) <=> ReadAt(c) = off[c] /\ ~astray[c]
  BY Zenon DEF Midway, ReadAt, Log!OnTrack

\* A read on track is of the next frame of the log.
LEMMA ReadOnTrack ==
  ASSUME RefInv, NEW c \in Clients, NEW r \in ReadResults(ReadAt(c)), r.ok,
         ReadAt(c) = off[c], ~astray[c]
  PROVE  /\ Log!Intact(Len(sent[c])) => Len(sent[c]) < Cardinality(Begun)
         /\ Log!Intact(Len(sent[c]) + 1) =>
              /\ r.env = Len(sent[c]) + 1
              /\ r.stop # off[c] + r.bytes => Cardinality(Begun) = Len(sent[c]) + 1
  <1> DEFINE m == Len(sent[c])
  <1>1. /\ TypeOK /\ StoreTypeOK /\ LogInv /\ OneTear /\ FetchInv(c)
        /\ log \in Seq(Frames) /\ disk \in Nat /\ m \in Nat /\ Len(log) \in Nat
        /\ off[c] \in Nat /\ Begun = BegunIn(log, disk)
    BY MappingFacts, LenProperties DEF RefInv, IInv, TypeOK, StoreTypeOK
  <1>2. off[c] < disk
    BY <1>1, ReadShape
  <1>3. ASSUME Log!Intact(m) PROVE m < Cardinality(Begun)
    <2>1. BeforeTear(off[c])
      BY <1>3, IntactFacts
    <2>2. m + 1 \in 1..Len(log) /\ log[m + 1].at < disk
      BY <1>1, <1>2, <2>1, NextFrame
    <2>3. m + 1 <= Cardinality(Begun) /\ Cardinality(Begun) \in Nat
      BY <1>1, <2>2, BegunAtLeast, BegunFacts DEF LogInv
    <2> QED BY <1>1, <2>3
  <1>4. ASSUME Log!Intact(m + 1)
        PROVE  /\ r.env = m + 1
               /\ r.stop # off[c] + r.bytes => Cardinality(Begun) = m + 1
    <2>1. BeforeTear(off[c]) /\ (tornAt = {} \/ off[c] < log[TornFrame].at)
      BY <1>2, <1>4, IntactFacts
    <2>2. /\ m + 1 \in 1..Len(log) /\ r.env = m + 1
          /\ m + 1 < Len(log) /\ log[m + 2].at < disk => r.stop = off[c] + r.bytes
      <3>1. CASE tornAt = {}
        BY <1>1, <2>1, <3>1, NextRead
      <3>2. CASE tornAt # {}
        <4>1. log[TornFrame].at \in Nat /\ tornAt = {log[TornFrame].at}
          BY <1>1, <3>2, MappingFacts, FrameFacts
        <4> QED BY <1>1, <2>1, <3>2, <4>1, NextRead
      <3> QED BY <3>1, <3>2
    <2>3. log[m + 1].at < disk
      BY <1>1, <1>2, <2>1, NextFrame
    <2>4. (m + 1) + 1 = m + 2
      BY <1>1
    <2>5. ASSUME r.stop # off[c] + r.bytes PROVE Cardinality(Begun) = m + 1
      <3>1. ~(m + 1 < Len(log) /\ log[(m + 1) + 1].at < disk)
        BY <2>2, <2>4, <2>5
      <3> QED BY <1>1, <2>2, <2>3, <3>1, BegunExactly DEF LogInv
    <2> QED BY <2>2, <2>5
  <1> QED BY <1>3, <1>4

\* A read that succeeds is a Read of the log.
LEMMA ReadRefines ==
  ASSUME RefInv, NEW c \in Clients, NEW r \in ReadResults(ReadAt(c)), r.ok,
         UNCHANGED storeVars, delivered' = delivered,
         off' = [off EXCEPT ![c] = @ + r.bytes],
         pos' = [pos EXCEPT ![c] = r.stop],
         astray' = [astray EXCEPT ![c] = @ \/ ReadAt(c) # off[c]],
         sent' = [sent EXCEPT ![c] = Append(@, r.env)],
         \A d \in Clients : d # c => Untouched(d)
  PROVE  Log!Read(c)
  <1> DEFINE m      == Len(sent[c])
             track  == ReadAt(c) = off[c] /\ ~astray[c]
             midway == [d \in Clients |-> phase[d] = "reading" /\ pos[d] # off[d]]
             b      == phase'[c] = "reading" /\ pos'[c] # off'[c]
  <1>1. StoreTypeOK /\ ReadAt(c) \in Nat /\ TypeOK
    BY DEF RefInv, IInv, TypeOK, ReadAt
  <1>2. r.env \in 0..Len(log)
    BY <1>1, ReadWithin
  <1>3. /\ track /\ Log!Intact(m) => m < Cardinality(Begun)
        /\ track /\ Log!Intact(m + 1) =>
             r.env = m + 1 /\ (r.stop # off[c] + r.bytes => Cardinality(Begun) = m + 1)
    BY ReadOnTrack
  <1>4. UNCHANGED <<Len(log), Cardinality(Begun), TornFrame,
                    [d \in Clients |-> Len(delivered[d])]>>
    BY DEF storeVars, Begun, TornFrame
  <1>5. Log!OnTrack(c) <=> track
    BY MidwayFacts
  <1>6. pos'[c] = r.stop /\ off'[c] = off[c] + r.bytes
    BY <1>1 DEF TypeOK
  <1>7. /\ b \in BOOLEAN
        /\ track /\ Log!Intact(m + 1) /\ b => Cardinality(Begun) = m + 1
    BY <1>3, <1>6
  <1>8. midway' = [midway EXCEPT ![c] = b]
    <2>1. \A d \in Clients : d # c => phase'[d] = phase[d] /\ pos'[d] = pos[d] /\ off'[d] = off[d]
      BY DEF Untouched
    <2> QED BY <2>1, Zenon
  <1>9. midway[c] <=> ReadAt(c) # off[c]
    BY MidwayFacts, Zenon DEF Midway
  <1>10. astray' = [astray EXCEPT ![c] = @ \/ midway[c]]
    BY <1>9, Zenon
  <1>11. /\ Log!OnTrack(c) /\ Log!Intact(m) => m < Cardinality(Begun)
         /\ \E e \in 0..Len(log) :
              /\ Log!OnTrack(c) /\ Log!Intact(m + 1) => e = m + 1
              /\ sent' = [sent EXCEPT ![c] = Append(@, e)]
         /\ \E x \in BOOLEAN :
              /\ Log!OnTrack(c) /\ Log!Intact(m + 1) /\ x => Cardinality(Begun) = m + 1
              /\ midway' = [midway EXCEPT ![c] = x]
    <2> HIDE DEF b, midway, track
    <2> QED BY <1>2, <1>3, <1>5, <1>7, <1>8, Zenon
  <1> QED BY <1>4, <1>10, <1>11, Zenon DEF Log!Read

\* A step that moves the control of client c on, out of the loop, is a Rest.
LEMMA ControlRefines ==
  ASSUME RefInv, NEW c \in Clients, UNCHANGED storeVars,
         UNCHANGED <<off, pos, sent, delivered, astray>>, phase'[c] # "reading",
         \A d \in Clients : d # c => Untouched(d)
  PROVE  Log!Rest(c)
  <1> DEFINE midway == [d \in Clients |-> phase[d] = "reading" /\ pos[d] # off[d]]
  <1>1. midway' = [midway EXCEPT ![c] = FALSE]
    <2>1. \A d \in Clients : d # c => phase'[d] = phase[d]
      BY DEF Untouched
    <2> QED BY <2>1, Zenon
  <1>2. UNCHANGED <<Len(log), Cardinality(Begun), TornFrame, sent, astray,
                    [d \in Clients |-> Len(delivered[d])]>>
    BY DEF storeVars, Begun, TornFrame
  <1> QED BY <1>1, <1>2, Zenon DEF Log!Rest

\* The callback is given the segment: a Hand of the log.
LEMMA ReceiveRefines ==
  ASSUME RefInv, NEW c \in Clients, ReceiveSegment(c)
  PROVE  Log!Hand(c)
  <1>1. /\ TypeOK /\ LogInv /\ ClientInv(c)
        /\ UNCHANGED <<storeVars, sent, off, pos, astray>> /\ phase[c] = "replied"
        /\ Len(sent'[c]) = Len(sent[c])
    BY DEF RefInv, IInv, ClientInv, ReceiveSegment
  <1>2. CountInv(c)' /\ TypeOK'
    BY <1>1, ReceiveStep DEF ClientInv
  <1>3. phase'[c] \in {"idle", "waiting"}
    BY <1>1 DEF ReceiveSegment, TypeOK
  <1>4. Len(delivered'[c]) = Len(sent[c])
    BY <1>1, <1>2, <1>3 DEF CountInv
  <1>5. \A d \in Clients : d # c => delivered'[d] = delivered[d]
    BY <1>1 DEF ReceiveSegment, TypeOK
  <1>6. [d \in Clients |-> Len(delivered[d])]'
          = [[d \in Clients |-> Len(delivered[d])] EXCEPT ![c] = Len(sent[c])]
    BY <1>4, <1>5
  <1>7. log' = log /\ Begun' = Begun /\ TornFrame' = TornFrame /\ sent' = sent
    BY <1>1 DEF storeVars, Begun, TornFrame
  <1>8. \A d \in Clients : phase'[d] = "reading" <=> phase[d] = "reading"
    BY <1>1, <1>3 DEF ReceiveSegment, TypeOK
  <1>9. UNCHANGED [d \in Clients |-> phase[d] = "reading" /\ pos[d] # off[d]]
    BY <1>1, <1>8, Zenon
  <1> QED BY <1>1, <1>6, <1>7, <1>9 DEF Log!Hand

LEMMA WriterFacts ==
  ASSUME RefInv, StoreNext
  PROVE  /\ TypeOK /\ StoreTypeOK /\ LogInv /\ OneTear
         /\ StoreTypeOK' /\ LogInv'
         /\ Begun = BegunIn(log, disk) /\ Begun' = BegunIn(log', disk')
         /\ Cardinality(Begun) \in Nat
         /\ Cardinality(Begun)' \in Nat /\ Cardinality(Begun)' <= Len(log')
         /\ Cardinality(Begun) <= Cardinality(Begun)'
         /\ disk' = tail' => Cardinality(Begun)' = Len(log')
         /\ tornAt' = tornAt => TornFrame' = TornFrame
  <1>1. TypeOK /\ StoreTypeOK /\ LogInv /\ OneTear
    BY DEF RefInv, IInv, TypeOK
  <1>2. /\ StoreTypeOK' /\ LogInv' /\ disk <= disk'
        /\ \A i \in 1..Len(log) : log[i].at < disk => i \in 1..Len(log') /\ log'[i] = log[i]
    BY <1>1, StoreStep
  <1>3. Begun = BegunIn(log, disk) /\ Begun' = BegunIn(log', disk')
    BY DEF Begun, BegunIn
  <1>4. log \in Seq(Frames) /\ log' \in Seq(Frames) /\ disk \in Nat /\ disk' \in Nat
    BY <1>1, <1>2 DEF StoreTypeOK
  <1>5. /\ Cardinality(BegunIn(log, disk)) \in Nat
        /\ Cardinality(BegunIn(log', disk')) \in Nat
        /\ Cardinality(BegunIn(log', disk')) <= Len(log')
        /\ Cardinality(BegunIn(log, disk)) <= Cardinality(BegunIn(log', disk'))
    BY <1>2, <1>4, BegunFacts, BegunGrows
  <1>6. disk' = tail' => Cardinality(BegunIn(log', disk')) = Len(log')
    <2>1. \A i \in 1..Len(log') : log'[i].at < tail'
      BY <1>2 DEF LogInv
    <2> QED BY <1>4, <2>1, BegunFacts
  <1>7. ASSUME tornAt' = tornAt PROVE TornFrame' = TornFrame
    <2>1. CASE tornAt = {}
      BY <1>7, <2>1 DEF TornFrame
    <2>2. CASE tornAt # {}
      <3>1. PICK i \in 1..Len(log') : log'[i].at \in tornAt
        BY <1>2, <1>7, <2>2 DEF LogInv
      <3>2. i \in 1..Len(log) /\ log[i] = log'[i]
        BY <1>1, <3>1, TornStays
      <3>3. TornFrame = i
        BY <1>1, <3>1, <3>2, MappingFacts
      <3>4. TornIn(log', tornAt) = i
        BY <1>1, <1>2, <1>4, <3>1, TornFacts DEF LogInv, OneTear
      <3>5. TornFrame' = TornIn(log', tornAt)
        BY <1>7 DEF TornFrame, TornIn
      <3> QED BY <3>3, <3>4, <3>5
    <2> QED BY <2>1, <2>2
  <1> QED BY <1>1, <1>2, <1>3, <1>5, <1>6, <1>7

\* Every step of the writer is one of the log's, or nothing to it.
LEMMA WriterRefines ==
  ASSUME RefInv, StoreNext, UNCHANGED clientVars
  PROVE  [Log!Next]_Log!logVars
  <1> DEFINE n == Cardinality(Begun)
  <1> DEFINE given == [c \in Clients |-> Len(delivered[c])]
  <1> DEFINE midway == [c \in Clients |-> phase[c] = "reading" /\ pos[c] # off[c]]
  <1>0. UNCHANGED <<sent, given, midway, astray>>
    BY DEF clientVars
  <1>1. /\ StoreTypeOK /\ LogInv /\ StoreTypeOK'
        /\ n \in Nat /\ n' \in Nat /\ n' <= Len(log') /\ n <= n'
        /\ disk' = tail' => n' = Len(log')
        /\ tornAt' = tornAt => TornFrame' = TornFrame
    BY WriterFacts
  <1>2. Len(log) \in Nat /\ Len(log') \in Nat
    BY <1>1, LenProperties DEF StoreTypeOK
  <1>3. ASSUME log' = log, disk' = disk, tornAt' = tornAt
        PROVE  UNCHANGED Log!logVars
    <2>1. n' = n
      BY <1>3 DEF Begun
    <2> QED BY <1>0, <1>1, <1>3, <2>1 DEF Log!logVars
  <1>4. ASSUME log' = log, disk' = tail', tornAt' = tornAt PROVE Log!Flush
    BY <1>0, <1>1, <1>4 DEF Log!Flush
  <1>5. ASSUME NEW s \in Sizes, WriteEnvelope(s) PROVE Log!Write
    <2>1. Len(log') = Len(log) + 1 /\ tornAt' = tornAt
      <3>1. [at |-> tail, size |-> s] \in Frames /\ log \in Seq(Frames)
        BY <1>1 DEF StoreTypeOK, Frames
      <3> QED BY <1>5, <3>1, AppendProperties DEF WriteEnvelope
    <2>2. n' \in n..Len(log')
      BY <1>1, <1>2
    <2> QED BY <1>0, <1>1, <2>1, <2>2 DEF Log!Write
  <1>6. CASE Crash
    <2>1. PICK k \in 0..Len(log) :
            /\ \A i \in 1..Len(log) : (i <= k) <=> (log[i].at < disk)
            /\ Len(log') = k
            /\ disk' = disk
            /\ \/ tornAt' = tornAt
               \/ tornAt = {} /\ k \in 1..Len(log) /\ tornAt' = {log[k].at}
      BY <1>1, <1>6, CrashFacts
    <2>2. n = k
      <3>1. Begun = 1..k
        BY <1>2, <2>1 DEF Begun
      <3> QED BY <1>2, <2>1, <3>1, FS_Interval
    <2>3. n' = k
      <3>1. disk' = tail'
        BY <1>6 DEF Crash
      <3> QED BY <1>1, <2>1, <3>1
    <2>4. TornFrame' \in IF TornFrame = 0 THEN {0, n} ELSE {TornFrame}
      <3>1. CASE tornAt' = tornAt
        BY <1>1, <3>1
      <3>2. CASE tornAt = {} /\ k \in 1..Len(log) /\ tornAt' = {log[k].at}
        <4>1. TornFrame = 0
          BY <3>2 DEF TornFrame
        <4>2. /\ StoreTypeOK' /\ LogInv'
              /\ \A i \in 1..Len(log) :
                   log[i].at < disk => i \in 1..Len(log') /\ log'[i] = log[i]
          BY <1>1, <1>6, CrashStep
        <4>3. k \in 1..Len(log') /\ log'[k] = log[k]
          BY <1>2, <2>1, <3>2, <4>2
        <4>4. TornIn(log', tornAt') = k
          <5> DEFINE l == log'
                     ts == {log[k].at}
          <5>1. l \in Seq(Frames) /\ \A p, q \in 1..Len(l) : p < q => l[p].at < l[q].at
            BY <4>2 DEF LogInv, StoreTypeOK
          <5>2. k \in 1..Len(l) /\ l[k].at \in ts /\ \A s, t \in ts : s = t
            BY <4>3
          <5> HIDE DEF l, ts
          <5>3. TornIn(l, ts) = k
            BY <5>1, <5>2, TornFacts
          <5> QED BY <3>2, <5>3 DEF l, ts
        <4>5. TornFrame' = k
          BY <4>4 DEF TornFrame, TornIn
        <4> QED BY <2>2, <4>1, <4>5
      <3> QED BY <2>1, <3>1, <3>2
    <2> QED BY <1>0, <2>1, <2>2, <2>3, <2>4 DEF Log!Lose, Log!Next
  <1>7. CASE OpenOutputStream
    BY <1>3, <1>7 DEF OpenOutputStream
  <1>8. CASE WriteStreamHeader
    BY <1>4, <1>8 DEF WriteStreamHeader, Log!Next
  <1>9. CASE FlushOutputStreams
    BY <1>4, <1>9 DEF FlushOutputStreams, Log!Next
  <1>10. CASE CloseOutputStream
    BY <1>4, <1>10 DEF CloseOutputStream, Log!Next
  <1> QED BY <1>3, <1>5, <1>6, <1>7, <1>8, <1>9, <1>10, <1>4 DEF StoreNext, Log!Next

LEMMA InitRefines ==
  ASSUME Init PROVE Log!Init
  <1>1. log = << >> /\ tornAt = {} /\ sent = [c \in Clients |-> << >>]
        /\ delivered = [c \in Clients |-> << >>]
        /\ astray = [c \in Clients |-> FALSE]
        /\ \A c \in Clients : phase[c] = "idle"
    BY DEF Init, StoreInit
  <1>2. Len(log) = 0 /\ \A c \in Clients : Len(delivered[c]) = 0
    BY <1>1
  <1>3. Begun = {}
    BY <1>2 DEF Begun
  <1>4. Cardinality(Begun) = 0
    BY <1>3, FS_EmptySet
  <1> QED BY <1>1, <1>2, <1>4 DEF Log!Init, TornFrame

LEMMA StepRefines ==
  ASSUME RefInv, [Next]_vars PROVE [Log!Next]_Log!logVars
  <1>1. CASE Writer
    BY <1>1, WriterRefines DEF Writer
  <1>2. ASSUME UNCHANGED vars
        PROVE  UNCHANGED Log!logVars
    <2>1. log' = log /\ Begun' = Begun /\ TornFrame' = TornFrame
      BY <1>2 DEF vars, storeVars, Begun, TornFrame
    <2> QED BY <1>2, <2>1 DEF Log!logVars, vars, clientVars
  <1>3. ASSUME NEW c \in Clients, Worker(c) \/ Client(c)
        PROVE  [Log!Next]_Log!logVars
    <2>1. TypeOK /\ FetchInv(c)
      BY DEF RefInv, IInv
    <2>2. UNCHANGED storeVars /\ \A d \in Clients : d # c => Untouched(d)
      BY <1>3, <2>1, OnlyOneClient
    <2>3. CASE UNCHANGED <<off, pos, sent, delivered, astray>> /\ phase'[c] # "reading"
      BY <2>2, <2>3, ControlRefines DEF Log!Next
    <2>4. ASSUME NEW r \in ReadResults(ReadAt(c)), r.ok,
                 off' = [off EXCEPT ![c] = @ + r.bytes],
                 pos' = [pos EXCEPT ![c] = r.stop],
                 astray' = [astray EXCEPT ![c] = @ \/ ReadAt(c) # off[c]],
                 sent' = [sent EXCEPT ![c] = Append(@, r.env)], delivered' = delivered
          PROVE  Log!Next
      BY <2>2, <2>4, ReadRefines DEF Log!Next
    <2>5. CASE ReceiveSegment(c)
      BY <2>5, ReceiveRefines DEF Log!Next
    <2> QED BY <1>3, <2>1, <2>3, <2>4, <2>5, ReaderMoves
  <1>4. CASE UNCHANGED vars
    BY <1>2, <1>4
  <1> QED BY <1>1, <1>3, <1>4 DEF Next

(***************************************************************************)
(* A stream, with its writer, its crashes and those who fetch it, is the   *)
(* log of EnvelopeLog: GaplessFetch and FetchedIsOnDisk say what is true   *)
(* of a state, this says it of every step (ReadEnvelope, ProcessGetStream, *)
(* WriteEnvelope, Flush), for any sizes, budgets, clients and crashes.     *)
(***************************************************************************)
THEOREM Implements == Spec => ImplementsLog
  <1>1. Init => Log!Init
    BY InitRefines
  <1>2. RefInv /\ [Next]_vars => [Log!Next]_Log!logVars
    BY StepRefines
  <1> QED BY <1>1, <1>2, RefInvariance, PTL DEF Spec, ImplementsLog, Log!Spec

----------------------------------------------------------------------------
(* Why the worker's loop ends                                              *)

\* A round of the loop that goes on has charged the envelope's bytes to the
\* budget, which is a natural number: nobody's appending keeps it going.
RoundsCharge ==
  \A c \in Clients :
    phase[c] = "reading" /\ phase'[c] = "reading" /\ off'[c] # off[c] =>
      bytesLeft'[c] < bytesLeft[c]

LEMMA NextCharges ==
  ASSUME IInv, [Next]_vars PROVE RoundsCharge
  <1> SUFFICES ASSUME NEW c \in Clients, phase[c] = "reading", phase'[c] = "reading",
                      off'[c] # off[c]
               PROVE  bytesLeft'[c] < bytesLeft[c]
    BY DEF RoundsCharge
  <1>1. TypeOK /\ FetchInv(c) /\ StoreTypeOK /\ pos[c] \in Nat
        /\ bytesLeft[c] \in 0..(Word - 1) /\ Word \in Nat
    BY LimitsAssumption DEF IInv, TypeOK
  <1>2. ReadNext(c)
    <2>1. CASE Writer \/ UNCHANGED vars
      BY <2>1 DEF Writer, vars, clientVars
    <2>2. ASSUME NEW d \in Clients, d # c, Worker(d) \/ Client(d) PROVE FALSE
      BY <1>1, <2>2, OnlyOneClient DEF Untouched
    <2>3. CASE Worker(c) \/ Client(c)
      BY <2>3 DEF Worker, Client, Mirror, ReceiveSegment, DropError, OpenFails,
                  ReadFirst, EndSegment
    <2> QED BY <2>1, <2>2, <2>3 DEF Next
  <1>3. PICK r \in ReadResults(pos[c]) :
          /\ r.ok
          /\ \/ phase' = [phase EXCEPT ![c] = "replied"]
             \/ /\ ~(r.bytes > bytesLeft[c])
                /\ bytesLeft' = [bytesLeft EXCEPT ![c] = @ - r.bytes]
    BY <1>2, Zenon DEF ReadNext
  <1>4. PICK n \in Sizes : r.bytes = BytesRead(n)
    BY <1>1, <1>3, ReadShape
  <1>5. BytesRead(n) \in Nat /\ BytesRead(n) >= 2 /\ r.bytes = BytesRead(n)
    BY <1>4, SizeFacts
  <1>6. DOMAIN phase = Clients /\ DOMAIN bytesLeft = Clients
    BY <1>1 DEF TypeOK
  <1>7. phase' # [phase EXCEPT ![c] = "replied"]
    BY <1>6
  <1>8. bytesLeft' = [bytesLeft EXCEPT ![c] = @ - BytesRead(n)]
    BY <1>3, <1>5, <1>7
  <1>9. bytesLeft'[c] = bytesLeft[c] - BytesRead(n)
    BY <1>6, <1>8
  <1> QED BY <1>1, <1>5, <1>9

\* The while (true) of ProcessGetStream ends, whatever is appended to the stream
\* while it reads: every further round takes bytes off bytes_left.
THEOREM LoopEnds == Spec => [][RoundsCharge]_vars
  <1>1. IInv /\ [Next]_vars => RoundsCharge
    BY NextCharges
  <1> QED BY <1>1, Invariance, PTL DEF Spec

============================================================================
