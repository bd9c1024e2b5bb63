---------------------------- MODULE StreamStore ----------------------------
(***************************************************************************)
(* One stream file of a SimpleDirectoryStore: the FileOutputStream that    *)
(* appends length-prefixed envelopes to it, what of them has reached the   *)
(* file, a crash of the writing process, and what an InputStream finds at  *)
(* a given offset of the file.  The writer is the server's store writer    *)
(* device, another thread than the workers that read, or another process.  *)
(*                                                                         *)
(* Offsets are bytes from the start of the file, as in the code.  The      *)
(* bytes themselves are abstracted to the frame they belong to: frame i is *)
(* log[i], it starts at offset log[i].at and holds an envelope of          *)
(* log[i].size bytes after its varint length prefix.                       *)
(***************************************************************************)
EXTENDS Naturals, Sequences

CONSTANTS
  Sizes,        \* serialized sizes of the envelopes that may be written
  MaxEnvelopes, \* bound: envelopes written to the stream
  MaxCrashes    \* bound: crashes of the writing process

(***************************************************************************)
(* An envelope always carries a create_time, so it is never empty; above   *)
(* 268435455 bytes protobuf writes a 5-byte prefix, which                  *)
(* InputStream::ReadEnvelope does not account for.                         *)
(***************************************************************************)
ASSUME SizesAssumption == \A n \in Sizes : n \in Nat /\ 1 <= n /\ n <= 268435455

ASSUME BoundsAssumption == MaxEnvelopes \in Nat /\ MaxCrashes \in Nat

VARIABLES
  writer,  \* "none": no stream open, "opening": File::Open returned, "open"
  log,     \* the frames handed to the writer that are in the file or its buffer
  tail,    \* offset after the last byte handed to the writer
  disk,    \* length of the file; the bytes disk..tail-1 are buffered
  tornAt,  \* history: {} or the offset of the first frame a crash cut short
  crashes  \* number of crashes so far

storeVars == <<writer, log, tail, disk, tornAt, crashes>>

Frames == [at : Nat, size : Sizes]

----------------------------------------------------------------------------
(* The frame format                                                        *)

\* The length prefix protobuf writes: CodedOutputStream::WriteVarint32.
VarintSize(n) ==
  IF n <= 127 THEN 1
  ELSE IF n <= 16383 THEN 2
  ELSE IF n <= 2097151 THEN 3
  ELSE IF n <= 268435455 THEN 4
  ELSE 5

FrameSize(n) == n + VarintSize(n)

\* The bytes_read that ReadEnvelope computes from the size and adds to offset.
BytesRead(n) ==
  IF n <= 127 THEN n + 1 ELSE IF n <= 16383 THEN n + 2
  ELSE IF n <= 2097151 THEN n + 3 ELSE n + 4

FrameEnd(f) == f.at + FrameSize(f.size)

----------------------------------------------------------------------------
(* The writer                                                              *)

StoreInit ==
  /\ writer = "none"
  /\ log = << >>
  /\ tail = 0
  /\ disk = 0
  /\ tornAt = {}
  /\ crashes = 0

(***************************************************************************)
(* The FileOutputStream constructor: the file is created or opened for     *)
(* appending; it is empty until the header is written and flushed.         *)
(***************************************************************************)
OpenOutputStream ==
  /\ writer = "none"
  /\ writer' = "opening"
  /\ UNCHANGED <<log, tail, disk, tornAt, crashes>>

WriteStreamHeader ==
  /\ writer = "opening"
  /\ writer' = "open"
  /\ disk' = IF disk = 0 THEN 1 ELSE disk
  /\ tail' = disk'
  /\ UNCHANGED <<log, tornAt, crashes>>

\* mutant: the length prefix counts itself
WriteEnvelopeMutant(n) ==
  /\ writer = "open"
  /\ Len(log) < MaxEnvelopes
  /\ log' = Append(log, [at |-> tail, size |-> FrameSize(n)])
  /\ tail' = tail + FrameSize(n)
  /\ disk' \in disk..tail'
  /\ UNCHANGED <<writer, tornAt, crashes>>

(***************************************************************************)
(* OutputStream::WriteEnvelope appends prefix and envelope to the protobuf *)
(* buffer.  When the buffer fills, protobuf writes it to the file, wherever*)
(* in a frame that happens to be.                                          *)
(***************************************************************************)
WriteEnvelope(n) ==
  /\ writer = "open"
  /\ Len(log) < MaxEnvelopes
  /\ log' = Append(log, [at |-> tail, size |-> n])
  /\ tail' = tail + FrameSize(n)
  /\ disk' \in disk..tail'
  /\ UNCHANGED <<writer, tornAt, crashes>>

\* Store::FlushOutputStreams, on the server's flush timer.
FlushOutputStreams ==
  /\ writer = "open"
  /\ disk' = tail
  /\ UNCHANGED <<writer, log, tail, tornAt, crashes>>

\* The Store destructor: deleting the FileOutputStream closes and flushes it.
CloseOutputStream ==
  /\ writer = "open"
  /\ writer' = "none"
  /\ disk' = tail
  /\ UNCHANGED <<log, tail, tornAt, crashes>>

(***************************************************************************)
(* The process dies: what is still in the protobuf buffer is gone, what    *)
(* reached the file stays.  Nothing repairs the file on restart: the next  *)
(* FileOutputStream appends after whatever is there.                       *)
(***************************************************************************)
Crash ==
  /\ writer # "none"
  /\ crashes < MaxCrashes
  /\ \E k \in 0..Len(log) :
       /\ \A i \in 1..Len(log) : (i <= k) <=> (log[i].at < disk)
       /\ log' = SubSeq(log, 1, k)
       /\ tornAt' = IF tornAt = {} /\ k > 0 /\ disk < FrameEnd(log[k])
                    THEN {log[k].at} ELSE tornAt
  /\ writer' = "none"
  /\ tail' = disk
  /\ crashes' = crashes + 1
  /\ UNCHANGED disk

StoreNext ==
  \/ OpenOutputStream
  \/ WriteStreamHeader
  \/ \E n \in Sizes : WriteEnvelope(n)
  \/ FlushOutputStreams
  \/ CloseOutputStream
  \/ Crash

----------------------------------------------------------------------------
(* The reader                                                              *)

\* Where the bytes of frame i end in the file.
ExtentEnd(i) ==
  IF i < Len(log) /\ log[i + 1].at < disk THEN log[i + 1].at ELSE disk

Lesser(a, b) == IF b < a THEN b ELSE a

(***************************************************************************)
(* What a read gives: the envelope (0: bytes that are none), whether it is *)
(* whole, the bytes added to offset, and where the CodedInputStream stops: *)
(* a message that parses ends at its limit or at the end of the file,      *)
(* whichever comes first.  Only bytes reaches offset; nobody seeks.        *)
(***************************************************************************)
ReadFailure == [ok |-> FALSE, env |-> 0, whole |-> FALSE, bytes |-> 0, stop |-> 0]

ReadSuccess(i, w, n, o) ==
  [ok |-> TRUE, env |-> i, whole |-> w, bytes |-> BytesRead(n),
   stop |-> Lesser(o + FrameSize(n), disk)]

(***************************************************************************)
(* What ReadEnvelope may find where no frame starts: any bytes.  The sizes *)
(* they may be taken for are bounded to those of Sizes.                    *)
(***************************************************************************)
ReadGarbage(o) ==
  {ReadFailure} \cup {ReadSuccess(0, FALSE, n, o) : n \in Sizes}

(***************************************************************************)
(* What InputStream::ReadEnvelope may return at the start of frame i, given*)
(* what is in the file now.  Protobuf's parser is external; two facts of it*)
(* matter: the end of the file is a legitimate end of a message, so an     *)
(* envelope the file cuts at a field boundary parses (whole = FALSE): the  *)
(* offset advances over the full frame, the parser is left at the cut; and *)
(* a frame that runs into the bytes of the next one may parse or not.      *)
(***************************************************************************)
ReadFrame(i) ==
  LET f == log[i]
  IN IF FrameEnd(f) <= ExtentEnd(i) THEN {ReadSuccess(i, TRUE, f.size, f.at)}
     ELSE IF f.at + VarintSize(f.size) <= ExtentEnd(i)
     THEN {ReadFailure,
           ReadSuccess(IF ExtentEnd(i) = disk THEN i ELSE 0, FALSE, f.size, f.at)}
     ELSE IF ExtentEnd(i) = disk THEN {ReadFailure}
     ELSE ReadGarbage(f.at)

\* mutant: what the writer still buffers is read as if it were in the file
ReadResultsMutant(o) ==
  IF \E i \in 1..Len(log) : log[i].at = o
  THEN {ReadSuccess(i, TRUE, log[i].size, o) : i \in {j \in 1..Len(log) : log[j].at = o}}
  ELSE {ReadFailure}

ReadResults(o) ==
  IF o >= disk THEN {ReadFailure}
  ELSE IF \E i \in 1..Len(log) : log[i].at = o
  THEN UNION {ReadFrame(i) : i \in {j \in 1..Len(log) : log[j].at = o}}
  ELSE ReadGarbage(o)

----------------------------------------------------------------------------
StoreTypeOK ==
  /\ writer \in {"none", "opening", "open"}
  /\ log \in Seq(Frames)
  /\ tail \in Nat
  /\ disk \in Nat
  /\ tornAt \in SUBSET Nat
  /\ crashes \in Nat

============================================================================
