----------------------------- MODULE GetStream -----------------------------
(***************************************************************************)
(* Fetching a stream while it is being written: Client::Mirror and         *)
(* Client::GetStream on one side, RequestProcessor::ProcessGetStream and   *)
(* RequestProcessor::Pump on the other, over the stream file of            *)
(* StreamStore.                                                            *)
(*                                                                         *)
(* A worker reads the file frame by frame while the writer, another        *)
(* thread, appends, flushes, or dies.  Every client has at most one        *)
(* request under way (the calls are synchronous), so the state of the      *)
(* worker that serves it is kept per client.                               *)
(***************************************************************************)
EXTENDS StreamStore, FiniteSets

CONSTANTS
  Clients,             \* clients that mirror the stream
  ServerMaxBytes,      \* get_stream_max_bytes
  ServerMaxEnvelopes,  \* get_stream_max_envelopes
  RequestLimits,       \* limits a request may carry: [bytes, envelopes]
  Word                 \* 2^32: the width of the uint32 budgets

ASSUME LimitsAssumption ==
  /\ Word \in Nat \ {0, 1}
  /\ ServerMaxBytes \in 1..(Word - 1)
  /\ ServerMaxEnvelopes \in 1..(Word - 1)
  /\ RequestLimits \subseteq [bytes : 0..(Word - 1), envelopes : 0..(Word - 1)]

VARIABLES
  phase,     \* [Clients -> Phases], below
  fetched,   \* StreamFetchState::end_offset, kept between calls
  start,     \* GetStream's start_offset: where the next segment is requested
  target,    \* GetStream's end_offset: the length the server reported
  limit,     \* limits carried by the request under way
  off,       \* InputStream::CurrentEnvelopeOffset of the worker's stream
  pos,       \* where in the file its CodedInputStream stands
  base,      \* envelopes sent to the client before the current segment
  bytesRead, \* bytes_read of the segment under way
  bytesLeft, \* bytes_left
  envsLeft,  \* envelopes_left
  sent,      \* history: the frames put into segments for the client
  delivered, \* history: the frames its callbacks were given
  partial,   \* history: an envelope that was not whole was put into a segment
  astray     \* history: a segment was continued from inside an envelope

clientVars == <<phase, fetched, start, target, limit, off, pos, base, bytesRead,
                bytesLeft, envsLeft, sent, delivered, partial, astray>>

vars == <<storeVars, clientVars>>

(***************************************************************************)
(* idle     not inside GetStream                                           *)
(* waiting  GetStreamSegmentV1 sent, the worker has not read it            *)
(* reading  the worker is inside ProcessGetStream's while loop             *)
(* replied  the segment is on its way to the client                        *)
(* error    an Error response is on its way to the client                  *)
(* hung     the client dropped the Error and polls for an answer           *)
(***************************************************************************)
Phases == {"idle", "waiting", "reading", "replied", "error", "hung"}

\* uint32 decrement
Decrement(n) == IF n = 0 THEN Word - 1 ELSE n - 1

\* A stream opened at offset 0 is read from behind its version byte.
ResumeOffset(o) == IF o = 0 THEN 1 ELSE o

Init ==
  /\ StoreInit
  /\ phase = [c \in Clients |-> "idle"]
  /\ fetched = [c \in Clients |-> 0]
  /\ start = [c \in Clients |-> 0]
  /\ target = [c \in Clients |-> 0]
  /\ limit \in [Clients -> RequestLimits]
  /\ off = [c \in Clients |-> 1]
  /\ pos = [c \in Clients |-> 1]
  /\ base = [c \in Clients |-> 0]
  /\ bytesRead = [c \in Clients |-> 0]
  /\ bytesLeft = [c \in Clients |-> 0]
  /\ envsLeft = [c \in Clients |-> 0]
  /\ sent = [c \in Clients |-> << >>]
  /\ delivered = [c \in Clients |-> << >>]
  /\ partial = [c \in Clients |-> FALSE]
  /\ astray = [c \in Clients |-> FALSE]

----------------------------------------------------------------------------
(* The client                                                              *)

(***************************************************************************)
(* Mirror learns the stream's length from GetStoreInfo and calls GetStream *)
(* with it.  A length of 0 (a file whose header is not written yet) makes  *)
(* GetStream ask for the StreamInfo, an answer the client never            *)
(* dispatches; a length that has been fetched already ends the call.       *)
(***************************************************************************)
Mirror(c) ==
  /\ phase[c] = "idle"
  /\ writer # "none" \/ disk > 0
  /\ disk = 0 \/ fetched[c] < disk
  /\ phase' = [phase EXCEPT ![c] = IF disk = 0 THEN "hung" ELSE "waiting"]
  /\ target' = [target EXCEPT ![c] = disk]
  /\ start' = [start EXCEPT ![c] = fetched[c]]
  /\ UNCHANGED <<storeVars, fetched, limit, off, pos, base, bytesRead,
                 bytesLeft, envsLeft, sent, delivered, partial, astray>>

\* The frames of the response, as RequestProcessor::Pump puts them on the wire:
\* the iterator of its loop starts at the envelope that was already sent.
Frame(kind, i) == [kind |-> kind, env |-> i]

Envelopes(s) == [i \in 1..Len(s) |-> Frame("envelope", s[i])]

WireMutant(s) ==
  <<Frame("start", 0)>> \o Envelopes(s) \o <<Frame("end", 0)>>

Wire(s) ==
  <<Frame("start", 0)>> \o <<Frame("start", 0)>> \o Envelopes(s) \o <<Frame("end", 0)>>

\* HandleRequestResponse takes the frames 1 <= i < size - 2 (from 0) as envelopes.
SegmentEnvelopes(w) == SubSeq(w, 2, Len(w) - 2)

Segment(c) == SubSeq(sent[c], base[c] + 1, Len(sent[c]))

\* mutant: a segment is taken to reach the length the server reported
ReceiveSegmentMutant(c) ==
  /\ phase[c] = "replied"
  /\ delivered' = [delivered EXCEPT ![c] = @ \o SegmentEnvelopes(Wire(Segment(c)))]
  /\ start' = [start EXCEPT ![c] = target[c]]
  /\ phase' = [phase EXCEPT ![c] = "idle"]
  /\ fetched' = [fetched EXCEPT ![c] = target[c]]
  /\ limit' \in {[limit EXCEPT ![c] = l] : l \in RequestLimits}
  /\ UNCHANGED <<storeVars, target, off, pos, base, bytesRead, bytesLeft,
                 envsLeft, sent, partial, astray>>

(***************************************************************************)
(* GetStream's loop body after GetStreamSegment returned: the callback,    *)
(* and the next request or the return.  bytes_sent is never 0.             *)
(***************************************************************************)
ReceiveSegment(c) ==
  /\ phase[c] = "replied"
  /\ delivered' = [delivered EXCEPT ![c] = @ \o SegmentEnvelopes(Wire(Segment(c)))]
  /\ start' = [start EXCEPT ![c] = off[c]]
  /\ IF off[c] >= target[c]
     THEN /\ phase' = [phase EXCEPT ![c] = "idle"]
          /\ fetched' = [fetched EXCEPT ![c] = off[c]]
     ELSE /\ phase' = [phase EXCEPT ![c] = "waiting"]
          /\ UNCHANGED fetched
  /\ limit' \in {[limit EXCEPT ![c] = l] : l \in RequestLimits}
  /\ UNCHANGED <<storeVars, target, off, pos, base, bytesRead, bytesLeft,
                 envsLeft, sent, partial, astray>>

(***************************************************************************)
(* ProcessResponseMessage drops an Error response in its default case; the *)
(* request stays outstanding and the synchronous call, which has no        *)
(* timeout, keeps pumping.                                                 *)
(***************************************************************************)
DropError(c) ==
  /\ phase[c] = "error"
  /\ phase' = [phase EXCEPT ![c] = "hung"]
  /\ UNCHANGED <<storeVars, fetched, start, target, limit, off, pos, base,
                 bytesRead, bytesLeft, envsLeft, sent, delivered, partial, astray>>

----------------------------------------------------------------------------
(* The worker                                                              *)

(***************************************************************************)
(* ProcessGetStream up to and including the first envelope.  Opening a     *)
(* stream whose version byte is missing throws, and no envelope at the     *)
(* offset is INVALID_STREAM_OFFSET: both are Error responses.              *)
(***************************************************************************)
OpenFails(c) ==
  /\ phase[c] = "waiting"
  /\ \/ disk = 0
     \/ ReadFailure \in ReadResults(ResumeOffset(start[c]))
  /\ phase' = [phase EXCEPT ![c] = "error"]
  /\ UNCHANGED <<storeVars, fetched, start, target, limit, off, pos, base,
                 bytesRead, bytesLeft, envsLeft, sent, delivered, partial, astray>>

ReadFirst(c) ==
  /\ phase[c] = "waiting"
  /\ disk > 0
  /\ \E r \in ReadResults(ResumeOffset(start[c])) :
       LET bytes == Lesser(ServerMaxBytes, limit[c].bytes)
           envs  == Decrement(Lesser(ServerMaxEnvelopes, limit[c].envelopes))
       IN /\ r.ok
          /\ off' = [off EXCEPT ![c] = ResumeOffset(start[c]) + r.bytes]
          /\ pos' = [pos EXCEPT ![c] = r.stop]
          /\ base' = [base EXCEPT ![c] = Len(sent[c])]
          /\ sent' = [sent EXCEPT ![c] = Append(@, r.env)]
          /\ partial' = [partial EXCEPT ![c] = @ \/ ~r.whole]
          /\ bytesRead' = [bytesRead EXCEPT ![c] = r.bytes]
          /\ envsLeft' = [envsLeft EXCEPT ![c] = envs]
          /\ IF r.bytes < bytes /\ envs # 0
             THEN /\ bytesLeft' = [bytesLeft EXCEPT ![c] = bytes - r.bytes]
                  /\ phase' = [phase EXCEPT ![c] = "reading"]
             ELSE /\ bytesLeft' = [bytesLeft EXCEPT ![c] = bytes]
                  /\ phase' = [phase EXCEPT ![c] = "replied"]
  /\ UNCHANGED <<storeVars, fetched, start, target, limit, delivered, astray>>

\* mutant: the budgets are never charged
ReadNextMutant(c) ==
  /\ phase[c] = "reading"
  /\ \E r \in ReadResults(pos[c]) :
       /\ r.ok
       /\ off' = [off EXCEPT ![c] = @ + r.bytes]
       /\ pos' = [pos EXCEPT ![c] = r.stop]
       /\ astray' = [astray EXCEPT ![c] = @ \/ pos[c] # off[c]]
       /\ sent' = [sent EXCEPT ![c] = Append(@, r.env)]
       /\ partial' = [partial EXCEPT ![c] = @ \/ ~r.whole]
       /\ bytesRead' = [bytesRead EXCEPT ![c] = @ + r.bytes]
       /\ UNCHANGED <<envsLeft, bytesLeft, phase>>
  /\ UNCHANGED <<storeVars, fetched, start, target, limit, base, delivered>>

(***************************************************************************)
(* One round of the while loop that finds an envelope.  It is read where   *)
(* the parser was left, which is short of the offset when the envelope     *)
(* before it was cut by the end of the file and the file has grown since;  *)
(* it is added to the segment before the budgets are looked at.            *)
(***************************************************************************)
ReadNext(c) ==
  /\ phase[c] = "reading"
  /\ \E r \in ReadResults(pos[c]) :
       /\ r.ok
       /\ off' = [off EXCEPT ![c] = @ + r.bytes]
       /\ pos' = [pos EXCEPT ![c] = r.stop]
       /\ astray' = [astray EXCEPT ![c] = @ \/ pos[c] # off[c]]
       /\ sent' = [sent EXCEPT ![c] = Append(@, r.env)]
       /\ partial' = [partial EXCEPT ![c] = @ \/ ~r.whole]
       /\ bytesRead' = [bytesRead EXCEPT ![c] = @ + r.bytes]
       /\ IF r.bytes > bytesLeft[c]
          THEN /\ phase' = [phase EXCEPT ![c] = "replied"]
               /\ UNCHANGED <<envsLeft, bytesLeft>>
          ELSE /\ envsLeft' = [envsLeft EXCEPT ![c] = Decrement(@)]
               /\ IF envsLeft[c] = 1
                  THEN /\ phase' = [phase EXCEPT ![c] = "replied"]
                       /\ UNCHANGED bytesLeft
                  ELSE /\ bytesLeft' = [bytesLeft EXCEPT ![c] = @ - r.bytes]
                       /\ UNCHANGED phase
  /\ UNCHANGED <<storeVars, fetched, start, target, limit, base, delivered>>

\* mutant: a failed read goes round the loop again
EndSegmentMutant(c) ==
  /\ phase[c] = "reading"
  /\ ReadFailure \in ReadResults(pos[c])
  /\ UNCHANGED vars

\* The while loop finds no envelope where its parser stands: the segment ends
\* with the offset reached, wherever that is.
EndSegment(c) ==
  /\ phase[c] = "reading"
  /\ ReadFailure \in ReadResults(pos[c])
  /\ phase' = [phase EXCEPT ![c] = "replied"]
  /\ UNCHANGED <<storeVars, fetched, start, target, limit, off, pos, base,
                 bytesRead, bytesLeft, envsLeft, sent, delivered, partial, astray>>

----------------------------------------------------------------------------
Writer == StoreNext /\ UNCHANGED clientVars

Worker(c) == OpenFails(c) \/ ReadFirst(c) \/ ReadNext(c) \/ EndSegment(c)

Client(c) == Mirror(c) \/ ReceiveSegment(c) \/ DropError(c)

Next == Writer \/ \E c \in Clients : Worker(c) \/ Client(c)

Spec == Init /\ [][Next]_vars

(***************************************************************************)
(* The worker pool and a client inside a synchronous call keep running.    *)
(* Nothing obliges anyone to call Mirror, and the writer may stop.         *)
(***************************************************************************)
Fairness ==
  \A c \in Clients :
    WF_vars(Worker(c)) /\ WF_vars(ReceiveSegment(c) \/ DropError(c))

FairSpec == Spec /\ Fairness

----------------------------------------------------------------------------
(* Properties                                                              *)

TypeOK ==
  /\ StoreTypeOK
  /\ phase \in [Clients -> Phases]
  /\ fetched \in [Clients -> Nat]
  /\ start \in [Clients -> Nat]
  /\ target \in [Clients -> Nat]
  /\ limit \in [Clients -> RequestLimits]
  /\ off \in [Clients -> Nat]
  /\ pos \in [Clients -> Nat]
  /\ base \in [Clients -> Nat]
  /\ bytesRead \in [Clients -> Nat]
  /\ bytesLeft \in [Clients -> 0..(Word - 1)]
  /\ envsLeft \in [Clients -> 0..(Word - 1)]
  /\ sent \in [Clients -> Seq(Nat)]
  /\ delivered \in [Clients -> Seq([kind : {"start", "envelope", "end"}, env : Nat])]
  /\ partial \in [Clients -> BOOLEAN]
  /\ astray \in [Clients -> BOOLEAN]

\* Offset o lies in front of whatever a crash has torn.
BeforeTear(o) == \A t \in tornAt : o <= t

\* Offset reached after the first k frames.
OffsetAfter(k) == IF k = 0 THEN 1 ELSE FrameEnd(log[k])

(***************************************************************************)
(* A reader that follows the offsets it is given meets every envelope      *)
(* once, in the order of writing, whatever the writer, its flushes, its    *)
(* crashes and the budgets do in between: as long as the offset reached is *)
(* not behind a frame a crash tore, and no segment went on from inside an  *)
(* envelope the end of the file had cut, the frames sent are exactly the   *)
(* first k of the stream and the offset is the end of the k-th             *)
(* (ProcessGetStream, GetStream's start_offset = segment.EndOffset).  A    *)
(* cut envelope that is the last of its segment does no harm to those      *)
(* behind it: the next request seeks to the end of its full frame.         *)
(***************************************************************************)
GaplessFetch ==
  \A c \in Clients :
    BeforeTear(off[c]) /\ ~astray[c] =>
      /\ sent[c] = [i \in 1..Len(sent[c]) |-> i]
      /\ Len(sent[c]) <= Len(log)
      /\ off[c] = OffsetAfter(Len(sent[c]))

(***************************************************************************)
(* What a client has recorded as fetched is in the file, so a crash of the *)
(* writer cannot take it back: unless a torn envelope was parsed, neither  *)
(* the fetch state nor the offset of the segment under way is behind the   *)
(* end of the file (offset += bytes_read in ReadEnvelope).                 *)
(***************************************************************************)
FetchedIsOnDisk ==
  \A c \in Clients :
    ~partial[c] => /\ fetched[c] <= disk
                   /\ off[c] <= disk \/ off[c] = 1

(***************************************************************************)
(* The budgets of a segment: at most one envelope beyond the byte budget   *)
(* and, unless the request asks for 0 envelopes, no envelope beyond the    *)
(* envelope budget, whatever is appended to the stream while it is read    *)
(* (bytes_left and envelopes_left in ProcessGetStream).                    *)
(***************************************************************************)
SegmentBudget ==
  \A c \in Clients :
    phase[c] \in {"reading", "replied"} =>
      /\ \E n \in Sizes :
           bytesRead[c] <= Lesser(ServerMaxBytes, limit[c].bytes) + BytesRead(n)
      /\ limit[c].envelopes > 0 =>
           Len(sent[c]) - base[c] <= Lesser(ServerMaxEnvelopes, limit[c].envelopes)

(***************************************************************************)
(* The callback of a finished call has been given as many envelopes as the *)
(* server counted in envelopes_sent: the frame Pump sends twice makes up   *)
(* for the frame HandleRequestResponse leaves out.                         *)
(***************************************************************************)
CountsAgree ==
  \A c \in Clients :
    phase[c] \in {"idle", "waiting"} => Len(delivered[c]) = Len(sent[c])

\* The frames of the log that are at least begun in the file.
Begun == {i \in 1..Len(log) : log[i].at < disk}

\* The first frame a crash cut short, if any.
TornFrame ==
  IF tornAt = {} THEN 0 ELSE CHOOSE i \in 1..Len(log) : log[i].at \in tornAt

Log == INSTANCE EnvelopeLog WITH
  Readers <- Clients,
  written <- Len(log),
  inFile  <- Cardinality(Begun),
  torn    <- TornFrame,
  read    <- sent,
  given   <- [c \in Clients |-> Len(delivered[c])],
  midway  <- [c \in Clients |-> phase[c] = "reading" /\ pos[c] # off[c]]

(***************************************************************************)
(* To those who fetch it a stream is the log of EnvelopeLog: offsets       *)
(* counted by the reader beside the parser's own position, frames, segments*)
(* cut by budgets, the writer's buffer and a file no one repairs after a   *)
(* crash keep its promises, and each segment hands over as many envelopes  *)
(* as were read (ReadEnvelope, ProcessGetStream, Pump, GetStream and the   *)
(* callbacks).                                                             *)
(***************************************************************************)
ImplementsLog == Log!Spec

(***************************************************************************)
(* Every GetStreamSegment request is answered, by a segment or an Error,   *)
(* also while the writer keeps appending to the stream                     *)
(* (the while (true) of ProcessGetStream ends).                            *)
(***************************************************************************)
RequestAnswered ==
  \A c \in Clients : phase[c] = "waiting" ~> phase[c] \in {"replied", "error", "hung"}

(***************************************************************************)
(* client.hpp says of StreamSegment::Envelopes "The envelopes sent in the  *)
(* segment": the callbacks get the frames the server put into segments.    *)
(***************************************************************************)
DeliveredAreSent ==
  \A c \in Clients :
    phase[c] \in {"idle", "waiting"} => delivered[c] = Envelopes(sent[c])

============================================================================
