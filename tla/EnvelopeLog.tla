---------------------------- MODULE EnvelopeLog ----------------------------
(***************************************************************************)
(* What a stream promises those who fetch it, whatever offsets, length     *)
(* prefixes, segments and budgets are behind it: envelopes numbered in the *)
(* order of writing; a crash loses only what had not reached the file, and *)
(* leaves at most one envelope cut short for ever; a reader is given the   *)
(* envelopes one by one, none missed and none twice, up to the first cut   *)
(* one; and what it read has reached the file.  The last envelope of the   *)
(* file may be given in part.  A reader that rests then finds the next one *)
(* afterwards; one that reads on at once is astray for good.  Of what is   *)
(* read astray or behind the cut envelope nothing is promised, and nowhere *)
(* that a reader will read on.                                             *)
(***************************************************************************)
EXTENDS Naturals, Sequences

CONSTANT Readers

VARIABLES
  written, \* envelopes written and not lost: they are the numbers 1..written
  inFile,  \* so many of them are at least begun in the file
  torn,    \* 0, or the first envelope that a crash cut short
  read,    \* [Readers -> the numbers read, 0 for bytes that are no envelope]
  given,   \* [Readers -> Nat]: how many of them were handed over
  midway,  \* [Readers -> BOOLEAN]: inside an envelope that was given in part
  astray   \* [Readers -> BOOLEAN]: read on from inside one

logVars == <<written, inFile, torn, read, given, midway, astray>>

\* Envelope n lies in front of whatever a crash has cut.
Intact(n) == torn = 0 \/ n < torn

Init ==
  /\ written = 0
  /\ inFile = 0
  /\ torn = 0
  /\ read = [c \in Readers |-> << >>]
  /\ given = [c \in Readers |-> 0]
  /\ midway = [c \in Readers |-> FALSE]
  /\ astray = [c \in Readers |-> FALSE]

\* One more envelope; whatever of the buffer goes to the file with it.
Write ==
  /\ written' = written + 1
  /\ inFile' \in inFile..written'
  /\ UNCHANGED <<torn, read, given, midway, astray>>

Flush ==
  /\ inFile' = written
  /\ UNCHANGED <<written, torn, read, given, midway, astray>>

\* The last envelope in the file may be there in part; the first cut one counts.
Lose ==
  /\ written' = inFile
  /\ torn' \in IF torn = 0 THEN {0, inFile} ELSE {torn}
  /\ UNCHANGED <<inFile, read, given, midway, astray>>

\* Reader c reads where an envelope ends, and has always done so.
OnTrack(c) == ~midway[c] /\ ~astray[c]

(***************************************************************************)
(* The next envelope for reader c, in part at most if it is the last in    *)
(* the file; behind the cut one, or astray, whatever it finds.             *)
(***************************************************************************)
Read(c) ==
  /\ OnTrack(c) /\ Intact(Len(read[c])) => Len(read[c]) < inFile
  /\ \E e \in 0..written :
       /\ OnTrack(c) /\ Intact(Len(read[c]) + 1) => e = Len(read[c]) + 1
       /\ read' = [read EXCEPT ![c] = Append(@, e)]
  /\ \E m \in BOOLEAN :
       /\ OnTrack(c) /\ Intact(Len(read[c]) + 1) /\ m => inFile = Len(read[c]) + 1
       /\ midway' = [midway EXCEPT ![c] = m]
  /\ astray' = [astray EXCEPT ![c] = @ \/ midway[c]]
  /\ UNCHANGED <<written, inFile, torn, given>>

\* Reader c comes back later, behind the envelope it was given last.
Rest(c) ==
  /\ midway' = [midway EXCEPT ![c] = FALSE]
  /\ UNCHANGED <<written, inFile, torn, read, given, astray>>

Hand(c) ==
  /\ given' = [given EXCEPT ![c] = Len(read[c])]
  /\ UNCHANGED <<written, inFile, torn, read, midway, astray>>

Next ==
  \/ Write
  \/ Flush
  \/ Lose
  \/ \E c \in Readers : Read(c) \/ Rest(c) \/ Hand(c)

Spec == Init /\ [][Next]_logVars

=============================================================================
