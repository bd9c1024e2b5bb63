---------------------------- MODULE MCGetStream ----------------------------
(* GetStream on small instances. *)
EXTENDS GetStream

MCNoLimit == [bytes |-> 255, envelopes |-> 255]

\* A client that sets no limit.
MCUnlimited == {MCNoLimit}

\* Limits that cut segments short, each on its own budget; and the 0 that
\* envelopes_left-- takes to 2^32-1, which leaves the bytes to end the segment.
MCLimits == {[bytes |-> 255, envelopes |-> 2], [bytes |-> 3, envelopes |-> 0]}

============================================================================
