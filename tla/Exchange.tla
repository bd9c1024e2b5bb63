------------------------------ MODULE Exchange ------------------------------
(***************************************************************************)
(* What the request service of a server promises its clients, whatever     *)
(* workers, queues and reactors are behind it: an answer is an answer to a *)
(* request that was asked, goes to the client that asked, comes once, and  *)
(* if it carries tags these are the tags of that request.  That every      *)
(* request is answered is not promised.                                    *)
(***************************************************************************)
EXTENDS Naturals, Sequences

CONSTANTS
  Requests,
  Clients,
  ClientOf   \* [Requests -> Clients]

VARIABLES
  asked,     \* requests sent
  received   \* [Clients -> sequence of the answers received]

exchangeVars == <<asked, received>>

\* A client tells answers apart by tag; a response may repeat the tag.
TagsOf(r) == {<< >>, <<r>>, <<r, r>>}

Answered(r) ==
  \E c \in Clients : \E i \in 1..Len(received[c]) : received[c][i].req = r

Init ==
  /\ asked = {}
  /\ received = [c \in Clients |-> << >>]

Ask(r) ==
  /\ r \notin asked
  /\ asked' = asked \cup {r}
  /\ UNCHANGED received

Answer(r) ==
  /\ r \in asked
  /\ ~Answered(r)
  /\ \E tags \in TagsOf(r) :
       received' = [received EXCEPT ![ClientOf[r]] = Append(@, [req |-> r, tags |-> tags])]
  /\ UNCHANGED asked

Next == \E r \in Requests : Ask(r) \/ Answer(r)

Spec == Init /\ [][Next]_exchangeVars

=============================================================================
