--------------------------- MODULE ClientRequests ---------------------------
(***************************************************************************)
(* The requests of one Client: the table of outstanding requests, calls    *)
(* that wait for their answer by pumping the socket, callbacks that make   *)
(* further calls, timeouts, and answers that come late, in another order,  *)
(* as errors, or never.                                                    *)
(*                                                                         *)
(* A request stands for one call with the tag its UUID gives it.  The      *)
(* payload of an answer is left out, except the ttl of an acknowledgement. *)
(***************************************************************************)
EXTENDS Naturals, Sequences

CONSTANTS
  Dispatched, \* requests for a pong, the store info or a stream segment
  Dropped,    \* requests for features or for bucket, stream set, stream info
  Subscribes, \* calls of SubscribeStoreChanges
  Timed,      \* requests whose synchronous call has a timeout > 0
  Ttls,       \* ttl in the server's SubscriptionAcceptAck, in milliseconds
  RenewalOffset, \* subscription_renewal_offset, in microseconds
  Word,       \* 2^32: the width of the uint32 ttl
  MaxDepth    \* bound: calls and callbacks nested in one another

Requests == Dispatched \cup Dropped \cup Subscribes

ASSUME ClientAssumption ==
  /\ Timed \subseteq Requests
  /\ Dispatched \cap Dropped = {}
  /\ Dispatched \cap Subscribes = {}
  /\ Dropped \cap Subscribes = {}
  /\ Ttls \subseteq Nat
  /\ RenewalOffset \in Nat
  /\ Word \in Nat \ {0}
  /\ MaxDepth \in Nat

VARIABLES
  mode,        \* [Requests -> {"new", "sync", "async"}]: how it was issued
  net,         \* where request or answer are, below
  outstanding, \* keys of Client::outstanding
  stack,       \* calls and callbacks under way, the innermost last
  expired,     \* synchronous calls whose timer has signaled
  result,      \* what a synchronous call ended with, "none" before it does
  filled,      \* history: synchronous requests whose callback has stored its
               \* argument through OutstandingRequest::data
  seen         \* history: requests whose answer, not an error, was received

vars == <<mode, net, outstanding, stack, expired, result, filled, seen>>

(***************************************************************************)
(* none      not sent yet, or its answer was received                      *)
(* asked     the request is on its way to a worker, or with it             *)
(* answered  the answer is on its way to the client                        *)
(* failed    an Error response is on its way to the client                 *)
(* lost      the server died with it                                       *)
(***************************************************************************)
NetStates == {"none", "asked", "answered", "failed", "lost"}

Call(r) == [kind |-> "call", req |-> r]
Callback(r) == [kind |-> "callback", req |-> r]
Frames == [kind : {"call", "callback"}, req : Requests]

Top == stack[Len(stack)]
Pop == SubSeq(stack, 1, Len(stack) - 1)

Init ==
  /\ mode = [r \in Requests |-> "new"]
  /\ net = [r \in Requests |-> "none"]
  /\ outstanding = {}
  /\ stack = << >>
  /\ expired = {}
  /\ result = [r \in Requests |-> "none"]
  /\ filled = {}
  /\ seen = {}

\* The program's own code runs: outside the client, or in one of its callbacks.
ProgramRuns == stack # << >> => Top.kind = "callback"

(***************************************************************************)
(* Pump is called: by the program, or by a call that has still to wait.    *)
(***************************************************************************)
Pumping ==
  stack # << >> => Top.kind = "callback" \/ Top.req \in outstanding

----------------------------------------------------------------------------
(* Calls                                                                   *)

\* SendRequest and the first half of SendAndProcessSynchronousRequest.
Send(r, m) ==
  /\ ProgramRuns
  /\ Len(stack) < MaxDepth
  /\ mode[r] = "new"
  /\ mode' = [mode EXCEPT ![r] = m]
  /\ net' = [net EXCEPT ![r] = "asked"]
  /\ outstanding' = outstanding \cup {r}

AsyncCall(r) ==
  /\ r \notin Subscribes
  /\ Send(r, "async")
  /\ UNCHANGED <<stack, expired, result, filled, seen>>

SyncCall(r) ==
  /\ Send(r, "sync")
  /\ stack' = Append(stack, Call(r))
  /\ UNCHANGED <<expired, result, filled, seen>>

\* SendEnvelope fails: the call returns false and there is no entry.
SendFails(r) ==
  /\ ProgramRuns
  /\ mode[r] = "new"
  /\ mode' = [mode EXCEPT ![r] = "sync"]
  /\ result' = [result EXCEPT ![r] = "false"]
  /\ UNCHANGED <<net, outstanding, stack, expired, filled, seen>>

\* platform::Timer: signals while the call waits, or while it is in a callback.
TimerSignals(r) ==
  /\ r \in Timed
  /\ mode[r] = "sync"
  /\ result[r] = "none"
  /\ expired' = expired \cup {r}
  /\ UNCHANGED <<mode, net, outstanding, stack, result, filled, seen>>

\* mutant: a call that gives up removes its entry
CallReturnsMutant(r) ==
  /\ stack # << >>
  /\ Top = Call(r)
  /\ \/ r \notin outstanding /\ result' = [result EXCEPT ![r] = "true"]
     \/ r \in outstanding /\ r \in expired /\ result' = [result EXCEPT ![r] = "false"]
  /\ stack' = Pop
  /\ outstanding' = outstanding \ {r}
  /\ UNCHANGED <<mode, net, expired, filled, seen>>

\* mutant: the timer is not asked while the request is outstanding
CallWaitsMutant(r) ==
  /\ stack # << >>
  /\ Top = Call(r)
  /\ r \notin outstanding
  /\ result' = [result EXCEPT ![r] = "true"]
  /\ stack' = Pop
  /\ UNCHANGED <<mode, net, outstanding, expired, filled, seen>>

\* mutant: result is returned without an initial value
UninitializedMutant(r) ==
  /\ stack # << >>
  /\ Top = Call(r)
  /\ \/ r \notin outstanding /\ result' = [result EXCEPT ![r] = "true"]
     \/ r \in outstanding /\ r \in expired /\ result' = [result EXCEPT ![r] = "undefined"]
  /\ stack' = Pop
  /\ UNCHANGED <<mode, net, outstanding, expired, filled, seen>>

\* mutant: the timer is asked before the table
TimerFirstMutant(r) ==
  /\ stack # << >>
  /\ Top = Call(r)
  /\ r \notin outstanding \/ r \in expired
  /\ result' = [result EXCEPT ![r] = IF r \in expired THEN "false" ELSE "true"]
  /\ stack' = Pop
  /\ UNCHANGED <<mode, net, outstanding, expired, filled, seen>>

\* The end of SendAndProcessSynchronousRequest's loop, after a Pump.
CallReturns(r) ==
  /\ stack # << >>
  /\ Top = Call(r)
  /\ \/ r \notin outstanding /\ result' = [result EXCEPT ![r] = "true"]
     \/ r \in outstanding /\ r \in expired /\ result' = [result EXCEPT ![r] = "false"]
  /\ stack' = Pop
  /\ UNCHANGED <<mode, net, outstanding, expired, filled, seen>>

CallbackReturns ==
  /\ stack # << >>
  /\ Top.kind = "callback"
  /\ stack' = Pop
  /\ UNCHANGED <<mode, net, outstanding, expired, result, filled, seen>>

----------------------------------------------------------------------------
(* The server, several workers of which answer in any order                *)

ServerAnswers(r) ==
  /\ net[r] = "asked"
  /\ net' \in {[net EXCEPT ![r] = s] : s \in {"answered", "failed", "lost"}}
  /\ UNCHANGED <<mode, outstanding, stack, expired, result, filled, seen>>

----------------------------------------------------------------------------
(* Pump, from the program or from a call that waits, receives an answer    *)

Receive(r) == net' = [net EXCEPT ![r] = "none"]

\* mutant: whatever the answer is, the entry is disposed of first
ReceiveDroppedMutant(r) ==
  /\ Pumping
  /\ net[r] = "failed" \/ (net[r] = "answered" /\ r \in Dropped)
  /\ Receive(r)
  /\ seen' = IF net[r] = "answered" THEN seen \cup {r} ELSE seen
  /\ outstanding' = outstanding \ {r}
  /\ UNCHANGED <<mode, stack, expired, result, filled>>

\* The default case of ProcessResponseMessage: not even its tag is looked at.
ReceiveDropped(r) ==
  /\ Pumping
  /\ net[r] = "failed" \/ (net[r] = "answered" /\ r \in Dropped)
  /\ Receive(r)
  /\ seen' = IF net[r] = "answered" THEN seen \cup {r} ELSE seen
  /\ UNCHANGED <<mode, outstanding, stack, expired, result, filled>>

\* An exception leaves every call and callback on the stack.
Throw ==
  /\ stack' = << >>
  /\ result' = [q \in Requests |->
                  IF mode[q] = "sync" /\ result[q] = "none" THEN "threw" ELSE result[q]]

(***************************************************************************)
(* HandleRequestResponse of an answer that a callback takes.  A            *)
(* synchronous request has one of the client's own callbacks, which copies *)
(* the answer to where data points and returns.                            *)
(***************************************************************************)
ReceiveAnswer(r) ==
  /\ Pumping
  /\ net[r] = "answered"
  /\ r \in Dispatched
  /\ Len(stack) < MaxDepth
  /\ Receive(r)
  /\ IF r \notin outstanding
     THEN Throw /\ UNCHANGED <<outstanding, filled, seen>>
     ELSE /\ outstanding' = outstanding \ {r}
          /\ seen' = seen \cup {r}
          /\ IF mode[r] = "sync"
             THEN filled' = filled \cup {r} /\ UNCHANGED stack
             ELSE stack' = Append(stack, Callback(r)) /\ UNCHANGED filled
          /\ UNCHANGED result
  /\ UNCHANGED <<mode, expired>>

(***************************************************************************)
(* HandleRequestResponse of a SubscriptionAcceptAck: the entry is gone and *)
(* the subscription is not recorded if the ttl, in microseconds and 32     *)
(* bits, is below the renewal offset.                                      *)
(***************************************************************************)
ReceiveAck(r) ==
  /\ Pumping
  /\ net[r] = "answered"
  /\ r \in Subscribes
  /\ Receive(r)
  /\ outstanding' = outstanding \ {r}
  /\ \E ttl \in Ttls :
       IF r \notin outstanding \/ (ttl * 1000) % Word < RenewalOffset
       THEN Throw /\ UNCHANGED filled
       ELSE filled' = filled \cup {r} /\ UNCHANGED <<stack, result>>
  /\ seen' = seen \cup {r}
  /\ UNCHANGED <<mode, expired>>

Pump == \E r \in Requests : ReceiveDropped(r) \/ ReceiveAnswer(r) \/ ReceiveAck(r)

----------------------------------------------------------------------------
Next ==
  \/ \E r \in Requests :
       \/ AsyncCall(r) \/ SyncCall(r) \/ SendFails(r) \/ TimerSignals(r) \/ CallReturns(r)
       \/ ServerAnswers(r)
  \/ CallbackReturns
  \/ Pump

Spec == Init /\ [][Next]_vars

(***************************************************************************)
(* A call under way goes round its loop and its timer runs; callbacks      *)
(* return.  The server owes nothing.                                       *)
(***************************************************************************)
Fairness ==
  /\ \A r \in Requests : WF_vars(CallReturns(r)) /\ WF_vars(TimerSignals(r))
  /\ WF_vars(CallbackReturns)

FairSpec == Spec /\ Fairness

----------------------------------------------------------------------------
(* Properties                                                              *)

TypeOK ==
  /\ mode \in [Requests -> {"new", "sync", "async"}]
  /\ net \in [Requests -> NetStates]
  /\ outstanding \subseteq Requests
  /\ stack \in Seq(Frames)
  /\ expired \subseteq Requests
  /\ result \in [Requests -> {"none", "true", "false", "threw"}]
  /\ filled \subseteq Requests
  /\ seen \subseteq Requests

(***************************************************************************)
(* A synchronous call that returns true has stored its answer, whichever   *)
(* of the nested calls received it and whatever else came in between       *)
(* (outstanding.erase in HandleRequestResponse and nowhere else).          *)
(***************************************************************************)
TrueMeansFilled == \A r \in Requests : result[r] = "true" => r \in filled

(***************************************************************************)
(* No answer is unknown: a request on its way, or its answer, always has   *)
(* its entry, so that a late answer never throws the "unknown outstanding  *)
(* request" exception into a call for something else.                      *)
(***************************************************************************)
NoUnknownAnswer ==
  \A r \in Requests : net[r] \in {"asked", "answered", "failed"} => r \in outstanding

(***************************************************************************)
(* A call that gives up has not stored its answer, even if the answer came *)
(* and the timer signaled while it was in a callback: the table is asked   *)
(* before the timer (the order of the two tests in the loop of             *)
(* SendAndProcessSynchronousRequest).                                      *)
(***************************************************************************)
GivesUpEmptyHanded ==
  [][\A r \in Requests :
       (result[r] = "none" /\ result'[r] = "false") => r \notin filled]_vars

(***************************************************************************)
(* A call with a timeout returns, also when a callback it is running makes *)
(* calls of its own: only one without a timeout can hold it up (have_timer *)
(* and timer.Signaled() in SendAndProcessSynchronousRequest).              *)
(***************************************************************************)
CallsReturn ==
  \A r \in Timed :
    mode[r] = "sync" ~>
      \/ result[r] # "none"
      \/ \E u \in Requests \ Timed : mode[u] = "sync" /\ result[u] = "none"

=============================================================================
