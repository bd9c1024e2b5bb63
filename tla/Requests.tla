------------------------------ MODULE Requests ------------------------------
(***************************************************************************)
(* A request on its way through a server: Server::Pump, which moves        *)
(* messages between its sockets one at a time and in a fixed precedence;   *)
(* the workers, each a RequestProcessor with the ServerRequestProcessor    *)
(* behind it; and the reactors as far as subscriptions and keepalives      *)
(* reach them.                                                             *)
(*                                                                         *)
(* A message is the request it belongs to.  Of its frames matters what     *)
(* ReceiveMessage makes of them and of its content what ProcessMessages    *)
(* tells apart: its kind, below.  Children of the server end here in one   *)
(* step; module Server has the loops of Shutdown.                          *)
(***************************************************************************)
EXTENDS Naturals, Sequences

CONSTANTS
  Requests,
  Clients,
  ClientOf,  \* [Requests -> Clients]
  KindsOf,   \* [Requests -> SUBSET Kinds]: bound: what a request may be
  Workers,
  Reactors

(***************************************************************************)
(* What the frames of a message are:                                       *)
(*   undelimited  there is no empty frame before the payload               *)
(*   blank        the payload is an empty frame                            *)
(* what the payload is, in the order ProcessMessages looks at it:          *)
(*   version      another message format version than 1                    *)
(*   short        the version byte and nothing else                        *)
(*   garbled      not an envelope                                          *)
(*   refused      an envelope ProcessRequest knows no handler for: no      *)
(*                message, no enumerations, another namespace or type      *)
(* and the request in the envelope:                                        *)
(*   ping         or features, or the store's info                         *)
(*   info         of a bucket, stream set or stream                        *)
(*   segment      of a stream                                              *)
(*   subscribe    to changes of the store or, without Lua code, envelopes  *)
(*   subscribeLua to envelopes, with Lua code                              *)
(*   keepalive    of subscriptions                                         *)
(*   keepaliveFor of no subscription: the log reads the first of no ids    *)
(*   write        of envelopes                                             *)
(*   plugin       registration of a plugin                                 *)
(*   throwing     cancelling a subscription, unregistering a plugin, or    *)
(*                asking its status                                        *)
(***************************************************************************)
Kinds == {"undelimited", "blank", "version", "short", "garbled", "refused",
          "ping", "info", "segment", "subscribe", "subscribeLua", "keepalive",
          "keepaliveFor", "write", "plugin", "throwing"}

ASSUME RequestsAssumption ==
  /\ ClientOf \in [Requests -> Clients]
  /\ KindsOf \in [Requests -> SUBSET Kinds]

VARIABLES
  kind,       \* [Requests -> Kinds], "none" before it is sent
  server,     \* where the server's thread is, below
  clientsIn,  \* requests to be read from clients_sock
  workerIn,   \* [Workers -> requests to be read from the worker's socket]
  phase,      \* [Workers -> Phases], below
  current,    \* [Workers -> requests the worker has read as one message]
  identities, \* [Workers -> current_request_identities, without the server's]
  reply,      \* [Workers -> {} or the tags of the output to be sent]
  answersIn,  \* answers to be read from workers_sock
  received,   \* [Clients -> sequence of the answers received]
  subsIn,     \* subscriptions to be read from worker_subscriptions_sock
  reactorIn,  \* [Reactors -> subscriptions to be read from subscription_sock]
  notesIn,    \* keepalives to be read from worker_streaming_notify_sock
  notes,      \* [Reactors -> keepalives in subscription_updates_sock]
  dead,       \* reactors whose thread an exception has ended
  killers,    \* history: subscriptions whose message made a reactor throw
  accepted,   \* history: subscriptions whose SubscriptionAcceptAck was output
  unanswered  \* history: requests that ended without an output of their own

netVars == <<clientsIn, workerIn, answersIn, received>>
subscriptionVars == <<subsIn, reactorIn, notesIn, notes, dead, killers>>
workerVars == <<phase, current, identities, reply, accepted, unanswered>>
vars == <<kind, server, netVars, subscriptionVars, workerVars>>

(***************************************************************************)
(* serving    in Run's loop                                                *)
(* stopping   in CheckDevices' Shutdown, waiting for the children          *)
(* childless  in Run's loop again                                          *)
(* blocked    in a send on a socket that has no peer any more              *)
(* aborted    the process died                                             *)
(***************************************************************************)
ServerStates == {"serving", "stopping", "childless", "blocked", "aborted"}

(***************************************************************************)
(* idle      polling                                                       *)
(* merging   in ReceiveMessage, behind a message that ended in an empty    *)
(*           frame, for one that does not                                  *)
(* busy      in ProcessMessages                                            *)
(* replying  the output is complete and has not been sent                  *)
(***************************************************************************)
Phases == {"idle", "merging", "busy", "replying"}

\* Responses, on their way with the identity of a client in front.
Responses == [req : Requests, tags : Seq(Requests)]
Routed == [to : Clients, response : Responses]

Init ==
  /\ kind = [r \in Requests |-> "none"]
  /\ server = "serving"
  /\ clientsIn = << >>
  /\ workerIn = [w \in Workers |-> << >>]
  /\ phase = [w \in Workers |-> "idle"]
  /\ current = [w \in Workers |-> << >>]
  /\ identities = [w \in Workers |-> << >>]
  /\ reply = [w \in Workers |-> {}]
  /\ answersIn = << >>
  /\ received = [c \in Clients |-> << >>]
  /\ subsIn = << >>
  /\ reactorIn = [x \in Reactors |-> << >>]
  /\ notesIn = << >>
  /\ notes = [x \in Reactors |-> {}]
  /\ dead = {}
  /\ killers = {}
  /\ accepted = {}
  /\ unanswered = {}

\* A client sends a request; the server's socket has it at some time.
Ask(r) ==
  /\ kind[r] = "none"
  /\ kind' \in {[kind EXCEPT ![r] = k] : k \in KindsOf[r]}
  /\ clientsIn' = Append(clientsIn, r)
  /\ UNCHANGED <<server, workerIn, answersIn, received, subscriptionVars, workerVars>>

----------------------------------------------------------------------------
(* The broker: one message of one socket in each call of Server::Pump      *)

(***************************************************************************)
(* From workers_sock to clients_sock, which finds the client by the        *)
(* identity in front.                                                      *)
(***************************************************************************)
MoveAnswer ==
  /\ server \in {"serving", "childless"}
  /\ answersIn # << >>
  /\ LET a == Head(answersIn)
     IN received' = [received EXCEPT ![a.to] = Append(@, a.response)]
  /\ answersIn' = Tail(answersIn)
  /\ UNCHANGED <<kind, server, clientsIn, workerIn, subscriptionVars, workerVars>>

\* From worker_subscriptions_sock, a PULL, to one of the reactors.
MoveSubscription ==
  /\ answersIn = << >>
  /\ subsIn # << >>
  /\ \/ /\ server = "serving"
        /\ \E x \in Reactors :
             reactorIn' = [reactorIn EXCEPT ![x] = Append(@, Head(subsIn))]
        /\ UNCHANGED server
     \/ /\ server = "childless"
        /\ server' = "blocked"
        /\ UNCHANGED reactorIn
  /\ subsIn' = Tail(subsIn)
  /\ UNCHANGED <<kind, netVars, notesIn, notes, dead, killers, workerVars>>

\* mutant: a PUSH, as for subscriptions, in place of the PUB
MoveKeepaliveMutant ==
  /\ server \in {"serving", "childless"}
  /\ answersIn = << >>
  /\ subsIn = << >>
  /\ notesIn # << >>
  /\ \E x \in Reactors : notes' = [notes EXCEPT ![x] = @ \cup {Head(notesIn)}]
  /\ notesIn' = Tail(notesIn)
  /\ UNCHANGED <<kind, server, netVars, subsIn, reactorIn, dead, killers, workerVars>>

\* From worker_streaming_notify_sock, a PULL, to all reactors there are.
MoveKeepalive ==
  /\ server \in {"serving", "childless"}
  /\ answersIn = << >>
  /\ subsIn = << >>
  /\ notesIn # << >>
  /\ notes' = IF server = "serving"
              THEN [x \in Reactors |-> notes[x] \cup {Head(notesIn)}] ELSE notes
  /\ notesIn' = Tail(notesIn)
  /\ UNCHANGED <<kind, server, netVars, subsIn, reactorIn, dead, killers, workerVars>>

\* mutant: the request is sent to every worker
MoveRequestMutant ==
  /\ answersIn = << >>
  /\ subsIn = << >>
  /\ notesIn = << >>
  /\ clientsIn # << >>
  /\ server = "serving"
  /\ workerIn' = [w \in Workers |-> Append(workerIn[w], Head(clientsIn))]
  /\ clientsIn' = Tail(clientsIn)
  /\ UNCHANGED <<kind, server, answersIn, received, subscriptionVars, workerVars>>

(***************************************************************************)
(* From clients_sock to a worker; which one is up to 0MQ.  Without workers *)
(* the send blocks with the request in hand.                               *)
(***************************************************************************)
MoveRequest ==
  /\ answersIn = << >>
  /\ subsIn = << >>
  /\ notesIn = << >>
  /\ clientsIn # << >>
  /\ \/ /\ server = "serving"
        /\ \E w \in Workers :
             workerIn' = [workerIn EXCEPT ![w] = Append(@, Head(clientsIn))]
        /\ UNCHANGED server
     \/ /\ server = "childless"
        /\ server' = "blocked"
        /\ UNCHANGED workerIn
  /\ clientsIn' = Tail(clientsIn)
  /\ UNCHANGED <<kind, answersIn, received, subscriptionVars, workerVars>>

Broker == MoveAnswer \/ MoveSubscription \/ MoveKeepalive \/ MoveRequest

\* mutant: the check is for a reactor that lives
CheckDevicesMutant ==
  /\ server = "serving"
  /\ dead = Reactors
  /\ server' = "stopping"
  /\ UNCHANGED <<kind, netVars, subscriptionVars, workerVars>>

\* CheckDevices finds a reactor's thread dead and begins a Shutdown.
CheckDevices ==
  /\ server = "serving"
  /\ dead # {}
  /\ server' = "stopping"
  /\ UNCHANGED <<kind, netVars, subscriptionVars, workerVars>>

\* mutant: the table of the reactors is cleared with them
StopChildrenMutant ==
  /\ server = "stopping"
  /\ \A w \in Workers : phase[w] = "idle"
  /\ server' = "childless"
  /\ workerIn' = [w \in Workers |-> << >>]
  /\ reactorIn' = << >>
  /\ notes' = [x \in Reactors |-> {}]
  /\ UNCHANGED <<kind, clientsIn, answersIn, received, subsIn, notesIn, dead, killers, workerVars>>

(***************************************************************************)
(* Shutdown has joined every worker and reactor and deleted their sockets. *)
(* A worker's thread ends between two calls of Pump.                       *)
(***************************************************************************)
StopChildren ==
  /\ server = "stopping"
  /\ \A w \in Workers : phase[w] = "idle"
  /\ server' = "childless"
  /\ workerIn' = [w \in Workers |-> << >>]
  /\ reactorIn' = [x \in Reactors |-> << >>]
  /\ notes' = [x \in Reactors |-> {}]
  /\ UNCHANGED <<kind, clientsIn, answersIn, received, subsIn, notesIn, dead, killers, workerVars>>

----------------------------------------------------------------------------
(* The workers                                                             *)

Working == server \in {"serving", "stopping"}

\* mutant: the identities of the first request are kept for the next ones
ReceiveMessageMutant(w) ==
  /\ Working
  /\ phase[w] \in {"idle", "merging"}
  /\ workerIn[w] # << >>
  /\ LET r == Head(workerIn[w])
     IN /\ current' = [current EXCEPT ![w] = Append(@, r)]
        /\ identities' = [identities EXCEPT ![w] = IF @ = << >> THEN <<ClientOf[r]>> ELSE @]
        /\ phase' = [phase EXCEPT ![w] = IF kind[r] = "blank" THEN "merging" ELSE "busy"]
        /\ unanswered' = IF phase[w] = "merging" THEN unanswered \cup {r} ELSE unanswered
  /\ workerIn' = [workerIn EXCEPT ![w] = Tail(@)]
  /\ UNCHANGED <<kind, server, clientsIn, answersIn, received, subscriptionVars, reply, accepted>>

(***************************************************************************)
(* ReceiveMessage.  A message whose last frame is empty is not the end for *)
(* it: it goes on to the frames of the next message, and the identities of *)
(* that are taken for payload.  Otherwise what it read ends with the       *)
(* message it began or went on with.                                       *)
(***************************************************************************)
ReceiveMessage(w) ==
  /\ Working
  /\ phase[w] \in {"idle", "merging"}
  /\ workerIn[w] # << >>
  /\ LET r == Head(workerIn[w])
     IN /\ current' = [current EXCEPT ![w] = Append(@, r)]
        /\ identities' = [identities EXCEPT ![w] =
                            IF phase[w] = "idle" THEN <<ClientOf[r]>> ELSE @]
        /\ phase' = [phase EXCEPT ![w] = IF kind[r] = "blank" THEN "merging" ELSE "busy"]
        /\ unanswered' = IF phase[w] = "merging" THEN unanswered \cup {r} ELSE unanswered
  /\ workerIn' = [workerIn EXCEPT ![w] = Tail(@)]
  /\ UNCHANGED <<kind, server, clientsIn, answersIn, received, subscriptionVars, reply, accepted>>

Output(n) == [output |-> TRUE, tags |-> n, forwards |-> "nothing"]
OutputAnd(n, f) == [output |-> TRUE, tags |-> n, forwards |-> f]
NoOutput(f) == [output |-> FALSE, tags |-> 0, forwards |-> f]

\* mutant: whatever ProcessRequest throws is caught and forgotten
OutcomesMutant(k) ==
  IF k \in {"refused", "segment", "info", "throwing", "subscribe"} THEN {Output(1), NoOutput("nothing")}
  ELSE IF k \in {"version", "short", "garbled"} THEN {Output(0)}
  ELSE IF k = "keepalive" THEN {NoOutput("keepalive")}
  ELSE {NoOutput("nothing")}

\* The stream's segment, whose handler adds the tags that ProcessRequest adds
\* again, or an Error.
ProcessGetStream == {Output(1), Output(2)}

\* ServerRequestProcessor sends the subscription on and accepts it, or throws.
CallHandleSubscriptionRequest == {OutputAnd(1, "subscription"), Output(1)}

\* An Error for a path that is not valid.
ProcessSubscribeStoreChanges == {Output(1)} \cup CallHandleSubscriptionRequest

\* For Lua code that loads there is neither a subscription nor output, and
\* ProcessRequest asserts that there is.
ProcessSubscribeEnvelopes(hasLuaCode) ==
  IF hasLuaCode THEN {Output(1), NoOutput("abort")} ELSE ProcessSubscribeStoreChanges

\* A request that does not parse is sent on too, and has an Error for output
\* that nobody puts tags to. The log reads the first of the ids.
ProcessSubscribeKeepalive(hasIds) ==
  IF hasIds THEN {NoOutput("keepalive"), OutputAnd(0, "keepalive")}
  ELSE {NoOutput("keepalive"), NoOutput("abort")}

\* The server's implementation throws; without envelopes that parse it is not
\* called, and without acknowledgement nobody notices.
ProcessWriteEnvelope == {Output(1), NoOutput("nothing")}

\* An Error for what does not parse, deferred and so without tags; or throws.
ProcessRegisterPlugin == {Output(0), Output(1)}

(***************************************************************************)
(* What ProcessMessages may do with a message of kind k: whether there is  *)
(* output, how often the request's tag is in its first envelope, and what  *)
(* the handler sent on.  ProcessRequest puts the tags to what a handler    *)
(* answers, ProcessMessages to the Error for one that throws.              *)
(***************************************************************************)
Outcomes(k) ==
  CASE k = "undelimited" -> {NoOutput("nothing")}
    [] k \in {"version", "short", "garbled"} -> {Output(0)}
    [] k \in {"refused", "ping", "info", "throwing"} -> {Output(1)}
    [] k = "segment" -> ProcessGetStream
    [] k = "subscribe" -> ProcessSubscribeStoreChanges \cup ProcessSubscribeEnvelopes(FALSE)
    [] k = "subscribeLua" -> ProcessSubscribeEnvelopes(TRUE)
    [] k = "keepalive" -> ProcessSubscribeKeepalive(TRUE)
    [] k = "keepaliveFor" -> ProcessSubscribeKeepalive(FALSE)
    [] k = "write" -> ProcessWriteEnvelope
    [] k = "plugin" -> ProcessRegisterPlugin

\* What the worker takes a message for: the identities of the next one begin
\* with a zero byte, which is no version.
Sees(w) == IF Len(current[w]) > 1 THEN "version" ELSE kind[Head(current[w])]

Tagged(n, r) == IF n = 0 THEN << >> ELSE IF n = 1 THEN <<r>> ELSE <<r, r>>

(***************************************************************************)
(* ProcessMessages and ProcessRequest, with the calls to the implementation*)
(* of the server: subscriptions and keepalives are sent before the answer. *)
(***************************************************************************)
ProcessMessages(w) ==
  /\ Working
  /\ phase[w] = "busy"
  /\ \E o \in Outcomes(Sees(w)) :
       LET r == Head(current[w])
       IN /\ IF o.output
             THEN /\ phase' = [phase EXCEPT ![w] = "replying"]
                  /\ reply' = [reply EXCEPT ![w] = {Tagged(o.tags, r)}]
                  /\ UNCHANGED <<current, unanswered>>
             ELSE /\ phase' = [phase EXCEPT ![w] = "idle"]
                  /\ current' = [current EXCEPT ![w] = << >>]
                  /\ unanswered' = unanswered \cup {r}
                  /\ UNCHANGED reply
          /\ server' = IF o.forwards = "abort" THEN "aborted" ELSE server
          /\ subsIn' = IF o.forwards = "subscription" THEN Append(subsIn, r) ELSE subsIn
          /\ accepted' = IF o.forwards = "subscription" THEN accepted \cup {r} ELSE accepted
          /\ notesIn' = IF o.forwards = "keepalive" THEN Append(notesIn, r) ELSE notesIn
  /\ UNCHANGED <<kind, netVars, reactorIn, notes, dead, killers, identities>>

\* The rest of RequestProcessor::Pump: the output goes to the identities read.
SendReply(w) ==
  /\ Working
  /\ phase[w] = "replying"
  /\ \E c \in Clients, tags \in reply[w] :
       /\ identities[w] = <<c>>
       /\ answersIn' = Append(answersIn,
            [to |-> c, response |-> [req |-> Head(current[w]), tags |-> tags]])
  /\ phase' = [phase EXCEPT ![w] = "idle"]
  /\ current' = [current EXCEPT ![w] = << >>]
  /\ reply' = [reply EXCEPT ![w] = {}]
  /\ UNCHANGED <<kind, server, clientsIn, workerIn, received, subscriptionVars, identities,
                 accepted, unanswered>>

Worker(w) == ReceiveMessage(w) \/ ProcessMessages(w) \/ SendReply(w)

----------------------------------------------------------------------------
(* The reactors                                                            *)

(***************************************************************************)
(* PersistedStateReactor::Pump: the worker sent the SubscriptionRecord     *)
(* without a delimiter, so ReceiveMessage takes it for an identity, there  *)
(* is no payload, and Pump throws.  Keepalives are not read.               *)
(***************************************************************************)
ReactorPump(x) ==
  /\ Working
  /\ x \notin dead
  /\ reactorIn[x] # << >>
  /\ killers' = killers \cup {Head(reactorIn[x])}
  /\ reactorIn' = [reactorIn EXCEPT ![x] = Tail(@)]
  /\ dead' = dead \cup {x}
  /\ UNCHANGED <<kind, server, netVars, subsIn, notesIn, notes, workerVars>>

----------------------------------------------------------------------------
Next ==
  \/ \E r \in Requests : Ask(r)
  \/ Broker
  \/ CheckDevices
  \/ StopChildren
  \/ \E w \in Workers : Worker(w)
  \/ \E x \in Reactors : ReactorPump(x)

Spec == Init /\ [][Next]_vars

(***************************************************************************)
(* Threads run.  The server's looks at its devices when the timer signals, *)
(* however much there is to move.  Nobody need ask.                        *)
(***************************************************************************)
Fairness ==
  /\ WF_vars(Broker)
  /\ WF_vars(CheckDevices)
  /\ WF_vars(StopChildren)
  /\ \A w \in Workers : WF_vars(Worker(w))
  /\ \A x \in Reactors : WF_vars(ReactorPump(x))

FairSpec == Spec /\ Fairness

----------------------------------------------------------------------------
(* Properties                                                              *)

TypeOK ==
  /\ kind \in [Requests -> Kinds \cup {"none"}]
  /\ server \in ServerStates
  /\ clientsIn \in Seq(Requests)
  /\ workerIn \in [Workers -> Seq(Requests)]
  /\ phase \in [Workers -> Phases]
  /\ current \in [Workers -> Seq(Requests)]
  /\ identities \in [Workers -> Seq(Clients)]
  /\ reply \in [Workers -> SUBSET Seq(Requests)]
  /\ answersIn \in Seq(Routed)
  /\ received \in [Clients -> Seq(Responses)]
  /\ subsIn \in Seq(Requests)
  /\ reactorIn \in [Reactors -> Seq(Requests)]
  /\ notesIn \in Seq(Requests)
  /\ notes \in [Reactors -> SUBSET Requests]
  /\ dead \subseteq Reactors
  /\ killers \subseteq Requests
  /\ accepted \subseteq Requests
  /\ unanswered \subseteq Requests

----------------------------------------------------------------------------
\* Where request r or its response is: positions in queues, and workers.
Places(r) ==
  {<<"clients", i>> : i \in {j \in 1..Len(clientsIn) : clientsIn[j] = r}}
  \cup (UNION {{<<"queue", w, i>> : i \in {j \in 1..Len(workerIn[w]) : workerIn[w][j] = r}} : w \in Workers})
  \cup {<<"worker", w>> : w \in {v \in Workers : current[v] # << >> /\ Head(current[v]) = r}}
  \cup {<<"answers", i>> : i \in {j \in 1..Len(answersIn) : answersIn[j].response.req = r}}
  \cup (UNION {{<<"received", c, i>> : i \in {j \in 1..Len(received[c]) : received[c][j].req = r}} : c \in Clients})

(***************************************************************************)
(* A request is never in two places, and as long as the server serves it   *)
(* is lost nowhere: it, or its response, is in one queue or with one       *)
(* worker until the client has the response, unless a worker was done with *)
(* it without one (TransferMessage, ReceiveMessage and                     *)
(* RequestProcessor::Pump, which hand it from socket to socket).           *)
(***************************************************************************)
OnePlace ==
  \A r \in Requests :
    /\ \A p, q \in Places(r) : p = q
    /\ kind[r] = "none" => Places(r) = {}
    /\ kind[r] # "none" /\ server = "serving" /\ r \notin unanswered => Places(r) # {}

E == INSTANCE Exchange WITH asked <- {r \in Requests : kind[r] # "none"}

(***************************************************************************)
(* The server does what Exchange promises, with any number of workers      *)
(* answering in any order, with messages merged by ReceiveMessage and with *)
(* children that end in between (the identities and tags                   *)
(* RequestProcessor::Pump and ProcessRequest put in front of a response).  *)
(***************************************************************************)
ImplementsExchange == E!Spec

\* Requests a worker may be done with without a response.
MayBeSilent == {"undelimited", "keepalive", "keepaliveFor", "write"}

(***************************************************************************)
(* Every request is answered while the server serves, except: one that is  *)
(* deferred or wants no acknowledgement, one that ends in an empty frame   *)
(* and waits for the next message, and one that was read as the rest of    *)
(* such a message.  In particular one whose handler throws is answered     *)
(* (the try block of ProcessMessages).                                     *)
(***************************************************************************)
RequestsAnswered ==
  \A r \in Requests :
    kind[r] \in Kinds \ {"blank"} ~>
      \/ E!Answered(r)
      \/ r \in unanswered /\ kind[r] \in MayBeSilent
      \/ r \in unanswered /\ \E q \in Requests \ {r} : kind[q] = "blank"
      \/ server # "serving"

(***************************************************************************)
(* What a worker sends on arrives while the server serves: an accepted     *)
(* subscription at a reactor, a keepalive at every reactor, "since the     *)
(* server doesn't know which streamers have which subscriptions"           *)
(* (worker_subscriptions_sock and worker_streaming_notify_sock in Pump).   *)
(***************************************************************************)
Forwarded ==
  \A r \in Requests :
    /\ r \in accepted ~> r \in killers \/ server # "serving"
    /\ kind[r] = "keepalive" ~>
         \/ \A x \in Reactors : r \in notes[x]
         \/ server # "serving"
         \/ r \in unanswered /\ \E q \in Requests : kind[q] = "blank"

(***************************************************************************)
(* A server one of whose reactors has died stops its children, so that it  *)
(* does not go on accepting subscriptions for nobody, unless a worker is   *)
(* blocked in ReceiveMessage: Shutdown then waits for it for ever          *)
(* (CheckDevices, and the loop of ReceiveMessage).                         *)
(***************************************************************************)
DeadReactorEndsService ==
  dead # {} ~> \/ server \in {"childless", "blocked", "aborted"}
               \/ \E w \in Workers : phase[w] = "merging"

(***************************************************************************)
(* server.hpp says of HandleSubscriptionRequest "This will forward the     *)
(* request via a 0MQ socket to be processed by a persisted state manager": *)
(* an accepted subscription does not make the reactor that reads it throw. *)
(***************************************************************************)
SubscriptionsProcessed == killers = {}

=============================================================================
