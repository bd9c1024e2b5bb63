--------------------------- MODULE RequestsProofs ---------------------------
(***************************************************************************)
(* Proofs about Requests, for any number of requests, clients, workers and *)
(* reactors: types, that the server implements Exchange, and that a        *)
(* request is in one place and nowhere lost.                               *)
(***************************************************************************)
EXTENDS Requests, SequenceTheorems, TLAPS

El(s) == {s[i] : i \in 1..Len(s)}

Inj(s) == \A i, j \in 1..Len(s) : s[i] = s[j] => i = j

\* No two of the responses on their way are to the same request.
InjReq(s) == \A i, j \in 1..Len(s) : s[i].response.req = s[j].response.req => i = j

ReqsOf(s) == {a.response.req : a \in El(s)}

AtWorker(w, r) == current[w] # << >> /\ Head(current[w]) = r

\* The stages a request goes through.
Known(r) ==
  \/ r \in El(clientsIn)
  \/ \E w \in Workers : r \in El(workerIn[w]) \/ AtWorker(w, r)
  \/ r \in ReqsOf(answersIn)
  \/ E!Answered(r)

KnownInv == \A r \in Requests : Known(r) => kind[r] # "none"

\* A request is in one stage only, and there once.
ClientsApart ==
  /\ Inj(clientsIn)
  /\ \A r \in El(clientsIn) :
       /\ \A w \in Workers : r \notin El(workerIn[w]) /\ ~AtWorker(w, r)
       /\ r \notin ReqsOf(answersIn)
       /\ ~E!Answered(r)

QueuesApart ==
  \A w \in Workers :
    /\ Inj(workerIn[w])
    /\ \A r \in El(workerIn[w]) :
         /\ \A v \in Workers : v # w => r \notin El(workerIn[v])
         /\ \A v \in Workers : ~AtWorker(v, r)
         /\ r \notin ReqsOf(answersIn)
         /\ ~E!Answered(r)

WorkersApart ==
  \A w \in Workers : \A r \in Requests :
    AtWorker(w, r) =>
      /\ \A v \in Workers : AtWorker(v, r) => v = w
      /\ r \notin ReqsOf(answersIn)
      /\ ~E!Answered(r)

AnswersApart ==
  /\ InjReq(answersIn)
  /\ \A r \in ReqsOf(answersIn) : ~E!Answered(r)

\* What a worker has at hand, and what it will put in front of the response.
WorkerInv ==
  \A w \in Workers :
    /\ phase[w] = "idle" <=> current[w] = << >>
    /\ phase[w] # "idle" => identities[w] = <<ClientOf[Head(current[w])]>>
    /\ phase[w] = "busy" => Sees(w) \in Kinds \ {"blank"}
    /\ phase[w] = "replying" =>
         \A tags \in reply[w] : tags \in E!TagsOf(Head(current[w]))

AnswerInv ==
  \A a \in El(answersIn) :
    /\ a.to = ClientOf[a.response.req]
    /\ a.response.tags \in E!TagsOf(a.response.req)

ApartInv == ClientsApart /\ QueuesApart /\ WorkersApart /\ AnswersApart

IInv == TypeOK /\ KnownInv /\ ApartInv /\ WorkerInv /\ AnswerInv

----------------------------------------------------------------------------
(* Queues                                                                  *)

LEMMA EmptyQueue ==
  /\ El(<< >>) = {}
  /\ Inj(<< >>)
  /\ InjReq(<< >>)
  /\ ReqsOf(<< >>) = {}
  BY DEF El, Inj, InjReq, ReqsOf

\* What is appended is new in the queue, the rest stays.
LEMMA Appended ==
  ASSUME NEW S, NEW s \in Seq(S), NEW x \in S
  PROVE  /\ Append(s, x) \in Seq(S)
         /\ El(Append(s, x)) = El(s) \cup {x}
         /\ Append(s, x) # << >>
         /\ Inj(s) /\ x \notin El(s) => Inj(Append(s, x))
  <1>1. /\ Append(s, x) \in Seq(S)
        /\ Len(Append(s, x)) = Len(s) + 1
        /\ \A i \in 1..Len(s) : Append(s, x)[i] = s[i]
        /\ Append(s, x)[Len(s) + 1] = x
        /\ Len(s) \in Nat
    BY AppendProperties, LenProperties
  <1>2. El(Append(s, x)) = El(s) \cup {x}
    BY <1>1 DEF El
  <1>3. ASSUME Inj(s), x \notin El(s) PROVE Inj(Append(s, x))
    BY <1>1, <1>3 DEF El, Inj
  <1> QED BY <1>1, <1>2, <1>3

\* What is taken from the front of the queue is gone, the rest stays.
LEMMA Taken ==
  ASSUME NEW S, NEW s \in Seq(S), s # << >>
  PROVE  /\ Head(s) \in S
         /\ Head(s) \in El(s)
         /\ Tail(s) \in Seq(S)
         /\ El(s) = El(Tail(s)) \cup {Head(s)}
         /\ Inj(s) => Inj(Tail(s)) /\ Head(s) \notin El(Tail(s))
  <1>1. /\ Head(s) \in S
        /\ Tail(s) \in Seq(S)
        /\ Len(s) \in Nat \ {0}
        /\ Len(Tail(s)) = Len(s) - 1
        /\ \A i \in 1..Len(Tail(s)) : Tail(s)[i] = s[i + 1]
        /\ Head(s) = s[1]
    BY HeadTailProperties, LenProperties
  <1>2. El(s) = El(Tail(s)) \cup {Head(s)}
    <2>1. ASSUME NEW i \in 1..Len(s) PROVE s[i] \in El(Tail(s)) \cup {Head(s)}
      <3>1. CASE i = 1
        BY <1>1, <3>1
      <3>2. CASE i # 1
        <4>1. i - 1 \in 1..Len(Tail(s)) /\ Tail(s)[i - 1] = s[i]
          BY <1>1, <3>2
        <4> QED BY <4>1 DEF El
      <3> QED BY <3>1, <3>2
    <2>2. ASSUME NEW i \in 1..Len(Tail(s)) PROVE Tail(s)[i] \in El(s)
      BY <1>1 DEF El
    <2>3. Head(s) \in El(s)
      BY <1>1 DEF El
    <2> QED BY <2>1, <2>2, <2>3 DEF El
  <1>3. ASSUME Inj(s) PROVE Inj(Tail(s)) /\ Head(s) \notin El(Tail(s))
    BY <1>1, <1>3 DEF El, Inj
  <1> QED BY <1>1, <1>2, <1>3

LEMMA ResponseAppended ==
  ASSUME NEW s \in Seq(Routed), NEW a \in Routed
  PROVE  /\ ReqsOf(Append(s, a)) = ReqsOf(s) \cup {a.response.req}
         /\ InjReq(s) /\ a.response.req \notin ReqsOf(s) => InjReq(Append(s, a))
  <1>1. /\ Len(Append(s, a)) = Len(s) + 1
        /\ \A i \in 1..Len(s) : Append(s, a)[i] = s[i]
        /\ Append(s, a)[Len(s) + 1] = a
        /\ Len(s) \in Nat
    BY AppendProperties, LenProperties
  <1>2. El(Append(s, a)) = El(s) \cup {a}
    BY Appended
  <1>3. ReqsOf(Append(s, a)) = ReqsOf(s) \cup {a.response.req}
    BY <1>2 DEF ReqsOf
  <1>4. ASSUME InjReq(s), a.response.req \notin ReqsOf(s) PROVE InjReq(Append(s, a))
    <2>1. \A i \in 1..Len(s) : s[i].response.req # a.response.req
      BY <1>4 DEF ReqsOf, El
    <2> QED BY <1>1, <1>4, <2>1 DEF InjReq
  <1> QED BY <1>3, <1>4

LEMMA ResponseTaken ==
  ASSUME NEW s \in Seq(Routed), s # << >>
  PROVE  /\ ReqsOf(s) = ReqsOf(Tail(s)) \cup {Head(s).response.req}
         /\ InjReq(s) => InjReq(Tail(s)) /\ Head(s).response.req \notin ReqsOf(Tail(s))
  <1>1. /\ Len(s) \in Nat \ {0}
        /\ Len(Tail(s)) = Len(s) - 1
        /\ \A i \in 1..Len(Tail(s)) : Tail(s)[i] = s[i + 1]
        /\ Head(s) = s[1]
    BY HeadTailProperties, LenProperties
  <1>2. ReqsOf(s) = ReqsOf(Tail(s)) \cup {Head(s).response.req}
    <2>1. El(s) = El(Tail(s)) \cup {Head(s)}
      BY Taken
    <2> QED BY <2>1 DEF ReqsOf
  <1>3. ASSUME InjReq(s) PROVE InjReq(Tail(s))
    BY <1>1, <1>3 DEF InjReq
  <1>4. ASSUME InjReq(s) PROVE Head(s).response.req \notin ReqsOf(Tail(s))
    <2>1. \A i \in 1..Len(Tail(s)) : Tail(s)[i].response.req # s[1].response.req
      BY <1>1, <1>4 DEF InjReq
    <2> QED BY <1>1, <2>1 DEF ReqsOf, El
  <1> QED BY <1>2, <1>3, <1>4

\* A response that is handed to a client answers its request and no other.
LEMMA Delivered ==
  ASSUME received \in [Clients -> Seq(Responses)],
         NEW c \in Clients, NEW x \in Responses,
         received' = [received EXCEPT ![c] = Append(@, x)]
  PROVE  \A q : E!Answered(q)' <=> E!Answered(q) \/ q = x.req
  <1>1. /\ Len(received'[c]) = Len(received[c]) + 1
        /\ \A i \in 1..Len(received[c]) : received'[c][i] = received[c][i]
        /\ received'[c][Len(received[c]) + 1] = x
        /\ Len(received[c]) \in Nat
    <2>1. received[c] \in Seq(Responses) /\ received'[c] = Append(received[c], x)
      OBVIOUS
    <2> QED BY <2>1, AppendProperties, LenProperties
  <1>2. \A d \in Clients : d # c => received'[d] = received[d]
    OBVIOUS
  <1>3. ASSUME NEW q, E!Answered(q) PROVE E!Answered(q)'
    <2>1. PICK d \in Clients : \E i \in 1..Len(received[d]) : received[d][i].req = q
      BY <1>3 DEF E!Answered
    <2>2. \E i \in 1..Len(received'[d]) : received'[d][i].req = q
      <3>1. CASE d = c
        BY <1>1, <2>1, <3>1
      <3>2. CASE d # c
        BY <1>2, <2>1, <3>2
      <3> QED BY <3>1, <3>2
    <2> QED BY <2>2 DEF E!Answered
  <1>4. E!Answered(x.req)'
    <2>1. Len(received[c]) + 1 \in 1..Len(received'[c])
      BY <1>1
    <2> QED BY <1>1, <2>1 DEF E!Answered
  <1>5. ASSUME NEW q, E!Answered(q)', q # x.req PROVE E!Answered(q)
    <2>1. PICK d \in Clients : \E i \in 1..Len(received'[d]) : received'[d][i].req = q
      BY <1>5 DEF E!Answered
    <2>2. \E i \in 1..Len(received[d]) : received[d][i].req = q
      <3>1. CASE d = c
        BY <1>1, <1>5, <2>1, <3>1
      <3>2. CASE d # c
        BY <1>2, <2>1, <3>2
      <3> QED BY <3>1, <3>2
    <2> QED BY <2>2 DEF E!Answered
  <1> QED BY <1>3, <1>4, <1>5

----------------------------------------------------------------------------
(* Types                                                                   *)

LEMMA HandledTypes ==
  ASSUME TypeOK, WorkerInv, NEW w \in Workers, phase[w] # "idle"
  PROVE  /\ current[w] # << >>
         /\ Head(current[w]) \in Requests
         /\ ClientOf[Head(current[w])] \in Clients
  <1>1. current[w] # << >> /\ current[w] \in Seq(Requests)
    BY DEF WorkerInv, TypeOK
  <1>2. Head(current[w]) \in Requests
    BY <1>1, HeadTailProperties
  <1> QED BY <1>1, <1>2, RequestsAssumption

\* The tags ProcessRequest adds are those of the request, once or twice.
LEMMA TaggedTags ==
  ASSUME NEW r \in Requests, NEW n \in {0, 1, 2}
  PROVE  Tagged(n, r) \in E!TagsOf(r) /\ Tagged(n, r) \in Seq(Requests)
  <1>1. Tagged(n, r) \in {<< >>, <<r>>, <<r, r>>}
    BY DEF Tagged
  <1>2. << >> \in Seq(Requests) /\ <<r>> \in Seq(Requests) /\ <<r, r>> \in Seq(Requests)
    OBVIOUS
  <1> QED BY <1>1, <1>2 DEF E!TagsOf

\* Every outcome is one of an output with 0, 1 or 2 tags, or of no output.
LEMMA OutcomeTags ==
  ASSUME NEW k \in Kinds \ {"blank"}, NEW o \in Outcomes(k)
  PROVE  o.tags \in {0, 1, 2} /\ o.output \in BOOLEAN
  <1> DEFINE Known9 == {Output(0), Output(1), Output(2), OutputAnd(0, "keepalive"),
                        OutputAnd(1, "subscription"), NoOutput("nothing"),
                        NoOutput("keepalive"), NoOutput("abort")}
  <1>1. o \in Known9
    <2>1. CASE k \in {"undelimited", "version", "short", "garbled"}
      BY <2>1 DEF Outcomes
    <2>2. CASE k \in {"refused", "ping", "info", "throwing"}
      BY <2>2 DEF Outcomes
    <2>3. CASE k \in {"segment", "subscribe", "subscribeLua"}
      BY <2>3 DEF Outcomes, ProcessGetStream, ProcessSubscribeStoreChanges,
                  ProcessSubscribeEnvelopes, CallHandleSubscriptionRequest
    <2>4. CASE k \in {"keepalive", "keepaliveFor", "write", "plugin"}
      BY <2>4 DEF Outcomes, ProcessSubscribeKeepalive, ProcessWriteEnvelope,
                  ProcessRegisterPlugin
    <2> QED BY <2>1, <2>2, <2>3, <2>4 DEF Kinds
  <1>2. \A p \in Known9 : p.tags \in {0, 1, 2} /\ p.output \in BOOLEAN
    <2>1. \A n : Output(n).tags = n /\ Output(n).output = TRUE
      BY DEF Output
    <2>2. \A n, f : OutputAnd(n, f).tags = n /\ OutputAnd(n, f).output = TRUE
      BY DEF OutputAnd
    <2>3. \A f : NoOutput(f).tags = 0 /\ NoOutput(f).output = FALSE
      BY DEF NoOutput
    <2>4. ASSUME NEW p \in {Output(0), Output(1), Output(2)}
          PROVE  p.tags \in {0, 1, 2} /\ p.output \in BOOLEAN
      BY <2>1, <2>4
    <2>5. ASSUME NEW p \in {OutputAnd(0, "keepalive"), OutputAnd(1, "subscription")}
          PROVE  p.tags \in {0, 1, 2} /\ p.output \in BOOLEAN
      BY <2>2, <2>5
    <2>6. ASSUME NEW p \in {NoOutput("nothing"), NoOutput("keepalive"), NoOutput("abort")}
          PROVE  p.tags \in {0, 1, 2} /\ p.output \in BOOLEAN
      BY <2>3, <2>6
    <2> QED BY <2>4, <2>5, <2>6
  <1> QED BY <1>1, <1>2

----------------------------------------------------------------------------
(* Steps                                                                   *)

coreVars == <<kind, netVars, phase, current, identities, reply>>

\* Steps of subscriptions and reactors do not touch requests and responses.
LEMMA CoreUnchanged ==
  ASSUME KnownInv, ApartInv, WorkerInv, AnswerInv, UNCHANGED coreVars
  PROVE  KnownInv' /\ ApartInv' /\ WorkerInv' /\ AnswerInv'
  <1>1. \A q : E!Answered(q)' <=> E!Answered(q)
    BY DEF E!Answered, coreVars, netVars
  <1>2. \A w, q : AtWorker(w, q)' <=> AtWorker(w, q)
    BY DEF AtWorker, coreVars
  <1>3. \A q : Known(q)' <=> Known(q)
    BY <1>1, <1>2 DEF Known, coreVars, netVars
  <1>4. KnownInv'
    BY <1>3 DEF KnownInv, coreVars
  <1>5. ClientsApart' /\ QueuesApart' /\ WorkersApart' /\ AnswersApart'
    BY <1>1, <1>2 DEF ApartInv, ClientsApart, QueuesApart, WorkersApart, AnswersApart, coreVars, netVars
  <1>6. \A w : Sees(w)' = Sees(w)
    BY DEF Sees, coreVars
  <1>7. WorkerInv'
    BY <1>6 DEF WorkerInv, coreVars
  <1>8. AnswerInv'
    BY DEF AnswerInv, coreVars, netVars
  <1> QED BY <1>4, <1>5, <1>7, <1>8 DEF ApartInv

LEMMA AskStep ==
  ASSUME IInv, NEW r \in Requests, Ask(r)
  PROVE  IInv'
  <1> USE DEF IInv
  <1>1. PICK k \in Kinds : kind' = [kind EXCEPT ![r] = k]
    BY RequestsAssumption DEF Ask
  <1>2. /\ kind[r] = "none" /\ clientsIn' = Append(clientsIn, r)
        /\ UNCHANGED <<server, workerIn, answersIn, received, subscriptionVars, workerVars>>
    BY DEF Ask
  <1>3. clientsIn \in Seq(Requests) /\ kind \in [Requests -> Kinds \cup {"none"}]
    BY DEF TypeOK
  <1>4. ~Known(r)
    BY <1>2 DEF KnownInv
  <1>5. /\ clientsIn' \in Seq(Requests)
        /\ El(clientsIn') = El(clientsIn) \cup {r}
        /\ Inj(clientsIn')
    <2>1. Inj(clientsIn) /\ r \notin El(clientsIn)
      BY <1>4 DEF ApartInv, ClientsApart, Known
    <2> QED BY <1>2, <1>3, <2>1, Appended
  <1>6. kind' \in [Requests -> Kinds \cup {"none"}] /\ kind'[r] # "none"
        /\ \A q \in Requests : q # r => kind'[q] = kind[q]
    BY <1>1, <1>3 DEF Kinds
  <1>7. TypeOK'
    BY <1>2, <1>5, <1>6 DEF TypeOK, subscriptionVars, workerVars
  <1>8. \A q : E!Answered(q)' <=> E!Answered(q)
    BY <1>2 DEF E!Answered
  <1>9. \A w, q : AtWorker(w, q)' <=> AtWorker(w, q)
    BY <1>2 DEF AtWorker, workerVars
  <1>10. \A q : Known(q)' => q = r \/ Known(q)
    BY <1>2, <1>5, <1>8, <1>9 DEF Known
  <1>11. KnownInv'
    BY <1>6, <1>10 DEF KnownInv
  <1>12. ClientsApart'
    <2>1. \A q \in El(clientsIn) :
            /\ \A w \in Workers : q \notin El(workerIn[w]) /\ ~AtWorker(w, q)
            /\ q \notin ReqsOf(answersIn)
            /\ ~E!Answered(q)
      BY DEF ApartInv, ClientsApart
    <2>2. /\ \A w \in Workers : r \notin El(workerIn[w]) /\ ~AtWorker(w, r)
          /\ r \notin ReqsOf(answersIn)
          /\ ~E!Answered(r)
      BY <1>4 DEF Known
    <2> QED BY <1>2, <1>5, <1>8, <1>9, <2>1, <2>2 DEF ClientsApart
  <1>13. QueuesApart' /\ WorkersApart' /\ AnswersApart'
    BY <1>2, <1>8, <1>9 DEF ApartInv, QueuesApart, WorkersApart, AnswersApart
  <1>14. WorkerInv'
    <2>1. ASSUME NEW w \in Workers, phase[w] = "busy" PROVE Sees(w)' = Sees(w)
      <3>1. current[w] # << >> /\ Head(current[w]) \in Requests /\ Head(current[w]) # r
        <4>1. current[w] # << >> /\ Head(current[w]) \in Requests
          BY <2>1, HandledTypes
        <4>2. ~AtWorker(w, r)
          BY <1>4 DEF Known
        <4> QED BY <4>1, <4>2 DEF AtWorker
      <3> QED BY <1>2, <1>6, <3>1 DEF Sees, workerVars
    <2> QED BY <1>2, <2>1 DEF WorkerInv, workerVars
  <1>15. AnswerInv'
    BY <1>2 DEF AnswerInv
  <1> QED BY <1>7, <1>11, <1>12, <1>13, <1>14, <1>15 DEF ApartInv

LEMMA MoveAnswerStep ==
  ASSUME IInv, MoveAnswer
  PROVE  IInv' /\ \E r \in Requests : E!Answer(r)
  <1> USE DEF IInv
  <1> DEFINE a == Head(answersIn)
             r == a.response.req
  <1>1. /\ answersIn # << >> /\ answersIn' = Tail(answersIn)
        /\ received' = [received EXCEPT ![a.to] = Append(@, a.response)]
        /\ UNCHANGED <<kind, server, clientsIn, workerIn, subscriptionVars, workerVars>>
    BY DEF MoveAnswer
  <1>2. /\ answersIn \in Seq(Routed)
        /\ received \in [Clients -> Seq(Responses)]
    BY DEF TypeOK
  <1>3. a \in Routed /\ a \in El(answersIn) /\ answersIn' \in Seq(Routed)
        /\ El(answersIn') \subseteq El(answersIn)
    BY <1>1, <1>2, Taken
  <1>4. a.to \in Clients /\ a.response \in Responses /\ r \in Requests
    BY <1>3 DEF Routed, Responses
  <1>5. /\ r \in ReqsOf(answersIn)
        /\ r \notin ReqsOf(answersIn')
        /\ ReqsOf(answersIn') \subseteq ReqsOf(answersIn)
        /\ InjReq(answersIn')
    <2>1. InjReq(answersIn)
      BY DEF ApartInv, AnswersApart
    <2> HIDE DEF a, r
    <2>2. ReqsOf(answersIn) = ReqsOf(Tail(answersIn)) \cup {Head(answersIn).response.req}
          /\ InjReq(Tail(answersIn)) /\ Head(answersIn).response.req \notin ReqsOf(Tail(answersIn))
      BY <1>1, <1>2, <2>1, ResponseTaken
    <2> QED BY <1>1, <2>2 DEF a, r
  <1>6. \A q : E!Answered(q)' <=> E!Answered(q) \/ q = r
    <2> HIDE DEF a
    <2> QED BY <1>1, <1>2, <1>4, Delivered
  <1>7. TypeOK'
    <2>1. received' \in [Clients -> Seq(Responses)]
      <3>1. Append(received[a.to], a.response) \in Seq(Responses)
        <4> HIDE DEF a
        <4> QED BY <1>2, <1>4, AppendProperties
      <3> QED BY <1>1, <1>2, <1>4, <3>1
    <2> QED BY <1>1, <1>3, <2>1 DEF TypeOK, subscriptionVars, workerVars
  <1> HIDE DEF a, r
  <1>8. \A w, q : AtWorker(w, q)' <=> AtWorker(w, q)
    BY <1>1 DEF AtWorker, workerVars
  <1>9. KnownInv'
    <2>1. \A q : Known(q)' => Known(q)
      BY <1>1, <1>5, <1>6, <1>8 DEF Known
    <2> QED BY <1>1, <2>1 DEF KnownInv
  <1>10. ClientsApart'
    BY <1>1, <1>5, <1>6, <1>8 DEF ApartInv, ClientsApart
  <1>11. QueuesApart'
    BY <1>1, <1>5, <1>6, <1>8 DEF ApartInv, QueuesApart
  <1>12. WorkersApart'
    BY <1>1, <1>5, <1>6, <1>8 DEF ApartInv, WorkersApart
  <1>13. AnswersApart'
    BY <1>1, <1>5, <1>6 DEF ApartInv, AnswersApart
  <1>14. \A w : Sees(w)' = Sees(w)
    BY <1>1 DEF Sees, workerVars
  <1>15. WorkerInv'
    BY <1>1, <1>14 DEF WorkerInv, workerVars
  <1>16. AnswerInv'
    BY <1>3 DEF AnswerInv
  <1>17. E!Answer(r)
    <2>1. a.to = ClientOf[r] /\ a.response.tags \in E!TagsOf(r)
      BY <1>3 DEF AnswerInv, r
    <2>2. a.response = [req |-> r, tags |-> a.response.tags]
      BY <1>4 DEF Responses, r
    <2>3. kind[r] # "none"
      BY <1>4, <1>5 DEF KnownInv, Known
    <2>4. ~E!Answered(r)
      BY <1>5 DEF ApartInv, AnswersApart
    <2> QED BY <1>1, <1>4, <2>1, <2>2, <2>3, <2>4 DEF E!Answer
  <1> QED BY <1>4, <1>7, <1>9, <1>10, <1>11, <1>12, <1>13, <1>15, <1>16, <1>17 DEF ApartInv

LEMMA MoveRequestStep ==
  ASSUME IInv, MoveRequest
  PROVE  IInv' /\ UNCHANGED <<kind, received>>
  <1> USE DEF IInv
  <1> DEFINE r == Head(clientsIn)
  <1>1. /\ clientsIn # << >> /\ clientsIn' = Tail(clientsIn)
        /\ UNCHANGED <<kind, answersIn, received, subscriptionVars, workerVars>>
    BY DEF MoveRequest
  <1>2. clientsIn \in Seq(Requests) /\ workerIn \in [Workers -> Seq(Requests)]
    BY DEF TypeOK
  <1>3. /\ r \in Requests /\ r \in El(clientsIn)
        /\ clientsIn' \in Seq(Requests)
        /\ El(clientsIn') \subseteq El(clientsIn)
        /\ Inj(clientsIn') /\ r \notin El(clientsIn')
    <2>1. Inj(clientsIn)
      BY DEF ApartInv, ClientsApart
    <2> HIDE DEF r
    <2>2. /\ Head(clientsIn) \in Requests /\ Head(clientsIn) \in El(clientsIn)
          /\ Tail(clientsIn) \in Seq(Requests)
          /\ El(clientsIn) = El(Tail(clientsIn)) \cup {Head(clientsIn)}
          /\ Inj(Tail(clientsIn)) /\ Head(clientsIn) \notin El(Tail(clientsIn))
      BY <1>1, <1>2, <2>1, Taken
    <2> QED BY <1>1, <2>2 DEF r
  <1>4. \/ workerIn' = workerIn
        \/ \E w \in Workers : workerIn' = [workerIn EXCEPT ![w] = Append(@, r)]
    BY DEF MoveRequest
  <1>5. server' \in ServerStates
    BY DEF MoveRequest, TypeOK, ServerStates
  <1>6. /\ \A w \in Workers : r \notin El(workerIn[w]) /\ ~AtWorker(w, r)
        /\ r \notin ReqsOf(answersIn)
        /\ ~E!Answered(r)
    BY <1>3 DEF ApartInv, ClientsApart
  <1> HIDE DEF r
  \* The request is in one queue now, or the server has it in hand.
  <1>7. /\ workerIn' \in [Workers -> Seq(Requests)]
        /\ \A w \in Workers : Inj(workerIn'[w])
        /\ \A w \in Workers : El(workerIn'[w]) \subseteq El(workerIn[w]) \cup {r}
        /\ \A v, w \in Workers : r \in El(workerIn'[v]) /\ r \in El(workerIn'[w]) => v = w
    <2>1. CASE workerIn' = workerIn
      BY <1>2, <1>6, <2>1 DEF ApartInv, QueuesApart
    <2>2. CASE \E w \in Workers : workerIn' = [workerIn EXCEPT ![w] = Append(@, r)]
      <3>1. PICK w \in Workers : workerIn' = [workerIn EXCEPT ![w] = Append(@, r)]
        BY <2>2
      <3>2. workerIn[w] \in Seq(Requests) /\ Inj(workerIn[w]) /\ r \notin El(workerIn[w])
        BY <1>2, <1>6 DEF ApartInv, QueuesApart
      <3>3. /\ Append(workerIn[w], r) \in Seq(Requests)
            /\ El(Append(workerIn[w], r)) = El(workerIn[w]) \cup {r}
            /\ Inj(Append(workerIn[w], r))
        BY <1>3, <3>2, Appended
      <3>4. workerIn'[w] = Append(workerIn[w], r)
            /\ \A v \in Workers : v # w => workerIn'[v] = workerIn[v]
        BY <1>2, <3>1
      <3>5. \A v \in Workers : v # w => Inj(workerIn'[v])
        BY <3>4 DEF ApartInv, QueuesApart
      <3>6. workerIn' \in [Workers -> Seq(Requests)]
        BY <1>2, <3>1, <3>3
      <3>7. \A v \in Workers : v # w => r \notin El(workerIn'[v])
        BY <1>6, <3>4
      <3> QED BY <3>3, <3>4, <3>5, <3>6, <3>7
    <2> QED BY <1>4, <2>1, <2>2
  <1>8. TypeOK'
    BY <1>1, <1>3, <1>5, <1>7 DEF TypeOK, subscriptionVars, workerVars
  <1>9. \A q : E!Answered(q)' <=> E!Answered(q)
    BY <1>1 DEF E!Answered
  <1>10. \A w, q : AtWorker(w, q)' <=> AtWorker(w, q)
    BY <1>1 DEF AtWorker, workerVars
  <1>11. KnownInv'
    <2>1. \A q : Known(q)' => Known(q)
      BY <1>1, <1>3, <1>7, <1>9, <1>10 DEF Known
    <2> QED BY <1>1, <2>1 DEF KnownInv
  <1>12. ClientsApart'
    <2>1. ASSUME NEW q \in El(clientsIn'), NEW w \in Workers PROVE q \notin El(workerIn'[w])
      BY <1>3, <1>7, <2>1 DEF ApartInv, ClientsApart
    <2> QED BY <1>1, <1>3, <1>9, <1>10, <2>1 DEF ApartInv, ClientsApart
  <1>13. QueuesApart'
    <2>1. ASSUME NEW w \in Workers, NEW q \in El(workerIn'[w])
          PROVE  /\ \A v \in Workers : v # w => q \notin El(workerIn'[v])
                 /\ \A v \in Workers : ~AtWorker(v, q)
                 /\ q \notin ReqsOf(answersIn)
                 /\ ~E!Answered(q)
      <3>1. CASE q = r
        BY <1>6, <1>7, <2>1, <3>1
      <3>2. CASE q # r
        BY <1>7, <2>1, <3>2 DEF ApartInv, QueuesApart
      <3> QED BY <3>1, <3>2
    <2> QED BY <1>1, <1>7, <1>9, <1>10, <2>1 DEF QueuesApart
  <1>14. WorkersApart' /\ AnswersApart'
    BY <1>1, <1>9, <1>10 DEF ApartInv, WorkersApart, AnswersApart
  <1>15. \A w : Sees(w)' = Sees(w)
    BY <1>1 DEF Sees, workerVars
  <1>16. WorkerInv' /\ AnswerInv'
    BY <1>1, <1>15 DEF WorkerInv, AnswerInv, workerVars
  <1> QED BY <1>1, <1>8, <1>11, <1>12, <1>13, <1>14, <1>16 DEF ApartInv

LEMMA StopChildrenStep ==
  ASSUME IInv, StopChildren
  PROVE  IInv' /\ UNCHANGED <<kind, received>>
  <1> USE DEF IInv
  <1>1. /\ server' = "childless"
        /\ workerIn' = [w \in Workers |-> << >>]
        /\ reactorIn' = [x \in Reactors |-> << >>]
        /\ notes' = [x \in Reactors |-> {}]
        /\ UNCHANGED <<kind, clientsIn, answersIn, received, subsIn, notesIn, dead, killers, workerVars>>
    BY DEF StopChildren
  <1>2. << >> \in Seq(Requests)
    OBVIOUS
  <1>3. TypeOK'
    BY <1>1, <1>2 DEF TypeOK, ServerStates, workerVars
  <1>4. \A w \in Workers : El(workerIn'[w]) = {} /\ Inj(workerIn'[w])
    BY <1>1, EmptyQueue
  <1>5. \A q : E!Answered(q)' <=> E!Answered(q)
    BY <1>1 DEF E!Answered
  <1>6. \A w, q : AtWorker(w, q)' <=> AtWorker(w, q)
    BY <1>1 DEF AtWorker, workerVars
  <1>7. KnownInv'
    <2>1. \A q : Known(q)' => Known(q)
      BY <1>1, <1>4, <1>5, <1>6 DEF Known
    <2> QED BY <1>1, <2>1 DEF KnownInv
  <1>8. ClientsApart'
    BY <1>1, <1>4, <1>5, <1>6 DEF ApartInv, ClientsApart
  <1>9. QueuesApart'
    BY <1>4 DEF QueuesApart
  <1>10. WorkersApart' /\ AnswersApart'
    BY <1>1, <1>5, <1>6 DEF ApartInv, WorkersApart, AnswersApart
  <1>11. \A w : Sees(w)' = Sees(w)
    BY <1>1 DEF Sees, workerVars
  <1>12. WorkerInv' /\ AnswerInv'
    BY <1>1, <1>11 DEF WorkerInv, AnswerInv, workerVars
  <1> QED BY <1>1, <1>3, <1>7, <1>8, <1>9, <1>10, <1>12 DEF ApartInv

LEMMA ReceiveMessageStep ==
  ASSUME IInv, NEW w \in Workers, ReceiveMessage(w)
  PROVE  IInv' /\ UNCHANGED <<kind, received>>
  <1> USE DEF IInv
  <1> DEFINE r == Head(workerIn[w])
  <1>1. /\ phase[w] \in {"idle", "merging"}
        /\ workerIn[w] # << >>
        /\ current' = [current EXCEPT ![w] = Append(@, r)]
        /\ identities' = [identities EXCEPT ![w] =
                            IF phase[w] = "idle" THEN <<ClientOf[r]>> ELSE @]
        /\ phase' = [phase EXCEPT ![w] = IF kind[r] = "blank" THEN "merging" ELSE "busy"]
        /\ unanswered' = IF phase[w] = "merging" THEN unanswered \cup {r} ELSE unanswered
        /\ workerIn' = [workerIn EXCEPT ![w] = Tail(@)]
        /\ UNCHANGED <<kind, server, clientsIn, answersIn, received, subscriptionVars, reply, accepted>>
    BY DEF ReceiveMessage
  <1>2. /\ workerIn \in [Workers -> Seq(Requests)]
        /\ current \in [Workers -> Seq(Requests)]
        /\ identities \in [Workers -> Seq(Clients)]
        /\ phase \in [Workers -> Phases]
    BY DEF TypeOK
  <1>3. workerIn[w] \in Seq(Requests) /\ current[w] \in Seq(Requests)
    BY <1>2
  <1>4. /\ r \in Requests /\ r \in El(workerIn[w])
        /\ Tail(workerIn[w]) \in Seq(Requests)
        /\ El(Tail(workerIn[w])) \subseteq El(workerIn[w])
        /\ Inj(Tail(workerIn[w])) /\ r \notin El(Tail(workerIn[w]))
    <2>1. Inj(workerIn[w])
      BY DEF ApartInv, QueuesApart
    <2> HIDE DEF r
    <2>2. /\ Head(workerIn[w]) \in Requests /\ Head(workerIn[w]) \in El(workerIn[w])
          /\ Tail(workerIn[w]) \in Seq(Requests)
          /\ El(workerIn[w]) = El(Tail(workerIn[w])) \cup {Head(workerIn[w])}
          /\ Inj(Tail(workerIn[w])) /\ Head(workerIn[w]) \notin El(Tail(workerIn[w]))
      BY <1>1, <1>3, <2>1, Taken
    <2> QED BY <2>2 DEF r
  <1> HIDE DEF r
  <1>5. /\ \A v \in Workers : v # w => r \notin El(workerIn[v])
        /\ \A v \in Workers : ~AtWorker(v, r)
        /\ r \notin ReqsOf(answersIn)
        /\ ~E!Answered(r)
    BY <1>4 DEF ApartInv, QueuesApart
  <1>6. kind[r] \in Kinds
    BY <1>4 DEF KnownInv, Known, TypeOK
  <1>7. /\ Append(current[w], r) \in Seq(Requests)
        /\ Append(current[w], r) # << >>
        /\ current[w] = << >> => Head(Append(current[w], r)) = r /\ Len(Append(current[w], r)) = 1
        /\ current[w] # << >> => /\ Head(Append(current[w], r)) = Head(current[w])
                                 /\ Len(Append(current[w], r)) > 1
    BY <1>3, <1>4, AppendProperties, LenProperties, HeadTailProperties
  <1>8. /\ current'[w] = Append(current[w], r)
        /\ \A v \in Workers : v # w => current'[v] = current[v]
    BY <1>1, <1>2
  <1>9. /\ workerIn'[w] = Tail(workerIn[w])
        /\ \A v \in Workers : v # w => workerIn'[v] = workerIn[v]
    BY <1>1, <1>2
  <1>10. phase[w] = "idle" <=> current[w] = << >>
    BY DEF WorkerInv
  <1>11. \A v \in Workers : \A q : AtWorker(v, q)' =>
           AtWorker(v, q) \/ (v = w /\ q = r /\ phase[w] = "idle")
    <2>1. ASSUME NEW q, AtWorker(w, q)' PROVE AtWorker(w, q) \/ (q = r /\ phase[w] = "idle")
      BY <1>7, <1>8, <1>10, <2>1 DEF AtWorker
    <2>2. ASSUME NEW v \in Workers, NEW q, v # w, AtWorker(v, q)' PROVE AtWorker(v, q)
      BY <1>8, <2>2 DEF AtWorker
    <2> QED BY <2>1, <2>2
  <1>12. /\ \A v \in Workers : El(workerIn'[v]) \subseteq El(workerIn[v])
         /\ \A v \in Workers : r \notin El(workerIn'[v])
         /\ \A v \in Workers : Inj(workerIn'[v])
    BY <1>4, <1>5, <1>9 DEF ApartInv, QueuesApart
  <1>13. TypeOK'
    <2>1. workerIn' \in [Workers -> Seq(Requests)] /\ current' \in [Workers -> Seq(Requests)]
      BY <1>1, <1>2, <1>4, <1>7
    <2>2. identities' \in [Workers -> Seq(Clients)]
      <3>1. ClientOf[r] \in Clients
        BY <1>4, RequestsAssumption
      <3>2. <<ClientOf[r]>> \in Seq(Clients)
        BY <3>1
      <3> QED BY <1>1, <1>2, <3>2
    <2>3. phase' \in [Workers -> Phases]
      BY <1>1, <1>2 DEF Phases
    <2>4. unanswered' \subseteq Requests
      BY <1>1, <1>4 DEF TypeOK
    <2> QED BY <1>1, <2>1, <2>2, <2>3, <2>4 DEF TypeOK, subscriptionVars
  <1>14. \A q : E!Answered(q)' <=> E!Answered(q)
    BY <1>1 DEF E!Answered
  <1>15. KnownInv'
    <2>1. \A q : Known(q)' => Known(q)
      BY <1>1, <1>4, <1>11, <1>12, <1>14 DEF Known
    <2> QED BY <1>1, <2>1 DEF KnownInv
  <1>16. ClientsApart'
    <2>1. r \notin El(clientsIn)
      BY <1>4 DEF ApartInv, ClientsApart
    <2> QED BY <1>1, <1>11, <1>12, <1>14, <2>1 DEF ApartInv, ClientsApart
  <1>17. QueuesApart'
    <2>1. ASSUME NEW v \in Workers, NEW q \in El(workerIn'[v])
          PROVE  /\ \A u \in Workers : u # v => q \notin El(workerIn'[u])
                 /\ \A u \in Workers : ~AtWorker(u, q)'
                 /\ q \notin ReqsOf(answersIn)
                 /\ ~E!Answered(q)
      <3>1. q # r /\ q \in El(workerIn[v])
        BY <1>12, <2>1
      <3>2. \A u \in Workers : ~AtWorker(u, q)'
        BY <1>11, <3>1 DEF ApartInv, QueuesApart
      <3> QED BY <1>12, <3>1, <3>2 DEF ApartInv, QueuesApart
    <2> QED BY <1>1, <1>12, <1>14, <2>1 DEF QueuesApart
  <1>18. WorkersApart'
    <2>1. ASSUME NEW v \in Workers, NEW q \in Requests, AtWorker(v, q)'
          PROVE  /\ \A u \in Workers : AtWorker(u, q)' => u = v
                 /\ q \notin ReqsOf(answersIn)
                 /\ ~E!Answered(q)
      <3>1. CASE q = r
        BY <1>5, <1>11, <2>1, <3>1
      <3>2. CASE q # r
        BY <1>11, <2>1, <3>2 DEF ApartInv, WorkersApart
      <3> QED BY <3>1, <3>2
    <2> QED BY <1>1, <1>14, <2>1 DEF WorkersApart
  <1>19. AnswersApart' /\ AnswerInv'
    BY <1>1, <1>14 DEF ApartInv, AnswersApart, AnswerInv
  <1>20. WorkerInv'
    <2>1. ASSUME NEW v \in Workers, v # w
          PROVE  /\ phase'[v] = phase[v] /\ current'[v] = current[v]
                 /\ identities'[v] = identities[v] /\ reply'[v] = reply[v]
                 /\ Sees(v)' = Sees(v)
      <3>1. /\ phase'[v] = phase[v] /\ current'[v] = current[v]
            /\ identities'[v] = identities[v] /\ reply'[v] = reply[v]
        BY <1>1, <1>2, <2>1
      <3>2. kind' = kind
        BY <1>1
      <3>3. Sees(v)' = Sees(v)
        BY <3>1, <3>2 DEF Sees
      <3> QED BY <3>1, <3>3
    <2>2. phase'[w] \in {"merging", "busy"} /\ (phase'[w] = "busy" => kind[r] # "blank")
      BY <1>1, <1>2
    <2>3. current'[w] # << >>
      BY <1>7, <1>8
    <2>4. identities'[w] = <<ClientOf[Head(current'[w])]>>
      <3>1. CASE phase[w] = "idle"
        BY <1>1, <1>2, <1>7, <1>8, <1>10, <3>1
      <3>2. CASE phase[w] = "merging"
        <4>1. identities'[w] = identities[w]
          BY <1>1, <1>2, <3>2
        <4>2. identities[w] = <<ClientOf[Head(current[w])]>>
          BY <3>2 DEF WorkerInv
        <4> QED BY <1>7, <1>8, <1>10, <3>2, <4>1, <4>2
      <3> QED BY <1>1, <3>1, <3>2
    <2>5. phase'[w] = "busy" => Sees(w)' \in Kinds \ {"blank"}
      <3>1. CASE phase[w] = "idle"
        BY <1>1, <1>6, <1>7, <1>8, <1>10, <2>2, <3>1 DEF Sees
      <3>2. CASE phase[w] = "merging"
        BY <1>7, <1>8, <1>10, <3>2 DEF Sees, Kinds
      <3> QED BY <1>1, <3>1, <3>2
    <2> QED BY <2>1, <2>2, <2>3, <2>4, <2>5 DEF WorkerInv
  <1> QED BY <1>1, <1>13, <1>15, <1>16, <1>17, <1>18, <1>19, <1>20 DEF ApartInv

LEMMA ProcessMessagesStep ==
  ASSUME IInv, NEW w \in Workers, ProcessMessages(w)
  PROVE  IInv' /\ UNCHANGED <<kind, received>>
  <1> USE DEF IInv
  <1>1. PICK o \in Outcomes(Sees(w)) :
          LET r == Head(current[w])
          IN /\ IF o.output
                THEN /\ phase' = [phase EXCEPT ![w] = "replying"]
                     /\ reply' = [reply EXCEPT ![w] = {Tagged(o.tags, r)}]
                     /\ UNCHANGED <<current, unanswered>>
                ELSE /\ phase' = [phase EXCEPT ![w] = "idle"]
                     /\ current' = [current EXCEPT ![w] = << >>]
                     /\ unanswered' = unanswered \cup {r}
                     /\ UNCHANGED reply
             /\ server' = IF o.forwards = "abort" THEN "aborted" ELSE server
             /\ subsIn' = IF o.forwards = "subscription" THEN Append(subsIn, r) ELSE subsIn
             /\ accepted' = IF o.forwards = "subscription" THEN accepted \cup {r} ELSE accepted
             /\ notesIn' = IF o.forwards = "keepalive" THEN Append(notesIn, r) ELSE notesIn
    BY Zenon DEF ProcessMessages
  <1>2. /\ phase[w] = "busy"
        /\ UNCHANGED <<kind, netVars, reactorIn, notes, dead, killers, identities>>
    BY DEF ProcessMessages
  <1> DEFINE r == Head(current[w])
  <1>3. current[w] # << >> /\ r \in Requests
    BY <1>2, HandledTypes
  <1>4. o.tags \in {0, 1, 2} /\ o.output \in BOOLEAN
    <2>1. Sees(w) \in Kinds \ {"blank"}
      BY <1>2 DEF WorkerInv
    <2> QED BY <1>1, <2>1, OutcomeTags
  <1>5. Tagged(o.tags, r) \in E!TagsOf(r) /\ Tagged(o.tags, r) \in Seq(Requests)
    <2> HIDE DEF r
    <2> QED BY <1>3, <1>4, TaggedTags
  <1>6. \/ /\ phase' = [phase EXCEPT ![w] = "replying"]
           /\ reply' = [reply EXCEPT ![w] = {Tagged(o.tags, r)}]
           /\ UNCHANGED <<current, unanswered>>
        \/ /\ phase' = [phase EXCEPT ![w] = "idle"]
           /\ current' = [current EXCEPT ![w] = << >>]
           /\ unanswered' = unanswered \cup {r}
           /\ UNCHANGED reply
    BY <1>1
  <1>7. /\ server' \in {"aborted", server}
        /\ subsIn' \in {subsIn, Append(subsIn, r)}
        /\ accepted' \in {accepted, accepted \cup {r}}
        /\ notesIn' \in {notesIn, Append(notesIn, r)}
    BY <1>1
  <1> HIDE DEF r
  <1>8. TypeOK'
    <2>1. server' \in ServerStates
      BY <1>7 DEF TypeOK, ServerStates
    <2>2. subsIn' \in Seq(Requests) /\ notesIn' \in Seq(Requests)
      <3>1. subsIn \in Seq(Requests) /\ notesIn \in Seq(Requests)
        BY DEF TypeOK
      <3>2. Append(subsIn, r) \in Seq(Requests) /\ Append(notesIn, r) \in Seq(Requests)
        BY <1>3, <3>1, AppendProperties
      <3> QED BY <1>7, <3>1, <3>2
    <2>3. accepted' \subseteq Requests /\ unanswered' \subseteq Requests
      BY <1>3, <1>6, <1>7 DEF TypeOK
    <2>4. phase' \in [Workers -> Phases]
      BY <1>6 DEF TypeOK, Phases
    <2>5. current' \in [Workers -> Seq(Requests)]
      <3>1. current \in [Workers -> Seq(Requests)] /\ << >> \in Seq(Requests)
        BY DEF TypeOK
      <3> QED BY <1>6, <3>1
    <2>6. reply' \in [Workers -> SUBSET Seq(Requests)]
      <3>1. reply \in [Workers -> SUBSET Seq(Requests)]
        BY DEF TypeOK
      <3>2. {Tagged(o.tags, r)} \in SUBSET Seq(Requests)
        BY <1>5
      <3> QED BY <1>6, <3>1, <3>2
    <2> QED BY <1>2, <2>1, <2>2, <2>3, <2>4, <2>5, <2>6 DEF TypeOK, netVars
  <1>9. \A q : E!Answered(q)' <=> E!Answered(q)
    BY <1>2 DEF E!Answered, netVars
  <1>10. \A v \in Workers : v # w =>
           /\ phase'[v] = phase[v] /\ current'[v] = current[v] /\ reply'[v] = reply[v]
    BY <1>6 DEF TypeOK
  <1>11. current'[w] = current[w] \/ current'[w] = << >>
    BY <1>6 DEF TypeOK
  <1>12. \A v \in Workers : \A q : AtWorker(v, q)' => AtWorker(v, q)
    BY <1>10, <1>11 DEF AtWorker
  <1>13. KnownInv'
    <2>1. \A q : Known(q)' => Known(q)
      BY <1>2, <1>9, <1>12 DEF Known, netVars
    <2> QED BY <1>2, <2>1 DEF KnownInv
  <1>14. ClientsApart' /\ QueuesApart'
    BY <1>2, <1>9, <1>12 DEF ApartInv, ClientsApart, QueuesApart, netVars
  <1>15. WorkersApart'
    BY <1>2, <1>9, <1>12 DEF ApartInv, WorkersApart, netVars
  <1>16. AnswersApart' /\ AnswerInv'
    BY <1>2, <1>9 DEF ApartInv, AnswersApart, AnswerInv, netVars
  <1>17. WorkerInv'
    <2>1. ASSUME NEW v \in Workers, v # w
          PROVE  /\ phase'[v] = phase[v] /\ current'[v] = current[v]
                 /\ identities'[v] = identities[v] /\ reply'[v] = reply[v]
                 /\ Sees(v)' = Sees(v)
      BY <1>2, <1>10, <2>1 DEF Sees
    <2>2. CASE /\ phase' = [phase EXCEPT ![w] = "replying"]
               /\ reply' = [reply EXCEPT ![w] = {Tagged(o.tags, r)}]
               /\ UNCHANGED <<current, unanswered>>
      <3>1. /\ phase'[w] = "replying" /\ reply'[w] = {Tagged(o.tags, r)}
            /\ current'[w] = current[w] /\ identities'[w] = identities[w]
        BY <1>2, <2>2 DEF TypeOK
      <3>2. identities[w] = <<ClientOf[r]>>
        BY <1>2 DEF WorkerInv, r
      <3> QED BY <1>3, <1>5, <2>1, <3>1, <3>2 DEF WorkerInv, r
    <2>3. CASE /\ phase' = [phase EXCEPT ![w] = "idle"]
               /\ current' = [current EXCEPT ![w] = << >>]
               /\ unanswered' = unanswered \cup {r}
               /\ UNCHANGED reply
      <3>1. phase'[w] = "idle" /\ current'[w] = << >>
        BY <2>3 DEF TypeOK
      <3> QED BY <2>1, <3>1 DEF WorkerInv
    <2> QED BY <1>6, <2>2, <2>3
  <1> QED BY <1>2, <1>8, <1>13, <1>14, <1>15, <1>16, <1>17 DEF ApartInv, netVars

LEMMA SendReplyStep ==
  ASSUME IInv, NEW w \in Workers, SendReply(w)
  PROVE  IInv' /\ UNCHANGED <<kind, received>>
  <1> USE DEF IInv
  <1> DEFINE r == Head(current[w])
  <1>1. /\ phase[w] = "replying"
        /\ phase' = [phase EXCEPT ![w] = "idle"]
        /\ current' = [current EXCEPT ![w] = << >>]
        /\ reply' = [reply EXCEPT ![w] = {}]
        /\ UNCHANGED <<kind, server, clientsIn, workerIn, received, subscriptionVars, identities,
                       accepted, unanswered>>
    BY DEF SendReply
  <1>2. PICK c \in Clients, tags \in reply[w] :
          /\ identities[w] = <<c>>
          /\ answersIn' = Append(answersIn, [to |-> c, response |-> [req |-> r, tags |-> tags]])
    BY DEF SendReply
  <1> DEFINE a == [to |-> c, response |-> [req |-> r, tags |-> tags]]
  <1>3. current[w] # << >> /\ r \in Requests
    BY <1>1, HandledTypes
  <1>4. AtWorker(w, r)
    BY <1>3 DEF AtWorker
  <1>5. c = ClientOf[r] /\ tags \in E!TagsOf(r)
    BY <1>1, <1>2 DEF WorkerInv
  <1>6. answersIn \in Seq(Routed) /\ tags \in Seq(Requests)
    BY <1>2 DEF TypeOK
  <1>7. a \in Routed /\ a.response.req = r /\ a.response.tags = tags /\ a.to = c
    BY <1>3, <1>6 DEF Routed, Responses
  <1> HIDE DEF r, a
  <1>8. /\ answersIn' \in Seq(Routed)
        /\ El(answersIn') = El(answersIn) \cup {a}
        /\ ReqsOf(answersIn') = ReqsOf(answersIn) \cup {r}
        /\ InjReq(answersIn')
    <2>1. answersIn' = Append(answersIn, a)
      BY <1>2 DEF a
    <2>2. InjReq(answersIn) /\ r \notin ReqsOf(answersIn)
      BY <1>3, <1>4 DEF ApartInv, AnswersApart, WorkersApart
    <2>3. answersIn' \in Seq(Routed) /\ El(answersIn') = El(answersIn) \cup {a}
      BY <1>6, <1>7, <2>1, Appended
    <2> QED BY <1>6, <1>7, <2>1, <2>2, <2>3, ResponseAppended
  <1>9. \A v \in Workers : v # w =>
          /\ phase'[v] = phase[v] /\ current'[v] = current[v] /\ reply'[v] = reply[v]
    BY <1>1 DEF TypeOK
  <1>10. phase'[w] = "idle" /\ current'[w] = << >>
    BY <1>1 DEF TypeOK
  <1>11. TypeOK'
    <2>1. phase' \in [Workers -> Phases]
      BY <1>1 DEF TypeOK, Phases
    <2>2. current' \in [Workers -> Seq(Requests)]
      BY <1>1 DEF TypeOK
    <2>3. reply' \in [Workers -> SUBSET Seq(Requests)]
      BY <1>1 DEF TypeOK
    <2> QED BY <1>1, <1>8, <2>1, <2>2, <2>3 DEF TypeOK, subscriptionVars
  <1>12. \A q : E!Answered(q)' <=> E!Answered(q)
    BY <1>1 DEF E!Answered
  <1>13. \A v \in Workers : \A q : AtWorker(v, q)' => AtWorker(v, q) /\ v # w
    BY <1>9, <1>10 DEF AtWorker
  <1>14. KnownInv'
    <2>1. Known(r)
      BY <1>4 DEF Known
    <2>2. \A q : Known(q)' => Known(q)
      BY <1>1, <1>8, <1>12, <1>13, <2>1 DEF Known
    <2> QED BY <1>1, <2>2 DEF KnownInv
  <1>15. ClientsApart'
    <2>1. r \notin El(clientsIn)
      BY <1>4 DEF ApartInv, ClientsApart
    <2> QED BY <1>1, <1>8, <1>12, <1>13, <2>1 DEF ApartInv, ClientsApart
  <1>16. QueuesApart'
    <2>1. \A v \in Workers : r \notin El(workerIn[v])
      BY <1>4 DEF ApartInv, QueuesApart
    <2>2. ASSUME NEW v \in Workers, NEW q \in El(workerIn[v])
          PROVE  /\ \A u \in Workers : u # v => q \notin El(workerIn[u])
                 /\ \A u \in Workers : ~AtWorker(u, q)'
                 /\ q \notin ReqsOf(answersIn')
                 /\ ~E!Answered(q)
      BY <1>8, <1>13, <2>1, <2>2 DEF ApartInv, QueuesApart
    <2>3. \A v \in Workers : Inj(workerIn[v])
      BY DEF ApartInv, QueuesApart
    <2> QED BY <1>1, <1>12, <2>2, <2>3 DEF QueuesApart
  <1>17. WorkersApart'
    <2>1. ASSUME NEW v \in Workers, NEW q \in Requests, AtWorker(v, q)'
          PROVE  /\ \A u \in Workers : AtWorker(u, q)' => u = v
                 /\ q \notin ReqsOf(answersIn')
                 /\ ~E!Answered(q)
      <3>1. AtWorker(v, q) /\ v # w
        BY <1>13, <2>1
      <3>2. q # r
        BY <1>3, <1>4, <3>1 DEF ApartInv, WorkersApart
      <3> QED BY <1>8, <1>13, <3>1, <3>2 DEF ApartInv, WorkersApart
    <2> QED BY <1>12, <2>1 DEF WorkersApart
  <1>18. AnswersApart'
    <2>1. ~E!Answered(r)
      BY <1>3, <1>4 DEF ApartInv, WorkersApart
    <2> QED BY <1>8, <1>12, <2>1 DEF ApartInv, AnswersApart
  <1>19. WorkerInv'
    <2>1. ASSUME NEW v \in Workers, v # w
          PROVE  /\ phase'[v] = phase[v] /\ current'[v] = current[v]
                 /\ identities'[v] = identities[v] /\ reply'[v] = reply[v]
                 /\ Sees(v)' = Sees(v)
      BY <1>1, <1>9, <2>1 DEF Sees
    <2> QED BY <1>10, <2>1 DEF WorkerInv
  <1>20. AnswerInv'
    BY <1>5, <1>7, <1>8 DEF AnswerInv
  <1> QED BY <1>1, <1>11, <1>14, <1>15, <1>16, <1>17, <1>18, <1>19, <1>20 DEF ApartInv

\* Steps that are about subscriptions, reactors and the server's state only.
LEMMA OtherSteps ==
  ASSUME IInv,
         \/ MoveSubscription
         \/ MoveKeepalive
         \/ CheckDevices
         \/ \E x \in Reactors : ReactorPump(x)
         \/ UNCHANGED vars
  PROVE  IInv' /\ UNCHANGED <<kind, received>>
  <1> USE DEF IInv
  <1>1. UNCHANGED coreVars /\ UNCHANGED workerVars
    <2>1. CASE MoveSubscription
      BY <2>1 DEF MoveSubscription, coreVars, workerVars
    <2>2. CASE MoveKeepalive
      BY <2>2 DEF MoveKeepalive, coreVars, workerVars
    <2>3. CASE CheckDevices
      BY <2>3 DEF CheckDevices, coreVars, workerVars
    <2>4. ASSUME NEW x \in Reactors, ReactorPump(x)
          PROVE  UNCHANGED coreVars /\ UNCHANGED workerVars
      BY <2>4 DEF ReactorPump, coreVars, workerVars
    <2>5. CASE UNCHANGED vars
      BY <2>5 DEF vars, coreVars, workerVars
    <2> QED BY <2>1, <2>2, <2>3, <2>4, <2>5
  <1>2. KnownInv' /\ ApartInv' /\ WorkerInv' /\ AnswerInv'
    BY <1>1, CoreUnchanged
  <1>3. /\ subsIn \in Seq(Requests) /\ notesIn \in Seq(Requests)
        /\ reactorIn \in [Reactors -> Seq(Requests)]
        /\ notes \in [Reactors -> SUBSET Requests]
    BY DEF TypeOK
  <1>4. TypeOK'
    <2>1. CASE MoveSubscription
      <3>1. subsIn # << >> /\ subsIn' = Tail(subsIn)
            /\ UNCHANGED <<notesIn, notes, dead, killers>>
        BY <2>1 DEF MoveSubscription
      <3>2. Head(subsIn) \in Requests /\ Tail(subsIn) \in Seq(Requests)
        BY <1>3, <3>1, HeadTailProperties
      <3>3. \A x \in Reactors : Append(reactorIn[x], Head(subsIn)) \in Seq(Requests)
        BY <1>3, <3>2, AppendProperties
      <3>4. reactorIn' \in [Reactors -> Seq(Requests)]
        <4>1. \/ reactorIn' = reactorIn
              \/ \E x \in Reactors : reactorIn' = [reactorIn EXCEPT ![x] = Append(@, Head(subsIn))]
          BY <2>1 DEF MoveSubscription
        <4> QED BY <1>3, <3>3, <4>1
      <3>5. server' \in ServerStates
        BY <2>1 DEF MoveSubscription, TypeOK, ServerStates
      <3> QED BY <1>1, <3>1, <3>2, <3>4, <3>5 DEF TypeOK, coreVars, netVars, workerVars
    <2>2. CASE MoveKeepalive
      <3>1. notesIn # << >> /\ notesIn' = Tail(notesIn)
            /\ UNCHANGED <<server, subsIn, reactorIn, dead, killers>>
        BY <2>2 DEF MoveKeepalive
      <3>2. Head(notesIn) \in Requests /\ Tail(notesIn) \in Seq(Requests)
        BY <1>3, <3>1, HeadTailProperties
      <3>3. notes' \in [Reactors -> SUBSET Requests]
        <4>1. \/ notes' = notes
              \/ notes' = [x \in Reactors |-> notes[x] \cup {Head(notesIn)}]
          BY <2>2 DEF MoveKeepalive
        <4> QED BY <1>3, <3>2, <4>1
      <3> QED BY <1>1, <3>1, <3>2, <3>3 DEF TypeOK, coreVars, netVars, workerVars
    <2>3. CASE CheckDevices
      <3>1. server' \in ServerStates /\ UNCHANGED subscriptionVars
        BY <2>3 DEF CheckDevices, ServerStates
      <3> QED BY <1>1, <3>1 DEF TypeOK, coreVars, netVars, subscriptionVars, workerVars
    <2>4. ASSUME NEW x \in Reactors, ReactorPump(x) PROVE TypeOK'
      <3>1. /\ reactorIn[x] # << >>
            /\ killers' = killers \cup {Head(reactorIn[x])}
            /\ reactorIn' = [reactorIn EXCEPT ![x] = Tail(@)]
            /\ dead' = dead \cup {x}
            /\ UNCHANGED <<server, subsIn, notesIn, notes>>
        BY <2>4 DEF ReactorPump
      <3>2. Head(reactorIn[x]) \in Requests /\ Tail(reactorIn[x]) \in Seq(Requests)
        <4>1. reactorIn[x] \in Seq(Requests)
          BY <1>3
        <4> QED BY <3>1, <4>1, HeadTailProperties
      <3>3. reactorIn' \in [Reactors -> Seq(Requests)]
        BY <1>3, <3>1, <3>2
      <3> QED BY <1>1, <3>1, <3>2, <3>3 DEF TypeOK, coreVars, netVars, workerVars
    <2>5. CASE UNCHANGED vars
      BY <2>5 DEF TypeOK, vars, netVars, subscriptionVars, workerVars
    <2> QED BY <2>1, <2>2, <2>3, <2>4, <2>5
  <1> QED BY <1>1, <1>2, <1>4 DEF coreVars, netVars

----------------------------------------------------------------------------
(* Theorems                                                                *)

LEMMA Initially == Init => IInv /\ E!Init
  <1> SUFFICES ASSUME Init PROVE IInv /\ E!Init
    OBVIOUS
  <1> USE DEF Init
  <1>1. TypeOK
    <2>1. << >> \in Seq(Requests) /\ << >> \in Seq(Clients)
          /\ << >> \in Seq(Routed) /\ << >> \in Seq(Responses)
      OBVIOUS
    <2> QED BY <2>1 DEF TypeOK, ServerStates, Phases
  <1>2. \A q : ~E!Answered(q)
    BY DEF E!Answered
  <1>3. El(clientsIn) = {} /\ Inj(clientsIn) /\ ReqsOf(answersIn) = {} /\ InjReq(answersIn)
        /\ El(answersIn) = {} /\ \A w \in Workers : El(workerIn[w]) = {} /\ Inj(workerIn[w])
    BY EmptyQueue
  <1>4. \A w \in Workers : \A q : ~AtWorker(w, q)
    BY DEF AtWorker
  <1>5. \A q : ~Known(q)
    BY <1>2, <1>3, <1>4 DEF Known
  <1>6. KnownInv
    BY <1>5 DEF KnownInv
  <1>7. ApartInv
    BY <1>2, <1>3, <1>4 DEF ApartInv, ClientsApart, QueuesApart, WorkersApart, AnswersApart
  <1>8. WorkerInv
    BY DEF WorkerInv
  <1>9. AnswerInv
    BY <1>3 DEF AnswerInv
  <1>10. E!Init
    BY DEF E!Init
  <1> QED BY <1>1, <1>6, <1>7, <1>8, <1>9, <1>10 DEF IInv

\* Every step keeps the invariant, and is one of Exchange or none for it.
LEMMA Inductive ==
  ASSUME IInv, [Next]_vars
  PROVE  IInv' /\ [E!Next]_(E!exchangeVars)
  <1>1. ASSUME NEW r \in Requests, Ask(r) PROVE IInv' /\ E!Ask(r)
    <2>1. IInv'
      BY <1>1, AskStep
    <2>2. PICK k \in KindsOf[r] : kind' = [kind EXCEPT ![r] = k]
      BY <1>1 DEF Ask
    <2>3. k \in Kinds /\ k # "none"
      BY RequestsAssumption DEF Kinds
    <2>4. kind \in [Requests -> Kinds \cup {"none"}] /\ kind[r] = "none" /\ received' = received
      BY <1>1 DEF Ask, IInv, TypeOK
    <2>5. {q \in Requests : kind'[q] # "none"} = {q \in Requests : kind[q] # "none"} \cup {r}
      BY <2>2, <2>3, <2>4
    <2> QED BY <2>1, <2>4, <2>5 DEF E!Ask
  <1>2. ASSUME MoveAnswer PROVE IInv' /\ \E r \in Requests : E!Answer(r)
    BY <1>2, MoveAnswerStep
  <1>3. ASSUME UNCHANGED <<kind, received>> PROVE UNCHANGED E!exchangeVars
    BY <1>3 DEF E!exchangeVars
  <1>4. CASE \E r \in Requests : Ask(r)
    BY <1>1, <1>4 DEF E!Next
  <1>5. CASE MoveAnswer
    BY <1>2, <1>5 DEF E!Next
  <1>6. CASE MoveRequest
    BY <1>3, <1>6, MoveRequestStep
  <1>7. CASE StopChildren
    BY <1>3, <1>7, StopChildrenStep
  <1>8. CASE \E w \in Workers : Worker(w)
    <2>1. PICK w \in Workers : ReceiveMessage(w) \/ ProcessMessages(w) \/ SendReply(w)
      BY <1>8 DEF Worker
    <2> QED BY <1>3, <2>1, ReceiveMessageStep, ProcessMessagesStep, SendReplyStep
  <1>9. CASE \/ MoveSubscription
             \/ MoveKeepalive
             \/ CheckDevices
             \/ \E x \in Reactors : ReactorPump(x)
             \/ UNCHANGED vars
    BY <1>3, <1>9, OtherSteps
  <1> QED BY <1>4, <1>5, <1>6, <1>7, <1>8, <1>9 DEF Next, Broker

\* The inductive invariant: the stages of a request exclude each other, and
\* what a worker will answer with belongs to the first request it has read
\* (the identities and tags that RequestProcessor::Pump keeps).
THEOREM Invariance == Spec => []IInv
  <1>1. Init => IInv
    BY Initially
  <1>2. IInv /\ [Next]_vars => IInv'
    BY Inductive
  <1> QED BY <1>1, <1>2, PTL DEF Spec

\* Queues hold requests and responses, and a worker's state is one of its
\* loop's (the sockets and members of RequestProcessor and of Server).
THEOREM TypeCorrect == Spec => []TypeOK
  <1>1. IInv => TypeOK
    BY DEF IInv
  <1> QED BY <1>1, Invariance, PTL

\* The server does what Exchange promises: a response goes to the client that
\* asked, comes once and carries that request's tags, however the workers
\* interleave and messages merge (RequestProcessor::Pump, ReceiveMessage).
THEOREM Exchanges == Spec => ImplementsExchange
  <1>1. Init => E!Init
    BY Initially
  <1>2. IInv /\ [Next]_vars => [E!Next]_(E!exchangeVars)
    BY Inductive
  <1> QED BY <1>1, <1>2, Invariance, PTL DEF Spec, ImplementsExchange, E!Spec

----------------------------------------------------------------------------
(* Where a request is                                                      *)

\* No client has two responses to one request, and no two clients have one.
OnceInv ==
  \A c, d \in Clients : \A i \in 1..Len(received[c]), j \in 1..Len(received[d]) :
    received[c][i].req = received[d][j].req => c = d /\ i = j

\* Nothing is lost while the server serves.
LostInv ==
  server = "serving" =>
    \A r \in Requests : kind[r] # "none" /\ r \notin unanswered => Known(r)

LEMMA OnceStep ==
  ASSUME IInv, OnceInv, [Next]_vars
  PROVE  OnceInv'
  <1>1. CASE UNCHANGED received
    BY <1>1 DEF OnceInv
  <1>2. CASE MoveAnswer
    <2> DEFINE a == Head(answersIn)
    <2>1. /\ answersIn # << >> /\ answersIn \in Seq(Routed)
          /\ received \in [Clients -> Seq(Responses)]
          /\ received' = [received EXCEPT ![a.to] = Append(@, a.response)]
      BY <1>2 DEF MoveAnswer, IInv, TypeOK
    <2>2. a \in Routed /\ a \in El(answersIn)
      BY <2>1, Taken
    <2>3. a.to \in Clients /\ a.response \in Responses /\ a.response.req \in ReqsOf(answersIn)
      BY <2>2 DEF Routed, ReqsOf
    <2>4. ~E!Answered(a.response.req)
      BY <2>3 DEF IInv, ApartInv, AnswersApart
    <2>5. \A c \in Clients : \A i \in 1..Len(received[c]) : received[c][i].req # a.response.req
      BY <2>4 DEF E!Answered
    <2> DEFINE c == a.to
               x == a.response
    <2>6. /\ Len(received'[c]) = Len(received[c]) + 1
          /\ \A i \in 1..Len(received[c]) : received'[c][i] = received[c][i]
          /\ received'[c][Len(received[c]) + 1] = x
          /\ Len(received[c]) \in Nat
      <3> HIDE DEF a
      <3>1. received[c] \in Seq(Responses) /\ received'[c] = Append(received[c], x)
        BY <2>1, <2>3
      <3> QED BY <2>3, <3>1, AppendProperties, LenProperties
    <2>7. \A d \in Clients : d # c => received'[d] = received[d]
      BY <2>1, <2>3
    <2> HIDE DEF a, c, x
    \* Every response a client has afterwards is an old one or the last of c.
    <2>8. ASSUME NEW d \in Clients, NEW i \in 1..Len(received'[d])
          PROVE  \/ i \in 1..Len(received[d]) /\ received'[d][i] = received[d][i]
                 \/ d = c /\ i = Len(received[c]) + 1 /\ received'[d][i] = x
      BY <2>6, <2>7, <2>8
    <2>9. \A d \in Clients : \A i \in 1..Len(received[d]) : received[d][i].req # x.req
      BY <2>5 DEF x
    <2>10. ASSUME NEW d \in Clients, NEW e \in Clients,
                  NEW i \in 1..Len(received'[d]), NEW j \in 1..Len(received'[e]),
                  received'[d][i].req = received'[e][j].req
           PROVE  d = e /\ i = j
      <3>1. CASE /\ i \in 1..Len(received[d]) /\ received'[d][i] = received[d][i]
                 /\ j \in 1..Len(received[e]) /\ received'[e][j] = received[e][j]
        BY <2>10, <3>1 DEF OnceInv
      <3>2. CASE /\ i \in 1..Len(received[d]) /\ received'[d][i] = received[d][i]
                 /\ received'[e][j] = x
        BY <2>9, <2>10, <3>2
      <3>3. CASE /\ j \in 1..Len(received[e]) /\ received'[e][j] = received[e][j]
                 /\ received'[d][i] = x
        BY <2>9, <2>10, <3>3
      <3>4. CASE /\ d = c /\ i = Len(received[c]) + 1
                 /\ e = c /\ j = Len(received[c]) + 1
        BY <3>4
      <3> QED BY <2>8, <3>1, <3>2, <3>3, <3>4
    <2> QED BY <2>10 DEF OnceInv
  <1>3. MoveAnswer \/ UNCHANGED received
    <2>1. ASSUME NEW r \in Requests, Ask(r) PROVE UNCHANGED received
      BY <2>1 DEF Ask
    <2>2. ASSUME NEW w \in Workers, Worker(w) PROVE UNCHANGED received
      BY <2>2, ReceiveMessageStep, ProcessMessagesStep, SendReplyStep DEF Worker
    <2> QED BY <2>1, <2>2, MoveRequestStep, StopChildrenStep, OtherSteps DEF Next, Broker
  <1> QED BY <1>1, <1>2, <1>3

\* A step that leaves the requests under way alone loses none.
LEMMA NoneLost ==
  ASSUME LostInv, UNCHANGED coreVars, unanswered \subseteq unanswered',
         server' = "serving" => server = "serving"
  PROVE  LostInv'
  <1>1. \A q : Known(q)' <=> Known(q)
    <2>1. \A q : E!Answered(q)' <=> E!Answered(q)
      BY DEF E!Answered, coreVars, netVars
    <2>2. \A w, q : AtWorker(w, q)' <=> AtWorker(w, q)
      BY DEF AtWorker, coreVars
    <2> QED BY <2>1, <2>2 DEF Known, coreVars, netVars
  <1> QED BY <1>1 DEF LostInv, coreVars

LEMMA LostAsk ==
  ASSUME IInv, LostInv, NEW r \in Requests, Ask(r)
  PROVE  LostInv'
  <1>1. /\ clientsIn \in Seq(Requests) /\ kind \in [Requests -> Kinds \cup {"none"}]
        /\ clientsIn' = Append(clientsIn, r)
        /\ UNCHANGED <<server, workerIn, answersIn, received, current, unanswered>>
        /\ \E k : kind' = [kind EXCEPT ![r] = k]
    BY DEF Ask, IInv, TypeOK, workerVars
  <1>2. El(clientsIn') = El(clientsIn) \cup {r}
    BY <1>1, Appended
  <1>3. \A q : Known(q) \/ q = r => Known(q)'
    <2>1. \A q : E!Answered(q)' <=> E!Answered(q)
      BY <1>1 DEF E!Answered
    <2>2. \A w, q : AtWorker(w, q)' <=> AtWorker(w, q)
      BY <1>1 DEF AtWorker
    <2> QED BY <1>1, <1>2, <2>1, <2>2 DEF Known
  <1>4. \A q \in Requests : q # r => kind'[q] = kind[q]
    BY <1>1
  <1> QED BY <1>1, <1>3, <1>4 DEF LostInv

LEMMA LostMoveAnswer ==
  ASSUME IInv, LostInv, MoveAnswer
  PROVE  LostInv'
  <1> DEFINE a == Head(answersIn)
  <1>1. /\ answersIn # << >> /\ answersIn \in Seq(Routed) /\ answersIn' = Tail(answersIn)
        /\ received \in [Clients -> Seq(Responses)]
        /\ received' = [received EXCEPT ![a.to] = Append(@, a.response)]
        /\ UNCHANGED <<kind, server, clientsIn, workerIn, current, unanswered>>
    BY DEF MoveAnswer, IInv, TypeOK, workerVars
  <1>2. a.to \in Clients /\ a.response \in Responses
    <2>1. a \in Routed
      BY <1>1, Taken
    <2> QED BY <2>1 DEF Routed
  <1>3. ReqsOf(answersIn) = ReqsOf(answersIn') \cup {a.response.req}
    BY <1>1, ResponseTaken
  <1> HIDE DEF a
  <1>4. \A q : E!Answered(q)' <=> E!Answered(q) \/ q = a.response.req
    BY <1>1, <1>2, Delivered
  <1>5. \A w, q : AtWorker(w, q)' <=> AtWorker(w, q)
    BY <1>1 DEF AtWorker
  <1>6. \A q : Known(q) => Known(q)'
    BY <1>1, <1>3, <1>4, <1>5 DEF Known
  <1> QED BY <1>1, <1>6 DEF LostInv

LEMMA LostMoveRequest ==
  ASSUME IInv, LostInv, MoveRequest
  PROVE  LostInv'
  <1> SUFFICES ASSUME server' = "serving" PROVE LostInv'
    BY DEF LostInv
  <1> DEFINE r == Head(clientsIn)
  <1>1. PICK w \in Workers : workerIn' = [workerIn EXCEPT ![w] = Append(@, r)]
    BY DEF MoveRequest
  <1>2. /\ clientsIn # << >> /\ clientsIn \in Seq(Requests) /\ clientsIn' = Tail(clientsIn)
        /\ workerIn \in [Workers -> Seq(Requests)] /\ server = "serving"
        /\ UNCHANGED <<kind, answersIn, received, current, unanswered>>
    BY DEF MoveRequest, IInv, TypeOK, workerVars
  <1>3. r \in Requests /\ El(clientsIn) = El(clientsIn') \cup {r}
    BY <1>2, Taken
  <1> HIDE DEF r
  <1>4. /\ El(workerIn'[w]) = El(workerIn[w]) \cup {r}
        /\ \A v \in Workers : v # w => workerIn'[v] = workerIn[v]
    <2>1. workerIn[w] \in Seq(Requests) /\ workerIn'[w] = Append(workerIn[w], r)
      BY <1>1, <1>2
    <2>2. El(workerIn'[w]) = El(workerIn[w]) \cup {r}
      BY <1>3, <2>1, Appended
    <2> QED BY <1>1, <1>2, <2>2
  <1>5. \A v \in Workers : El(workerIn[v]) \subseteq El(workerIn'[v])
    BY <1>4
  <1>6. \A q : E!Answered(q)' <=> E!Answered(q)
    BY <1>2 DEF E!Answered
  <1>7. \A v, q : AtWorker(v, q)' <=> AtWorker(v, q)
    BY <1>2 DEF AtWorker
  <1>8. \A q : Known(q) => Known(q)'
    BY <1>2, <1>3, <1>4, <1>5, <1>6, <1>7 DEF Known
  <1> QED BY <1>2, <1>8 DEF LostInv

LEMMA LostReceiveMessage ==
  ASSUME IInv, LostInv, NEW w \in Workers, ReceiveMessage(w)
  PROVE  LostInv'
  <1>0. PICK r \in Requests : workerIn[w] # << >> /\ r = Head(workerIn[w])
    <2>1. workerIn[w] \in Seq(Requests) /\ workerIn[w] # << >>
      BY DEF ReceiveMessage, IInv, TypeOK
    <2> QED BY <2>1, Taken
  <1>1. /\ workerIn \in [Workers -> Seq(Requests)] /\ current \in [Workers -> Seq(Requests)]
        /\ workerIn[w] # << >> /\ workerIn' = [workerIn EXCEPT ![w] = Tail(@)]
        /\ current' = [current EXCEPT ![w] = Append(@, r)]
        /\ unanswered' = IF phase[w] = "merging" THEN unanswered \cup {r} ELSE unanswered
        /\ phase[w] \in {"idle", "merging"}
        /\ UNCHANGED <<kind, server, clientsIn, answersIn, received>>
    BY <1>0 DEF ReceiveMessage, IInv, TypeOK
  <1>2. r \in Requests /\ El(workerIn[w]) = El(workerIn'[w]) \cup {r}
    <2>1. workerIn[w] \in Seq(Requests) /\ workerIn'[w] = Tail(workerIn[w])
      BY <1>1
    <2> QED BY <1>0, <1>1, <2>1, Taken
  <1>3. current[w] \in Seq(Requests) /\ current'[w] = Append(current[w], r)
        /\ \A v \in Workers : v # w => current'[v] = current[v] /\ workerIn'[v] = workerIn[v]
    BY <1>1
  <1>4. current'[w] # << >>
    BY <1>2, <1>3, Appended
  <1>5. /\ current[w] = << >> => Head(current'[w]) = r
        /\ current[w] # << >> => Head(current'[w]) = Head(current[w])
    BY <1>2, <1>3, AppendProperties, HeadTailProperties, LenProperties, EmptySeq
  <1>6. \A v \in Workers : \A q : AtWorker(v, q) => AtWorker(v, q)'
    BY <1>3, <1>4, <1>5 DEF AtWorker
  <1>7. \A q : E!Answered(q)' <=> E!Answered(q)
    BY <1>1 DEF E!Answered
  <1>8. \A q : Known(q) => q = r \/ Known(q)'
    <2>1. \A v \in Workers : \A q : q \in El(workerIn[v]) => q = r \/ q \in El(workerIn'[v])
      BY <1>2, <1>3
    <2> QED BY <1>1, <1>6, <1>7, <2>1 DEF Known
  <1>9. r \in unanswered' \/ Known(r)'
    <2>1. CASE phase[w] = "merging"
      BY <1>1, <2>1
    <2>2. CASE phase[w] = "idle"
      <3>1. current[w] = << >>
        BY <2>2 DEF IInv, WorkerInv
      <3>2. AtWorker(w, r)'
        BY <1>4, <1>5, <3>1 DEF AtWorker
      <3> QED BY <3>2 DEF Known
    <2> QED BY <1>1, <2>1, <2>2
  <1>10. unanswered \subseteq unanswered'
    BY <1>1
  <1> QED BY <1>1, <1>8, <1>9, <1>10 DEF LostInv

LEMMA LostProcessMessages ==
  ASSUME IInv, LostInv, NEW w \in Workers, ProcessMessages(w)
  PROVE  LostInv'
  <1> DEFINE r == Head(current[w])
  <1>1. /\ UNCHANGED <<kind, clientsIn, workerIn, answersIn, received>>
        /\ current \in [Workers -> Seq(Requests)]
    BY DEF ProcessMessages, netVars, IInv, TypeOK
  <1>2. /\ \/ UNCHANGED <<current, unanswered>>
           \/ /\ current' = [current EXCEPT ![w] = << >>]
              /\ unanswered' = unanswered \cup {r}
        /\ server' = server \/ server' = "aborted"
    BY DEF ProcessMessages
  <1>3. \A q : E!Answered(q)' <=> E!Answered(q)
    BY <1>1 DEF E!Answered
  <1>4. unanswered \subseteq unanswered'
    BY <1>2
  <1>5. \A v \in Workers : \A q : AtWorker(v, q) => AtWorker(v, q)' \/ q \in unanswered'
    BY <1>1, <1>2 DEF AtWorker
  <1>6. \A q : Known(q) => Known(q)' \/ q \in unanswered'
    BY <1>1, <1>3, <1>5 DEF Known
  <1> QED BY <1>1, <1>2, <1>4, <1>6 DEF LostInv

LEMMA LostSendReply ==
  ASSUME IInv, LostInv, NEW w \in Workers, SendReply(w)
  PROVE  LostInv'
  <1> DEFINE r == Head(current[w])
  <1>1. /\ UNCHANGED <<kind, server, clientsIn, workerIn, received, unanswered>>
        /\ current \in [Workers -> Seq(Requests)]
        /\ current' = [current EXCEPT ![w] = << >>]
        /\ answersIn \in Seq(Routed)
        /\ phase[w] = "replying"
    BY DEF SendReply, IInv, TypeOK
  <1>2. r \in Requests
    BY <1>1, HandledTypes DEF IInv
  <1>3. PICK c \in Clients, tags \in reply[w] :
          answersIn' = Append(answersIn, [to |-> c, response |-> [req |-> r, tags |-> tags]])
    BY DEF SendReply
  <1>4. tags \in Seq(Requests)
    BY DEF IInv, TypeOK
  <1>5. ReqsOf(answersIn') = ReqsOf(answersIn) \cup {r}
    <2> DEFINE a == [to |-> c, response |-> [req |-> r, tags |-> tags]]
    <2>1. a \in Routed /\ a.response.req = r
      BY <1>2, <1>4 DEF Routed, Responses
    <2> HIDE DEF a
    <2>2. answersIn' = Append(answersIn, a)
      BY <1>3 DEF a
    <2> QED BY <1>1, <2>1, <2>2, ResponseAppended
  <1>6. \A q : E!Answered(q)' <=> E!Answered(q)
    BY <1>1 DEF E!Answered
  <1>7. \A v \in Workers : \A q : AtWorker(v, q) => AtWorker(v, q)' \/ q = r
    BY <1>1 DEF AtWorker
  <1>8. \A q : Known(q) => Known(q)'
    BY <1>1, <1>5, <1>6, <1>7 DEF Known
  <1> QED BY <1>1, <1>8 DEF LostInv

LEMMA LostStep ==
  ASSUME IInv, LostInv, [Next]_vars
  PROVE  LostInv'
  <1>1. CASE \E w \in Workers : Worker(w)
    BY <1>1, LostReceiveMessage, LostProcessMessages, LostSendReply DEF Worker
  <1>2. CASE CheckDevices \/ StopChildren
    BY <1>2 DEF CheckDevices, StopChildren, LostInv
  <1>3. CASE MoveSubscription
    <2>1. UNCHANGED coreVars /\ unanswered' = unanswered
          /\ (server' = "serving" => server = "serving")
      BY <1>3 DEF MoveSubscription, coreVars, netVars, workerVars
    <2> QED BY <2>1, NoneLost
  <1>4. CASE MoveKeepalive
    <2>1. UNCHANGED coreVars /\ UNCHANGED <<unanswered, server>>
      BY <1>4 DEF MoveKeepalive, coreVars, netVars, workerVars
    <2> QED BY <2>1, NoneLost
  <1>5. ASSUME NEW x \in Reactors, ReactorPump(x) PROVE LostInv'
    <2>1. UNCHANGED coreVars /\ UNCHANGED <<unanswered, server>>
      BY <1>5 DEF ReactorPump, coreVars, netVars, workerVars
    <2> QED BY <2>1, NoneLost
  <1>6. CASE UNCHANGED vars
    <2>1. UNCHANGED coreVars /\ UNCHANGED <<unanswered, server>>
      BY <1>6 DEF vars, coreVars, netVars, workerVars
    <2> QED BY <2>1, NoneLost
  <1> QED BY <1>1, <1>2, <1>3, <1>4, <1>5, <1>6, LostAsk, LostMoveAnswer, LostMoveRequest
          DEF Next, Broker

\* Places in queues are different numbers, the other stages exclude each other.
LEMMA PlacesOf ==
  ASSUME IInv, OnceInv, NEW r \in Requests
  PROVE  /\ Places(r) # {} <=> Known(r)
         /\ \A p, q \in Places(r) : p = q
  <1> DEFINE atClients == {<<"clients", i>> : i \in {j \in 1..Len(clientsIn) : clientsIn[j] = r}}
             queuedAt(w) == {<<"queue", w, i>> : i \in {j \in 1..Len(workerIn[w]) : workerIn[w][j] = r}}
             queued == UNION {queuedAt(w) : w \in Workers}
             atWorkers == {<<"worker", w>> : w \in {v \in Workers : AtWorker(v, r)}}
             atAnswers == {<<"answers", i>> :
                             i \in {j \in 1..Len(answersIn) : answersIn[j].response.req = r}}
             hasAt(c) == {<<"received", c, i>> :
                            i \in {j \in 1..Len(received[c]) : received[c][j].req = r}}
             has == UNION {hasAt(c) : c \in Clients}
  <1>1. Places(r) = atClients \cup queued \cup atWorkers \cup atAnswers \cup has
    <2>1. {v \in Workers : current[v] # << >> /\ Head(current[v]) = r}
            = {v \in Workers : AtWorker(v, r)}
      BY DEF AtWorker
    <2> QED BY <2>1 DEF Places
  <1>2. atClients # {} <=> r \in El(clientsIn)
    BY DEF El
  <1>3. queued # {} <=> \E w \in Workers : r \in El(workerIn[w])
    <2>1. \A w : queuedAt(w) # {} <=> r \in El(workerIn[w])
      BY DEF El
    <2> HIDE DEF queuedAt
    <2> QED BY <2>1
  <1>4. atWorkers # {} <=> \E w \in Workers : AtWorker(w, r)
    OBVIOUS
  <1>5. atAnswers # {} <=> r \in ReqsOf(answersIn)
    BY DEF ReqsOf, El
  <1>6. has # {} <=> E!Answered(r)
    <2>1. \A c : hasAt(c) # {} <=> \E i \in 1..Len(received[c]) : received[c][i].req = r
      OBVIOUS
    <2> HIDE DEF hasAt
    <2> QED BY <2>1 DEF E!Answered
  <1>7. \A p, q \in atClients : p = q
    BY DEF IInv, ApartInv, ClientsApart, Inj
  <1>8. \A p, q \in queued : p = q
    <2>1. ASSUME NEW v \in Workers, NEW w \in Workers,
                 NEW i \in 1..Len(workerIn[v]), NEW j \in 1..Len(workerIn[w]),
                 workerIn[v][i] = r, workerIn[w][j] = r
          PROVE  v = w /\ i = j
      <3>1. r \in El(workerIn[v]) /\ r \in El(workerIn[w])
        BY <2>1 DEF El
      <3>2. v = w
        BY <3>1 DEF IInv, ApartInv, QueuesApart
      <3> QED BY <2>1, <3>2 DEF IInv, ApartInv, QueuesApart, Inj
    <2> QED BY <2>1
  <1>9. \A p, q \in atWorkers : p = q
    BY DEF IInv, ApartInv, WorkersApart
  <1>10. \A p, q \in atAnswers : p = q
    BY DEF IInv, ApartInv, AnswersApart, InjReq
  <1>11. \A p, q \in has : p = q
    BY DEF OnceInv
  <1> HIDE DEF atClients, queued, atWorkers, atAnswers, has
  <1>12. Places(r) # {} <=> Known(r)
    BY <1>1, <1>2, <1>3, <1>4, <1>5, <1>6 DEF Known
  <1>13. \A p, q \in Places(r) : p = q
    <2>1. atClients # {} => queued = {} /\ atWorkers = {} /\ atAnswers = {} /\ has = {}
      BY <1>2, <1>3, <1>4, <1>5, <1>6 DEF IInv, ApartInv, ClientsApart
    <2>2. queued # {} => atWorkers = {} /\ atAnswers = {} /\ has = {}
      BY <1>3, <1>4, <1>5, <1>6 DEF IInv, ApartInv, QueuesApart
    <2>3. atWorkers # {} => atAnswers = {} /\ has = {}
      BY <1>4, <1>5, <1>6 DEF IInv, ApartInv, WorkersApart
    <2>4. atAnswers # {} => has = {}
      BY <1>5, <1>6 DEF IInv, ApartInv, AnswersApart
    <2> QED BY <1>1, <1>7, <1>8, <1>9, <1>10, <1>11, <2>1, <2>2, <2>3, <2>4
  <1> QED BY <1>12, <1>13

\* A request is never in two places, and is lost nowhere as long as the server
\* serves (TransferMessage, ReceiveMessage, RequestProcessor::Pump): the
\* stages exclude each other by IInv, and no step makes one leave them all.
THEOREM Placed == Spec => []OnePlace
  <1>1. Init => OnceInv /\ LostInv
    <2> SUFFICES ASSUME Init PROVE OnceInv /\ LostInv
      OBVIOUS
    <2>1. \A c \in Clients : Len(received[c]) = 0
      BY DEF Init
    <2>2. \A r \in Requests : kind[r] = "none"
      BY DEF Init
    <2> QED BY <2>1, <2>2 DEF OnceInv, LostInv
  <1>2. IInv /\ (OnceInv /\ LostInv) /\ [Next]_vars => (OnceInv /\ LostInv)'
    BY OnceStep, LostStep
  <1>3. IInv /\ OnceInv /\ LostInv => OnePlace
    <2> SUFFICES ASSUME IInv, OnceInv, LostInv, NEW r \in Requests
                 PROVE  /\ \A p, q \in Places(r) : p = q
                        /\ kind[r] = "none" => Places(r) = {}
                        /\ kind[r] # "none" /\ server = "serving" /\ r \notin unanswered
                             => Places(r) # {}
      BY DEF OnePlace
    <2>1. (Places(r) # {} <=> Known(r)) /\ \A p, q \in Places(r) : p = q
      BY PlacesOf
    <2> QED BY <2>1 DEF IInv, KnownInv, LostInv
  <1> QED BY <1>1, <1>2, <1>3, Invariance, PTL DEF Spec

----------------------------------------------------------------------------
(* Why a request stays without an answer                                   *)

\* A request is left alone for what it is, for a merged message or for a crash.
Excused(r) ==
  \/ kind[r] \in MayBeSilent
  \/ \E q \in Requests \ {r} : kind[q] = "blank"
  \/ server = "aborted"

SilenceExcused == \A r \in unanswered : Excused(r)

\* What is merged begins with a message that ends in an empty frame.
MergedInv ==
  \A w \in Workers :
    /\ phase[w] = "merging" => kind[Head(current[w])] = "blank"
    /\ Len(current[w]) > 1 => kind[Head(current[w])] = "blank"

\* Of the outcomes without output that there are for a kind.
LEMMA SilentOutcome ==
  ASSUME NEW k \in Kinds \ {"blank"}, NEW o \in Outcomes(k), ~o.output
  PROVE  /\ k \in MayBeSilent \/ o.forwards = "abort"
         /\ k = "keepalive" => o.forwards = "keepalive"
         /\ k # "version"
  <1>1. \A n : Output(n).output = TRUE
    BY DEF Output
  <1>2. \A n, f : OutputAnd(n, f).output = TRUE
    BY DEF OutputAnd
  <1>3. \A f : NoOutput(f).forwards = f
    BY DEF NoOutput
  <1>4. CASE k \in {"undelimited", "version", "short", "garbled", "refused", "ping", "info", "throwing"}
    BY <1>1, <1>4 DEF Outcomes, MayBeSilent
  <1>5. CASE k \in {"segment", "subscribe", "subscribeLua", "plugin"}
    BY <1>1, <1>2, <1>3, <1>5 DEF Outcomes, MayBeSilent, ProcessGetStream,
          ProcessSubscribeStoreChanges, ProcessSubscribeEnvelopes, CallHandleSubscriptionRequest,
          ProcessRegisterPlugin
  <1>6. CASE k \in {"keepalive", "keepaliveFor", "write"}
    BY <1>1, <1>2, <1>3, <1>6 DEF Outcomes, MayBeSilent, ProcessSubscribeKeepalive,
          ProcessWriteEnvelope
  <1> QED BY <1>4, <1>5, <1>6 DEF Kinds

\* With output, a keepalive has been sent on all the same.
LEMMA KeepaliveOutcome ==
  ASSUME NEW o \in Outcomes("keepalive") PROVE o.forwards = "keepalive"
  BY DEF Outcomes, ProcessSubscribeKeepalive, NoOutput, OutputAnd

\* Requests do not change, nor does the server come back to serving.
LEMMA Irreversible ==
  ASSUME IInv, [Next]_vars
  PROVE  /\ \A q \in Requests : kind[q] # "none" => kind'[q] = kind[q]
         /\ server' = "serving" => server = "serving"
         /\ server = "aborted" => server' = "aborted"
         /\ unanswered \subseteq unanswered'
  <1>0. unanswered \subseteq unanswered'
    BY DEF Next, Ask, Broker, MoveAnswer, MoveSubscription, MoveKeepalive, MoveRequest,
           CheckDevices, StopChildren, ReactorPump, Worker, ReceiveMessage, ProcessMessages,
           SendReply, vars, workerVars
  <1>1. ASSUME NEW r \in Requests, Ask(r)
        PROVE  server' = server /\ \A q \in Requests : kind[q] # "none" => kind'[q] = kind[q]
    BY <1>1 DEF Ask, IInv, TypeOK
  <1>2. CASE Broker \/ CheckDevices \/ StopChildren
    BY <1>0, <1>2 DEF Broker, MoveAnswer, MoveSubscription, MoveKeepalive, MoveRequest,
                CheckDevices, StopChildren
  <1>3. ASSUME NEW w \in Workers, Worker(w)
        PROVE  kind' = kind /\ server' \in {server, "aborted"}
    BY <1>3 DEF Worker, ReceiveMessage, ProcessMessages, SendReply
  <1>4. ASSUME NEW x \in Reactors, ReactorPump(x) PROVE UNCHANGED <<kind, server>>
    BY <1>4 DEF ReactorPump
  <1>5. CASE UNCHANGED vars
    BY <1>0, <1>5 DEF vars
  <1> QED BY <1>0, <1>1, <1>2, <1>3, <1>4, <1>5 DEF Next

LEMMA ExcusedStays ==
  ASSUME IInv, [Next]_vars, NEW r \in Requests, Excused(r) PROVE Excused(r)'
  <1>1. \A q \in Requests : kind[q] # "none" => kind'[q] = kind[q]
    BY Irreversible
  <1>2. server = "aborted" => server' = "aborted"
    BY Irreversible
  <1> QED BY <1>1, <1>2 DEF Excused, MayBeSilent

\* What ReceiveMessage has read begins with what it read first.
LEMMA ReadOn ==
  ASSUME IInv, NEW w \in Workers, ReceiveMessage(w)
  PROVE  \E r \in Requests :
           /\ r \in El(workerIn[w]) /\ r = Head(workerIn[w])
           /\ phase[w] = "idle" => Head(current'[w]) = r /\ Len(current'[w]) = 1
           /\ phase[w] = "merging" =>
                Head(current'[w]) = Head(current[w]) /\ Head(current[w]) \in Requests
                /\ AtWorker(w, Head(current[w]))
  <1>1. /\ workerIn[w] \in Seq(Requests) /\ workerIn[w] # << >>
        /\ current[w] \in Seq(Requests)
        /\ current'[w] = Append(current[w], Head(workerIn[w]))
    BY DEF ReceiveMessage, IInv, TypeOK
  <1> DEFINE r == Head(workerIn[w])
  <1>2. r \in Requests /\ r \in El(workerIn[w])
    BY <1>1, Taken
  <1>3. CASE phase[w] = "idle"
    <2>1. current[w] = << >>
      BY <1>3 DEF IInv, WorkerInv
    <2>2. Head(current'[w]) = r /\ Len(current'[w]) = 1
      BY <1>1, <1>2, <2>1
    <2> QED BY <1>2, <1>3, <2>2
  <1>4. CASE phase[w] = "merging"
    <2>1. current[w] # << >>
      BY <1>4 DEF IInv, WorkerInv
    <2>2. Head(current[w]) \in Requests /\ Head(current'[w]) = Head(current[w])
      BY <1>1, <1>2, <2>1, AppendProperties, HeadTailProperties, LenProperties, EmptySeq
    <2> QED BY <1>2, <1>4, <2>1, <2>2 DEF AtWorker
  <1> QED BY <1>3, <1>4 DEF ReceiveMessage

LEMMA MergedStep ==
  ASSUME IInv, MergedInv, [Next]_vars PROVE MergedInv'
  <1> SUFFICES ASSUME NEW w \in Workers
               PROVE  phase'[w] = "merging" \/ Len(current'[w]) > 1
                        => kind'[Head(current'[w])] = "blank"
    BY DEF MergedInv
  <1>1. CASE phase'[w] \in {phase[w], "replying"} /\ current'[w] = current[w]
    <2>1. ASSUME kind[Head(current[w])] = "blank", current[w] # << >>
          PROVE  kind'[Head(current[w])] = "blank"
      <3>1. current[w] \in Seq(Requests)
        BY DEF IInv, TypeOK
      <3>2. Head(current[w]) \in Requests
        BY <2>1, <3>1, HeadTailProperties
      <3> QED BY <2>1, <3>2, Irreversible
    <2>2. phase[w] = "merging" => current[w] # << >>
      BY DEF IInv, WorkerInv
    <2>3. Len(current[w]) > 1 => current[w] # << >>
      BY DEF IInv, TypeOK
    <2> QED BY <1>1, <2>1, <2>2, <2>3 DEF MergedInv
  <1>2. CASE phase'[w] # "merging" /\ current'[w] = << >>
    BY <1>2
  <1>3. CASE ReceiveMessage(w)
    <2>1. PICK r \in Requests :
            /\ r = Head(workerIn[w])
            /\ phase[w] = "idle" => Head(current'[w]) = r /\ Len(current'[w]) = 1
            /\ phase[w] = "merging" =>
                 Head(current'[w]) = Head(current[w]) /\ Head(current[w]) \in Requests
      BY <1>3, ReadOn
    <2>2. /\ kind' = kind
          /\ phase'[w] = IF kind[r] = "blank" THEN "merging" ELSE "busy"
          /\ phase[w] \in {"idle", "merging"}
      BY <1>3, <2>1 DEF ReceiveMessage, IInv, TypeOK
    <2>3. phase[w] = "merging" => kind[Head(current[w])] = "blank"
      BY DEF MergedInv
    <2>4. CASE phase[w] = "idle"
      <3>1. Head(current'[w]) = r /\ Len(current'[w]) = 1
        BY <2>1, <2>4
      <3>2. phase'[w] = "merging" => kind'[r] = "blank"
        BY <2>2
      <3>3. ~(Len(current'[w]) > 1)
        BY <3>1
      <3> QED BY <3>1, <3>2, <3>3
    <2>5. CASE phase[w] = "merging"
      BY <2>1, <2>2, <2>3, <2>5
    <2> QED BY <2>2, <2>4, <2>5
  <1>4. ASSUME NEW v \in Workers, v # w, Worker(v)
        PROVE  phase'[w] = phase[w] /\ current'[w] = current[w]
    BY <1>4 DEF Worker, ReceiveMessage, ProcessMessages, SendReply, IInv, TypeOK
  <1>5. CASE ProcessMessages(w) \/ SendReply(w)
    BY <1>1, <1>2, <1>5 DEF ProcessMessages, SendReply, IInv, TypeOK
  <1>6. \/ UNCHANGED <<phase, current>>
        \/ \E v \in Workers : Worker(v)
    BY DEF Next, Ask, Broker, MoveAnswer, MoveSubscription, MoveKeepalive, MoveRequest,
           CheckDevices, StopChildren, ReactorPump, vars, workerVars
  <1>7. CASE UNCHANGED <<phase, current>>
    BY <1>1, <1>7
  <1>8. ASSUME NEW v \in Workers, Worker(v), v # w
        PROVE  phase'[w] = "merging" \/ Len(current'[w]) > 1
                 => kind'[Head(current'[w])] = "blank"
    BY <1>1, <1>4, <1>8
  <1>9. CASE Worker(w)
    BY <1>3, <1>5, <1>9 DEF Worker
  <1> QED BY <1>6, <1>7, <1>8, <1>9

LEMMA ExcusedStep ==
  ASSUME IInv, MergedInv, SilenceExcused, [Next]_vars PROVE SilenceExcused'
  <1> SUFFICES ASSUME NEW r \in unanswered' PROVE Excused(r)'
    BY DEF SilenceExcused
  <1>1. CASE r \in unanswered
    <2>1. r \in Requests
      BY <1>1 DEF IInv, TypeOK
    <2> QED BY <1>1, <2>1, ExcusedStays DEF SilenceExcused
  <1>2. ASSUME r \notin unanswered, NEW w \in Workers, ReceiveMessage(w) PROVE Excused(r)'
    <2>1. PICK q \in Requests :
            /\ q \in El(workerIn[w]) /\ q = Head(workerIn[w])
            /\ phase[w] = "merging" =>
                 Head(current[w]) \in Requests /\ AtWorker(w, Head(current[w]))
      BY <1>2, ReadOn
    <2>2. phase[w] = "merging" /\ r = q /\ kind' = kind
      BY <1>2, <2>1 DEF ReceiveMessage
    <2>3. kind[Head(current[w])] = "blank"
      BY <2>2 DEF MergedInv
    <2>4. Head(current[w]) # q
      BY <2>1, <2>2 DEF IInv, ApartInv, QueuesApart
    <2> QED BY <2>1, <2>2, <2>3, <2>4 DEF Excused
  <1>3. ASSUME r \notin unanswered, NEW w \in Workers, ProcessMessages(w) PROVE Excused(r)'
    <2>1. PICK o \in Outcomes(Sees(w)) :
            /\ ~o.output /\ r = Head(current[w])
            /\ server' = IF o.forwards = "abort" THEN "aborted" ELSE server
      BY <1>3 DEF ProcessMessages
    <2>2. Sees(w) \in Kinds \ {"blank"} /\ kind' = kind
      BY <1>3 DEF ProcessMessages, IInv, WorkerInv
    <2>3. Sees(w) # "version" /\ (Sees(w) \in MayBeSilent \/ o.forwards = "abort")
      BY <2>1, <2>2, SilentOutcome
    <2>4. Sees(w) = kind[r]
      BY <2>1, <2>3 DEF Sees
    <2> QED BY <2>1, <2>2, <2>3, <2>4 DEF Excused
  <1>4. \/ r \in unanswered
        \/ \E w \in Workers : ReceiveMessage(w) \/ ProcessMessages(w)
    BY DEF Next, Ask, Broker, MoveAnswer, MoveSubscription, MoveKeepalive, MoveRequest,
           CheckDevices, StopChildren, ReactorPump, Worker, SendReply, vars, workerVars
  <1> QED BY <1>1, <1>2, <1>3, <1>4

\* No worker is done with a request without an answer but for what the request
\* is, because the message before it ended in an empty frame, or because the
\* process died of it: what throws is answered (ProcessMessages' try block).
THEOREM SilenceHasReason == Spec => []SilenceExcused
  <1>1. Init => SilenceExcused /\ MergedInv
    <2>1. Len(<< >>) = 0
      OBVIOUS
    <2> QED BY <2>1 DEF Init, SilenceExcused, MergedInv
  <1>2. IInv /\ (SilenceExcused /\ MergedInv) /\ [Next]_vars => (SilenceExcused /\ MergedInv)'
    BY ExcusedStep, MergedStep
  <1> QED BY <1>1, <1>2, Invariance, PTL DEF Spec

----------------------------------------------------------------------------
(* What a worker sends on                                                  *)

\* The request was read as the rest of a message that ended in an empty frame.
Merged(r) == r \in unanswered /\ \E q \in Requests : kind[q] = "blank"

\* A worker is through with the request: ProcessMessages was, at least.
Handled(r) ==
  \/ r \in unanswered
  \/ \E w \in Workers : phase[w] = "replying" /\ AtWorker(w, r)
  \/ r \in ReqsOf(answersIn)
  \/ E!Answered(r)

\* An accepted subscription is on its way to a reactor, or one has read it.
SubscriptionPlace(r) ==
  r \in El(subsIn) \/ (\E x \in Reactors : r \in El(reactorIn[x])) \/ r \in killers

\* A keepalive is on its way to the reactors, or each of them has it.
KeepalivePlace(r) == r \in El(notesIn) \/ \A x \in Reactors : r \in notes[x]

SubscriptionsSentOn ==
  server = "serving" => \A r \in accepted : SubscriptionPlace(r)

KeepalivesSentOn ==
  server = "serving" =>
    \A r \in Requests : kind[r] = "keepalive" /\ Handled(r) => KeepalivePlace(r) \/ Merged(r)

EveryReactorOrNone == \A x, y \in Reactors : notes[x] = notes[y]

\* What is on its way to the reactors, or there, stays until the server stops.
LEMMA PlacesStay ==
  ASSUME IInv, [Next]_vars, server' = "serving", NEW r \in Requests
  PROVE  /\ SubscriptionPlace(r) => SubscriptionPlace(r)'
         /\ KeepalivePlace(r) => KeepalivePlace(r)'
  <1>0. /\ subsIn \in Seq(Requests) /\ notesIn \in Seq(Requests)
        /\ reactorIn \in [Reactors -> Seq(Requests)]
        /\ notes \in [Reactors -> SUBSET Requests]
    BY DEF IInv, TypeOK
  <1>1. CASE UNCHANGED <<subsIn, reactorIn, killers, notesIn, notes>>
    BY <1>1 DEF SubscriptionPlace, KeepalivePlace
  <1>2. CASE MoveSubscription
    <2>1. PICK x \in Reactors : reactorIn' = [reactorIn EXCEPT ![x] = Append(@, Head(subsIn))]
      BY <1>2 DEF MoveSubscription
    <2>2. subsIn # << >> /\ subsIn' = Tail(subsIn) /\ UNCHANGED <<notesIn, notes, killers>>
      BY <1>2 DEF MoveSubscription
    <2>3. Head(subsIn) \in Requests /\ El(subsIn) = El(subsIn') \cup {Head(subsIn)}
      BY <1>0, <2>2, Taken
    <2>4. El(reactorIn'[x]) = El(reactorIn[x]) \cup {Head(subsIn)}
      <3>1. reactorIn'[x] = Append(reactorIn[x], Head(subsIn)) /\ reactorIn[x] \in Seq(Requests)
        BY <1>0, <2>1
      <3> QED BY <2>3, <3>1, Appended
    <2>5. \A y \in Reactors : y # x => reactorIn'[y] = reactorIn[y]
      BY <1>0, <2>1
    <2> QED BY <2>2, <2>3, <2>4, <2>5 DEF SubscriptionPlace, KeepalivePlace
  <1>3. CASE MoveKeepalive
    <2>1. /\ notesIn # << >> /\ notesIn' = Tail(notesIn)
          /\ notes' = [x \in Reactors |-> notes[x] \cup {Head(notesIn)}]
          /\ UNCHANGED <<subsIn, reactorIn, killers>>
      BY <1>3 DEF MoveKeepalive
    <2>2. El(notesIn) = El(notesIn') \cup {Head(notesIn)}
      BY <1>0, <2>1, Taken
    <2> QED BY <2>1, <2>2 DEF SubscriptionPlace, KeepalivePlace
  <1>4. ASSUME NEW w \in Workers, ProcessMessages(w)
        PROVE  /\ El(subsIn) \subseteq El(subsIn') /\ El(notesIn) \subseteq El(notesIn')
               /\ UNCHANGED <<reactorIn, notes, killers>>
    <2>1. Head(current[w]) \in Requests
      BY <1>4, HandledTypes DEF ProcessMessages, IInv
    <2>2. /\ subsIn' = subsIn \/ subsIn' = Append(subsIn, Head(current[w]))
          /\ notesIn' = notesIn \/ notesIn' = Append(notesIn, Head(current[w]))
          /\ UNCHANGED <<reactorIn, notes, killers>>
      BY <1>4 DEF ProcessMessages
    <2>3. El(Append(subsIn, Head(current[w]))) = El(subsIn) \cup {Head(current[w])}
      BY <1>0, <2>1, Appended
    <2>4. El(Append(notesIn, Head(current[w]))) = El(notesIn) \cup {Head(current[w])}
      BY <1>0, <2>1, Appended
    <2>5. El(subsIn) \subseteq El(subsIn')
      BY <2>2, <2>3
    <2>6. El(notesIn) \subseteq El(notesIn')
      BY <2>2, <2>4
    <2> QED BY <2>2, <2>5, <2>6
  <1>5. ASSUME NEW x \in Reactors, ReactorPump(x)
        PROVE  /\ SubscriptionPlace(r) => SubscriptionPlace(r)'
               /\ KeepalivePlace(r) => KeepalivePlace(r)'
    <2>1. /\ reactorIn[x] # << >>
          /\ killers' = killers \cup {Head(reactorIn[x])}
          /\ reactorIn' = [reactorIn EXCEPT ![x] = Tail(@)]
          /\ UNCHANGED <<subsIn, notesIn, notes>>
      BY <1>5 DEF ReactorPump
    <2>2. El(reactorIn[x]) = El(reactorIn'[x]) \cup {Head(reactorIn[x])}
      <3>1. reactorIn'[x] = Tail(reactorIn[x]) /\ reactorIn[x] \in Seq(Requests)
        BY <1>0, <2>1
      <3> QED BY <2>1, <3>1, Taken
    <2>3. \A y \in Reactors : y # x => reactorIn'[y] = reactorIn[y]
      BY <1>0, <2>1
    <2> QED BY <2>1, <2>2, <2>3 DEF SubscriptionPlace, KeepalivePlace
  <1>6. \/ UNCHANGED <<subsIn, reactorIn, killers, notesIn, notes>>
        \/ MoveSubscription \/ MoveKeepalive
        \/ \E w \in Workers : ProcessMessages(w)
        \/ \E x \in Reactors : ReactorPump(x)
    BY DEF Next, Ask, Broker, MoveAnswer, MoveRequest, CheckDevices, StopChildren, Worker,
           ReceiveMessage, SendReply, vars, subscriptionVars
  <1>7. CASE \E w \in Workers : ProcessMessages(w)
    BY <1>4, <1>7 DEF SubscriptionPlace, KeepalivePlace
  <1> QED BY <1>1, <1>2, <1>3, <1>5, <1>6, <1>7

\* A subscription is accepted in the step that sends it on.
LEMMA SubscriptionsStep ==
  ASSUME IInv, SubscriptionsSentOn, [Next]_vars PROVE SubscriptionsSentOn'
  <1> SUFFICES ASSUME server' = "serving", NEW r \in accepted' PROVE SubscriptionPlace(r)'
    BY DEF SubscriptionsSentOn
  <1>1. CASE r \in accepted
    <2>1. server = "serving" /\ r \in Requests
      BY <1>1, Irreversible DEF IInv, TypeOK
    <2> QED BY <1>1, <2>1, PlacesStay DEF SubscriptionsSentOn
  <1>2. ASSUME r \notin accepted, NEW w \in Workers, ProcessMessages(w)
        PROVE  SubscriptionPlace(r)'
    <2>1. r = Head(current[w]) /\ subsIn' = Append(subsIn, r)
      BY <1>2 DEF ProcessMessages
    <2>2. r \in Requests /\ subsIn \in Seq(Requests)
      BY <1>2, <2>1, HandledTypes DEF ProcessMessages, IInv, TypeOK
    <2>3. r \in El(subsIn')
      BY <2>1, <2>2, Appended
    <2> QED BY <2>3 DEF SubscriptionPlace
  <1>3. accepted' = accepted \/ \E w \in Workers : ProcessMessages(w)
    BY DEF Next, Ask, Broker, MoveAnswer, MoveSubscription, MoveKeepalive, MoveRequest,
           CheckDevices, StopChildren, ReactorPump, Worker, ReceiveMessage, SendReply, vars,
           workerVars
  <1> QED BY <1>1, <1>2, <1>3

\* Only ProcessMessages is through with a request, unless messages are merged.
LEMMA NewlyHandled ==
  ASSUME IInv, MergedInv, [Next]_vars, NEW r \in Requests, Handled(r)'
  PROVE  \/ Handled(r)
         \/ Merged(r)'
         \/ \E w \in Workers : ProcessMessages(w) /\ r = Head(current[w])
  <1>1. ASSUME UNCHANGED <<unanswered, phase, current, answersIn, received>> PROVE Handled(r)
    BY <1>1 DEF Handled, AtWorker, E!Answered
  <1>2. CASE MoveAnswer
    <2> DEFINE a == Head(answersIn)
    <2>1. /\ answersIn # << >> /\ answersIn \in Seq(Routed) /\ answersIn' = Tail(answersIn)
          /\ received \in [Clients -> Seq(Responses)]
          /\ received' = [received EXCEPT ![a.to] = Append(@, a.response)]
          /\ UNCHANGED <<phase, current, unanswered>>
      BY <1>2 DEF MoveAnswer, IInv, TypeOK, workerVars
    <2>2. a.to \in Clients /\ a.response \in Responses
      <3>1. a \in Routed
        BY <2>1, Taken
      <3> QED BY <3>1 DEF Routed
    <2>3. ReqsOf(answersIn) = ReqsOf(answersIn') \cup {a.response.req}
      BY <2>1, ResponseTaken
    <2> HIDE DEF a
    <2>4. \A q : E!Answered(q)' <=> E!Answered(q) \/ q = a.response.req
      BY <2>1, <2>2, Delivered
    <2> QED BY <2>1, <2>3, <2>4 DEF Handled, AtWorker
  <1>3. ASSUME NEW w \in Workers, ReceiveMessage(w) PROVE Handled(r) \/ Merged(r)'
    <2>1. UNCHANGED <<kind, answersIn, received>> /\ phase'[w] # "replying"
      BY <1>3 DEF ReceiveMessage, IInv, TypeOK
    <2>2. \A v \in Workers : v # w => phase'[v] = phase[v] /\ current'[v] = current[v]
      BY <1>3 DEF ReceiveMessage, IInv, TypeOK
    <2>3. CASE r \in unanswered' /\ r \notin unanswered
      <3>1. phase[w] = "merging"
        BY <1>3, <2>3 DEF ReceiveMessage
      <3>2. Head(current[w]) \in Requests /\ kind[Head(current[w])] = "blank"
        BY <3>1, HandledTypes DEF IInv, MergedInv
      <3> QED BY <2>1, <2>3, <3>2 DEF Merged
    <2>4. CASE r \in unanswered' => r \in unanswered
      BY <2>1, <2>2, <2>4 DEF Handled, AtWorker, E!Answered
    <2> QED BY <2>3, <2>4
  <1>4. ASSUME NEW w \in Workers, ProcessMessages(w)
        PROVE  Handled(r) \/ r = Head(current[w])
    <2>1. /\ UNCHANGED <<answersIn, received>>
          /\ unanswered' \in {unanswered, unanswered \cup {Head(current[w])}}
          /\ current'[w] \in {current[w], << >>}
      BY <1>4 DEF ProcessMessages, netVars, IInv, TypeOK
    <2>2. \A v \in Workers : v # w => phase'[v] = phase[v] /\ current'[v] = current[v]
      BY <1>4 DEF ProcessMessages, IInv, TypeOK
    <2> QED BY <2>1, <2>2 DEF Handled, AtWorker, E!Answered
  <1>5. ASSUME NEW w \in Workers, SendReply(w) PROVE Handled(r)
    <2> DEFINE q == Head(current[w])
    <2>1. /\ UNCHANGED <<received, unanswered>>
          /\ phase[w] = "replying" /\ phase'[w] = "idle"
          /\ answersIn \in Seq(Routed)
      BY <1>5 DEF SendReply, IInv, TypeOK
    <2>2. AtWorker(w, q) /\ q \in Requests
      BY <2>1, HandledTypes DEF AtWorker, IInv
    <2>3. PICK c \in Clients, tags \in reply[w] :
            answersIn' = Append(answersIn, [to |-> c, response |-> [req |-> q, tags |-> tags]])
      BY <1>5 DEF SendReply
    <2>4. tags \in Seq(Requests)
      BY DEF IInv, TypeOK
    <2>5. ReqsOf(answersIn') = ReqsOf(answersIn) \cup {q}
      <3> DEFINE a == [to |-> c, response |-> [req |-> q, tags |-> tags]]
      <3>1. a \in Routed /\ a.response.req = q
        BY <2>2, <2>4 DEF Routed, Responses
      <3> HIDE DEF a
      <3>2. answersIn' = Append(answersIn, a)
        BY <2>3 DEF a
      <3> QED BY <2>1, <3>1, <3>2, ResponseAppended
    <2>6. \A v \in Workers : v # w => phase'[v] = phase[v] /\ current'[v] = current[v]
      BY <1>5 DEF SendReply, IInv, TypeOK
    <2> HIDE DEF q
    <2> QED BY <2>1, <2>2, <2>5, <2>6 DEF Handled, AtWorker, E!Answered
  <1>6. \/ UNCHANGED <<unanswered, phase, current, answersIn, received>>
        \/ MoveAnswer
        \/ \E w \in Workers : ReceiveMessage(w) \/ ProcessMessages(w) \/ SendReply(w)
    BY DEF Next, Ask, Broker, MoveSubscription, MoveKeepalive, MoveRequest, CheckDevices,
           StopChildren, ReactorPump, Worker, vars, netVars, workerVars
  <1> QED BY <1>1, <1>2, <1>3, <1>4, <1>5, <1>6

WereAsked == \A r \in unanswered : kind[r] # "none"

LEMMA WereAskedStep == ASSUME IInv, WereAsked, [Next]_vars PROVE WereAsked'
  <1> SUFFICES ASSUME NEW r \in unanswered' PROVE kind'[r] # "none"
    BY DEF WereAsked
  <1>1. r \in Requests /\ (kind[r] # "none" => kind'[r] # "none")
    BY Inductive, Irreversible DEF IInv, TypeOK
  <1>2. CASE r \in unanswered
    BY <1>1, <1>2 DEF WereAsked
  <1>3. ASSUME r \notin unanswered, NEW w \in Workers, ReceiveMessage(w) PROVE Known(r)
    <2>1. PICK q \in Requests : q \in El(workerIn[w]) /\ q = Head(workerIn[w])
      BY <1>3, ReadOn
    <2> QED BY <1>3, <2>1 DEF ReceiveMessage, Known
  <1>4. ASSUME r \notin unanswered, NEW w \in Workers, ProcessMessages(w) PROVE Known(r)
    <2>1. r = Head(current[w]) /\ phase[w] # "idle"
      BY <1>4 DEF ProcessMessages
    <2> QED BY <2>1 DEF Known, AtWorker, IInv, WorkerInv
  <1>5. \/ r \in unanswered
        \/ \E w \in Workers : ReceiveMessage(w) \/ ProcessMessages(w)
    BY DEF Next, Ask, Broker, MoveAnswer, MoveSubscription, MoveKeepalive, MoveRequest,
           CheckDevices, StopChildren, ReactorPump, Worker, SendReply, vars, workerVars
  <1>6. Known(r) => kind[r] # "none"
    BY <1>1 DEF IInv, KnownInv
  <1> QED BY <1>1, <1>2, <1>3, <1>4, <1>5, <1>6

LEMMA KeepalivesStep ==
  ASSUME IInv, MergedInv, WereAsked, KeepalivesSentOn, [Next]_vars PROVE KeepalivesSentOn'
  <1> SUFFICES ASSUME server' = "serving", NEW r \in Requests,
                      kind'[r] = "keepalive", Handled(r)'
               PROVE  KeepalivePlace(r)' \/ Merged(r)'
    BY DEF KeepalivesSentOn
  <1>1. server = "serving"
    BY Irreversible
  <1>2. CASE Handled(r)
    <2>1. kind[r] # "none"
      BY <1>2 DEF Handled, Known, IInv, KnownInv, WereAsked
    <2>2. kind[r] = "keepalive"
      BY <2>1, Irreversible
    <2>3. KeepalivePlace(r) \/ Merged(r)
      BY <1>1, <1>2, <2>2 DEF KeepalivesSentOn
    <2>4. KeepalivePlace(r) => KeepalivePlace(r)'
      BY PlacesStay
    <2>5. Merged(r) => Merged(r)'
      BY Irreversible DEF Merged
    <2> QED BY <2>3, <2>4, <2>5
  <1>3. ASSUME NEW w \in Workers, ProcessMessages(w), r = Head(current[w])
        PROVE  KeepalivePlace(r)'
    <2>1. kind' = kind /\ phase[w] = "busy"
      BY <1>3 DEF ProcessMessages
    <2>2. ~(Len(current[w]) > 1)
      BY <1>3, <2>1 DEF MergedInv
    <2>3. Sees(w) = "keepalive"
      BY <1>3, <2>1, <2>2 DEF Sees
    <2>4. PICK o \in Outcomes("keepalive") :
            notesIn' = IF o.forwards = "keepalive" THEN Append(notesIn, r) ELSE notesIn
      BY <1>3, <2>3 DEF ProcessMessages
    <2>5. notesIn' = Append(notesIn, r) /\ notesIn \in Seq(Requests)
      BY <2>4, KeepaliveOutcome DEF IInv, TypeOK
    <2>6. r \in El(notesIn')
      BY <2>5, Appended
    <2> QED BY <2>6 DEF KeepalivePlace
  <1> QED BY <1>2, <1>3, NewlyHandled

\* While the server serves, nothing that a worker has sent on is lost: an
\* accepted subscription is on its way to a reactor, and a keepalive that a
\* worker is through with, answered or not, on its way to all of them or at all
\* of them (HandleSubscriptionRequest, HandleSubscriptionKeepalive and the two
\* sockets Server::Pump moves them between).
THEOREM NothingSentOnIsLost ==
  Spec => [](SubscriptionsSentOn /\ KeepalivesSentOn /\ EveryReactorOrNone)
  <1> DEFINE J == MergedInv /\ WereAsked /\ SubscriptionsSentOn /\ KeepalivesSentOn
                    /\ EveryReactorOrNone
  <1>1. Init => J
    <2> SUFFICES ASSUME Init PROVE J
      OBVIOUS
    <2>1. Len(<< >>) = 0
      OBVIOUS
    <2>2. MergedInv /\ WereAsked /\ EveryReactorOrNone
      BY <2>1 DEF Init, MergedInv, WereAsked, EveryReactorOrNone
    <2>3. SubscriptionsSentOn /\ KeepalivesSentOn
      BY DEF Init, SubscriptionsSentOn, KeepalivesSentOn
    <2> QED BY <2>2, <2>3
  <1>2. EveryReactorOrNone /\ [Next]_vars => EveryReactorOrNone'
    <2> SUFFICES ASSUME EveryReactorOrNone, [Next]_vars PROVE EveryReactorOrNone'
      OBVIOUS
    <2>1. CASE UNCHANGED notes
      BY <2>1 DEF EveryReactorOrNone
    <2>2. CASE MoveKeepalive
      BY <2>2 DEF MoveKeepalive, EveryReactorOrNone
    <2>3. CASE StopChildren
      BY <2>3 DEF StopChildren, EveryReactorOrNone
    <2>4. UNCHANGED notes \/ MoveKeepalive \/ StopChildren
      BY DEF Next, Ask, Broker, MoveAnswer, MoveSubscription, MoveRequest, CheckDevices,
             ReactorPump, Worker, ReceiveMessage, ProcessMessages, SendReply, vars,
             subscriptionVars
    <2> QED BY <2>1, <2>2, <2>3, <2>4
  <1>3. IInv /\ J /\ [Next]_vars => J'
    BY <1>2, MergedStep, WereAskedStep, SubscriptionsStep, KeepalivesStep
  <1> HIDE DEF J
  <1>4. J => SubscriptionsSentOn /\ KeepalivesSentOn /\ EveryReactorOrNone
    BY DEF J
  <1> QED BY <1>1, <1>3, <1>4, Invariance, PTL DEF Spec

=============================================================================
