------------------------ MODULE ClientRequestsProofs ------------------------
(***************************************************************************)
(* Proofs about ClientRequests, for every set of requests, every choice of *)
(* timeouts and ttls, and any depth of nesting.                            *)
(***************************************************************************)
EXTENDS ClientRequests, SequenceTheorems, TLAPS

\* A request under way has its entry, and an entry is of a request that was sent.
EntryInv ==
  /\ NoUnknownAnswer
  /\ \A r \in outstanding : mode[r] # "new"
  /\ \A r \in Subscribes : mode[r] # "async"
  /\ \A r \in Requests : mode[r] = "new" => net[r] = "none" /\ result[r] = "none"

\* The calls on the stack have not returned and are of different requests.
StackInv ==
  /\ \A i \in 1..Len(stack) : stack[i].kind = "call" =>
       mode[stack[i].req] = "sync" /\ result[stack[i].req] = "none"
  /\ \A i, j \in 1..Len(stack) :
       stack[i].kind = "call" /\ stack[j].kind = "call" /\ stack[i].req = stack[j].req
         => i = j

\* The callback that stores an answer runs exactly when its entry goes.
FilledInv ==
  /\ TrueMeansFilled
  /\ \A r \in filled : r \notin outstanding /\ mode[r] = "sync"
  /\ \A r \in Requests :
       mode[r] = "sync" /\ result[r] = "none" /\ r \notin outstanding => r \in filled

IInv == TypeOK /\ EntryInv /\ StackInv /\ FilledInv

----------------------------------------------------------------------------
(* The stack                                                               *)

\* What Append and Pop leave on the stack.
LEMMA Pushed ==
  ASSUME NEW s \in Seq(Frames), NEW f \in Frames
  PROVE  /\ Append(s, f) \in Seq(Frames)
         /\ Len(Append(s, f)) = Len(s) + 1
         /\ Append(s, f)[Len(s) + 1] = f
         /\ \A i \in 1..Len(s) : Append(s, f)[i] = s[i]
  OBVIOUS

LEMMA Popped ==
  ASSUME NEW s \in Seq(Frames), s # << >>
  PROVE  LET t == SubSeq(s, 1, Len(s) - 1)
         IN  /\ t \in Seq(Frames)
             /\ Len(t) = Len(s) - 1
             /\ \A i \in 1..Len(t) : t[i] = s[i]
             /\ s[Len(s)] \in Frames
  <1> DEFINE t == SubSeq(s, 1, Len(s) - 1)
  <1>1. Len(s) \in Nat \ {0}
    OBVIOUS
  <1>2. \A i \in 1..(Len(s) - 1) : s[i] \in Frames
    BY <1>1
  <1>3. /\ t \in Seq(Frames)
        /\ Len(t) = Len(s) - 1
        /\ \A i \in 1..(Len(s) - 1) : t[i] = s[i]
    <2>1. \A m, n \in Int :
            (\A i \in m .. n : s[i] \in Frames) =>
              /\ SubSeq(s, m, n) \in Seq(Frames)
              /\ Len(SubSeq(s, m, n)) = IF m <= n THEN n - m + 1 ELSE 0
              /\ \A i \in 1 .. n - m + 1 : SubSeq(s, m, n)[i] = s[m + i - 1]
      BY SubSeqProperties
    <2>2. 1 \in Int /\ Len(s) - 1 \in Int
      BY <1>1
    <2>3. (Len(s) - 1) - 1 + 1 = Len(s) - 1
      BY <1>1
    <2> QED BY <1>1, <1>2, <2>1, <2>2, <2>3
  <1> QED BY <1>1, <1>3

LEMMA FrameFields ==
  ASSUME NEW f \in Frames
  PROVE  f.kind \in {"call", "callback"} /\ f.req \in Requests
  BY DEF Frames

LEMMA NewFrames ==
  ASSUME NEW r \in Requests
  PROVE  /\ Call(r) \in Frames /\ Call(r).kind = "call" /\ Call(r).req = r
         /\ Callback(r) \in Frames /\ Callback(r).kind = "callback"
  BY DEF Call, Callback, Frames

\* Popping keeps what is said of each frame, whatever becomes of the others.
LEMMA PopKeepsStack ==
  ASSUME TypeOK, StackInv, stack # << >>, stack' = Pop, mode' = mode, result' = result
  PROVE  stack' \in Seq(Frames) /\ StackInv'
  <1>1. /\ stack' \in Seq(Frames)
        /\ Len(stack') = Len(stack) - 1
        /\ \A i \in 1..Len(stack') : stack'[i] = stack[i]
    BY Popped DEF TypeOK, Pop
  <1>2. 1..Len(stack') \subseteq 1..Len(stack)
    BY <1>1 DEF TypeOK
  <1> QED BY <1>1, <1>2 DEF StackInv

----------------------------------------------------------------------------
(* Steps                                                                   *)

LEMMA Initially == ASSUME Init PROVE IInv
  <1>1. TypeOK
    <2>1. << >> \in Seq(Frames)
      OBVIOUS
    <2> QED BY <2>1 DEF Init, TypeOK, NetStates
  <1>2. EntryInv /\ StackInv /\ FilledInv
    BY DEF Init, EntryInv, NoUnknownAnswer, StackInv, FilledInv, TrueMeansFilled, Requests
  <1> QED BY <1>1, <1>2 DEF IInv

LEMMA AsyncCallStep == ASSUME IInv, NEW r \in Requests, AsyncCall(r) PROVE IInv'
  <1> USE DEF AsyncCall, Send, IInv
  <1>1. TypeOK'
    BY DEF TypeOK, NetStates
  <1>2. EntryInv'
    BY DEF TypeOK, EntryInv, NoUnknownAnswer
  <1>3. StackInv'
    <2> SUFFICES ASSUME NEW i \in 1..Len(stack), stack[i].kind = "call"
                 PROVE  mode'[stack[i].req] = "sync"
      BY DEF StackInv
    <2>1. stack[i].req \in Requests
      BY FrameFields DEF TypeOK
    <2> QED BY <2>1 DEF StackInv, TypeOK
  <1>4. FilledInv'
    BY DEF TypeOK, FilledInv, TrueMeansFilled
  <1> QED BY <1>1, <1>2, <1>3, <1>4

LEMMA SyncCallStep == ASSUME IInv, NEW r \in Requests, SyncCall(r) PROVE IInv'
  <1> USE DEF SyncCall, Send, IInv
  <1>1. /\ stack' \in Seq(Frames)
        /\ Len(stack') = Len(stack) + 1
        /\ stack'[Len(stack) + 1] = Call(r)
        /\ \A i \in 1..Len(stack) : stack'[i] = stack[i]
    BY Pushed, NewFrames DEF TypeOK
  <1>2. TypeOK'
    BY <1>1 DEF TypeOK, NetStates
  <1>3. EntryInv'
    BY DEF TypeOK, EntryInv, NoUnknownAnswer
  <1>4. \A i \in 1..Len(stack) : stack[i].kind = "call" => stack[i].req # r
    BY DEF StackInv
  <1>5. \A i \in 1..Len(stack) : stack[i].req \in Requests
    BY FrameFields DEF TypeOK
  <1>6. \A i \in 1..Len(stack') : i \in 1..Len(stack) \/ i = Len(stack) + 1
    BY <1>1 DEF TypeOK
  <1>7. StackInv'
    <2>1. ASSUME NEW i \in 1..Len(stack'), stack'[i].kind = "call"
          PROVE  mode'[stack'[i].req] = "sync" /\ result'[stack'[i].req] = "none"
      <3>1. CASE i \in 1..Len(stack)
        BY <1>1, <1>4, <1>5, <2>1, <3>1 DEF StackInv, TypeOK
      <3>2. CASE i = Len(stack) + 1
        BY <1>1, <3>2, NewFrames DEF EntryInv, TypeOK
      <3> QED BY <1>6, <3>1, <3>2
    <2>2. ASSUME NEW i \in 1..Len(stack'), NEW j \in 1..Len(stack'),
                 stack'[i].kind = "call", stack'[j].kind = "call",
                 stack'[i].req = stack'[j].req
          PROVE  i = j
      BY <1>1, <1>4, <1>6, <2>2, NewFrames DEF StackInv
    <2> QED BY <2>1, <2>2 DEF StackInv
  <1>8. FilledInv'
    BY DEF TypeOK, EntryInv, FilledInv, TrueMeansFilled
  <1> QED BY <1>2, <1>3, <1>7, <1>8

LEMMA SendFailsStep == ASSUME IInv, NEW r \in Requests, SendFails(r) PROVE IInv'
  <1> USE DEF SendFails, IInv
  <1>1. TypeOK'
    BY DEF TypeOK
  <1>2. EntryInv'
    BY DEF TypeOK, EntryInv, NoUnknownAnswer
  <1>3. StackInv'
    <2>1. \A i \in 1..Len(stack) : stack[i].kind = "call" => stack[i].req # r
      BY DEF StackInv
    <2>2. \A i \in 1..Len(stack) : stack[i].req \in Requests
      BY FrameFields DEF TypeOK
    <2> QED BY <2>1, <2>2 DEF StackInv, TypeOK
  <1>4. FilledInv'
    BY DEF TypeOK, EntryInv, FilledInv, TrueMeansFilled
  <1> QED BY <1>1, <1>2, <1>3, <1>4

LEMMA CallReturnsStep == ASSUME IInv, NEW r \in Requests, CallReturns(r) PROVE IInv'
  <1> USE DEF CallReturns, IInv
  <1>1. /\ stack' \in Seq(Frames)
        /\ Len(stack') = Len(stack) - 1
        /\ \A i \in 1..Len(stack') : stack'[i] = stack[i]
    BY Popped DEF TypeOK, Pop
  <1>2. Len(stack) \in Nat \ {0}
    BY DEF TypeOK
  <1>3. stack[Len(stack)].kind = "call" /\ stack[Len(stack)].req = r
    BY NewFrames DEF Top
  <1>4. mode[r] = "sync" /\ result[r] = "none"
    BY <1>2, <1>3 DEF StackInv
  <1>5. \A i \in 1..Len(stack') : stack[i].kind = "call" => stack[i].req # r
    BY <1>1, <1>2, <1>3 DEF StackInv
  <1>6. \A i \in 1..Len(stack) : stack[i].req \in Requests
    BY FrameFields DEF TypeOK
  <1>7. TypeOK'
    BY <1>1 DEF TypeOK
  <1>8. EntryInv'
    BY <1>4 DEF TypeOK, EntryInv, NoUnknownAnswer
  <1>9. StackInv'
    <2>1. 1..Len(stack') \subseteq 1..Len(stack)
      BY <1>1, <1>2
    <2>2. ASSUME NEW i \in 1..Len(stack'), stack'[i].kind = "call"
          PROVE  mode'[stack'[i].req] = "sync" /\ result'[stack'[i].req] = "none"
      BY <1>1, <1>5, <1>6, <2>1, <2>2 DEF StackInv, TypeOK
    <2>3. ASSUME NEW i \in 1..Len(stack'), NEW j \in 1..Len(stack'),
                 stack'[i].kind = "call", stack'[j].kind = "call",
                 stack'[i].req = stack'[j].req
          PROVE  i = j
      BY <1>1, <2>1, <2>3 DEF StackInv
    <2> QED BY <2>2, <2>3 DEF StackInv
  <1>10. FilledInv'
    BY <1>4 DEF TypeOK, FilledInv, TrueMeansFilled
  <1> QED BY <1>7, <1>8, <1>9, <1>10

LEMMA CallbackReturnsStep == ASSUME IInv, CallbackReturns PROVE IInv'
  <1>1. stack' \in Seq(Frames) /\ StackInv'
    BY PopKeepsStack DEF IInv, CallbackReturns
  <1>2. TypeOK' /\ EntryInv' /\ FilledInv'
    BY <1>1 DEF IInv, CallbackReturns, TypeOK, EntryInv, NoUnknownAnswer, FilledInv,
                TrueMeansFilled
  <1> QED BY <1>1, <1>2 DEF IInv

\* An exception leaves no call and no callback under way.
LEMMA ThrowStep ==
  ASSUME IInv, Throw, mode' = mode
  PROVE  /\ stack' \in Seq(Frames) /\ StackInv'
         /\ result' \in [Requests -> {"none", "true", "false", "threw"}]
         /\ \A q \in Requests : result'[q] \in {"threw", result[q]}
         /\ \A q \in Requests : mode[q] = "sync" => result'[q] # "none"
         /\ \A q \in Requests : mode[q] = "new" => result'[q] = result[q]
  BY DEF IInv, TypeOK, Throw, StackInv

LEMMA ReceiveDroppedStep == ASSUME IInv, NEW r \in Requests, ReceiveDropped(r) PROVE IInv'
  <1> USE DEF ReceiveDropped, Receive, IInv
  <1>1. TypeOK'
    BY DEF TypeOK, NetStates
  <1>2. EntryInv'
    BY DEF TypeOK, EntryInv, NoUnknownAnswer
  <1>3. StackInv' /\ FilledInv'
    BY DEF StackInv, FilledInv, TrueMeansFilled
  <1> QED BY <1>1, <1>2, <1>3

LEMMA ReceiveAnswerStep == ASSUME IInv, NEW r \in Requests, ReceiveAnswer(r) PROVE IInv'
  <1> USE DEF ReceiveAnswer, Receive, IInv
  <1>1. r \in outstanding /\ mode[r] # "new" /\ mode' = mode
    BY DEF EntryInv, NoUnknownAnswer
  <1>2. outstanding' = outstanding \ {r} /\ result' = result
    BY <1>1
  <1>3. EntryInv'
    BY <1>1, <1>2 DEF TypeOK, EntryInv, NoUnknownAnswer
  <1>4. CASE mode[r] = "sync"
    <2>1. TypeOK'
      BY <1>1, <1>4 DEF TypeOK, NetStates
    <2>2. StackInv'
      BY <1>1, <1>4 DEF StackInv
    <2>3. FilledInv'
      BY <1>1, <1>4 DEF FilledInv, TrueMeansFilled, TypeOK
    <2> QED BY <1>3, <2>1, <2>2, <2>3
  <1>5. CASE mode[r] # "sync"
    <2>1. /\ stack' \in Seq(Frames)
          /\ Len(stack') = Len(stack) + 1
          /\ stack'[Len(stack) + 1].kind = "callback"
          /\ \A i \in 1..Len(stack) : stack'[i] = stack[i]
      <3>1. stack' = Append(stack, Callback(r))
        BY <1>1, <1>5
      <3>2. stack \in Seq(Frames) /\ Callback(r) \in Frames /\ Callback(r).kind = "callback"
        BY NewFrames DEF TypeOK
      <3> QED BY <3>1, <3>2, Pushed
    <2>2. TypeOK'
      BY <1>1, <1>5, <2>1 DEF TypeOK, NetStates
    <2>3. \A i \in 1..Len(stack') : i \in 1..Len(stack) \/ i = Len(stack) + 1
      BY <2>1 DEF TypeOK
    <2>4. StackInv'
      BY <1>1, <1>2, <2>1, <2>3 DEF StackInv
    <2>5. FilledInv'
      BY <1>1, <1>5 DEF FilledInv, TrueMeansFilled, TypeOK
    <2> QED BY <1>3, <2>2, <2>4, <2>5
  <1> QED BY <1>4, <1>5

LEMMA ReceiveAckStep == ASSUME IInv, NEW r \in Requests, ReceiveAck(r) PROVE IInv'
  <1> USE DEF ReceiveAck, Receive, IInv
  <1>1. r \in outstanding /\ mode[r] # "new" /\ mode' = mode
    BY DEF EntryInv, NoUnknownAnswer
  <1>2. \/ Throw /\ UNCHANGED filled
        \/ filled' = filled \cup {r} /\ UNCHANGED <<stack, result>>
    BY Zenon
  <1>3. CASE Throw /\ UNCHANGED filled
    <2>1. /\ stack' \in Seq(Frames) /\ StackInv'
          /\ result' \in [Requests -> {"none", "true", "false", "threw"}]
          /\ \A q \in Requests : result'[q] \in {"threw", result[q]}
          /\ \A q \in Requests : mode[q] = "sync" => result'[q] # "none"
          /\ \A q \in Requests : mode[q] = "new" => result'[q] = result[q]
      BY <1>1, <1>3, ThrowStep
    <2>2. net' \in [Requests -> NetStates] /\ seen' \subseteq Requests
      BY DEF TypeOK, NetStates
    <2>5. TypeOK'
      BY <1>1, <1>3, <2>1, <2>2 DEF TypeOK
    <2>3. EntryInv'
      BY <1>1, <2>1 DEF TypeOK, EntryInv, NoUnknownAnswer
    <2>4. FilledInv'
      BY <1>1, <1>3, <2>1 DEF TypeOK, FilledInv, TrueMeansFilled
    <2> QED BY <2>1, <2>3, <2>4, <2>5
  <1>4. CASE filled' = filled \cup {r} /\ UNCHANGED <<stack, result>>
    <2>1. TypeOK'
      BY <1>1, <1>4 DEF TypeOK, NetStates
    <2>2. EntryInv'
      BY <1>1, <1>4 DEF TypeOK, EntryInv, NoUnknownAnswer
    <2>3. StackInv'
      BY <1>1, <1>4 DEF StackInv
    <2>4. mode[r] = "sync"
      BY <1>1 DEF TypeOK, EntryInv
    <2>5. FilledInv'
      BY <1>1, <1>4, <2>4 DEF FilledInv, TrueMeansFilled, TypeOK
    <2> QED BY <2>1, <2>2, <2>3, <2>5
  <1> QED BY <1>2, <1>3, <1>4

LEMMA Step == ASSUME IInv, [Next]_vars PROVE IInv'
  <1>1. CASE UNCHANGED vars
    BY <1>1 DEF vars, IInv, TypeOK, EntryInv, NoUnknownAnswer, StackInv, FilledInv,
                TrueMeansFilled
  <1>2. CASE \E r \in Requests :
               \/ AsyncCall(r) \/ SyncCall(r) \/ SendFails(r) \/ TimerSignals(r)
               \/ CallReturns(r) \/ ServerAnswers(r)
    <2> PICK r \in Requests :
               \/ AsyncCall(r) \/ SyncCall(r) \/ SendFails(r) \/ TimerSignals(r)
               \/ CallReturns(r) \/ ServerAnswers(r)
      BY <1>2
    <2>1. CASE TimerSignals(r)
      BY <2>1 DEF TimerSignals, IInv, TypeOK, EntryInv, NoUnknownAnswer, StackInv,
                  FilledInv, TrueMeansFilled
    <2>2. CASE ServerAnswers(r)
      BY <2>2 DEF ServerAnswers, IInv, TypeOK, NetStates, EntryInv, NoUnknownAnswer,
                  StackInv, FilledInv, TrueMeansFilled
    <2> QED BY <2>1, <2>2, AsyncCallStep, SyncCallStep, SendFailsStep, CallReturnsStep
  <1>3. CASE CallbackReturns
    BY <1>3, CallbackReturnsStep
  <1>4. CASE Pump
    BY <1>4, ReceiveDroppedStep, ReceiveAnswerStep, ReceiveAckStep DEF Pump
  <1> QED BY <1>1, <1>2, <1>3, <1>4 DEF Next

\* The inductive invariant.
THEOREM Invariance == Spec => []IInv
  <1>1. Init => IInv
    BY Initially
  <1>2. IInv /\ [Next]_vars => IInv'
    BY Step
  <1> QED BY <1>1, <1>2, PTL DEF Spec

\* Every variable of the client keeps its type.
THEOREM TypeCorrect == Spec => []TypeOK
  <1>1. IInv => TypeOK
    BY DEF IInv
  <1> QED BY <1>1, Invariance, PTL

\* However calls, callbacks, timeouts and answers interleave, a call that
\* returns true has stored its answer (SendAndProcessSynchronousRequest).
THEOREM Success == Spec => []TrueMeansFilled
  <1>1. IInv => TrueMeansFilled
    BY DEF IInv, FilledInv
  <1> QED BY <1>1, Invariance, PTL

\* No answer throws the "unknown outstanding request" exception of
\* HandleRequestResponse, however late it comes.
THEOREM Known == Spec => []NoUnknownAnswer
  <1>1. IInv => NoUnknownAnswer
    BY DEF IInv, EntryInv
  <1> QED BY <1>1, Invariance, PTL

\* A call that gives up has not stored its answer, whenever its timer signaled.
THEOREM Failure == Spec => GivesUpEmptyHanded
  <1> DEFINE A == \A r \in Requests :
                     (result[r] = "none" /\ result'[r] = "false") => r \notin filled
  <1>1. ASSUME IInv, [Next]_vars PROVE [A]_vars
    <2> SUFFICES ASSUME NEW r \in Requests, result[r] = "none", result'[r] = "false"
                 PROVE  r \notin filled
      OBVIOUS
    <2>1. result' # result /\ result \in [Requests -> {"none", "true", "false", "threw"}]
      BY <1>1 DEF IInv, TypeOK
    <2>2. \A q \in Requests : Throw => result'[r] # "false"
      BY DEF Throw
    <2>3. \A q \in Requests : ~ReceiveDropped(q) /\ ~ReceiveAnswer(q) /\ ~ReceiveAck(q)
      BY <2>1, <2>2 DEF ReceiveDropped, ReceiveAnswer, ReceiveAck
    <2>4. PICK q \in Requests : SendFails(q) \/ CallReturns(q)
      BY <1>1, <2>1, <2>3 DEF Next, vars, AsyncCall, SyncCall, TimerSignals, ServerAnswers,
                             CallbackReturns, Pump
    <2>5. q = r
      BY <2>1, <2>4 DEF SendFails, CallReturns
    <2>6. CASE SendFails(r)
      BY <1>1, <2>6 DEF SendFails, IInv, FilledInv
    <2>7. CASE CallReturns(r)
      <3>1. r \in outstanding
        BY <2>1, <2>7 DEF CallReturns
      <3> QED BY <1>1, <3>1 DEF IInv, FilledInv
    <2> QED BY <2>4, <2>5, <2>6, <2>7
  <1>2. IInv /\ [Next]_vars => [A]_vars
    BY <1>1
  <1> QED BY <1>2, Invariance, PTL DEF Spec, GivesUpEmptyHanded

----------------------------------------------------------------------------
(* Why a call returns                                                      *)

Pending(r) == mode[r] = "sync" /\ result[r] = "none"

\* A call that has not returned is on the stack, below what was called since.
PendingOnStack ==
  \A r \in Requests : Pending(r) => \E i \in 1..Len(stack) : stack[i] = Call(r)

LEMMA DistinctCalls ==
  ASSUME NEW q \in Requests, NEW r \in Requests, Call(q) = Call(r) PROVE q = r
  BY NewFrames

\* What is on a stack stays there when something is put on it ...
LEMMA PushKeepsCalls ==
  ASSUME TypeOK, NEW f \in Frames, stack' = Append(stack, f),
         NEW q \in Requests, \E i \in 1..Len(stack) : stack[i] = Call(q)
  PROVE  \E i \in 1..Len(stack') : stack'[i] = Call(q)
  <1>1. /\ Len(stack') = Len(stack) + 1
        /\ \A i \in 1..Len(stack) : stack'[i] = stack[i]
    BY Pushed DEF TypeOK
  <1>2. 1..Len(stack) \subseteq 1..Len(stack')
    BY <1>1 DEF TypeOK
  <1> QED BY <1>1, <1>2

\* ... and when something else is taken off it.
LEMMA PopKeepsCalls ==
  ASSUME TypeOK, stack # << >>, stack' = Pop,
         NEW q \in Requests, Top # Call(q), \E i \in 1..Len(stack) : stack[i] = Call(q)
  PROVE  \E i \in 1..Len(stack') : stack'[i] = Call(q)
  <1>1. /\ Len(stack') = Len(stack) - 1
        /\ \A i \in 1..Len(stack') : stack'[i] = stack[i]
    BY Popped DEF TypeOK, Pop
  <1>2. PICK i \in 1..Len(stack) : stack[i] = Call(q)
    OBVIOUS
  <1>3. i # Len(stack)
    BY <1>2 DEF Top
  <1>4. i \in 1..Len(stack')
    BY <1>1, <1>3 DEF TypeOK
  <1> QED BY <1>1, <1>2, <1>4

LEMMA PendingStep ==
  ASSUME IInv, PendingOnStack, [Next]_vars PROVE PendingOnStack'
  <1> SUFFICES ASSUME NEW q \in Requests, mode'[q] = "sync", result'[q] = "none"
               PROVE  \E i \in 1..Len(stack') : stack'[i] = Call(q)
    BY DEF PendingOnStack, Pending
  <1> DEFINE On == \E i \in 1..Len(stack) : stack[i] = Call(q)
  <1>0. TypeOK
    BY DEF IInv
  <1>1. Pending(q) => On
    BY DEF PendingOnStack
  <1>2. CASE stack' = stack /\ Pending(q)
    BY <1>1, <1>2
  <1>3. ASSUME NEW r \in Requests, AsyncCall(r) \/ SendFails(r)
        PROVE  stack' = stack /\ Pending(q)
    BY <1>0, <1>3 DEF AsyncCall, Send, SendFails, TypeOK, Pending
  <1>4. ASSUME NEW r \in Requests, SyncCall(r)
        PROVE  \E i \in 1..Len(stack') : stack'[i] = Call(q)
    <2>1. stack' = Append(stack, Call(r)) /\ Call(r) \in Frames
      BY <1>4, NewFrames DEF SyncCall
    <2>2. CASE q = r
      <3>1. Len(stack') = Len(stack) + 1 /\ stack'[Len(stack) + 1] = Call(r)
        BY <1>0, <2>1, Pushed DEF TypeOK
      <3>2. Len(stack) + 1 \in 1..Len(stack')
        BY <1>0, <3>1 DEF TypeOK
      <3> QED BY <2>2, <3>1, <3>2
    <2>3. CASE q # r
      <3>1. Pending(q)
        BY <1>0, <1>4, <2>3 DEF SyncCall, Send, TypeOK, Pending
      <3> QED BY <1>0, <1>1, <2>1, <3>1, PushKeepsCalls
    <2> QED BY <2>2, <2>3
  <1>5. ASSUME NEW r \in Requests, CallReturns(r)
        PROVE  \E i \in 1..Len(stack') : stack'[i] = Call(q)
    <2>1. stack # << >> /\ stack' = Pop /\ Top = Call(r) /\ result'[r] # "none"
      BY <1>0, <1>5 DEF CallReturns, TypeOK
    <2>2. q # r
      BY <2>1
    <2>3. Pending(q)
      BY <1>0, <1>5, <2>2 DEF CallReturns, TypeOK, Pending
    <2>4. Top # Call(q)
      BY <2>1, <2>2, DistinctCalls
    <2> QED BY <1>0, <1>1, <2>1, <2>3, <2>4, PopKeepsCalls
  <1>6. CASE CallbackReturns
    <2>1. stack # << >> /\ stack' = Pop /\ Top.kind = "callback" /\ Pending(q)
      BY <1>6 DEF CallbackReturns, Pending
    <2>2. Top # Call(q)
      BY <2>1, NewFrames
    <2> QED BY <1>0, <1>1, <2>1, <2>2, PopKeepsCalls
  <1>7. ASSUME Throw, mode' = mode PROVE FALSE
    BY <1>7 DEF Throw
  <1>8. ASSUME NEW r \in Requests, ReceiveAnswer(r)
        PROVE  \E i \in 1..Len(stack') : stack'[i] = Call(q)
    <2>1. mode' = mode /\ r \in outstanding
      BY <1>7, <1>8 DEF ReceiveAnswer
    <2>2. Pending(q)
      BY <1>8, <2>1 DEF ReceiveAnswer, Pending
    <2>3. stack' = stack \/ stack' = Append(stack, Callback(r))
      BY <1>8, <2>1 DEF ReceiveAnswer
    <2>4. Callback(r) \in Frames
      BY NewFrames
    <2> QED BY <1>0, <1>1, <2>2, <2>3, <2>4, PushKeepsCalls
  <1>9. ASSUME NEW r \in Requests, ReceiveAck(r) PROVE stack' = stack /\ Pending(q)
    <2>1. mode' = mode
      BY <1>9 DEF ReceiveAck
    <2>2. UNCHANGED <<stack, result>>
      <3>1. Throw \/ UNCHANGED <<stack, result>>
        BY <1>9, Zenon DEF ReceiveAck
      <3> QED BY <1>7, <2>1, <3>1
    <2> QED BY <2>1, <2>2 DEF Pending
  <1>10. ASSUME NEW r \in Requests, TimerSignals(r) \/ ServerAnswers(r) \/ ReceiveDropped(r)
         PROVE  stack' = stack /\ Pending(q)
    BY <1>10 DEF TimerSignals, ServerAnswers, ReceiveDropped, Pending
  <1>11. CASE UNCHANGED vars
    BY <1>1, <1>11 DEF vars, Pending
  <1> QED BY <1>2, <1>3, <1>4, <1>5, <1>6, <1>8, <1>9, <1>10, <1>11 DEF Next, Pump

\* What is innermost can go on: it is a callback, or a call that has not returned.
InnermostGoesOn == stack # << >> => Top.kind = "callback" \/ Pending(Top.req)

\* No call waits that is not on the stack, and no call is on the stack that is
\* through, so that what a call waits for is above it (the recursion of Pump
\* and SendAndProcessSynchronousRequest through the callbacks).
THEOREM CallsAreOnStack == Spec => [](PendingOnStack /\ InnermostGoesOn)
  <1>1. Init => PendingOnStack
    BY DEF Init, PendingOnStack, Pending
  <1>2. IInv /\ PendingOnStack /\ [Next]_vars => PendingOnStack'
    BY PendingStep
  <1>3. IInv => InnermostGoesOn
    <2> SUFFICES ASSUME IInv, stack # << >>, Top.kind # "callback" PROVE Pending(Top.req)
      BY DEF InnermostGoesOn
    <2>1. Len(stack) \in 1..Len(stack)
      BY DEF IInv, TypeOK
    <2>2. Top.kind = "call"
      BY <2>1, FrameFields DEF Top, IInv, TypeOK
    <2> QED BY <2>1, <2>2 DEF Top, IInv, StackInv, Pending
  <1> QED BY <1>1, <1>2, <1>3, Invariance, PTL DEF Spec

----------------------------------------------------------------------------
(* The table of outstanding requests                                       *)

\* An entry whose request has no answer to come.
Leaked(r) == r \in outstanding /\ mode[r] # "new" /\ net[r] \in {"none", "lost"}

\* Such an entry is never taken out of the table: the answer was an Error or of
\* a kind nobody handles, or the server died (ProcessResponseMessage's default
\* case; there is no other erase).
THEOREM LeaksForGood == Spec => [][\A r \in Requests : Leaked(r) => Leaked(r)']_vars
  <1>1. ASSUME IInv, [Next]_vars, NEW r \in Requests, Leaked(r) PROVE Leaked(r)'
    <2> USE <1>1 DEF Leaked, IInv, TypeOK
    <2>1. ASSUME NEW q \in Requests, \E m \in {"sync", "async"} : Send(q, m) PROVE Leaked(r)'
      BY <2>1 DEF Send
    <2>2. ASSUME NEW q \in Requests,
                 SendFails(q) \/ TimerSignals(q) \/ CallReturns(q) \/ ServerAnswers(q)
          PROVE  Leaked(r)'
      BY <2>2 DEF SendFails, TimerSignals, CallReturns, ServerAnswers
    <2>3. ASSUME NEW q \in Requests, ReceiveDropped(q) \/ ReceiveAnswer(q) \/ ReceiveAck(q)
          PROVE  Leaked(r)'
      <3>1. q # r /\ Receive(q) /\ mode' = mode
        BY <2>3 DEF ReceiveDropped, ReceiveAnswer, ReceiveAck
      <3>2. outstanding' \in {outstanding, outstanding \ {q}}
        BY <2>3 DEF ReceiveDropped, ReceiveAnswer, ReceiveAck
      <3> QED BY <3>1, <3>2 DEF Receive
    <2>4. CASE CallbackReturns \/ UNCHANGED vars
      BY <2>4 DEF CallbackReturns, vars
    <2> QED BY <2>1, <2>2, <2>3, <2>4 DEF Next, AsyncCall, SyncCall, Pump
  <1>2. IInv /\ [Next]_vars => \A r \in Requests : Leaked(r) => Leaked(r)'
    BY <1>1
  <1> QED BY <1>2, Invariance, PTL DEF Spec

=============================================================================
