---------------------------- MODULE ServerProofs ----------------------------
(***************************************************************************)
(* Proofs about Server, for any number of request processors and reactors, *)
(* any hooks and children that throw and any number of runs.               *)
(***************************************************************************)
EXTENDS Server, DeviceProofs

----------------------------------------------------------------------------
(* A server is a device: its steps are steps of Device or leave the state  *)
(* of the device alone.  Everything proved of Device holds of Server.      *)

LEMMA ServerStep ==
  ASSUME [ServerNext]_allVars PROVE [Next]_vars
  <1>1. CASE ServerAdvance
    <2>1. UNCHANGED vars \/ Runner
      BY <1>1 DEF ServerAdvance, EnterStart, OpenLogSocket, CreateChild, FinishStart, Started,
                  StartThrows, CheckDevices, CheckDevicesReturns, EnterRunFinish,
                  ServerRunFinish, LogWithoutSocket, StopChild, ShutdownThrows, Advance, Runner
    <2> QED BY <2>1 DEF Next
  <1>2. CASE ServerDestructor
    <2>1. UNCHANGED vars \/ Owner
      BY <1>2 DEF ServerDestructor, StopChild, DestructorThrows, DeleteSockets, JoinServer, Owner
    <2> QED BY <2>1 DEF Next
  <1>3. CASE ServerLoop
    BY <1>3 DEF ServerLoop, Next, Runner, Advance
  <1>4. CASE ServerOwner
    BY <1>4 DEF ServerOwner, Next
  <1>5. CASE EnterDestructor
    BY <1>5 DEF EnterDestructor
  <1>6. CASE SignalExit /\ UNCHANGED serverVars
    BY <1>6 DEF Next
  <1>7. CASE \/ \E k \in Children : ChildEnds(k)
             \/ \E k \in Processors : BlockInReceive(k) \/ MessageArrives(k)
    BY <1>7 DEF ChildEnds, BlockInReceive, MessageArrives
  <1>8. CASE UNCHANGED allVars
    BY <1>8 DEF allVars
  <1> QED BY <1>1, <1>2, <1>3, <1>4, <1>5, <1>6, <1>7, <1>8 DEF ServerNext

\* The server implements the device it is derived from (Server : Device).
THEOREM ServerIsDevice == ServerSpec => Spec
  <1>1. ServerInit => Init
    BY DEF ServerInit
  <1>2. [ServerNext]_allVars => [Next]_vars
    BY ServerStep
  <1> QED BY <1>1, <1>2, PTL DEF ServerSpec, Spec

----------------------------------------------------------------------------
(* The order of Shutdown reaches every child.                              *)

LEMMA LastNat == Last \in Nat /\ Last >= 2
  BY ServerAssumption DEF Last

LEMMA FirstTwo == 1 \in Children /\ 2 \in Children /\ Processors \subseteq Children
  BY LastNat, ServerAssumption DEF Last, Children, Processors

LEMMA VictimType == ASSUME NEW j \in Children PROVE Victim(j) \in Children
  BY LastNat DEF Victim, Children

LEMMA VictimOnto ==
  ASSUME NEW k \in Children PROVE \E j \in Children : Victim(j) = k
  <1>1. CASE k >= 3
    <2>1. k - 2 \in Children /\ Victim(k - 2) = k
      BY <1>1, LastNat DEF Victim, Children
    <2> QED BY <2>1
  <1>2. CASE k \in {1, 2}
    <2>1. Last + 1 - k \in Children /\ Victim(Last + 1 - k) = k
      BY <1>2, LastNat DEF Victim, Children
    <2> QED BY <2>1
  <1> QED BY <1>1, <1>2 DEF Children

----------------------------------------------------------------------------
(* The invariant                                                           *)

\* Where the code is inside Start, nothing is being shut down.
StartingInv ==
  /\ starting => runner = "first" /\ startStarted /\ ~initialized /\ ~active
  /\ starting => stopping["runner"] = 0 /\ stopping["owner"] = 0
  /\ initialized => startStarted
  /\ runner \in {"start", "announce", "broadcast", "loop", "finish"} => initialized
  /\ hasRan => initialized

\* Shutdown signals active first, and works on the children in its order.
StoppingInv ==
  /\ \A p \in Callers : stopping[p] # 0 => active
  /\ \A p \in Callers : \A j \in Children :
       j < stopping[p] => child[Victim(j)] = "absent"
  /\ stopping["runner"] # 0 => runner \in {"loop", "finish", "cleanup"}
  /\ stopping["owner"] # 0 => deleting

\* The children exist until active is signaled.  Start makes them in order and
\* ends with the first one it finds no thread for.
ChildInv ==
  /\ initialized /\ ~active => \A k \in Children : child[k] # "absent"
  /\ ~startStarted => AllAbsent
  /\ starting => \A k, m \in Children : k < m /\ child[k] = "absent" => child[m] = "absent"
  /\ \A k \in Children :
       child[k] = "threadless" =>
         /\ k \in {1, 2}
         /\ startStarted /\ ~starting /\ ~initialized
         /\ \A m \in Children : m > 2 => child[m] = "absent"

\* No code of the server runs beside the destructor.
DeletingInv ==
  /\ deleting => runner = "none" /\ thread # "live"
  /\ deleting => owner \in {"idle", "destroying", "destroyed"}
  /\ owner \in {"destroying", "destroyed"} => deleting

SInv ==
  /\ IInv
  /\ ServerTypeOK
  /\ StartingInv
  /\ StoppingInv
  /\ ChildInv
  /\ DeletingInv
  /\ NoOrphans

LEMMA ServerInitially == ASSUME ServerInit PROVE SInv
  <1>1. IInv
    BY Initially DEF ServerInit
  <1>2. ServerTypeOK
    <2>1. 0 \in 0..(Last + 1)
      BY LastNat
    <2> QED BY <2>1, Zenon DEF ServerInit, ServerTypeOK, ChildStates
  <1>3. StartingInv /\ ChildInv /\ DeletingInv /\ NoOrphans
    BY DEF ServerInit, Init, StartingInv, ChildInv, DeletingInv, NoOrphans, Callers, AllAbsent
  <1>4. StoppingInv
    BY LastNat DEF ServerInit, StoppingInv, Callers, Children
  <1> QED BY <1>1, <1>2, <1>3, <1>4 DEF SInv

\* A Shutdown that is through has left no child.
LEMMA ShutdownLeavesNone ==
  ASSUME SInv, NEW p \in Callers, stopping[p] = Last + 1 PROVE AllAbsent
  <1> SUFFICES ASSUME NEW k \in Children PROVE child[k] = "absent"
    BY DEF AllAbsent
  <1>1. PICK j \in Children : Victim(j) = k
    BY VictimOnto
  <1>2. j < stopping[p]
    BY LastNat DEF Children
  <1> QED BY <1>1, <1>2 DEF SInv, StoppingInv

\* The device's own steps that leave the server's state alone.
LEMMA DeviceStep ==
  ASSUME SInv, [Next]_vars, UNCHANGED serverVars,
         runner' \in {"start", "announce", "broadcast", "loop", "finish"} => initialized,
         hasRan' => initialized,
         starting => runner' = runner,
         stopping["runner"] # 0 => runner' = runner,
         deleting => UNCHANGED <<runner, thread, owner>>,
         thread' = "ended" /\ thread # "ended" => AllAbsent,
         owner' \in {"destroying", "destroyed"} => owner \in {"destroying", "destroyed"}
  PROVE  SInv'
  <1> USE DEF SInv, serverVars
  <1>1. IInv'
    BY Inductive
  <1>2. ServerTypeOK'
    BY Zenon DEF ServerTypeOK
  <1>3. StartingInv'
    BY DEF StartingInv
  <1>4. StoppingInv'
    BY DEF StoppingInv, Callers
  <1>5. ChildInv'
    BY DEF ChildInv, AllAbsent
  <1>6. DeletingInv'
    BY DEF DeletingInv
  <1>7. NoOrphans'
    BY DEF NoOrphans, AllAbsent, SomeThreadless
  <1> QED BY <1>1, <1>2, <1>3, <1>4, <1>5, <1>6, <1>7

\* Facts about the pumping code that do not depend on the server.
LEMMA RunnerMoves ==
  ASSUME IInv
  PROVE  /\ FirstRun => runner = "first" /\ UNCHANGED <<thread, hasRan>>
         /\ FirstRun => runner' \in {"start", "cleanup", "none"}
         /\ RunStart => runner = "start" /\ UNCHANGED <<thread, hasRan>>
         /\ RunStart => runner' \in {"announce", "cleanup", "none"}
         /\ FirstRun \/ RunStart => owner' \in {owner, "idle"}
  BY DEF FirstRun, RunStart, Throw, Leave, IInv, TypeOK, RunnerStates

\* What Start has not made yet, and that nothing it left is being stopped.
LEMMA StartingFacts ==
  ASSUME SInv, starting
  PROVE  /\ stopping["owner"] = 0 /\ stopping["runner"] = 0 /\ ~active /\ ~initialized
         /\ runner = "first" /\ startStarted
         /\ thread # "ended" /\ ~deleting /\ owner \notin {"destroying", "destroyed"}
         /\ ~SomeThreadless
  BY DEF SInv, StartingInv, DeletingInv, ChildInv, IInv, ThreadInv, TypeOK, SomeThreadless

LEMMA EnterStartStep == ASSUME SInv, EnterStart PROVE SInv'
  <1> USE DEF SInv
  <1>0. deleting = FALSE /\ stopping["owner"] = 0 /\ stopping["runner"] = 0 /\ AllAbsent
    BY DEF EnterStart, DeletingInv, StoppingInv, ServerTypeOK, ChildInv
  <1>1. IInv'
    BY Inductive DEF EnterStart
  <1>2. ServerTypeOK'
    BY DEF EnterStart, ServerTypeOK
  <1>3. StartingInv'
    BY <1>0 DEF EnterStart, StartingInv, vars
  <1>4. StoppingInv'
    BY <1>0 DEF EnterStart, StoppingInv, vars, Callers
  <1>5. ChildInv'
    BY <1>0 DEF EnterStart, ChildInv, StartingInv, AllAbsent
  <1>6. DeletingInv' /\ NoOrphans'
    BY <1>0 DEF EnterStart, DeletingInv, NoOrphans, AllAbsent, vars
  <1> QED BY <1>1, <1>2, <1>3, <1>4, <1>5, <1>6

LEMMA OpenLogSocketStep == ASSUME SInv, OpenLogSocket PROVE SInv'
  <1> USE DEF SInv, OpenLogSocket
  <1>1. IInv'
    BY Inductive
  <1>2. ServerTypeOK' /\ StartingInv' /\ StoppingInv' /\ DeletingInv'
    BY DEF ServerTypeOK, StartingInv, StoppingInv, DeletingInv, vars
  <1>3. ChildInv' /\ NoOrphans'
    BY DEF ChildInv, NoOrphans, AllAbsent, SomeThreadless, vars
  <1> QED BY <1>1, <1>2, <1>3

LEMMA CreateChildStep == ASSUME SInv, CreateChild PROVE SInv'
  <1> USE DEF SInv
  <1>0. starting
    BY DEF CreateChild, ComesNext
  <1>1. PICK k \in Children : ComesNext(k) /\ child' = [child EXCEPT ![k] = "running"]
    BY <1>0, StartingFacts DEF CreateChild
  <1>2. IInv'
    BY Inductive DEF CreateChild
  <1>3. ServerTypeOK'
    BY <1>1 DEF CreateChild, ServerTypeOK, ChildStates
  <1>4. StartingInv'
    BY DEF CreateChild, StartingInv, vars
  <1>5. StoppingInv'
    BY <1>0, StartingFacts, LastNat DEF CreateChild, StoppingInv, vars, Callers, Children
  <1>6. ChildInv'
    <2>1. \A i, m \in Children : i < m /\ child'[i] = "absent" => child'[m] = "absent"
      <3> SUFFICES ASSUME NEW i \in Children, NEW m \in Children, i < m,
                          child'[i] = "absent"
                   PROVE  child'[m] = "absent"
        OBVIOUS
      <3>1. i # k /\ child[i] = "absent"
        BY <1>1 DEF ServerTypeOK
      <3>2. child[m] = "absent"
        BY <3>1, <1>0 DEF ChildInv
      <3>3. m # k
        BY <3>1, <1>1 DEF ComesNext, Children
      <3> QED BY <3>2, <3>3, <1>1 DEF ServerTypeOK
    <2>2. \A m \in Children : child'[m] # "threadless"
      BY <1>0, <1>1, StartingFacts DEF ServerTypeOK, SomeThreadless
    <2> QED BY <1>0, <2>1, <2>2, StartingFacts DEF CreateChild, ChildInv
  <1>7. DeletingInv'
    BY DEF CreateChild, DeletingInv, vars
  <1>8. NoOrphans'
    BY <1>0, StartingFacts DEF CreateChild, NoOrphans, vars
  <1> QED BY <1>2, <1>3, <1>4, <1>5, <1>6, <1>7, <1>8

LEMMA FinishStartStep == ASSUME SInv, FinishStart PROVE SInv'
  <1> USE DEF SInv
  <1>0. starting
    BY DEF FinishStart
  <1>1. IInv'
    BY Inductive DEF FinishStart
  <1>2. ServerTypeOK' /\ StartingInv'
    BY DEF FinishStart, ServerTypeOK, StartingInv, vars
  <1>3. ChildInv'
    BY <1>0, StartingFacts DEF FinishStart, ChildInv, AllAbsent, SomeThreadless
  <1>4. StoppingInv' /\ DeletingInv'
    BY DEF FinishStart, StoppingInv, DeletingInv, vars
  <1>5. NoOrphans'
    BY <1>0, StartingFacts DEF FinishStart, NoOrphans, vars
  <1> QED BY <1>1, <1>2, <1>3, <1>4, <1>5

LEMMA StartThrowsStep == ASSUME SInv, StartThrows PROVE SInv'
  <1> USE DEF SInv
  <1>0. FirstRun /\ ~initialized /\ runner = "first" /\ runner' \in {"cleanup", "none"}
    BY RunnerMoves DEF StartThrows, StartingInv
  <1>1. IInv'
    BY <1>0, Inductive DEF Next, Runner, Advance
  <1>2. child' = child \/ (starting /\ NoThreadForChild)
    BY DEF StartThrows
  <1>3. ServerTypeOK'
    BY <1>2 DEF StartThrows, ServerTypeOK, NoThreadForChild, ChildStates
  <1>4. StartingInv'
    BY <1>0, RunnerMoves DEF StartThrows, StartingInv
  <1>5. stopping["owner"] = 0 /\ stopping["runner"] = 0
    BY <1>0 DEF StoppingInv, DeletingInv, Callers, ServerTypeOK
  <1>6. StoppingInv'
    BY <1>5, LastNat DEF StartThrows, StoppingInv, Callers, Children
  <1>7. ChildInv'
    <2>0. startStarted' /\ ~starting' /\ ~initialized'
      BY <1>0 DEF StartThrows, StartingInv
    <2>1. CASE child' = child
      BY <2>0, <2>1 DEF ChildInv
    <2>2. CASE starting /\ NoThreadForChild
      <3>1. PICK k \in {1, 2} : ComesNext(k) /\ child' = [child EXCEPT ![k] = "threadless"]
        BY <2>2 DEF NoThreadForChild
      <3>2. \A m \in Children : m > 2 => child'[m] = "absent"
        <4> SUFFICES ASSUME NEW m \in Children, m > 2 PROVE child'[m] = "absent"
          OBVIOUS
        <4>1. k \in Children /\ k < m /\ child[k] = "absent"
          BY <3>1, FirstTwo DEF ComesNext, Children
        <4>2. child[m] = "absent"
          BY <4>1, <2>2 DEF ChildInv
        <4> QED BY <4>1, <4>2, <3>1 DEF ServerTypeOK, Children
      <3>3. \A m \in Children : child'[m] = "threadless" => m = k
        BY <2>2, <3>1, StartingFacts DEF ServerTypeOK, SomeThreadless
      <3> QED BY <2>0, <3>1, <3>2, <3>3 DEF ChildInv
    <2> QED BY <1>2, <2>1, <2>2
  <1>8. ~deleting /\ owner' \notin {"destroying", "destroyed"} /\ thread' # "ended"
    BY <1>0, RunnerMoves DEF DeletingInv, IInv, ThreadInv, TypeOK
  <1>9. DeletingInv' /\ NoOrphans'
    BY <1>8 DEF StartThrows, DeletingInv, NoOrphans
  <1> QED BY <1>1, <1>3, <1>4, <1>6, <1>7, <1>9

LEMMA StartedStep == ASSUME SInv, Started PROVE SInv'
  <1>0. FirstRun \/ RunStart
    BY DEF Started
  <1>1. ~deleting /\ ~starting /\ stopping["runner"] = 0
    BY <1>0, RunnerMoves DEF SInv, Started, DeletingInv, StartingInv, StoppingInv, ServerTypeOK
  <1>2. [Next]_vars
    BY <1>0 DEF Next, Runner, Advance
  <1>3. thread' = thread /\ hasRan' = hasRan /\ owner' \in {owner, "idle"}
    BY <1>0, RunnerMoves DEF SInv
  <1> QED BY <1>1, <1>2, <1>3, DeviceStep DEF Started, SInv, StartingInv

\* active.Signal() at the head of Shutdown, by whoever may call it.
LEMMA EnterShutdownStep ==
  ASSUME SInv, NEW p \in Callers, EnterShutdown(p), UNCHANGED vars, ~starting,
         p = "runner" => runner \in {"loop", "finish", "cleanup"} /\ deleting' = deleting,
         p = "owner" => deleting' /\ runner = "none" /\ thread # "live" /\ owner = "idle"
  PROVE  SInv'
  <1> USE DEF SInv, EnterShutdown
  <1>1. IInv'
    BY Inductive
  <1>2. deleting' \in BOOLEAN
    BY DEF Callers, ServerTypeOK
  <1>3. ServerTypeOK'
    BY <1>2, LastNat DEF ServerTypeOK
  <1>4. StartingInv'
    BY DEF StartingInv, vars
  <1>5. StoppingInv'
    BY LastNat DEF StoppingInv, vars, Callers, Children, ServerTypeOK
  <1>6. ChildInv'
    BY DEF ChildInv, AllAbsent
  <1>7. DeletingInv'
    BY DEF DeletingInv, vars, Callers
  <1>8. NoOrphans'
    BY DEF NoOrphans, AllAbsent, SomeThreadless, vars
  <1> QED BY <1>1, <1>3, <1>4, <1>5, <1>6, <1>7, <1>8

\* The next child is stopped and deleted.
LEMMA StopChildStep ==
  ASSUME SInv, NEW p \in Callers, StopChild(p)
  PROVE  SInv'
  <1> USE DEF SInv
  <1>0. active /\ ~starting
    BY LastNat DEF StopChild, StoppingInv, StartingInv, Callers, Children
  <1>1. IInv'
    BY Inductive DEF StopChild
  <1>2. stopping[p] \in Children /\ stopping[p] \in Nat /\ Victim(stopping[p]) \in Children
    BY VictimType DEF StopChild, Children
  <1>3. stopping[p] + 1 \in 0..(Last + 1)
    BY <1>2, LastNat DEF Children
  <1>4. ServerTypeOK'
    BY <1>2, <1>3 DEF StopChild, ServerTypeOK, ChildStates
  <1>5. StartingInv'
    BY <1>0 DEF StopChild, StartingInv, vars
  <1>6. StoppingInv'
    <2>1. \A q \in Callers : \A j \in Children : j < stopping'[q] => child'[Victim(j)] = "absent"
      <3> SUFFICES ASSUME NEW q \in Callers, NEW j \in Children, j < stopping'[q]
                   PROVE  child'[Victim(j)] = "absent"
        OBVIOUS
      <3>1. Victim(j) \in Children
        BY VictimType
      <3>2. CASE j < stopping[q]
        BY <3>1, <3>2, <1>2 DEF StopChild, StoppingInv, ServerTypeOK
      <3>3. CASE ~(j < stopping[q])
        <4>1. q = p /\ j = stopping[p]
          BY <3>3, <1>2 DEF StopChild, ServerTypeOK, Children
        <4> QED BY <4>1, <1>2 DEF StopChild, ServerTypeOK
      <3> QED BY <3>2, <3>3
    <2>2. active' /\ runner' = runner /\ deleting' = deleting
      BY <1>0 DEF StopChild, vars
    <2>3. stopping'["runner"] # 0 => stopping["runner"] # 0
      BY <1>2, LastNat DEF StopChild, ServerTypeOK, Callers, Children
    <2>4. stopping'["owner"] # 0 => stopping["owner"] # 0
      BY <1>2, LastNat DEF StopChild, ServerTypeOK, Callers, Children
    <2> QED BY <2>1, <2>2, <2>3, <2>4 DEF StoppingInv
  <1>7. ChildInv'
    BY <1>0, <1>2 DEF StopChild, ChildInv, AllAbsent, ServerTypeOK
  <1>8. DeletingInv'
    BY DEF StopChild, DeletingInv, vars
  <1>9. NoOrphans'
    <2>1. \A k \in Children : child[k] \in {"absent", "threadless"} => child'[k] = child[k]
      BY <1>2 DEF StopChild, ServerTypeOK
    <2> QED BY <2>1, Zenon DEF StopChild, NoOrphans, AllAbsent, SomeThreadless, vars
  <1> QED BY <1>1, <1>4, <1>5, <1>6, <1>7, <1>8, <1>9

\* Shutdown ends with an exception: only after a Start that did not finish.
LEMMA ThrowsUnfinished ==
  ASSUME SInv, NEW p \in Callers, StopChildThrows(p)
  PROVE  /\ active /\ ~initialized /\ ~starting /\ startStarted /\ SomeThreadless
         /\ \A m \in Children : m > 2 => child[m] = "absent"
         /\ stopping[p] # 0
  <1>1. stopping[p] \in Children /\ Victim(stopping[p]) \in Children
    BY VictimType DEF StopChildThrows
  <1> QED BY <1>1 DEF StopChildThrows, SomeThreadless, SInv, StoppingInv, ChildInv, Children

LEMMA ShutdownThrowsStep ==
  ASSUME SInv, NEW p \in Callers, StopChildThrows(p), [Next]_vars, crashed' \in BOOLEAN,
         runner' \in {runner, "cleanup", "none"},
         hasRan' = hasRan,
         p = "owner" => owner' \in {owner, "destroying"} /\ deleting /\ UNCHANGED <<runner, thread>>,
         p = "runner" => owner' \in {owner, "idle"} /\ runner \in {"loop", "finish", "cleanup"}
  PROVE  SInv'
  <1> USE DEF SInv, StopChildThrows
  <1>0. /\ active /\ ~initialized /\ ~starting /\ startStarted /\ SomeThreadless
        /\ \A m \in Children : m > 2 => child[m] = "absent"
        /\ stopping[p] # 0
    BY ThrowsUnfinished
  <1>1. IInv'
    BY Inductive
  <1>2. ServerTypeOK'
    BY LastNat DEF ServerTypeOK
  <1>3. StartingInv'
    BY <1>0, Zenon DEF StartingInv
  <1>4. StoppingInv'
    <2>1. \A q \in Callers : stopping'[q] = IF q = p THEN 0 ELSE stopping[q]
      BY DEF ServerTypeOK
    <2>2. \A q \in Callers : \A j \in Children : ~(j < 0)
      BY LastNat DEF Children
    <2>3. stopping'["runner"] # 0 => p # "runner" /\ runner' = runner
      BY <2>1 DEF Callers
    <2> QED BY <1>0, <2>1, <2>2, <2>3 DEF StoppingInv, Callers
  <1>5. ChildInv'
    BY <1>0 DEF ChildInv
  <1>6. DeletingInv'
    BY DEF DeletingInv, Callers
  <1>7. NoOrphans'
    BY <1>0 DEF NoOrphans, SomeThreadless
  <1> QED BY <1>1, <1>2, <1>3, <1>4, <1>5, <1>6, <1>7

\* Shutdown returns, to the loop, to the hook it was called from or to ~Server.
LEMMA ReturnStep ==
  ASSUME SInv, NEW p \in Callers, ShutdownReturned(p), UNCHANGED deleting, [Next]_vars,
         runner' \in {runner, "cleanup", "none"},
         runner' = "cleanup" => runner \in {"finish", "cleanup"},
         hasRan' = hasRan,
         p = "owner" => owner' = "destroying" /\ deleting /\ UNCHANGED <<runner, thread>>,
         p = "runner" => owner' \in {owner, "idle"} /\ runner \in {"loop", "finish", "cleanup"}
  PROVE  SInv'
  <1> USE DEF SInv, ShutdownReturned
  <1>0. AllAbsent
    BY ShutdownLeavesNone
  <1>1. IInv'
    BY Inductive
  <1>2. ServerTypeOK'
    BY LastNat DEF ServerTypeOK
  <1>3. ~starting
    BY LastNat DEF StartingInv, Callers
  <1>4. StartingInv'
    BY <1>3, Zenon DEF StartingInv
  <1>5. StoppingInv'
    <2>1. \A q \in Callers : \A j \in Children : child'[Victim(j)] = "absent"
      BY <1>0, VictimType DEF AllAbsent
    <2>2. \A q \in Callers : stopping'[q] # 0 => stopping[q] # 0 /\ q # p
      BY DEF ServerTypeOK, Callers
    <2>3. stopping'["runner"] # 0 => runner' = runner
      BY <2>2 DEF Callers, StoppingInv, DeletingInv
    <2> QED BY <2>1, <2>2, <2>3 DEF StoppingInv, Callers
  <1>6. ChildInv'
    BY DEF ChildInv, AllAbsent
  <1>7. DeletingInv'
    BY DEF DeletingInv, Callers
  <1>8. NoOrphans'
    BY <1>0 DEF NoOrphans, AllAbsent
  <1> QED BY <1>1, <1>2, <1>4, <1>5, <1>6, <1>7, <1>8

\* A child's thread ends, gets stuck or goes on.
LEMMA ChildMovesStep ==
  ASSUME SInv, UNCHANGED <<vars, active, startStarted, initialized, starting, logSock,
                           stopping, deleting, crashed>>,
         NEW k \in Children, child[k] \in {"running", "stuck"},
         NEW to \in {"running", "stuck", "ended"}, child' = [child EXCEPT ![k] = to]
  PROVE  SInv'
  <1> USE DEF SInv
  <1>0. \A m \in Children :
          /\ child'[m] = "absent" <=> child[m] = "absent"
          /\ child'[m] = "threadless" <=> child[m] = "threadless"
    BY DEF ServerTypeOK
  <1>1. IInv'
    BY Inductive
  <1>2. ServerTypeOK'
    BY DEF ServerTypeOK, ChildStates
  <1>3. StartingInv' /\ DeletingInv'
    BY DEF StartingInv, DeletingInv, vars
  <1>4. StoppingInv'
    BY <1>0, VictimType DEF StoppingInv, vars, Callers
  <1>5. ChildInv'
    BY <1>0 DEF ChildInv, AllAbsent
  <1>6. NoOrphans'
    BY <1>0 DEF NoOrphans, AllAbsent, SomeThreadless, vars
  <1> QED BY <1>1, <1>2, <1>3, <1>4, <1>5, <1>6

\* Where the owner's calls take it, and which of them touch the server's code.
LEMMA OwnerCalls ==
  ASSUME IInv, Owner, owner' \notin {"destroying", "destroyed"}
  PROVE  /\ (runner' = runner \/ (runner = "none" /\ runner' = "enter"))
         /\ thread' = "ended" => thread = "ended"
         /\ hasRan' = hasRan
  <1>1. runner = "none" \/ ~(RunAsync \/ Run)
    BY DEF RunAsync, Run, Launch, IInv, TypeOK, ThreadInv, RunnerStates
  <1> QED BY <1>1 DEF Owner, RunAsync, Run, Launch, WaitReady, WaitSleep, WakeSpuriously,
                  OwnerMoves, StopAsync, StopAlive, StopJoin, Destroy, DestroyJoin

LEMMA OwnerCallStep == ASSUME SInv, ServerOwner PROVE SInv'
  <1>1. [Next]_vars
    BY DEF ServerOwner, Next
  <1>2. (runner' = runner \/ (runner = "none" /\ runner' = "enter"))
    BY OwnerCalls DEF ServerOwner, SInv
  <1>3. thread' = "ended" => thread = "ended"
    BY OwnerCalls DEF ServerOwner, SInv
  <1>4. hasRan' = hasRan
    BY OwnerCalls DEF ServerOwner, SInv
  <1>5. ~deleting /\ UNCHANGED serverVars /\ owner' \notin {"destroying", "destroyed"}
    BY DEF ServerOwner
  <1>6. runner' \in {"start", "announce", "broadcast", "loop", "finish"} => initialized
    BY <1>2 DEF SInv, StartingInv
  <1>7. starting => runner' = runner
    BY <1>2 DEF SInv, StartingInv
  <1>8. stopping["runner"] # 0 => runner' = runner
    BY <1>2 DEF SInv, StoppingInv
  <1>9. hasRan' => initialized
    BY <1>4 DEF SInv, StartingInv
  <1> QED BY <1>1, <1>3, <1>5, <1>6, <1>7, <1>8, <1>9, DeviceStep

\* Steps of the pumping code that only Device describes.
LEMMA PumpingStep ==
  ASSUME SInv, UNCHANGED serverVars, Quiet,
         EnterRun \/ Announce \/ Broadcast \/ LeaveLoop \/ PumpThrows
  PROVE  SInv'
  <1> USE DEF Quiet
  <1>1. [Next]_vars
    BY DEF Next, Runner, Advance
  <1>2. runner \in {"enter", "announce", "broadcast", "loop"} /\ thread' = thread
    BY DEF EnterRun, Announce, Broadcast, LeaveLoop, PumpThrows, Throw
  <1>3. ~deleting /\ ~starting
    BY <1>2 DEF SInv, DeletingInv, StartingInv
  <1>4. owner' \in {owner, "idle"}
    BY DEF EnterRun, Announce, Broadcast, LeaveLoop, PumpThrows, Throw, Leave
  <1>5. hasRan' => initialized
    BY DEF SInv, StartingInv, EnterRun, Announce, Broadcast, LeaveLoop, PumpThrows
  <1>6. runner' \in {"start", "announce", "broadcast", "loop", "finish"} => initialized
    <2>1. CASE EnterRun
      <3>1. runner' \in {"first", "start", "cleanup", "none"} /\ (runner' = "start" => hasRan)
        BY <2>1 DEF EnterRun, Leave
      <3> QED BY <3>1 DEF SInv, StartingInv
    <2>2. CASE Announce \/ Broadcast \/ LeaveLoop
      BY <1>2, <2>2 DEF SInv, StartingInv, Announce, Broadcast, LeaveLoop
    <2>3. CASE PumpThrows
      BY <2>3 DEF PumpThrows, Throw, Leave
    <2> QED BY <2>1, <2>2, <2>3
  <1> QED BY <1>1, <1>2, <1>3, <1>4, <1>5, <1>6, DeviceStep

LEMMA ServerInductive ==
  ASSUME SInv, Endings \subseteq {"stopped"}, [ServerNext]_allVars
  PROVE  SInv'
  <1>1. CASE EnterStart \/ OpenLogSocket \/ CreateChild \/ FinishStart \/ StartThrows \/ Started
    BY <1>1, EnterStartStep, OpenLogSocketStep, CreateChildStep, FinishStartStep,
       StartThrowsStep, StartedStep
  <1>2. CASE CheckDevices \/ EnterRunFinish
    <2>1. EnterShutdown("runner") /\ UNCHANGED vars /\ UNCHANGED deleting
      BY <1>2 DEF CheckDevices, EnterRunFinish
    <2>2. runner \in {"loop", "finish", "cleanup"} /\ ~starting
      BY <1>2 DEF CheckDevices, EnterRunFinish, SInv, StartingInv
    <2> QED BY <2>1, <2>2, EnterShutdownStep DEF Callers
  <1>3. CASE EnterDestructor
    <2>1. thread # "live" /\ owner = "idle"
      BY <1>3 DEF EnterDestructor, MayDelete
    <2>2. runner = "none"
      BY <2>1 DEF SInv, IInv, TypeOK, ThreadInv
    <2>3. ~starting
      BY <2>2 DEF SInv, StartingInv
    <2> QED BY <1>3, <2>1, <2>2, <2>3, EnterShutdownStep DEF EnterDestructor, Callers
  <1>4. CASE \E p \in Callers : StopChild(p)
    BY <1>4, StopChildStep
  <1>5. CASE CheckDevicesReturns
    BY <1>5, ReturnStep DEF CheckDevicesReturns, Callers, vars
  <1>6. CASE ServerRunFinish
    <2>1. RunFinish \/ Cleanup
      BY <1>6 DEF ServerRunFinish
    <2>2. runner \in {"finish", "cleanup"} /\ runner' \in {"cleanup", "none"}
      BY <2>1 DEF RunFinish, Cleanup, Throw, Leave
    <2>3. hasRan' = hasRan /\ owner' \in {owner, "idle"} /\ [Next]_vars
      BY <2>1 DEF RunFinish, Cleanup, Throw, Leave, Next, Runner, Advance
    <2> QED BY <1>6, <2>2, <2>3, ReturnStep DEF ServerRunFinish, Callers
  <1>7. CASE DeleteSockets
    <2>1. [Next]_vars
      BY <1>7 DEF DeleteSockets, Next, Owner
    <2> QED BY <1>7, <2>1, ReturnStep DEF DeleteSockets, Destroy, OwnerMoves, Callers
  <1>8. CASE JoinServer
    <2>1. [Next]_vars
      BY <1>8 DEF JoinServer, Next, Owner
    <2>2. DestroyJoin /\ UNCHANGED serverVars
      BY <1>8 DEF JoinServer
    <2>3. IInv'
      BY <2>1, Inductive DEF SInv
    <2>5. ServerTypeOK' /\ StartingInv' /\ ChildInv'
      BY <2>2 DEF DestroyJoin, serverVars, SInv, ServerTypeOK, StartingInv, ChildInv, AllAbsent
    <2>6. StoppingInv'
      BY <2>2 DEF DestroyJoin, serverVars, SInv, StoppingInv, Callers
    <2>7. DeletingInv' /\ NoOrphans'
      BY <2>2 DEF DestroyJoin, serverVars, SInv, DeletingInv, NoOrphans, AllAbsent, SomeThreadless
    <2> QED BY <2>3, <2>5, <2>6, <2>7 DEF SInv
  <1>9. CASE LogWithoutSocket
    <2>1. IInv'
      BY <1>9, Inductive DEF LogWithoutSocket, SInv
    <2>2. ServerTypeOK' /\ StartingInv' /\ ChildInv' /\ DeletingInv'
      BY <1>9 DEF LogWithoutSocket, vars, SInv, ServerTypeOK, StartingInv, ChildInv,
                  DeletingInv, AllAbsent
    <2>3. StoppingInv' /\ NoOrphans'
      BY <1>9 DEF LogWithoutSocket, vars, SInv, StoppingInv, NoOrphans, AllAbsent,
                  SomeThreadless, Callers
    <2> QED BY <2>1, <2>2, <2>3 DEF SInv
  <1>10. CASE \/ \E k \in Children : ChildEnds(k)
              \/ \E k \in Processors : BlockInReceive(k) \/ MessageArrives(k)
    BY <1>10, FirstTwo, ChildMovesStep DEF ChildEnds, BlockInReceive, MessageArrives
  <1>11. CASE ServerOwner
    BY <1>11, OwnerCallStep
  <1>12. CASE SignalExit /\ UNCHANGED serverVars
    BY <1>12, DeviceStep DEF SignalExit, Next, SInv, StartingInv
  <1>13. CASE /\ Quiet
              /\ EnterRun \/ Announce \/ Broadcast \/ LeaveLoop \/ PumpThrows
              /\ UNCHANGED serverVars
    BY <1>13, PumpingStep
  <1>14. EnterRun \/ Announce \/ Broadcast => Quiet
    BY DEF EnterRun, Announce, Broadcast, Quiet, SInv, StoppingInv
  <1>15. CASE ShutdownThrows
    <2>1. PumpThrows \/ RunFinish \/ Cleanup
      BY <1>15 DEF ShutdownThrows
    <2>2. runner \in {"loop", "finish", "cleanup"} /\ runner' \in {"cleanup", "none"}
      BY <2>1 DEF PumpThrows, RunFinish, Cleanup, Throw, Leave
    <2>3. hasRan' = hasRan /\ owner' \in {owner, "idle"} /\ [Next]_vars
      BY <2>1 DEF PumpThrows, RunFinish, Cleanup, Throw, Leave, Next, Runner, Advance
    <2>4. StopChildThrows("runner") /\ crashed' \in BOOLEAN
      BY <1>15 DEF ShutdownThrows, SInv, ServerTypeOK
    <2> QED BY <2>2, <2>3, <2>4, ShutdownThrowsStep DEF Callers
  <1>16. CASE DestructorThrows
    <2>1. StopChildThrows("owner") /\ crashed' \in BOOLEAN /\ deleting
      BY <1>16 DEF DestructorThrows, SInv, ServerTypeOK
    <2>2. [Next]_vars
      BY <1>16 DEF DestructorThrows, Next, Owner
    <2>3. owner' \in {owner, "destroying"} /\ UNCHANGED <<runner, thread, hasRan>>
      BY <1>16 DEF DestructorThrows, Destroy, OwnerMoves, vars
    <2> QED BY <2>1, <2>2, <2>3, ShutdownThrowsStep DEF Callers
  <1>17. CASE UNCHANGED allVars
    BY <1>17, DeviceStep DEF allVars, vars, SInv, StartingInv
  <1> QED
    <2>1. CASE ServerAdvance
      BY <2>1, <1>1, <1>2, <1>4, <1>5, <1>6, <1>9, <1>13, <1>14, <1>15 DEF ServerAdvance, Callers
    <2>2. CASE ServerDestructor
      BY <2>2, <1>4, <1>7, <1>8, <1>16 DEF ServerDestructor, Callers
    <2>3. CASE ServerLoop
      BY <2>3, <1>13 DEF ServerLoop
    <2> QED BY <2>1, <2>2, <2>3, <1>3, <1>10, <1>11, <1>12, <1>17 DEF ServerNext

----------------------------------------------------------------------------
(* The theorems                                                            *)

\* The invariant of a server that is deleted only with no thread of it alive.
THEOREM ServerInvariance ==
  ASSUME Endings \subseteq {"stopped"} PROVE ServerSpec => []SInv
  <1>1. ServerInit => SInv
    BY ServerInitially
  <1>2. SInv /\ [ServerNext]_allVars => SInv'
    BY ServerInductive
  <1> QED BY <1>1, <1>2, PTL DEF ServerSpec

\* The state of the server is well-typed.
THEOREM ServerTypeCorrect ==
  ASSUME Endings \subseteq {"stopped"} PROVE ServerSpec => []ServerTypeOK
  <1>1. SInv => ServerTypeOK
    BY DEF SInv
  <1> QED BY <1>1, ServerInvariance, PTL

\* However Start, Pump or a child failed, Shutdown has deleted every child
\* when the server's thread has ended and when ~Server is through with it, but
\* for the store writer and the watcher when Start left one without a thread.
THEOREM Orphanless ==
  ASSUME Endings \subseteq {"stopped"} PROVE ServerSpec => []NoOrphans
  <1>1. SInv => NoOrphans
    BY DEF SInv
  <1> QED BY <1>1, ServerInvariance, PTL

\* While active is not signaled the loop has its full set of children, and a
\* server that has started has none without a thread.
THEOREM ServesCompletely ==
  ASSUME Endings \subseteq {"stopped"} PROVE ServerSpec => []ServingIsComplete
  <1>1. SInv => ServingIsComplete
    BY DEF SInv, ServerTypeOK, ChildStates, StartingInv, ChildInv, ServingIsComplete,
           SomeThreadless
  <1> QED BY <1>1, ServerInvariance, PTL

----------------------------------------------------------------------------
(* Why Shutdown and ~Server return                                         *)

\* The child Shutdown stops next was told to end.  It has a thread, unless it is
\* the store writer or the watcher of a Start that found no thread for it.
WaitsForTold ==
  \A p \in Callers :
    stopping[p] \in Children =>
      /\ active
      /\ child[Victim(stopping[p])] = "threadless" =>
           Victim(stopping[p]) \in {1, 2} /\ ~initialized

\* Shutdown waits for no child that was not told: active is signaled before
\* the first join, and is not reset before the last; and a Shutdown that throws
\* is one of a server whose Start had failed.
THEOREM ShutdownIsHeard ==
  ASSUME Endings \subseteq {"stopped"} PROVE ServerSpec => []WaitsForTold
  <1>1. SInv => WaitsForTold
    <2> SUFFICES ASSUME SInv, NEW p \in Callers, stopping[p] \in Children
                 PROVE  /\ active
                        /\ child[Victim(stopping[p])] = "threadless" =>
                             Victim(stopping[p]) \in {1, 2} /\ ~initialized
      BY DEF WaitsForTold
    <2>1. Victim(stopping[p]) \in Children
      BY VictimType
    <2>2. stopping[p] # 0
      BY DEF Children
    <2> QED BY <2>1, <2>2 DEF SInv, StoppingInv, ChildInv
  <1> QED BY <1>1, ServerInvariance, PTL

\* ~Server is in its Shutdown, or in ~Device with no thread left to join, or the
\* process died of the exception that came out of it.
DestructorPlace ==
  deleting =>
    \/ owner = "idle" /\ stopping["owner"] \in 1..(Last + 1)
    \/ owner \in {"destroying", "destroyed"} /\ stopping["owner"] = 0 /\ thread # "live"
    \/ crashed

LEMMA PlaceInductive ==
  ASSUME SInv, Endings \subseteq {"stopped"}, DestructorPlace, [ServerNext]_allVars
  PROVE  DestructorPlace'
  <1> USE DEF DestructorPlace
  <1>0. crashed => UNCHANGED allVars
    BY DEF ServerNext, ServerAdvance, ServerDestructor
  <1>1. CASE UNCHANGED allVars
    BY <1>1 DEF allVars, vars, serverVars
  <1> SUFFICES ASSUME ~crashed PROVE DestructorPlace'
    BY <1>0, <1>1
  <1>2. CASE EnterDestructor
    <2>1. stopping'["owner"] = 1 /\ owner' = "idle"
      BY <1>2 DEF EnterDestructor, EnterShutdown, SInv, ServerTypeOK, Callers, vars
    <2> QED BY <2>1, LastNat
  <1>3. CASE StopChild("owner")
    <2>1. stopping["owner"] \in Children /\ stopping'["owner"] = stopping["owner"] + 1
      BY <1>3 DEF StopChild, SInv, ServerTypeOK, Callers
    <2>2. stopping'["owner"] \in 1..(Last + 1)
      BY <2>1, LastNat DEF Children
    <2>3. owner' = owner /\ stopping["owner"] # 0
      BY <1>3, <2>1 DEF StopChild, vars, Children
    <2>4. deleting' = deleting
      BY <1>3 DEF StopChild
    <2> QED BY <2>2, <2>3, <2>4
  <1>4. CASE DeleteSockets
    <2>1. owner' = "destroying" /\ thread' = thread /\ stopping'["owner"] = 0
      BY <1>4 DEF DeleteSockets, Destroy, OwnerMoves, ShutdownReturned, SInv, ServerTypeOK, Callers
    <2>2. thread # "live"
      BY <1>4 DEF DeleteSockets, SInv, DeletingInv
    <2> QED BY <2>1, <2>2
  <1>5. CASE JoinServer
    <2>1. owner = "destroying" /\ owner' = "destroyed" /\ thread' = "none"
      BY <1>5 DEF JoinServer, DestroyJoin
    <2>2. deleting' = deleting /\ stopping' = stopping
      BY <1>5 DEF JoinServer, serverVars
    <2> QED BY <2>1, <2>2
  <1>6. CASE ServerOwner
    BY <1>6 DEF ServerOwner, serverVars
  <1>7. CASE SignalExit /\ UNCHANGED serverVars
    BY <1>7 DEF SignalExit, serverVars
  <1>8. CASE \/ \E k \in Children : ChildEnds(k)
             \/ \E k \in Processors : BlockInReceive(k) \/ MessageArrives(k)
    BY <1>8 DEF ChildEnds, BlockInReceive, MessageArrives, vars
  <1>9. CASE DestructorThrows
    <2>1. stopping["owner"] # 0 /\ stopping'["owner"] = 0 /\ thread # "live"
      BY <1>9 DEF DestructorThrows, StopChildThrows, Children, SInv, DeletingInv,
                   ServerTypeOK, Callers
    <2> QED BY <1>9, <2>1 DEF DestructorThrows, Destroy, OwnerMoves
  <1>10. CASE ServerAdvance \/ ServerLoop
    <2>1. SUFFICES ASSUME deleting' PROVE DestructorPlace'
      OBVIOUS
    <2>2. deleting' = deleting
      BY <1>10 DEF ServerAdvance, ServerLoop, EnterStart, OpenLogSocket, CreateChild, FinishStart, Started,
                  StartThrows, CheckDevices, CheckDevicesReturns, EnterRunFinish,
                  ServerRunFinish, LogWithoutSocket, StopChild, ShutdownThrows,
                  StopChildThrows, serverVars
    <2>3. runner = "none"
      BY <2>1, <2>2 DEF SInv, DeletingInv
    <2>4. stopping["runner"] = 0 /\ ~starting
      BY <2>3 DEF SInv, StoppingInv, StartingInv, Callers
    <2>5. FALSE
      <3>1. CASE ServerLoop
        BY <3>1, <2>3 DEF ServerLoop, LeaveLoop, PumpThrows, Throw
      <3>2. CASE ServerAdvance
        BY <3>2, <2>3, <2>4, LastNat
           DEF ServerAdvance, EnterStart, OpenLogSocket, CreateChild, ComesNext, FinishStart,
               Started, ShutdownThrows, StopChildThrows, StartThrows, CheckDevices, CheckDevicesReturns, EnterRunFinish,
               ServerRunFinish, LogWithoutSocket, StopChild, FirstRun, RunStart,
               LeaveLoop, EnterRun, Announce, Broadcast, Children, RunFinish, Cleanup, Throw
      <3> QED BY <1>10, <3>1, <3>2
    <2> QED BY <2>5
  <1> QED BY <1>2, <1>3, <1>4, <1>5, <1>6, <1>7, <1>8, <1>1, <1>10, <1>9
          DEF ServerNext, ServerDestructor

\* ~Server has always one next step, and all it can wait for there is a child
\* that was told to end: ~Device finds no thread alive that nobody told, also
\* when it is reached by an exception.
THEOREM DestructorGoesOn ==
  ASSUME Endings \subseteq {"stopped"} PROVE ServerSpec => []DestructorPlace
  <1>1. ServerInit => DestructorPlace
    BY DEF ServerInit, DestructorPlace
  <1>2. SInv /\ DestructorPlace /\ [ServerNext]_allVars => DestructorPlace'
    BY PlaceInductive
  <1> QED BY <1>1, <1>2, ServerInvariance, PTL DEF ServerSpec

----------------------------------------------------------------------------
(* What a server dies of                                                   *)

\* What may kill the process: a server without its socket has no children, and
\* what makes ~Server throw is a child without a thread.
CrashInv ==
  /\ ~logSock => AllAbsent /\ ~initialized
  /\ crashed => ~logSock \/ (deleting /\ SomeThreadless)

\* Two ways to die.
DiesUnserving ==
  crashed =>
    \/ ~logSock /\ AllAbsent /\ ~initialized
    \/ deleting /\ SomeThreadless

\* OnRunFinish logs to a NULL socket only on a server on which Start was not
\* called or threw before it had made one, and which has no children; all else
\* the server may die of is a StopAsync that throws out of ~Server.
THEOREM CrashCauses == ServerSpec => []DiesUnserving
  <1>1. ServerInit => CrashInv
    BY DEF ServerInit, CrashInv, AllAbsent
  <1>2. ASSUME CrashInv, [ServerNext]_allVars PROVE CrashInv'
    <2> USE <1>2 DEF CrashInv, AllAbsent, SomeThreadless
    <2>0. crashed => UNCHANGED allVars
      BY DEF ServerNext, ServerAdvance, ServerDestructor
    <2>10. CASE UNCHANGED allVars
      BY <2>10 DEF allVars, serverVars
    <2> SUFFICES ASSUME ~crashed PROVE CrashInv'
      BY <2>0, <2>10
    <2>1. CASE EnterStart \/ OpenLogSocket \/ Started \/ CheckDevices \/ CheckDevicesReturns
               \/ EnterRunFinish \/ ServerRunFinish \/ LogWithoutSocket \/ ShutdownThrows
      BY <2>1 DEF EnterStart, OpenLogSocket, Started, CheckDevices, CheckDevicesReturns,
                  EnterRunFinish, ServerRunFinish, LogWithoutSocket, ShutdownThrows,
                  StopChildThrows, EnterShutdown, ShutdownReturned, serverVars
    <2>2. CASE CreateChild \/ FinishStart
      BY <2>2, FirstTwo DEF CreateChild, ComesNext, FinishStart
    <2>3. CASE StartThrows
      BY <2>3 DEF StartThrows, NoThreadForChild, ComesNext
    <2>4. CASE \E p \in Callers : StopChild(p)
      BY <2>4, VictimType DEF StopChild
    <2>5. CASE DestructorThrows
      BY <2>5, VictimType DEF DestructorThrows, StopChildThrows
    <2>6. CASE DeleteSockets \/ JoinServer
      BY <2>6 DEF DeleteSockets, JoinServer, ShutdownReturned, serverVars
    <2>7. CASE UNCHANGED serverVars
      BY <2>7 DEF serverVars
    <2>8. CASE EnterDestructor
      BY <2>8 DEF EnterDestructor, EnterShutdown
    <2>9. CASE \/ \E k \in Children : ChildEnds(k)
               \/ \E k \in Processors : BlockInReceive(k) \/ MessageArrives(k)
      BY <2>9, FirstTwo DEF ChildEnds, BlockInReceive, MessageArrives
    <2> QED BY <2>1, <2>2, <2>3, <2>4, <2>5, <2>6, <2>7, <2>8, <2>9, <2>10
            DEF ServerNext, ServerAdvance, ServerDestructor, ServerLoop, ServerOwner, Callers
  <1>3. CrashInv /\ [ServerNext]_allVars => CrashInv'
    BY <1>2
  <1>4. CrashInv => DiesUnserving
    BY DEF CrashInv, DiesUnserving
  <1> QED BY <1>1, <1>3, <1>4, PTL DEF ServerSpec

=============================================================================
