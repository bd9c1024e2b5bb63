---------------------------- MODULE DeviceProofs ----------------------------
(***************************************************************************)
(* Proofs about Device, for every choice of throwing hooks and any number  *)
(* of runs.                                                                *)
(***************************************************************************)
EXTENDS Device, TLAPS

\* The thread is live exactly while code started by RunAsync runs; other code
\* runs only inside the owner's call of Run.
ThreadInv ==
  /\ thread = "live" => runner # "none" /\ mode = "async"
  /\ runner # "none" /\ mode = "async" => thread = "live"
  /\ runner # "none" /\ mode = "sync" => owner = "inRun" /\ thread = "none"
  /\ owner = "inRun" => runner # "none" /\ mode = "sync"
  /\ thread = "ended" => finished
  /\ runner = "cleanup" => mode = "async"

\* async_wait is signaled, and running is set, only behind OnRunStart.
StartInv ==
  /\ runner \in {"announce", "broadcast", "loop", "finish"} => started
  /\ owner \in {"launched", "checked", "asleep"} /\ ready => started

IInv == TypeOK /\ ThreadInv /\ StartInv

LEMMA Initially == ASSUME Init PROVE IInv
  <1>1. TypeOK
    <2>1. 0 \in 0..MaxRuns
      BY DeviceAssumption
    <2> QED BY <2>1, Zenon DEF Init, TypeOK, OwnerStates, RunnerStates
  <1>2. ThreadInv /\ StartInv
    BY Zenon DEF Init, ThreadInv, StartInv
  <1> QED BY <1>1, <1>2 DEF IInv

LEMMA OwnerStep == ASSUME IInv, Owner PROVE IInv'
  <1> USE DeviceAssumption DEF IInv, TypeOK, ThreadInv, StartInv, OwnerStates, RunnerStates
  <1>1. CASE RunAsync
    <2>1. runs' \in 0..MaxRuns
      BY <1>1 DEF RunAsync, Launch
    <2>2. TypeOK'
      BY <1>1, <2>1 DEF RunAsync, Launch
    <2>3. ThreadInv' /\ StartInv'
      BY <1>1 DEF RunAsync, Launch
    <2> QED BY <2>2, <2>3
  <1>2. CASE Run
    <2>1. runs' \in 0..MaxRuns
      BY <1>2 DEF Run, Launch
    <2>2. TypeOK'
      BY <1>2, <2>1 DEF Run, Launch
    <2>3. ThreadInv' /\ StartInv'
      BY <1>2 DEF Run, Launch
    <2> QED BY <2>2, <2>3
  <1>3. CASE WaitReady
    BY <1>3 DEF WaitReady, OwnerMoves
  <1>4. CASE WaitSleep
    BY <1>4 DEF WaitSleep, OwnerMoves
  <1>5. CASE WakeSpuriously
    BY <1>5 DEF WakeSpuriously, OwnerMoves
  <1>6. CASE StopAsync
    BY <1>6 DEF StopAsync
  <1>7. CASE StopAlive
    BY <1>7 DEF StopAlive
  <1>8. CASE StopJoin
    BY <1>8 DEF StopJoin
  <1>9. CASE Destroy
    BY <1>9 DEF Destroy, OwnerMoves
  <1>10. CASE DestroyJoin
    BY <1>10 DEF DestroyJoin
  <1> QED BY <1>1, <1>2, <1>3, <1>4, <1>5, <1>6, <1>7, <1>8, <1>9, <1>10 DEF Owner

LEMMA RunnerStep == ASSUME IInv, Runner PROVE IInv'
  <1> USE DeviceAssumption DEF IInv, TypeOK, ThreadInv, StartInv, OwnerStates, RunnerStates
  <1>1. CASE EnterRun
    BY <1>1 DEF EnterRun, Leave
  <1>2. CASE FirstRun
    <2>1. TypeOK'
      <3>1. firsts' \in Nat
        BY <1>2 DEF FirstRun
      <3>2. running' \in BOOLEAN /\ owner' \in OwnerStates /\ runner' \in RunnerStates
        BY <1>2 DEF FirstRun, Throw, Leave
      <3> QED BY <1>2, <3>1, <3>2 DEF FirstRun
    <2>2. ThreadInv'
      BY <1>2 DEF FirstRun, Throw, Leave
    <2>3. StartInv'
      BY <1>2 DEF FirstRun, Throw, Leave
    <2> QED BY <2>1, <2>2, <2>3
  <1>3. CASE RunStart
    <2>1. TypeOK'
      BY <1>3 DEF RunStart, Throw, Leave
    <2>2. ThreadInv'
      BY <1>3 DEF RunStart, Throw, Leave
    <2>3. StartInv'
      BY <1>3 DEF RunStart, Throw, Leave
    <2> QED BY <2>1, <2>2, <2>3
  <1>4. CASE Announce
    BY <1>4 DEF Announce
  <1>5. CASE Broadcast
    BY <1>5 DEF Broadcast
  <1>6. CASE LeaveLoop
    BY <1>6 DEF LeaveLoop
  <1>9. CASE PumpThrows
    BY <1>9 DEF PumpThrows, Throw, Leave
  <1>7. CASE RunFinish
    BY <1>7 DEF RunFinish, Throw, Leave
  <1>8. CASE Cleanup
    <2>1. TypeOK'
      BY <1>8 DEF Cleanup
    <2>2. ThreadInv'
      BY <1>8 DEF Cleanup
    <2>3. StartInv'
      BY <1>8 DEF Cleanup
    <2> QED BY <2>1, <2>2, <2>3
  <1> QED BY <1>1, <1>2, <1>3, <1>4, <1>5, <1>6, <1>7, <1>8, <1>9 DEF Runner, Advance

LEMMA Inductive == ASSUME IInv, [Next]_vars PROVE IInv'
  <1>1. CASE SignalExit
    BY <1>1 DEF SignalExit, IInv, TypeOK, ThreadInv, StartInv
  <1>2. CASE Owner
    BY <1>2, OwnerStep
  <1>3. CASE Runner
    BY <1>3, RunnerStep
  <1>4. CASE UNCHANGED vars
    BY <1>4 DEF vars, IInv, TypeOK, ThreadInv, StartInv
  <1> QED BY <1>1, <1>2, <1>3, <1>4 DEF Next

\* The invariant holds in every reachable state of a device.
THEOREM Invariance == Spec => []IInv
  <1>1. Init => IInv
    BY Initially
  <1>2. IInv /\ [Next]_vars => IInv'
    BY Inductive
  <1> QED BY <1>1, <1>2, PTL DEF Spec

\* The state of owner and device code is well-typed.
THEOREM TypeCorrect == Spec => []TypeOK
  <1>1. IInv => TypeOK
    BY DEF IInv
  <1> QED BY <1>1, Invariance, PTL

\* A thread that ended has been through OnRunFinish (AsyncExecStart).
THEOREM Cleaned == Spec => []CleanedUp
  <1>1. IInv => CleanedUp
    BY DEF IInv, ThreadInv, CleanedUp
  <1> QED BY <1>1, Invariance, PTL

\* After StopAsync no thread of the device is left, whatever its hooks threw.
THEOREM Stopped == Spec => StopLeavesNoThread
  <1> DEFINE A == (owner \in {"stopping", "joining"} /\ owner' = "idle") =>
                     thread' # "live" /\ runner' = "none" /\ running' = FALSE
  <1>1. ASSUME IInv, [Next]_vars PROVE [A]_vars
    <2> SUFFICES ASSUME owner \in {"stopping", "joining"}, owner' = "idle"
                 PROVE  thread' # "live" /\ runner' = "none" /\ running' = FALSE
      OBVIOUS
    <2>1. StopAlive \/ StopJoin
      BY <1>1 DEF Next, SignalExit, Owner, Runner, Advance, RunAsync, Run, Launch, WaitReady,
                  WaitSleep, WakeSpuriously, OwnerMoves, StopAsync, Destroy, DestroyJoin,
                  EnterRun, FirstRun, RunStart, Announce, Broadcast, LeaveLoop, PumpThrows,
                  RunFinish,
                  Cleanup, Throw, Leave, vars, IInv, TypeOK, ThreadInv, RunnerStates
    <2>2. thread = "ended" /\ thread' # "live" /\ runner' = runner /\ running' = FALSE
      BY <2>1 DEF StopAlive, StopJoin
    <2>3. runner = "none"
      BY <1>1, <2>2 DEF IInv, TypeOK, ThreadInv
    <2> QED BY <2>2, <2>3
  <1>2. IInv /\ [Next]_vars => [A]_vars
    BY <1>1
  <1> QED BY <1>2, Invariance, PTL DEF Spec, StopLeavesNoThread

\* RunAsync never returns before OnRunStart has, unless woken spuriously.
THEOREM StartedFirst == Spec => ReturnsAfterStart
  <1> DEFINE A == (owner \in {"launched", "asleep"} /\ owner' = "idle" /\ ~WakeSpuriously)
                    => started
  <1>1. ASSUME IInv, [Next]_vars PROVE [A]_vars
    <2> SUFFICES ASSUME owner \in {"launched", "asleep"}, owner' = "idle", ~WakeSpuriously
                 PROVE  started
      OBVIOUS
    <2>1. WaitReady \/ Broadcast
      BY <1>1 DEF Next, SignalExit, Owner, Runner, Advance, RunAsync, Run, Launch,
                  WaitSleep, OwnerMoves, StopAsync, StopAlive, StopJoin,
                  Destroy, DestroyJoin,
                  EnterRun, FirstRun, RunStart, Announce, LeaveLoop, PumpThrows,
                  RunFinish,
                  Cleanup, Throw, Leave, vars, IInv, TypeOK, ThreadInv, RunnerStates
    <2> QED BY <1>1, <2>1 DEF WaitReady, OwnerMoves, Broadcast, IInv, StartInv
  <1>2. IInv /\ [Next]_vars => [A]_vars
    BY <1>1
  <1> QED BY <1>2, Invariance, PTL DEF Spec, ReturnsAfterStart

\* A device is not reported as running once its thread has ended: what
\* Server::CheckDevices relies on.
THEOREM Honest == Spec => []RunningIsHonest
  <1>1. Init => RunningIsHonest
    BY DEF Init, RunningIsHonest
  <1>2. ASSUME IInv, RunningIsHonest, [Next]_vars PROVE RunningIsHonest'
    <2> USE <1>2 DEF IInv, TypeOK, ThreadInv, RunningIsHonest
    <2>1. CASE SignalExit
      BY <2>1 DEF SignalExit
    <2>2. CASE Owner
      BY <2>2 DEF Owner, RunAsync, Run, Launch, WaitReady, WaitSleep, WakeSpuriously,
                  OwnerMoves, StopAsync, StopAlive, StopJoin, Destroy, DestroyJoin
    <2>3. CASE Runner
      <3>1. mode' = mode
        BY <2>3 DEF Runner, Advance, EnterRun, FirstRun, RunStart, Announce, Broadcast,
                    LeaveLoop, PumpThrows, RunFinish, Cleanup
      <3>2. mode = "async" => runner' # "none" \/ Cleanup
        BY <2>3 DEF Runner, Advance, EnterRun, FirstRun, RunStart, Announce, Broadcast,
                    LeaveLoop, PumpThrows, RunFinish, Throw, Leave
      <3>3. Cleanup => running' = FALSE
        BY DEF Cleanup
      <3> QED BY <3>1, <3>2, <3>3
    <2>4. CASE UNCHANGED vars
      BY <2>4 DEF vars
    <2> QED BY <2>1, <2>2, <2>3, <2>4 DEF Next
  <1>3. IInv /\ RunningIsHonest /\ [Next]_vars => RunningIsHonest'
    BY <1>2
  <1> QED BY <1>1, <1>3, Invariance, PTL DEF Spec

----------------------------------------------------------------------------
(* Why StopAsync returns                                                   *)

\* StopAsync waits for a thread that exists and has been told to end.
JoinedIsTold == owner \in {"stopping", "joining"} => cw /\ thread # "none"

\* How far the code that pumps the device is from its end.
Rank == [s \in RunnerStates |->
  CASE s = "none"      -> 0
    [] s = "cleanup"   -> 1
    [] s = "finish"    -> 2
    [] s = "loop"      -> 3
    [] s = "broadcast" -> 4
    [] s = "announce"  -> 5
    [] s = "start"     -> 6
    [] s = "first"     -> 7
    [] s = "enter"     -> 8]

\* While it is waited for, that code only comes nearer to its end.
JoinAdvances ==
  owner \in {"stopping", "joining"} =>
    runner' = runner \/ Rank[runner'] < Rank[runner]

LEMMA RankFacts ==
  /\ Rank["none"] = 0 /\ Rank["cleanup"] = 1 /\ Rank["finish"] = 2
  /\ Rank["loop"] = 3 /\ Rank["broadcast"] = 4 /\ Rank["announce"] = 5
  /\ Rank["start"] = 6 /\ Rank["first"] = 7 /\ Rank["enter"] = 8
  BY DEF Rank, RunnerStates

\* Whichever way a step of the pumping code goes, it goes towards the end.
LEMMA RunnerDescends == ASSUME IInv, Runner PROVE Rank[runner'] < Rank[runner]
  <1>1. CASE EnterRun
    <2>1. runner = "enter" /\ runner' \in {"first", "start", "cleanup", "none"}
      BY <1>1 DEF EnterRun, Leave
    <2> QED BY <2>1, RankFacts
  <1>2. CASE FirstRun
    <2>1. runner = "first" /\ runner' \in {"start", "cleanup", "none"}
      BY <1>2 DEF FirstRun, Throw, Leave
    <2> QED BY <2>1, RankFacts
  <1>3. CASE RunStart
    <2>1. runner = "start" /\ runner' \in {"announce", "cleanup", "none"}
      BY <1>3 DEF RunStart, Throw, Leave
    <2> QED BY <2>1, RankFacts
  <1>4. CASE Announce \/ Broadcast \/ LeaveLoop
    BY <1>4, RankFacts DEF Announce, Broadcast, LeaveLoop
  <1>5. CASE RunFinish \/ PumpThrows
    <2>1. runner \in {"loop", "finish"} /\ runner' \in {"cleanup", "none"}
      BY <1>5 DEF RunFinish, PumpThrows, Throw, Leave
    <2> QED BY <2>1, RankFacts
  <1>6. CASE Cleanup
    BY <1>6, RankFacts DEF Cleanup
  <1> QED BY <1>1, <1>2, <1>3, <1>4, <1>5, <1>6 DEF Runner, Advance

\* Nobody joins a thread that was not told to end, or that is not there: the
\* semaphore is signaled before the join and never reset (StopAsync).
THEOREM StopIsHeard == Spec => []JoinedIsTold
  <1>1. Init => JoinedIsTold
    BY DEF Init, JoinedIsTold
  <1>2. ASSUME IInv, JoinedIsTold, [Next]_vars PROVE JoinedIsTold'
    <2> USE <1>2 DEF JoinedIsTold
    <2>1. CASE SignalExit
      BY <2>1 DEF SignalExit
    <2>2. CASE Owner
      BY <2>2 DEF Owner, RunAsync, Run, Launch, WaitReady, WaitSleep, WakeSpuriously,
                  OwnerMoves, StopAsync, StopAlive, StopJoin, Destroy, DestroyJoin
    <2>3. CASE Runner
      <3>1. cw' = cw
        BY <2>3 DEF Runner, Advance, EnterRun, FirstRun, RunStart, Announce, Broadcast,
                    LeaveLoop, PumpThrows, RunFinish, Cleanup
      <3>2. thread' \in {thread, "ended"} /\ owner' \in {owner, "idle"}
        BY <2>3 DEF Runner, Advance, EnterRun, FirstRun, RunStart, Announce, Broadcast,
                    LeaveLoop, PumpThrows, RunFinish, Cleanup, Throw, Leave
      <3> QED BY <3>1, <3>2
    <2>4. CASE UNCHANGED vars
      BY <2>4 DEF vars
    <2> QED BY <2>1, <2>2, <2>3, <2>4 DEF Next
  <1>3. IInv /\ JoinedIsTold /\ [Next]_vars => JoinedIsTold'
    BY <1>2
  <1> QED BY <1>1, <1>3, Invariance, PTL DEF Spec

\* While StopAsync waits, every step of the thread takes it nearer to its end,
\* at most eight of them, whatever its hooks throw.
THEOREM StopAdvances == Spec => [][JoinAdvances]_vars
  <1>1. ASSUME IInv, [Next]_vars PROVE JoinAdvances
    <2> SUFFICES ASSUME owner \in {"stopping", "joining"}, runner' # runner
                 PROVE  Rank[runner'] < Rank[runner]
      BY DEF JoinAdvances
    <2>1. Runner
      BY <1>1 DEF Next, SignalExit, Owner, RunAsync, Run, Launch, WaitReady, WaitSleep,
                  WakeSpuriously, OwnerMoves, StopAsync, StopAlive, StopJoin, Destroy,
                  DestroyJoin, vars
    <2> QED BY <1>1, <2>1, RunnerDescends
  <1>2. IInv /\ [Next]_vars => JoinAdvances
    BY <1>1
  <1> QED BY <1>2, Invariance, PTL DEF Spec

----------------------------------------------------------------------------
(* Why RunAsync may not return                                             *)

\* The thread is on its way out, or out, and has not signaled async_wait.
Abandoned ==
  owner \in {"launched", "checked", "asleep"} /\ ~ready /\ runner \in {"cleanup", "none"}

\* A hook that throws before Run signals async_wait leaves RunAsync waiting for
\* ever: the exit semaphore does not release it, only a spurious wake-up does.
THEOREM AbandonedForGood == Spec => [][Abandoned => Abandoned' \/ WakeSpuriously]_vars
  <1>1. ASSUME IInv, [Next]_vars, Abandoned, ~WakeSpuriously PROVE Abandoned'
    <2> USE <1>1 DEF Abandoned
    <2>1. CASE SignalExit
      BY <2>1 DEF SignalExit
    <2>2. CASE Owner
      BY <2>2 DEF Owner, RunAsync, Run, Launch, WaitReady, WaitSleep, OwnerMoves,
                  StopAsync, StopAlive, StopJoin, Destroy, DestroyJoin
    <2>3. CASE Runner
      <3>1. Cleanup
        BY <2>3 DEF Runner, Advance, EnterRun, FirstRun, RunStart, Announce, Broadcast,
                    LeaveLoop, PumpThrows, RunFinish, Throw
      <3> QED BY <3>1 DEF Cleanup
    <2>4. CASE UNCHANGED vars
      BY <2>4 DEF vars
    <2> QED BY <2>1, <2>2, <2>3, <2>4 DEF Next
  <1>2. IInv /\ [Next]_vars => (Abandoned => Abandoned' \/ WakeSpuriously)
    BY <1>1
  <1> QED BY <1>2, Invariance, PTL DEF Spec

=============================================================================
