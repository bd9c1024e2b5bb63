------------------------------- MODULE Device -------------------------------
(***************************************************************************)
(* A zippylog device: the life of one Device object, from its owner's      *)
(* calls to Run, RunAsync, StopAsync and the destructor to the steps of    *)
(* the thread that pumps it, with the two ConditionalWaits between them.   *)
(*                                                                         *)
(* The exit semaphore is shared: any device or signal handler that holds   *)
(* it may signal it at any time, and nothing resets it.  What the derived  *)
(* class does in its hooks is left open, but each of them may throw.       *)
(***************************************************************************)
EXTENDS Naturals

CONSTANTS
  Modes,    \* how the owner runs the device: "async" (RunAsync), "sync" (Run)
  Throwing, \* the hooks that may throw: "first", "start", "loop", "finish"
  Spurious, \* whether pthread_cond_wait may return without a broadcast
  MaxRuns   \* bound: calls of Run and RunAsync

ASSUME DeviceAssumption ==
  /\ Modes \subseteq {"async", "sync"}
  /\ Throwing \subseteq {"first", "start", "loop", "finish"}
  /\ Spurious \in BOOLEAN
  /\ MaxRuns \in Nat

VARIABLES
  cw,       \* the exit semaphore is signaled
  ready,    \* async_wait is signaled
  thread,   \* the Thread object: "none", "live", "ended" (not yet joined)
  owner,    \* where the owner's call is, below
  runner,   \* where the code that pumps the device is, below
  mode,     \* which call started that code
  running,  \* Device::running
  hasRan,   \* Device::has_ran
  runs,     \* calls so far
  firsts,   \* history: calls of OnFirstRun
  started,  \* history: OnRunStart returned in this run
  finished  \* history: OnRunFinish was called since then

vars == <<cw, ready, thread, owner, runner, mode, running, hasRan, runs,
          firsts, started, finished>>

(***************************************************************************)
(* idle        in no call                                                  *)
(* launched    RunAsync created the thread and entered async_wait.Wait(-1) *)
(* checked     Wait saw the semaphore unsignaled                           *)
(* asleep      Wait is in pthread_cond_wait                                *)
(* inRun       inside Run                                                  *)
(* stopping    StopAsync signaled the exit semaphore                       *)
(* joining     in pthread_join                                             *)
(* destroying  the destructor joins the thread                             *)
(* destroyed                                                               *)
(***************************************************************************)
OwnerStates == {"idle", "launched", "checked", "asleep", "inRun", "stopping",
                "joining", "destroying", "destroyed"}

(***************************************************************************)
(* none, enter, loop and "cleanup" (AsyncExecStart's OnRunFinish) are      *)
(* places in Run and AsyncExecStart; first, start and finish are about to  *)
(* call the hook; announce and broadcast are the two halves of             *)
(* async_wait.Signal().                                                    *)
(***************************************************************************)
RunnerStates == {"none", "enter", "first", "start", "announce", "broadcast",
                 "loop", "finish", "cleanup"}

Init ==
  /\ cw = FALSE
  /\ ready = FALSE
  /\ thread = "none"
  /\ owner = "idle"
  /\ runner = "none"
  /\ mode = "async"
  /\ running = FALSE
  /\ hasRan = FALSE
  /\ runs = 0
  /\ firsts = 0
  /\ started = FALSE
  /\ finished = FALSE

\* ConditionalWait::Signal on the exit semaphore, by whoever shares it.
SignalExit ==
  /\ ~cw
  /\ cw' = TRUE
  /\ UNCHANGED <<ready, thread, owner, runner, mode, running, hasRan, runs,
                 firsts, started, finished>>

----------------------------------------------------------------------------
(* The owner                                                               *)

Launch(m) ==
  /\ owner = "idle"
  /\ m \in Modes
  /\ runs < MaxRuns
  /\ runs' = runs + 1
  /\ mode' = m
  /\ runner' = "enter"
  /\ started' = FALSE
  /\ finished' = FALSE

\* Device::RunAsync returns at once if the exit semaphore is signaled, and
\* throws if there is a thread already.
RunAsync ==
  /\ Launch("async")
  /\ ~cw
  /\ thread = "none"
  /\ ready' = FALSE
  /\ thread' = "live"
  /\ owner' = "launched"
  /\ UNCHANGED <<cw, running, hasRan, firsts>>

\* Device::Run on the owner's thread; it is not called beside a thread.
Run ==
  /\ Launch("sync")
  /\ thread = "none"
  /\ owner' = "inRun"
  /\ UNCHANGED <<cw, ready, thread, running, hasRan, firsts>>

OwnerMoves(from, to) ==
  /\ owner = from
  /\ owner' = to
  /\ UNCHANGED <<cw, ready, thread, runner, mode, running, hasRan, runs, firsts,
                 started, finished>>

\* async_wait.Wait(-1): the flag is read without the mutex ...
WaitReady ==
  \/ ready /\ OwnerMoves("launched", "idle")
  \/ ~ready /\ OwnerMoves("launched", "checked")

\* ... and is not read again before pthread_cond_wait, nor after it.
WaitSleep == OwnerMoves("checked", "asleep")

WakeSpuriously == Spurious /\ OwnerMoves("asleep", "idle")

\* mutant: StopAsync joins without signaling
StopAsyncMutant ==
  /\ owner = "idle"
  /\ thread # "none"
  /\ owner' = "stopping"
  /\ UNCHANGED <<cw, ready, thread, runner, mode, running, hasRan, runs, firsts,
                 started, finished>>

StopAsync ==
  /\ owner = "idle"
  /\ thread # "none"
  /\ cw' = TRUE
  /\ owner' = "stopping"
  /\ UNCHANGED <<ready, thread, runner, mode, running, hasRan, runs, firsts,
                 started, finished>>

\* mutant: StopAsync does not wait for a thread that is still alive
StopAliveMutant ==
  /\ owner = "stopping"
  /\ thread' = "none"
  /\ owner' = "idle"
  /\ running' = FALSE
  /\ UNCHANGED <<cw, ready, runner, mode, hasRan, runs, firsts, started, finished>>

(***************************************************************************)
(* Thread::Alive of a thread that ended and was not joined is what         *)
(* pthread_kill(t, 0) says of it, which depends on the C library.  If it   *)
(* says no, the Thread object stays.                                       *)
(***************************************************************************)
StopAlive ==
  /\ owner = "stopping"
  /\ \/ /\ owner' = "joining"
        /\ UNCHANGED running
     \/ /\ thread = "ended"
        /\ owner' = "idle"
        /\ running' = FALSE
  /\ UNCHANGED <<cw, ready, thread, runner, mode, hasRan, runs, firsts, started,
                 finished>>

\* mutant: the joined Thread object is left behind
StopJoinMutant ==
  /\ owner = "joining"
  /\ thread = "ended"
  /\ thread' = "joined"
  /\ owner' = "idle"
  /\ running' = FALSE
  /\ UNCHANGED <<cw, ready, runner, mode, hasRan, runs, firsts, started, finished>>

StopJoin ==
  /\ owner = "joining"
  /\ thread = "ended"
  /\ thread' = "none"
  /\ owner' = "idle"
  /\ running' = FALSE
  /\ UNCHANGED <<cw, ready, runner, mode, hasRan, runs, firsts, started, finished>>

\* Device::~Device joins the thread, without signaling the exit semaphore.
Destroy == OwnerMoves("idle", "destroying")

DestroyJoin ==
  /\ owner = "destroying"
  /\ thread # "live"
  /\ thread' = "none"
  /\ owner' = "destroyed"
  /\ UNCHANGED <<cw, ready, runner, mode, running, hasRan, runs, firsts, started,
                 finished>>

Owner ==
  \/ RunAsync \/ Run \/ WaitReady \/ WaitSleep \/ WakeSpuriously
  \/ StopAsync \/ StopAlive \/ StopJoin \/ Destroy \/ DestroyJoin

----------------------------------------------------------------------------
(* The code that pumps the device                                          *)

\* Run returns, or a hook throws: AsyncExecStart goes on to its own OnRunFinish,
\* a synchronous caller is back from Run.
Leave ==
  IF mode = "async"
  THEN runner' = "cleanup" /\ UNCHANGED owner
  ELSE runner' = "none" /\ owner' = "idle"

\* mutant: async_wait.Signal() comes before the hooks
EarlySignalMutant ==
  /\ runner = "enter"
  /\ IF cw THEN Leave
     ELSE /\ runner' = IF hasRan THEN "start" ELSE "first"
          /\ UNCHANGED owner
  /\ ready' = TRUE
  /\ UNCHANGED <<cw, thread, mode, running, hasRan, runs, firsts, started, finished>>

EnterRun ==
  /\ runner = "enter"
  /\ IF cw THEN Leave
     ELSE /\ runner' = IF hasRan THEN "start" ELSE "first"
          /\ UNCHANGED owner
  /\ UNCHANGED <<cw, ready, thread, mode, running, hasRan, runs, firsts, started,
                 finished>>

\* What a hook's exception leaves behind: AsyncExecStart resets running at once
\* for a std::exception and after OnRunFinish for others; Run does not reset it.
Throw(hook) ==
  /\ hook \in Throwing
  /\ runner = hook
  /\ Leave
  /\ IF mode = "async" THEN running' \in {running, FALSE} ELSE UNCHANGED running

FirstRun ==
  /\ runner = "first"
  /\ firsts' = firsts + 1
  /\ \/ Throw("first")
     \/ runner' = "start" /\ UNCHANGED <<owner, running>>
  /\ UNCHANGED <<cw, ready, thread, mode, hasRan, runs, started, finished>>

RunStart ==
  /\ runner = "start"
  /\ \/ Throw("start") /\ UNCHANGED started
     \/ /\ runner' = "announce"
        /\ started' = TRUE
        /\ UNCHANGED <<owner, running>>
  /\ UNCHANGED <<cw, ready, thread, mode, hasRan, runs, firsts, finished>>

\* running = true; has_ran = true; and the flag of async_wait.Signal().
Announce ==
  /\ runner = "announce"
  /\ runner' = "broadcast"
  /\ running' = TRUE
  /\ hasRan' = TRUE
  /\ ready' = TRUE
  /\ UNCHANGED <<cw, thread, owner, mode, runs, firsts, started, finished>>

\* pthread_cond_broadcast, without the mutex.
Broadcast ==
  /\ runner = "broadcast"
  /\ runner' = "loop"
  /\ owner' = IF owner = "asleep" THEN "idle" ELSE owner
  /\ UNCHANGED <<cw, ready, thread, mode, running, hasRan, runs, firsts, started,
                 finished>>

\* mutant: the loop's test is inverted
LeaveLoopMutant ==
  /\ runner = "loop"
  /\ ~cw
  /\ runner' = "finish"
  /\ UNCHANGED <<cw, ready, thread, owner, mode, running, hasRan, runs, firsts,
                 started, finished>>

\* while (!cw->Wait(0)) Pump(10): a Pump that returns changes nothing here ...
LeaveLoop ==
  /\ runner = "loop"
  /\ cw
  /\ runner' = "finish"
  /\ UNCHANGED <<cw, ready, thread, owner, mode, running, hasRan, runs, firsts,
                 started, finished>>

\* ... and one that throws may have been called before the semaphore was signaled.
PumpThrows ==
  /\ Throw("loop")
  /\ UNCHANGED <<cw, ready, thread, mode, hasRan, runs, firsts, started, finished>>

RunFinish ==
  /\ runner = "finish"
  /\ finished' = TRUE
  /\ \/ Throw("finish")
     \/ Leave /\ running' = FALSE
  /\ UNCHANGED <<cw, ready, thread, mode, hasRan, runs, firsts, started>>

\* mutant: running is left to Run, which an exception never lets finish
CleanupMutant ==
  /\ runner = "cleanup"
  /\ runner' = "none"
  /\ thread' = "ended"
  /\ finished' = TRUE
  /\ UNCHANGED <<cw, ready, owner, mode, running, hasRan, runs, firsts, started>>

\* mutant: OnRunFinish is left to Run
CleanupFinishMutant ==
  /\ runner = "cleanup"
  /\ runner' = "none"
  /\ thread' = "ended"
  /\ running' = FALSE
  /\ UNCHANGED <<cw, ready, owner, mode, hasRan, runs, firsts, started, finished>>

\* The end of AsyncExecStart: OnRunFinish, whose exceptions are swallowed, once
\* more, and running = false.
Cleanup ==
  /\ runner = "cleanup"
  /\ runner' = "none"
  /\ thread' = "ended"
  /\ finished' = TRUE
  /\ running' = FALSE
  /\ UNCHANGED <<cw, ready, owner, mode, hasRan, runs, firsts, started>>

\* What the code does of itself, and what only a failing Pump makes it do.
Advance ==
  \/ EnterRun \/ FirstRun \/ RunStart \/ Announce \/ Broadcast
  \/ LeaveLoop \/ RunFinish \/ Cleanup

Runner == Advance \/ PumpThrows

----------------------------------------------------------------------------
Next == SignalExit \/ Owner \/ Runner

Spec == Init /\ [][Next]_vars

(***************************************************************************)
(* The scheduler lets the pumping code and a call that is not blocked go   *)
(* on; Pump honours its timeout.  Nothing obliges the owner to make a      *)
(* call, anyone to signal the exit semaphore, or Pump to throw.            *)
(***************************************************************************)
Fairness ==
  /\ WF_vars(Advance)
  /\ WF_vars(WaitReady \/ WaitSleep \/ StopAlive \/ StopJoin \/ DestroyJoin)

FairSpec == Spec /\ Fairness

----------------------------------------------------------------------------
(* Properties                                                              *)

TypeOK ==
  /\ cw \in BOOLEAN
  /\ ready \in BOOLEAN
  /\ thread \in {"none", "live", "ended"}
  /\ owner \in OwnerStates
  /\ runner \in RunnerStates
  /\ mode \in {"async", "sync"}
  /\ running \in BOOLEAN
  /\ hasRan \in BOOLEAN
  /\ runs \in 0..MaxRuns
  /\ firsts \in Nat
  /\ started \in BOOLEAN
  /\ finished \in BOOLEAN

(***************************************************************************)
(* IsRunning never claims that a device runs whose thread has ended,       *)
(* whichever hook threw and whatever an earlier run left in running: this  *)
(* is what Server::CheckDevices concludes from it (AsyncExecStart resets   *)
(* running on every way out).  A device that was run by Run may claim so.  *)
(***************************************************************************)
RunningIsHonest == running /\ mode = "async" => runner # "none"

(***************************************************************************)
(* When StopAsync returns, the thread is shut down, wherever it was when   *)
(* the semaphore was signaled (Join in StopAsync).                         *)
(***************************************************************************)
StopLeavesNoThread ==
  [][(owner \in {"stopping", "joining"} /\ owner' = "idle") =>
       thread' # "live" /\ runner' = "none" /\ running' = FALSE]_vars

(***************************************************************************)
(* RunAsync does not return before OnRunStart has on the new thread,       *)
(* however async_wait.Signal() and async_wait.Wait(-1) interleave, unless  *)
(* pthread_cond_wait wakes spuriously: Wait does not look at the flag      *)
(* again.                                                                  *)
(***************************************************************************)
ReturnsAfterStart ==
  [][(owner \in {"launched", "asleep"} /\ owner' = "idle" /\ ~WakeSpuriously)
       => started]_vars

(***************************************************************************)
(* A thread that got through OnRunStart does not end without OnRunFinish,  *)
(* whichever hook threw (the second OnRunFinish, in AsyncExecStart).       *)
(***************************************************************************)
CleanedUp == thread = "ended" /\ started => finished

(***************************************************************************)
(* Once the exit semaphore is signaled the device stops being pumped and   *)
(* stays stopped, also if the signal comes before the thread looks at it   *)
(* for the first time (Run's two uses of cw->Wait(0)).                     *)
(***************************************************************************)
ExitHonoured == cw ~> [](runner \in {"none", "enter"})

(***************************************************************************)
(* StopAsync returns (Signal before Join in StopAsync).                    *)
(***************************************************************************)
StopReturns == owner = "stopping" ~> owner \in {"idle", "destroyed"}

(***************************************************************************)
(* device.hpp says of RunAsync "This gives devices an opportunity to fully *)
(* initialize on their new thread before program execution continues": the *)
(* owner's execution does continue, unless the device is told to exit      *)
(* before it is initialized.                                               *)
(***************************************************************************)
RunAsyncReturns == owner = "launched" ~> owner = "idle" \/ cw

=============================================================================
