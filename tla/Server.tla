------------------------------- MODULE Server -------------------------------
(***************************************************************************)
(* The server device as the manager of its threads: Start, CheckDevices,   *)
(* Shutdown and the destructor over the child devices, on top of the       *)
(* Device the server itself is.  The hooks Device leaves open are those of *)
(* Server here: OnFirstRun and OnRunStart call Start, OnRunFinish calls    *)
(* Shutdown, Pump calls CheckDevices.                                      *)
(*                                                                         *)
(* The server has two exit semaphores: the one its owner gave it (cw, of   *)
(* Device), and active, which its children share.                          *)
(***************************************************************************)
EXTENDS Device

CONSTANTS
  Workers,    \* worker_threads
  Reactors,   \* persisted_state_reactor_threads
  Failing,    \* children whose Pump may throw
  StartFails, \* whether a step of Start may throw (an endpoint in use, a
              \* thread that cannot be created, ...)
  Endings     \* when the owner deletes the server, below

(***************************************************************************)
(* Children are numbered in the order in which Start creates them: the     *)
(* store writer, the store watcher, the request processors, the reactors.  *)
(***************************************************************************)
Last == 2 + Workers + Reactors
Children == 1..Last
Processors == 3..(2 + Workers)

(***************************************************************************)
(* stopped     no thread of the server is alive: after StopAsync           *)
(* notRunning  IsRunning() is false or StopAsync was called: the unit tests*)
(* any         at any time: zippylogd, which never calls StopAsync         *)
(* Whether async_wait wakes spuriously is Device's business.  Start and    *)
(* Shutdown may throw out of the three hooks that call them.               *)
(***************************************************************************)
ASSUME ServerAssumption ==
  /\ Workers \in Nat
  /\ Reactors \in Nat
  /\ Failing \subseteq Children
  /\ StartFails \in BOOLEAN
  /\ {"first", "loop", "finish"} \subseteq Throwing
  /\ Endings \subseteq {"stopped", "notRunning", "any"}
  /\ ~Spurious

VARIABLES
  active,       \* Server::active is signaled
  child,        \* [Children -> ChildStates]
  startStarted, \* start_started
  initialized,  \* initialized
  starting,     \* the server's code is inside Start
  logSock,      \* log_client_sock exists
  stopping,     \* [Callers -> where the caller is in Shutdown; 0: not in it]
  deleting,     \* the owner is in ~Server or behind it
  crashed       \* the process died: of a NULL socket, or in ~Server

serverVars == <<active, child, startStarted, initialized, starting, logSock,
                stopping, deleting, crashed>>

allVars == <<vars, serverVars>>

(***************************************************************************)
(* absent      not created yet, or deleted                                 *)
(* running     its thread runs, IsRunning() is true                        *)
(* stuck       the same, but its thread is in ReceiveMessage, behind a     *)
(*             message that ended in an empty frame                        *)
(* ended       its thread is through with Run, IsRunning() is false        *)
(* threadless  RunAsync made no thread: active was signaled, or there was  *)
(*             none to be had                                              *)
(***************************************************************************)
ChildStates == {"absent", "running", "stuck", "ended", "threadless"}

\* Who runs Shutdown: the code that pumps the server, or the destructor.
Callers == {"runner", "owner"}

ServerInit ==
  /\ Init
  /\ active = FALSE
  /\ child = [k \in Children |-> "absent"]
  /\ startStarted = FALSE
  /\ initialized = FALSE
  /\ starting = FALSE
  /\ logSock = FALSE
  /\ stopping = [p \in Callers |-> 0]
  /\ deleting = FALSE
  /\ crashed = FALSE

AllAbsent == \A k \in Children : child[k] = "absent"

SomeThreadless == \E k \in Children : child[k] = "threadless"
SomeStuck == \E k \in Children : child[k] = "stuck"

\* The code that pumps the server is in a hook or Pump, but not in Shutdown.
Quiet == stopping["runner"] = 0

----------------------------------------------------------------------------
(* Start                                                                   *)

\* Start up to the sockets, on a server that was never started.  OnRunStart's
\* call of Start always finds it initialized.
EnterStart ==
  /\ runner = "first"
  /\ ~starting
  /\ ~startStarted
  /\ starting' = TRUE
  /\ startStarted' = TRUE
  /\ active' = FALSE
  /\ UNCHANGED <<vars, child, initialized, logSock, stopping, deleting, crashed>>

\* The receiver of log messages is bound, and log_client_sock made.
OpenLogSocket ==
  /\ starting
  /\ ~logSock
  /\ logSock' = TRUE
  /\ UNCHANGED <<vars, active, child, startStarted, initialized, starting,
                 stopping, deleting, crashed>>

\* Start is about to construct child k.
ComesNext(k) ==
  /\ starting
  /\ logSock
  /\ child[k] = "absent"
  /\ \A i \in 1..(k - 1) : child[i] # "absent"

\* The next child is constructed and its RunAsync returns.
CreateChild ==
  /\ \E k \in Children :
       /\ ComesNext(k)
       /\ child' = [child EXCEPT ![k] = IF active THEN "threadless" ELSE "running"]
  /\ UNCHANGED <<vars, active, startStarted, initialized, starting, logSock,
                 stopping, deleting, crashed>>

\* mutant: the reactors are forgotten
FinishStartMutant ==
  /\ starting
  /\ \A k \in 1..(2 + Workers) : child[k] # "absent"
  /\ starting' = FALSE
  /\ initialized' = TRUE
  /\ UNCHANGED <<vars, active, child, startStarted, logSock, stopping, deleting,
                 crashed>>

FinishStart ==
  /\ starting
  /\ \A k \in Children : child[k] # "absent"
  /\ starting' = FALSE
  /\ initialized' = TRUE
  /\ UNCHANGED <<vars, active, child, startStarted, logSock, stopping, deleting,
                 crashed>>

\* RunAsync finds no thread for the next child and throws.  The store writer and
\* the watcher are members by then; the others would have been made so after it.
NoThreadForChild ==
  \E k \in {1, 2} :
    /\ ComesNext(k)
    /\ ~active
    /\ child' = [child EXCEPT ![k] = "threadless"]

\* A step of Start throws, or Start is called on a server whose Start failed:
\* the hook of Device throws.
StartThrows ==
  /\ \/ starting /\ StartFails /\ (NoThreadForChild \/ UNCHANGED child)
     \/ ~starting /\ startStarted /\ ~initialized /\ UNCHANGED child
  /\ FirstRun
  /\ runner' # "start"
  /\ starting' = FALSE
  /\ UNCHANGED <<active, startStarted, initialized, logSock, stopping, deleting,
                 crashed>>

\* OnFirstRun and OnRunStart behind Start, which returned true.
Started ==
  /\ initialized
  /\ FirstRun \/ RunStart
  /\ UNCHANGED serverVars

----------------------------------------------------------------------------
(* The children                                                            *)

\* AsyncExecStart of a child: active is signaled, or its Pump threw.
ChildEnds(k) ==
  /\ child[k] = "running"
  /\ active \/ k \in Failing
  /\ child' = [child EXCEPT ![k] = "ended"]
  /\ UNCHANGED <<vars, active, startStarted, initialized, starting, logSock,
                 stopping, deleting, crashed>>

\* recv of a request processor, when all that came had an empty last frame: it
\* waits there for the next message, whatever active says.
BlockInReceive(k) ==
  /\ child[k] = "running"
  /\ child' = [child EXCEPT ![k] = "stuck"]
  /\ UNCHANGED <<vars, active, startStarted, initialized, starting, logSock,
                 stopping, deleting, crashed>>

MessageArrives(k) ==
  /\ child[k] = "stuck"
  /\ child' = [child EXCEPT ![k] = "running"]
  /\ UNCHANGED <<vars, active, startStarted, initialized, starting, logSock,
                 stopping, deleting, crashed>>

----------------------------------------------------------------------------
(* Shutdown                                                                *)

\* mutant: the children are not told
EnterShutdownMutant(p) ==
  /\ stopping[p] = 0
  /\ stopping' = [stopping EXCEPT ![p] = 1]
  /\ UNCHANGED <<active, child, startStarted, initialized, starting, logSock, crashed>>

\* active.Signal()
EnterShutdown(p) ==
  /\ stopping[p] = 0
  /\ stopping' = [stopping EXCEPT ![p] = 1]
  /\ active' = TRUE
  /\ UNCHANGED <<child, startStarted, initialized, starting, logSock, crashed>>

\* The request processors, the reactors, the store watcher, the store writer.
Victim(j) == IF j <= Last - 2 THEN j + 2 ELSE Last + 1 - j

\* mutant: a child is deleted without waiting for its thread
StopChildMutant(p) ==
  /\ stopping[p] \in Children
  /\ LET k == Victim(stopping[p])
     IN /\ IF child[k] = "ended" THEN child' = [child EXCEPT ![k] = "absent"] ELSE UNCHANGED child
  /\ stopping' = [stopping EXCEPT ![p] = @ + 1]
  /\ UNCHANGED <<vars, active, startStarted, initialized, starting, logSock,
                 deleting, crashed>>

\* StopAsync of the next child, which joins its thread, and its delete.
StopChild(p) ==
  /\ stopping[p] \in Children
  /\ LET k == Victim(stopping[p])
     IN /\ child[k] \in {"absent", "ended"}
        /\ child' = [child EXCEPT ![k] = "absent"]
  /\ stopping' = [stopping EXCEPT ![p] = @ + 1]
  /\ UNCHANGED <<vars, active, startStarted, initialized, starting, logSock,
                 deleting, crashed>>

\* StopAsync of the next child throws, as it has no thread, and with it Shutdown,
\* which leaves this child and those behind it where they are.
StopChildThrows(p) ==
  /\ stopping[p] \in Children
  /\ child[Victim(stopping[p])] = "threadless"
  /\ stopping' = [stopping EXCEPT ![p] = 0]
  /\ UNCHANGED <<active, child, startStarted, initialized, starting, logSock,
                 deleting>>

\* mutant: the position is not reset
ShutdownReturnedMutant(p) ==
  /\ stopping[p] = Last + 1
  /\ stopping' = [stopping EXCEPT ![p] = @ + 1]
  /\ UNCHANGED <<active, child, startStarted, initialized, starting, logSock,
                 crashed>>

\* Shutdown has returned to its caller, whose next step is at hand.
ShutdownReturned(p) ==
  /\ stopping[p] = Last + 1
  /\ stopping' = [stopping EXCEPT ![p] = 0]
  /\ UNCHANGED <<active, child, startStarted, initialized, starting, logSock,
                 crashed>>

----------------------------------------------------------------------------
(* The loop and the hooks behind it                                        *)

\* mutant: the request processors and the reactors are not looked at
UnhealthyMutant == child[1] # "running" \/ child[2] # "running"

\* The store writer and the watcher must exist and run; of the others those
\* that exist must run.
Unhealthy ==
  \/ child[1] # "running"
  \/ child[2] # "running"
  \/ \E k \in Children : child[k] \in {"ended", "threadless"}

\* Pump, when the thread check timer has signaled.
CheckDevices ==
  /\ runner = "loop"
  /\ Unhealthy
  /\ EnterShutdown("runner")
  /\ UNCHANGED <<vars, deleting>>

CheckDevicesReturns ==
  /\ runner = "loop"
  /\ ShutdownReturned("runner")
  /\ UNCHANGED <<vars, deleting>>

\* The loop's test, or another part of Pump that throws.
ServerLoop ==
  /\ Quiet
  /\ LeaveLoop \/ PumpThrows
  /\ UNCHANGED serverVars

\* OnRunFinish, called by Run or once more by AsyncExecStart.
EnterRunFinish ==
  /\ runner \in {"finish", "cleanup"}
  /\ EnterShutdown("runner")
  /\ UNCHANGED <<vars, deleting>>

ServerRunFinish ==
  /\ logSock
  /\ RunFinish \/ Cleanup
  /\ ShutdownReturned("runner")
  /\ UNCHANGED deleting

\* The exception ends Pump or OnRunFinish, or is swallowed by AsyncExecStart.
ShutdownThrows ==
  /\ StopChildThrows("runner")
  /\ \/ PumpThrows
     \/ RunFinish /\ Throw("finish")
     \/ Cleanup
  /\ UNCHANGED crashed

\* LOG_MESSAGE in OnRunFinish of a server that was never started, or whose Start
\* threw before it had made the socket.
LogWithoutSocket ==
  /\ runner \in {"finish", "cleanup"}
  /\ stopping["runner"] = Last + 1
  /\ ~logSock
  /\ crashed' = TRUE
  /\ UNCHANGED <<vars, active, child, startStarted, initialized, starting,
                 logSock, stopping, deleting>>

----------------------------------------------------------------------------
(* The owner                                                               *)

ServerOwner ==
  /\ ~deleting
  /\ Owner
  /\ owner' \notin {"destroying", "destroyed"}
  /\ UNCHANGED serverVars

MayDelete ==
  \/ "stopped" \in Endings /\ thread # "live"
  \/ "notRunning" \in Endings /\ (~running \/ thread = "none")
  \/ "any" \in Endings

\* ~Server calls Shutdown ...
EnterDestructor ==
  /\ ~deleting
  /\ owner = "idle"
  /\ MayDelete
  /\ deleting' = TRUE
  /\ EnterShutdown("owner")
  /\ UNCHANGED vars

\* ... deletes the sockets, and goes on to ~Device, which joins the thread.
DeleteSockets ==
  /\ deleting
  /\ Destroy
  /\ ShutdownReturned("owner")
  /\ UNCHANGED deleting

\* An exception out of ~Server terminates the process, where destructors are
\* noexcept, or goes on through ~Device to the owner.
DestructorThrows ==
  /\ deleting
  /\ StopChildThrows("owner")
  /\ \/ crashed' = TRUE /\ UNCHANGED vars
     \/ Destroy /\ UNCHANGED crashed

JoinServer == DestroyJoin /\ UNCHANGED serverVars

----------------------------------------------------------------------------
\* A server without workers may block in a send to them.
Served == \E k \in Processors : child[k] # "absent"

ServerAdvance ==
  /\ ~crashed
  /\ \/ EnterStart \/ OpenLogSocket \/ CreateChild \/ FinishStart \/ Started
     \/ StartThrows
     \/ CheckDevices \/ CheckDevicesReturns
     \/ Quiet /\ Served /\ LeaveLoop /\ UNCHANGED serverVars
     \/ EnterRunFinish \/ ServerRunFinish \/ LogWithoutSocket
     \/ StopChild("runner") \/ ShutdownThrows
     \/ (EnterRun \/ Announce \/ Broadcast) /\ UNCHANGED serverVars

ServerDestructor ==
  /\ ~crashed
  /\ StopChild("owner") \/ DestructorThrows \/ DeleteSockets \/ JoinServer

ServerNext ==
  \/ ServerAdvance
  \/ ServerDestructor
  \/ /\ ~crashed
     /\ \/ ServerLoop
        \/ ServerOwner
        \/ EnterDestructor
        \/ SignalExit /\ UNCHANGED serverVars
        \/ \E k \in Children : ChildEnds(k)
        \/ \E k \in Processors : BlockInReceive(k) \/ MessageArrives(k)

ServerSpec == ServerInit /\ [][ServerNext]_allVars

(***************************************************************************)
(* Pump of a server that has workers returns within its timeout and the    *)
(* thread check timer signals; a child whose semaphore is signaled leaves  *)
(* its loop, unless it is stuck, and nobody owes it the message that would *)
(* end that; a call under way that is not blocked goes on.                 *)
(***************************************************************************)
ServerFairness ==
  /\ WF_allVars(ServerAdvance)
  /\ WF_allVars(ServerDestructor)
  /\ WF_allVars(~crashed /\ Served /\ CheckDevices)
  /\ WF_allVars(~crashed /\ ServerOwner /\ owner \in {"launched", "checked", "stopping", "joining"})
  /\ \A k \in Children : WF_allVars(~crashed /\ active /\ ChildEnds(k))

ServerFairSpec == ServerSpec /\ ServerFairness

----------------------------------------------------------------------------
(* Properties                                                              *)

ServerTypeOK ==
  /\ active \in BOOLEAN
  /\ child \in [Children -> ChildStates]
  /\ startStarted \in BOOLEAN
  /\ initialized \in BOOLEAN
  /\ starting \in BOOLEAN
  /\ logSock \in BOOLEAN
  /\ stopping \in [Callers -> 0..(Last + 1)]
  /\ deleting \in BOOLEAN
  /\ crashed \in BOOLEAN

(***************************************************************************)
(* A server whose thread has ended, however it ended, and a server that is *)
(* deleted have left no request processor and no reactor behind; and none  *)
(* of the other two, unless Start made one of them without a thread: the   *)
(* StopAsync of that one throws out of Shutdown, also the second time, and *)
(* both may be left, told to end but never joined (Shutdown in             *)
(* OnRunFinish, in AsyncExecStart's second call of it, and in ~Server).    *)
(***************************************************************************)
NoOrphans ==
  thread = "ended" \/ owner \in {"destroying", "destroyed"} =>
    /\ \A k \in Children : k > 2 => child[k] = "absent"
    /\ AllAbsent \/ (active /\ ~initialized /\ SomeThreadless)

(***************************************************************************)
(* While the server loops and has not begun to shut down, all its children *)
(* exist and each was given a thread.  Once Start has returned, none is    *)
(* left without: neither because RunAsync saw active signaled nor because  *)
(* there was no thread to be had, so that no StopAsync throws              *)
(* (active.Reset in Start, initialized).                                   *)
(***************************************************************************)
ServingIsComplete ==
  /\ runner = "loop" /\ ~active =>
       \A k \in Children : child[k] \in {"running", "stuck", "ended"}
  /\ initialized => ~SomeThreadless

(***************************************************************************)
(* When a child's thread ends while the server loops on a thread of its    *)
(* own, or when it ended before the server began to shut down, all         *)
(* children are stopped and deleted, or a request processor gets stuck     *)
(* again and again (CheckDevices, OnRunFinish).                            *)
(***************************************************************************)
DeadChildEndsAll ==
  (/\ runner \in {"loop", "finish", "cleanup"}
   /\ initialized
   /\ mode = "async"
   /\ \E k \in Children : child[k] = "ended")
    ~> (AllAbsent \/ SomeStuck)

(***************************************************************************)
(* ~Server returns, or dies of the child that has no thread, whatever      *)
(* state Start or an earlier Shutdown left the children in, or a request   *)
(* processor gets stuck again and again.                                   *)
(***************************************************************************)
DestructorReturns == deleting ~> (owner = "destroyed" \/ crashed \/ SomeStuck)

(***************************************************************************)
(* server.hpp says of Shutdown "On second call, is a no-op": while one call *)
(* is waiting for the children, no other one is.                           *)
(***************************************************************************)
SecondShutdownNoop ==
  stopping["runner"] \in Children /\ stopping["owner"] \in Children => AllAbsent

=============================================================================
