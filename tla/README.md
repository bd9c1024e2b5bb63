# A TLA+ model of zippylog

zippylog stores *envelopes* (protobuf messages with metadata) in append-only *streams*, files in a directory tree
`/bucket/stream set/stream`, and serves them over 0MQ. This directory holds a model of its C++ library
(`src/src/zippylog`), TLC configurations that check it on small instances, and proofs, checked by TLAPS, of what holds
for every instance. File names below are relative to `src/src/zippylog`.

Run `tlc -config X.cfg M.tla` for a row of the table of runs, `tlapm M.tla` for a module of proofs.

## 1. The system

| Part | State it keeps | Operations | Talks to |
|---|---|---|---|
| Stream file (`stream.cpp`, `store.cpp`) | bytes in the file, bytes in protobuf's buffer, a reader's offset | open, write envelope, flush, close; set offset, read envelope | writer: one thread; readers: every worker, other processes |
| Request processor (`request_processor.cpp`) | an input stream during one request | validate, dispatch, answer; segments of a stream under byte and envelope budgets | client through the server's broker; store |
| Client (`client.cpp`) | `outstanding` requests by tag, subscriptions by id | synchronous and asynchronous calls, `Pump`, `GetStream`, `Mirror` | server; the program's callbacks, which may call it again |
| Device (`device/device.cpp`, `platform.cpp`) | `running`, `has_ran`, a thread, two `ConditionalWait`s (exit semaphore, `async_wait`) | `Run`, `RunAsync`, `StopAsync`, destructor; hooks | its owner's thread and its own |
| Server (`device/server.cpp`) | children, `start_started`, `initialized`, sockets, `active` | `Start`, `Pump` (broker, timers, `CheckDevices`), `Shutdown`, destructor | it is a Device and owns Devices: store writer, store watcher, workers, reactors |
| Store watcher (`store_watcher.cpp`, `device/server_watcher.cpp`, `platform.cpp`) | inotify watches, changes collected | wait for changes, announce them | kernel; server, which publishes changes to the reactors |
| Persisted state manager and reactor (`persisted_state_manager.cpp`, `device/persisted_state_reactor.cpp`) | subscriptions with expiration timers, read offset of each stream | register, renew, expire, process a store change | workers (subscriptions), watcher (changes), clients (answers) |
| Store writer and sender (`device/store_writer*.cpp`) | output streams | PULL (deliver) and REP (write and acknowledge) sockets | workers |
| Transport helpers (`zeromq.cpp`) | none | multipart messages with an empty delimiter frame | all |
| String loader, Lua, envelope, message registrar | sequential wrappers | parse, filter, serialize | |
| Programs, Python library, generated code | | | |

A request travels client -> server (`clients_sock` to `workers_sock`) -> any worker -> the same way back; nothing keeps
order between workers. A change of the store travels file system -> kernel queue -> watcher -> server -> all reactors ->
server -> client. All devices of a server share the semaphore `active`; its owner and the server share another one.

What is hard: the writer, the workers and other processes share files without locks; offsets outlive crashes of the
writer; a client's callbacks re-enter it; a timeout races its answer; two condition variables without the usual
re-check; a server that must end threads which may have ended by themselves, from two places at once; a kernel queue that
merges and overflows; directories that change between an event and its handling. `PROJECT.json` lists each of these
under "hazards" with its line and the properties that look at it.

What makes the parts correct: a reader misses nothing and reads nothing twice; what is recorded as fetched stays in the
file; a call that returns true has its answer, a call with a timeout returns; a stopped device has no thread and its
hooks were run; a server leaves no child behind that it could have ended; announcements of the watcher catch up with the
store; a request is answered once, to the client that sent it and with its own tag, whatever the worker
threw on the way; a subscription is kept as long as it is renewed in time, and no longer; the paths a subscription names
cover what lies below them; a stream is known by one name.

## 2. Modules

| Module | Models | Over |
|---|---|---|
| `StreamStore` | one stream file: writer, flush, crash, what a read may return | |
| `EnvelopeLog` | what a stream promises those who fetch it: the abstract specification of the next one | |
| `GetStream` | a worker that serves segments, a client that mirrors | EXTENDS `StreamStore`; `Log == INSTANCE EnvelopeLog WITH written <- Len(log), ...`, shown to be implemented |
| `Device` | a device, its owner, its thread | |
| `Server` | the server as manager of its children | EXTENDS `Device`: its hooks refine Device's |
| `ClientRequests` | the outstanding table and the calls on a client's stack | |
| `StoreWatch` | store, inotify, DirectoryWatcher, StoreWatcher, Watcher | |
| `Exchange` | what the server promises to clients who ask: the abstract specification of the next one | |
| `Requests` | the broker in Server::Pump, workers from ReceiveMessage to the reply, what reactors receive | `E == INSTANCE Exchange WITH asked <- ...`, shown to be implemented |
| `StorePaths` | the paths of a store: validation, parsing, building | |
| `StateManager` | subscriptions, their timers, the streams heard of | EXTENDS `StorePaths` |
| `MC*` | values of constants that a cfg cannot write | |
| `*Proofs` | theorems | EXTENDS the module, TLAPS |

Operators whose name ends in `Mutant` are broken variants of the definition that follows them (or of one nearby): they
are not used by any specification; each stands for a plausible bug which the property named beside it in `PROJECT.json`
must find.

### EnvelopeLog, StreamStore and GetStream

EnvelopeLog is a stream without bytes: envelopes are numbers in the order of writing, some of them are in the file, a
crash loses the others and may cut one short for ever, and a reader is given the next number, as long as none of those
before was cut. The last envelope of the file may be given in part: a reader that then rests (its next request seeks) goes
on behind it, one that reads on at once, from inside that envelope, is `astray`, and nothing is promised to it any more.
The mapping: `midway` says that the worker is in its loop and its parser is not at the offset; `written` is the length of `log`; `inFile` counts the frames that begin below `disk`;
`torn` is the frame that starts at the first tear; `read` is what the worker's reads returned for a client, over all
its segments; `given` the number of frames its callbacks got. Offsets, prefixes, budgets, segments, the client's
`StreamFetchState` and protobuf's buffer are what it leaves out.

Offsets are bytes, as in the code. `log` is the sequence of frames handed to the `FileOutputStream`, `tail` the offset
behind the last, `disk` the length of the file; bytes between `disk` and `tail` are in protobuf's buffer, which
protobuf writes when it is full, at whatever byte (`WriteEnvelope`), and `Flush` or the destructor write on purpose.
`Crash` drops the buffer and may leave a frame torn; nobody repairs the file, the next writer appends behind the torn
bytes, and `tornAt` remembers where the first tear is. `ReadResults(o)` is everything `InputStream::ReadEnvelope` may
return at byte `o` at this moment: the frame if it is whole in the file; failure; or, since protobuf's parser takes
the end of the file for a proper end of a message, an envelope cut at a field boundary; or anything, where no frame
starts. A result has two lengths: `bytes`, computed from the prefix, which `offset` grows by, and `stop`, where the
CodedInputStream is left, which is the end of the file when that cut the envelope.

`GetStream` keeps for every client its `StreamFetchState` (`fetched`) and the variables of `Client::GetStream` and of
the worker's `ProcessGetStream`; a client has one request at a time, so both are functions on clients. One round of the
`while (true)` is one action, since the file may change between rounds. The first read of a segment seeks to the offset,
the others read where the parser stands: `off` is the offset, `pos` that place, and they differ after an envelope that
was not whole. If the file has grown when the next round comes, that round starts inside the frame (`astray`). `Wire` is the loop of `RequestProcessor::Pump`,
whose iterator starts at `begin()++`, that is `begin()`, and sends the first frame again; `SegmentEnvelopes` is the
client's loop up to `size() - 2`, which leaves out the last envelope: the counts agree and the contents do not.
`uint32` budgets wrap at `Word`.

### Device

`owner` is the place of the owner's thread in a call, `runner` the place of the code that pumps, on the device's thread
(`mode = "async"`, AsyncExecStart) or in the owner's `Run` (`"sync"`). `ConditionalWait::Wait(-1)` is three steps, because
it tests the flag outside the mutex and sleeps without testing it again; `Signal` is two (flag, broadcast). Every hook and
`Pump` may throw (`Throwing`); AsyncExecStart calls `OnRunFinish` a second time. The exit semaphore may be signaled by
anyone at any time and is never reset. A thread that ended and was not joined is alive or not as `pthread_kill(t, 0)`
pleases. The model is of a build with assertions: with NDEBUG the pthread calls inside `assert` vanish.

### Server

`Server` EXTENDS `Device` and gives the hooks their contents: OnFirstRun and OnRunStart call `Start`, OnRunFinish calls
`Shutdown`, `Pump` calls `CheckDevices`. Children are numbered in the order of their creation; a child is a Device seen
from outside (`absent`, `running`, `stuck`, `ended`, `threadless`). `threadless` is one that `RunAsync` made no thread
for: because `active` was signaled, or because `pthread_create` failed, which throws out of Start when the store writer
and the watcher are already assigned (`NoThreadForChild`); the `new` of a request processor or reactor is merely leaked
then. `stuck` is a request processor in the blocking `recv` of ReceiveMessage, behind a message whose last frame was
empty: it is alive, and hears nothing until another message comes. That the RunAsync of a child with a thread returns is
assumed here, whether it does is a question to Device. Start makes the log socket after `start_started` is set
(`OpenLogSocket`), and may throw at any step, before it included (`StartThrows`). `stopping[p]` is the place of caller
`p` in Shutdown's loops. `StopChild` waits for the thread and deletes the child; at a child without a thread StopAsync
throws instead (`StopChildThrows`), out of Shutdown: into the handler around AsyncExecStart's OnRunFinish
(`ShutdownThrows`), or out of `~Server` (`DestructorThrows`), which terminates the process where destructors are
noexcept and goes on to `~Device` where they are not. `Endings` says when the owner deletes the server: after its thread
ended, when `IsRunning()` is false (what the unit tests do), or any time (zippylogd). `LogWithoutSocket` is LOG_MESSAGE in
OnRunFinish through a NULL `log_client_sock`, of a server on which Start was never called (the exit semaphore was
signaled between RunAsync's test and Run's) or threw before it had made the socket; the process dies (`crashed`).

### ClientRequests

A request is one call with its tag. `stack` holds the synchronous calls and callbacks under way, the innermost last:
a callback may call the client again, a waiting call pumps and may run other callbacks. Requests are split by what the
client does with their answer: `Dispatched` (a callback takes it), `Dropped` (BucketInfo, StreamSetInfo, StreamInfo and
features, and every Error: the default case of `ProcessResponseMessage`), `Subscribes`. `filled` is the history of
stores through the pointer in the outstanding entry. An exception leaves the whole stack.

### StoreWatch

A path is the sequence of its names. `wds` and `queue` are the kernel's: watches belong to a directory, die with it
(IN_IGNORED), equal successive events are merged, a full queue ends with one overflow event. `directories`, `batch` and
`changes` are the DirectoryWatcher's; the constructor (`list`, `watch`) and the loop over the events are interleaved
with changes of the store event by event, and between `stat` and `inotify_add_watch` of a new directory. `Handle` is
one round of StoreWatcher::Pump with the Watcher's handler: `stat` first, whose result for a path that is gone is
uninitialized (any size), then the store change, whose effect on an ideal receiver is `known` and `length`.
DirectoriesInTree is one step, and a read takes all events: the buffer is larger than the kernel's default queue.

### Exchange and Requests

Exchange has the requests asked and the answers each client got. An answer belongs to a request that was asked, goes to
the client that asked, comes once, and carries no tags or those of its request. It does not say that every request is
answered; `RequestsAnswered` in `Requests` says when.

In Requests a message *is* its request; `kind` says what its frames are and what ProcessMessages makes of its payload,
in the order the code looks. `Server::Pump` returns after it has moved one message, and looks at its sockets in a fixed
order: the guards of `MoveSubscription`, `MoveKeepalive` and `MoveRequest` are the empty queues before it. A queue is
the pair of buffers of the two sockets, in the order of their pipes; a send to a DEALER or PUSH is to any of its peers,
to a PUB to all. `ReceiveMessage` appends to `current`: a message that ends in an empty frame leaves the worker in the
loop (`merging`), and the frames of the next message, identity and all, become payload of the first; `unanswered` has
the second one from then on. `Outcomes` has one set for each handler of RequestProcessor, with what
ServerRequestProcessor does in it: whether there is output, how often the tag is put to it (ProcessGetStream adds the
tag that ProcessRequest adds again; a deferred handler that fails has its Error sent without), what it sent on before,
and whether it dies on `assert`. `StopChildren` is Shutdown as one step, which waits for every worker to be between two
messages: module Server has its loops. A server whose children are gone goes on polling (`childless`) and blocks in the
first send that has no peer any more (`blocked`).

### StorePaths and StateManager

A path is a sequence of tokens; a character of a name is a member of `Letters`, the extension one token, since the code
compares it as a whole. `ValidatePath` and `ParsePath` say of the whole path what the code's loops over characters
find. In `StateManager` a subscription is a record with its timer; time passes by microseconds (`Tick`). `Period` is
the product of the time to live and 1000, in a uint32: `Width` and `PerMs` are constants, so that the wrap is near. The
system has `MaxTimers` timers; a record whose timer could not be created stays in the map (`armed` false), and an
expired one leaves the map with its timer still in the system, so that `timers` never falls. `age` is the history of
how long a record has not been renewed. The constructor's listing (`NamesOf`, `StreamPaths`) and the changes the
watcher announces (`ChangedPath`) both make paths from file names; the property `KnownByOneName` is that they make the
same.

## 3. Runs

| Run | States | Bounds | Shows |
|---|---|---|---|
| `GetStream` | 246,144 | 3 envelopes of 2 sizes, 1 crash, 1 client, 2 limits | gapless fetch before a tear and while no read starts inside an envelope, nothing fetched that is not on disk, budgets, the abstract log implemented, every request answered |
| `Device` | 1,240 | 3 runs, both modes, all hooks throwing, spurious wakeups | honest `IsRunning`, cleanup, start before return, stop leaves no thread, stop and exit semaphore work |
| `Client` | 94,860 | 4 requests of 3 kinds, 2 with timeout, depth 3 | true means filled, no unknown answer, giving up is empty-handed, timed calls return |
| `Server` | 61,574 | 2 workers that may get stuck, 1 reactor, 3 of 5 children and the server may die, Start may throw anywhere, 3 runs | no orphans but those of a child without a thread, serving is complete, a dead child ends all and the destructor returns unless a worker is stuck |
| `StoreWatch` | 60,409 | 1 bucket, 1 set, 1 stream, 6 changes, queue of 5, every initial tree | no unknown watch but overflow, the receiver's view catches up, growth is announced |
| `Requests` | 104,107 | 3 requests of 2 clients, one of any kind; 2 workers, 2 reactors | a request is in one place, Exchange is implemented, answers come, subscriptions and keepalives arrive, a dead reactor ends the service |
| `StateManager` | 85,455 | 2 ids, 3 sets of paths, times to live below, at and over the wrap, 3 timers, 2 renewals, 1 file | kept for its time to live, then removed, unarmed only at the limit, one name for a stream, subtrees covered |
| `GetStreamLost` | violation | 2 envelopes | a callback gets the start frame for an envelope and misses the last one |
| `DeviceLostWakeup` | violation | nothing throws | RunAsync misses the signal and sleeps for ever |
| `ServerShutdownTwice` | violation | 1 worker, 1 reactor | two threads stop and delete the same children |
| `StoreWatchMissed` | violation | 3 changes | a directory made in a new one is never watched |
| `RequestsSubscription` | violation | 3 subscriptions | the first subscription a worker forwards makes a reactor throw |

Why the bounds are enough. *GetStream*: an envelope before, at and behind the point where a budget, a flush or a crash
cuts, and a third one when a read has gone astray after the first; one crash gives torn and shifted frames; limits that stop on bytes and on the wrap of `envelopes_left`; clients
do not influence each other or the file, so one is as good as many, and the theorems are for any number. `Word = 256`
leaves the wrap where it is, between 0 and the largest value. *Device*: a first run, a second with `has_ran` set, a
third after each. *Client*: three kinds of answers, two calls nested in a third, timed and untimed. *Server*: more than
one child of a kind, a failing child of three kinds, a restart after a Shutdown that left `active` signaled, a Start that
fails in front of, at and behind each child.
*StoreWatch*: six changes remove and remake a directory with a stream in it and let the stream grow, with a queue that
is full by then. *Requests*: what one request can do to another is to follow it at a worker (`blank`), to kill a
reactor or the server, or to come from another client: r2 is one of those that do, r3 a plain one of the other client,
and r1 anything (one of each set of kinds with the same `Outcomes`). Two workers let answers overtake each other, two
reactors tell PUSH from PUB. *StateManager*: a time to live of 1 is below, 4 at and 5 over the wrap of 8 at 2
microseconds in a millisecond; two records of which one may expire first; a third timer that a record registered again
takes, and none for the next; two renewals, the second of one that a first could not give a timer. Names of one and two
letters make one path the beginning of another.

`StateManager` is checked for deadlock: time always passes. The other runs have CHECK_DEADLOCK FALSE: a program may stop
calling, bounds end the counters, a server may have been deleted, and one that has no children is blocked in a send.

### Fairness

- *GetStream*: a worker inside a request and a client inside a synchronous call go on (each has a thread, and neither
  waits for anything but data). Nobody must call Mirror; the writer may stop for ever.
- *Device*: code that is not blocked runs; `Pump` honours its timeout. Nobody must signal, call or throw. So a device
  whose semaphore is never signaled runs for ever, and StopAsync returns because it signals.
- *Client*: a waiting call goes round its loop, a timer signals, callbacks return. The server owes nothing.
- *Server*: as Device; the thread check timer signals (weak fairness of `CheckDevices` beside that of the rest, since
  the loop may be busy otherwise) and the loop goes round, as long as there is a worker it can send to (`Served`); a child
  whose semaphore is signaled leaves its loop, unless it is stuck. Nobody owes a stuck worker the message it waits for:
  `DeadChildEndsAll` and `DestructorReturns` name that case as their alternative.
- *StoreWatch*: Device::Run pumps the watcher.
- *Requests*: the server's thread, every worker's and every reactor's goes on when it can (`Broker` as a whole: Pump
  does not promise a turn to a socket behind busier ones); the timer of CheckDevices signals however much there is to
  move. Nobody need ask, so there are finitely many answers to put before the rest.
- *StateManager*: time passes, and every Pump of the reactor, whose poll has a timeout, removes what has expired.
  Nobody need register or renew.

## 4. Proofs

All theorems are of the module's specification, for every value of its constants allowed by its ASSUMEs.

- `GetStreamProofs`. Gapless fetch is not inductive: the layout of the log has to be known. `LogInv`: frames lie one
  behind the other from offset 1 up to `tail`, except behind a tear, and nothing lies in the file that was not handed
  to the writer; the invariant `IInv` adds that every reader's offset is 1 or the end of the frame it read last, that
  its parser stands there too unless it was given an envelope in part (`ReadAt`), that the start of a segment in flight is the offset of the previous one, and the arithmetic of the budgets. From it:
  `TypeCorrect`, `Gapless`, `OnDisk`, `Budget`, `Counts` (of no run of its own: `Hand` of the abstract log has it).
  `Implements` is the refinement of EnvelopeLog, and says of every step what those say of a state: no step skips,
  repeats or takes back an envelope, and a crash takes only what was not begun in the file. It needs more than `IInv`
  (`RefInv`): there is one first tear only (`OneTear`), and a reader whose offset is behind it, and who is not astray,
  has counted the torn frame (`TearInv`), or a read in the middle of a shifted frame would look to the log like one in front of the tear.
  `LoopEnds`: each round of the worker's loop that goes on takes at least two bytes off `bytes_left`, a natural
  number, whatever is appended meanwhile. That the reader's arithmetic of the length prefix agrees with protobuf's at
  127/128, 16383/16384 and 2097151/2097152 is a lemma for all sizes below 2^28, which is why no run needs large
  envelopes.
- `DeviceProofs`. `ThreadInv` ties the places of owner, runner and thread together; `StartInv` says that from
  `announce` on OnRunStart has returned in this run and that a ready `async_wait` means so. From them `Honest`,
  `Cleaned`, `Stopped` and `StartedFirst`. `StopIsHeard`: the thread StopAsync joins exists and was told to end;
  `StopAdvances`: meanwhile each of its steps lowers a rank of eight places (`Rank`). `AbandonedForGood`: a RunAsync
  whose thread has passed the signal without giving it is released by a spurious wake-up, by nothing else.
- `ClientRequestsProofs`. `EntryInv` (a request under way has its entry), `StackInv` (a call on the stack is
  synchronous and has no result, and is there once), `FilledInv` (no entry and not lost to an exception: filled). From
  them `Success`, `Known`, `Failure`. `CallsAreOnStack`: a call that waits is on the stack and the innermost frame can
  go on, for any depth. `LeaksForGood`: an entry whose answer will not come is never erased.
- `ServerProofs`. `ServerIsDevice` is the refinement ServerSpec => Spec of Device: what the server's hooks do is
  allowed by Device, for every `Endings`. With it the device invariant holds of the server, and `SInv` adds where
  Start may be (`StartingInv`), who may be in Shutdown and how far, with everything passed absent (`StoppingInv`),
  that children are made in order and that one without a thread is the store writer or the watcher of a Start that ended
  there, so that nothing was made behind it (`ChildInv`), and that the destructor runs alone (`DeletingInv`). The three
  invariants follow under the assumption `Endings \subseteq {"stopped"}`, stated in the theorems: an owner deletes a server only
  when no thread of it is alive. Without it two Shutdowns meet (run `ServerShutdownTwice`). Under the same assumption
  `ShutdownIsHeard` (whoever Shutdown waits for was told to end; where it throws, Start had failed) and
  `DestructorGoesOn` (the destructor is before one of the children or in a ~Device that has no live thread to join, also
  when an exception took it there, or the process died). `CrashCauses` needs no assumption: the NULL socket is met only
  by a server without children that has not started, and all else it dies of is an exception out of ~Server.
- `StoreWatchProofs`. That no event but the overflow names an unknown watch depends on what is still queued:
  `EventInv` says of the events being read and those in the kernel's queue, as one sequence, that each is about a path
  of the store under the directory its watch is recorded for, and that behind the `IN_IGNORED` of a watch there is
  nothing of it and no directory has it; `WatchInv` that `directories` agrees with every watch of the kernel;
  `PhaseInv` and `ChangeInv` place the loop. Assumed of the constants: the parent of every path is the root or a
  directory. From it `TypeCorrect` (with it: every change collected is about a path of the store) and
  `OnlyOverflowIsUnknown`, for any tree, queue and number of changes. `CaughtUp` is about the order of what is still
  to be told: `Pending` is one sequence, the changes that wait for Pump and behind them the changes the events will
  become. Collecting an event leaves it as it is, an `IN_IGNORED` falls out of it, Pump takes its head, the kernel
  puts events at its end or merges them with the last one. `ViewInv` says of every path told of that its last coming
  or going in `Pending` agrees with the tree and that without one the receiver knows it already, and the same of a
  stream's length, where an announced creation counts only for an empty file; unless an overflow is queued or was read
  (`Lost`), for which `OverInv` must know that only an overflow makes the queue longer than its length.
  `ErrorsArePending` is the other half: while something waits, whatever the receiver has wrong is among it, and a
  stream with contents is told of by a change that makes Pump take its size.
- `RequestsProofs`. `Exchanges` is the refinement Requests => Exchange. A worker's answer goes to `identities`, read
  with the first message of `current`, and the next message must not change them: `WorkerInv` says that what a worker
  has at hand and will put in front of its response belongs to the head of `current`, `AnswerInv` the same of answers
  on their way. That an answer comes once needs `ApartInv`: the stages of a request (at the server's socket, in a
  worker's queue, at a worker, answered, received) exclude each other, and in a queue it is there once; `KnownInv`:
  what is in any of them was asked. With `OnceInv` (received once) and `LostInv` (a request that was asked is in some
  stage or ended without an answer, while the server serves), `Placed` is the theorem that it is in one place and
  nowhere lost. For any number of requests, clients, workers and reactors, and kinds in any mixture.
  `SilenceHasReason` says why a worker may leave a request without an answer: its kind, the message before it
  (`MergedInv`), or an assertion that ended the process, never an exception. `NothingSentOnIsLost` follows what
  workers forward: an accepted subscription is in one of the queues of the path to the reactors, at a reactor, or has
  killed one; a keepalive is in a queue of the path to all of them or noted by all, which needs that PUB gives all
  reactors the same (`EveryReactorOrNone`).
- `StateManagerProofs`. `RunsForTtl`: a timer has at least what the record's age lacks to its time to live, unless the
  product wraps. From it `Kept`; `SignalsOnTime` makes it exact: a timer has as much left as the age lacks to the
  period, so that a record is due at the wrapped product and not before. `UnarmedAtLimit` rests on the count of
  timers, which only grows, and on the order in which RenewSubscriptions creates them and throws. `Covered` and
  `OneName` are about paths of any length: `StorePathsProofs` shows that the paths the store builds are taken apart
  into what they were built of (by where their slashes are and how many are before a place), that the extension comes
  off where it was put on, and that a path below another one by its components begins with it by its characters.
  Assumed: names are not empty and have no slash and no dot, and the files are those of streams with such names.

Only model-checked: all liveness properties, whose fairness is out of the prover's reach. What each of them needs
besides fairness is proved, for every value of the constants:

| Liveness property | What can hold it up, and the theorem that says it does not |
|---|---|
| `RequestAnswered` | a loop without end: `LoopEnds` |
| `StopReturns`, `ExitHonoured` | a thread that was not told, or goes round: `StopIsHeard`, `StopAdvances` (its lemma `RunnerDescends` holds without StopAsync) |
| `DestructorReturns`, `DeadChildEndsAll` | a child that was not told, or has no thread: `ShutdownIsHeard`, `DestructorGoesOn` |
| `CallsReturn` | a call under another that cannot go on: `CallsAreOnStack` |
| `GrowthAnnounced` | a growth nothing waiting tells of: `ErrorsArePending` |
| `RequestsAnswered` | a request dropped: `Placed`, `SilenceHasReason` |
| `Forwarded` | a message dropped between worker and reactor: `NothingSentOnIsLost` |
| `Reaped` | a timer that does not signal: `SignalsOnTime` |

`DeadReactorEndsService` needs only the device check's fairness. Nothing here is proved by induction over data: what
`log` and `sent` hold is said element by element (`LogInv`, `FetchInv`), and slashes of a path are counted as a set.
The violated properties have TLC's counterexamples.

## 5. Known divergences without a run of their own

- An envelope cut at a field boundary parses and moves `offset` past the end of the file (`stream.cpp:89-115`, against
  `stream.hpp:67`), and the parser is left inside the frame. If the writer flushes before the next round of
  ProcessGetStream's loop, that round takes the rest of the frame for the next one: its contents, the offset of the
  segment's end and with it every later segment may be wrong, without any crash. `GaplessFetch` and EnvelopeLog except
  readers that went `astray` this way; they state that all others, those whose cut envelope was the last of its segment
  included, miss nothing, and `FetchedIsOnDisk` excepts whoever was given an envelope in part.
- A request for 0 envelopes wraps `envelopes_left` (`request_processor.cpp:933`); the byte budget ends the segment.
- `Wait` returns on a spurious wakeup (`platform.cpp:1493`), so RunAsync may return early; `ReturnsAfterStart` excepts
  it.
- RunAsync blocks for ever when a hook throws before `Announce`, or when the exit semaphore is signaled before Run
  tests it.
- `Run` leaves `running` true when `Pump` throws; OnFirstRun is called again when OnRunStart threw in the first run.
- `GetStream` drops Errors (`client.cpp:767`, the default case), so a caller that waits without timeout for a stream
  that is not there waits for ever, against `client.hpp:476` and `490`.
- An answer that comes after the timeout is written through the pointer in the entry, into what was the caller's stack
  (`client.cpp:694`), against `client.hpp:366`.
- The acknowledgement every worker sends has a time to live of 0 (`device/server_worker.cpp:91`); the client throws for
  one below its renewal offset (`client.cpp:997-1000`), against `client.hpp:514`.
- CheckDevices ends all children but not the server, which then answers nobody: the first request of a client blocks it
  in a send to no worker (`zeromq.cpp:145`). A worker that waits in ReceiveMessage behind a message that ended in an
  empty frame blocks the Shutdown before that. A server that is run again after a stop finds `initialized` set and
  starts no children.
- A step of `Start` that throws (an endpoint in use) makes the owner's RunAsync block, since async_wait is not
  signaled. If it throws before `server.cpp:357`, OnRunFinish logs through a NULL socket.
- When no thread can be created for the store watcher, Start throws with the watcher assigned (`server.cpp:410-411`):
  each Shutdown, ~Server's included, throws at its StopAsync (`device.cpp:118`) and leaves the store writer, told to end
  but never joined or deleted. The same of the store writer, with nothing behind it. `NoOrphans` says that no more is
  left than that.
- The server's shutdown at zippylogd: `ServerStartParams.active` is NULL there and ParseConfig does not set it.
- A frame without a delimiter is taken for an identity by ReceiveMessage (`zeromq.cpp:94`): what a worker forwards to a
  reactor and what a sender delivers to the store writer are read as messages without payload.
- A subscription to envelopes with Lua code that loads ends in an assertion: the handler jumps over the subscription
  with an empty output (`request_processor.cpp:1057`, `614`). Without assertions it registers nothing and answers
  nothing.
- A keepalive of no subscriptions reads the first of its ids for the log (`request_processor.cpp:1090`). Keepalives and
  plugin registrations that do not parse are answered with an Error without the request's tag.
- `RenewSubscriptions` returns true whatever it was given (against `persisted_state_manager.hpp:194`), and throws in
  the middle when a timer cannot be created.
- An expired record is never deleted, its timer never given back; at the limit RegisterSubscription throws and leaves a
  record that never expires and whose id cannot be registered again. The time to live in microseconds wraps a uint32 at
  71 minutes.
- `/foo/` and `/b/s/x.zippylog` are valid paths, but a subscription to them matches nothing that is announced; one to
  `/foo` matches `/foobar`, too. `StreamLength` of `/b/s/x.zippylog` looks for `x.zippylog.zippylog`, though
  `PathExists` takes the extension off.
- `stream_read_offsets` is set to the new length before the stream is read from it (`persisted_state_manager.cpp:233`):
  no appended envelope would be delivered, against `persisted_state_manager.hpp:264-266`.
- An input stream opened for a segment stays open until the store is destroyed (`store.cpp:622`).
- A StreamAppended change makes every reactor throw: its callback is NULL (`device/persisted_state_reactor.cpp:285`).
- A length announced for a stream that is gone is uninitialized (`store_watcher.cpp:120`); `PathIsDirectory` compares a
  bool with -1 and reads an uninitialized `FileStat` for a path that does not exist (`platform.cpp:349`).
- A changed file that lies beside the buckets or sets makes Watcher::HandleModified throw.

## 6. Not modelled, and why

- *Store writer and sender.* Every message of `StoreWriterSender` lacks the empty frame, so `ReceiveAndWrite` finds no
  payload, returns RECEIVE_ERROR, and nothing is written; `WriteEnvelope` is always false, and no part of the library
  or of the programs calls it. An error on the PULL socket makes Pump return before it looks at REP. The path is read
  behind the end of its frame, which has no NUL (`device/store_writer.cpp:159`). Were a write to succeed, the empty
  reply would make the sender's ReceiveMessage wait for more, and ProcessEnvelopeRep answer a second time on
  NO_MESSAGES, against `device/store_writer.hpp:65`. A model whose only step is the refusal says nothing.
- *Delivery to subscribers*: the reactor dies of the first subscription (run `RequestsSubscription`), its callback for
  appended streams is NULL, nothing is read (above). `Client::Run`, `RunAsync` and `RenewSubscriptions` belong to it.
- *String loader, Lua, envelope, message registrar*: sequential, or an external interpreter.
- *Names of streams by time* (StreamNameForTime), the info messages, ParseConfig: formatting and reading of one value.
- Windows and Mac code; log messages (each of them is an envelope pushed with ZMQ_DONTWAIT); generated code, which is
  most of the lines of the source tree; the programs and the Python library; memory reclamation; the contents of
  protobuf messages.

## 7. What is left

1. An abstract service (told to end, ending, ended; a call returns when its peer has ended) that Device and Server
   implement, to state `StopReturns` and `DestructorReturns` over one specification.
2. `StoreWriting`, once its messages have a delimiter, and delivery to subscribers, once a reactor survives one;
   `ClientRequests` composed with `Requests` in place of its `ServerAnswers`, for the client's renewals.
