----------------------------- MODULE StoreWatch -----------------------------
(***************************************************************************)
(* The watcher of a store: from directories and files that come, grow and  *)
(* go, through the kernel's inotify queue, DirectoryWatcher and            *)
(* StoreWatcher's Pump, to the store changes the server's Watcher sends.   *)
(*                                                                         *)
(* A path is the sequence of its names below the root: a bucket has one, a *)
(* stream set two, a stream three.                                         *)
(***************************************************************************)
EXTENDS Integers, Sequences

CONSTANTS
  Names,    \* names of directories and files
  Dirs,     \* the paths that may become buckets and stream sets
  Files,    \* the paths that may become streams
  MaxSize,  \* bound: size of a stream, in units of one write
  MaxQueue, \* length of the kernel's queue of events
  MaxOps    \* bound: changes made to the store

Root == << >>
Paths == Dirs \cup Files

\* platform::PathJoin, and its inverse.
PathJoin(d, name) == Append(d, name)
Parent(p) == SubSeq(p, 1, Len(p) - 1)
Name(p) == p[Len(p)]

ASSUME StoreWatchAssumption ==
  /\ \A p \in Paths : p \in Seq(Names) /\ p # Root /\ Parent(p) \in Dirs \cup {Root}
  /\ Dirs \cap Files = {}
  /\ MaxSize \in Nat
  /\ MaxQueue \in Nat \ {0}
  /\ MaxOps \in Nat

VARIABLES
  tree,        \* the paths that exist
  size,        \* [Files -> size]
  wds,         \* [Dirs and Root -> the kernel's watch on the directory; 0: none]
  nextWd,      \* watch descriptors are not used again
  queue,       \* the kernel's events
  phase,       \* where the watcher is, below
  todo,        \* directories the constructor still has to watch
  batch,       \* events read and not yet processed
  directories, \* DirectoryWatcher::directories
  changes,     \* changes collected and not yet handled
  known,       \* what a receiver of all store changes knows: paths ...
  length,      \* ... and lengths of streams
  told,        \* history: paths whose last coming or going met a watch
  toldLength,  \* history: streams whose last growing met a watch
  ops          \* changes made to the store so far

kernel == <<wds, nextWd>>
files == <<tree, size, told, toldLength, ops>>
vars == <<tree, size, wds, nextWd, queue, phase, todo, batch, directories,
          changes, known, length, told, toldLength, ops>>

(***************************************************************************)
(* list, watch in the constructor: before and behind DirectoriesInTree     *)
(* wait        in WaitForChanges' poll                                     *)
(* read        in the loop over the events that were read                  *)
(* add         between stat and inotify_add_watch of a new directory       *)
(* handle      in Pump's loop over the changes                             *)
(* dead        an exception ended the thread, or the constructor           *)
(***************************************************************************)
Phases == {"list", "watch", "wait", "read", "add", "handle", "dead"}

Closed(t) == \A p \in t : Parent(p) \in t \cup {Root}

\* The root is watched before anything else; the store holds anything by then.
Init ==
  /\ tree \in {t \in SUBSET Paths : Closed(t)}
  /\ size = [f \in Files |-> 0]
  /\ wds = [d \in Dirs \cup {Root} |-> IF d = Root THEN 1 ELSE 0]
  /\ nextWd = 2
  /\ queue = << >>
  /\ phase = "list"
  /\ todo = {}
  /\ batch = << >>
  /\ directories = [w \in {1} |-> Root]
  /\ changes = << >>
  /\ known = {}
  /\ length = size
  /\ told = {}
  /\ toldLength = {}
  /\ ops = 0

----------------------------------------------------------------------------
(* inotify                                                                 *)

Event(kind, w, name) == [kind |-> kind, wd |-> w, name |-> name]
Overflow == Event("overflow", -1, "")

\* An event equal to the last one queued is merged with it; what does not fit
\* is replaced by one overflow event.
Enqueue(q, e) ==
  IF q # << >> /\ q[Len(q)] = e THEN q
  ELSE CASE Len(q) < MaxQueue -> Append(q, e)
         [] Len(q) = MaxQueue -> Append(q, Overflow)
         [] OTHER             -> q

Watched(p) == wds[Parent(p)] # 0

Notify(kind, p) ==
  IF Watched(p) THEN Enqueue(queue, Event(kind, wds[Parent(p)], Name(p))) ELSE queue

----------------------------------------------------------------------------
(* The store, changed by its writers and by hand                           *)

Change ==
  /\ ops < MaxOps
  /\ ops' = ops + 1
  /\ UNCHANGED <<nextWd, phase, todo, batch, directories, changes, known, length>>

\* MakeDirectory of a bucket or a set, or the creation of a stream's file.
Create(p) ==
  /\ Change
  /\ p \notin tree
  /\ Parent(p) \in tree \cup {Root}
  /\ tree' = tree \cup {p}
  /\ size' = [f \in Files |-> IF f = p THEN 0 ELSE size[f]]
  /\ queue' = Notify("create", p)
  /\ told' = IF Watched(p) THEN told \cup {p} ELSE told \ {p}
  /\ toldLength' = IF Watched(p) THEN toldLength \cup {p} ELSE toldLength \ {p}
  /\ UNCHANGED wds

Grow(f) ==
  /\ Change
  /\ f \in tree \cap Files
  /\ size[f] < MaxSize
  /\ size' = [size EXCEPT ![f] = @ + 1]
  /\ queue' = Notify("modify", f)
  /\ toldLength' = IF Watched(f) THEN toldLength \cup {f} ELSE toldLength \ {f}
  /\ UNCHANGED <<tree, wds, told>>

\* A directory takes its watch along.
Remove(p) ==
  /\ Change
  /\ p \in tree
  /\ \A c \in tree : Parent(c) # p
  /\ tree' = tree \ {p}
  /\ IF p \in Dirs /\ wds[p] # 0
     THEN /\ queue' = Enqueue(Notify("delete", p), Event("ignored", wds[p], ""))
          /\ wds' = [wds EXCEPT ![p] = 0]
     ELSE /\ queue' = Notify("delete", p)
          /\ UNCHANGED wds
  /\ told' = IF Watched(p) THEN told \cup {p} ELSE told \ {p}
  /\ UNCHANGED <<size, toldLength>>

Store == \E p \in Paths : Create(p) \/ Grow(p) \/ Remove(p)

----------------------------------------------------------------------------
(* DirectoryWatcher                                                        *)

\* An exception: the thread ends, or the constructor is left.
Throw ==
  /\ phase' = "dead"
  /\ UNCHANGED <<kernel, todo, batch, directories, changes>>

\* mutant: a watch is recorded under the name of its directory
AddWatchMutant(d) ==
  /\ d \in tree
  /\ LET w == IF wds[d] = 0 THEN nextWd ELSE wds[d]
     IN /\ wds' = [wds EXCEPT ![d] = w]
        /\ nextWd' = IF wds[d] = 0 THEN nextWd + 1 ELSE nextWd
        /\ directories' = [v \in DOMAIN directories \cup {w} |->
                             IF v = w THEN <<Name(d)>> ELSE directories[v]]

\* mutant: a watch is recorded by the constructor only
AddLostMutant(d) ==
  /\ d \in tree
  /\ wds' = [wds EXCEPT ![d] = IF @ = 0 THEN nextWd ELSE @]
  /\ nextWd' = IF wds[d] = 0 THEN nextWd + 1 ELSE nextWd
  /\ directories' = IF phase = "add" THEN directories
                    ELSE [v \in DOMAIN directories \cup {wds'[d]} |->
                            IF v = wds'[d] THEN d ELSE directories[v]]

\* inotify_add_watch returns the watch a directory already has.
AddWatch(d) ==
  /\ d \in tree
  /\ LET w == IF wds[d] = 0 THEN nextWd ELSE wds[d]
     IN /\ wds' = [wds EXCEPT ![d] = w]
        /\ nextWd' = IF wds[d] = 0 THEN nextWd + 1 ELSE nextWd
        /\ directories' = [v \in DOMAIN directories \cup {w} |->
                             IF v = w THEN d ELSE directories[v]]

\* DirectoriesInTree in the constructor.
ListTree ==
  /\ phase = "list"
  /\ phase' = "watch"
  /\ todo' = tree \cap Dirs
  /\ UNCHANGED <<files, kernel, queue, batch, directories, changes, known, length>>

\* Directories come before what they hold.
WatchListed ==
  /\ phase = "watch"
  /\ \E d \in todo :
       /\ Parent(d) \notin todo
       /\ \/ AddWatch(d) /\ todo' = todo \ {d} /\ UNCHANGED <<phase, batch, changes>>
          \/ d \notin tree /\ Throw
  /\ UNCHANGED <<files, queue, known, length>>

Constructed ==
  /\ phase = "watch"
  /\ todo = {}
  /\ phase' = "wait"
  /\ UNCHANGED <<files, kernel, queue, todo, batch, directories, changes, known,
                 length>>

\* poll and read in WaitForChanges: the buffer holds all events there are.
ReadEvents ==
  /\ phase = "wait"
  /\ queue # << >>
  /\ batch' = queue
  /\ queue' = << >>
  /\ phase' = "read"
  /\ UNCHANGED <<files, kernel, todo, directories, changes, known, length>>

\* The event at hand, if its watch is known, and its path.
Known == batch # << >> /\ batch[1].wd \in DOMAIN directories
EventPath == PathJoin(directories[batch[1].wd], batch[1].name)

\* mutant: a change that was collected before is not collected again
CollectMutant(action) ==
  /\ phase' = "read"
  /\ batch' = Tail(batch)
  /\ changes' = IF \E i \in DOMAIN changes :
                     changes[i] = [action |-> action, path |-> EventPath]
                THEN changes
                ELSE Append(changes, [action |-> action, path |-> EventPath])

Collect(action) ==
  /\ phase' = "read"
  /\ batch' = Tail(batch)
  /\ changes' = Append(changes, [action |-> action, path |-> EventPath])

ReadUnknown ==
  /\ phase = "read"
  /\ batch # << >> /\ ~Known
  /\ Throw
  /\ UNCHANGED <<files, queue, known, length>>

ReadIgnored ==
  /\ phase = "read"
  /\ Known /\ batch[1].kind = "ignored"
  /\ directories' = [w \in DOMAIN directories \ {batch[1].wd} |-> directories[w]]
  /\ batch' = Tail(batch)
  /\ UNCHANGED <<files, kernel, queue, phase, todo, changes, known, length>>

\* A new path is examined: one that is gone already ends the thread.
ReadCreate ==
  /\ phase = "read"
  /\ Known /\ batch[1].kind = "create"
  /\ \/ EventPath \notin tree /\ Throw
     \/ /\ EventPath \in tree \cap Files
        /\ Collect("added")
        /\ UNCHANGED <<kernel, todo, directories>>
     \/ /\ EventPath \in tree \cap Dirs
        /\ phase' = "add"
        /\ UNCHANGED <<kernel, todo, batch, directories, changes>>
  /\ UNCHANGED <<files, queue, known, length>>

AddNew ==
  /\ phase = "add"
  /\ \/ AddWatch(EventPath) /\ Collect("added") /\ UNCHANGED todo
     \/ EventPath \notin tree /\ Throw
  /\ UNCHANGED <<files, queue, known, length>>

ReadOther ==
  /\ phase = "read"
  /\ Known
  /\ \/ batch[1].kind = "delete" /\ Collect("deleted")
     \/ batch[1].kind = "modify" /\ Collect("modified")
  /\ UNCHANGED <<files, kernel, queue, todo, directories, known, length>>

EventsRead ==
  /\ phase = "read"
  /\ batch = << >>
  /\ phase' = "handle"
  /\ UNCHANGED <<files, kernel, queue, todo, batch, directories, changes, known,
                 length>>

----------------------------------------------------------------------------
(* StoreWatcher::Pump and the Watcher's handlers                           *)

\* The size stat returns; that of a path that is gone is left uninitialized.
Stat(f) == IF f \in tree THEN {size[f]} ELSE 0..(MaxSize + 1)

\* mutant: one change is handled for each read
HandleMutant ==
  /\ phase = "handle"
  /\ changes # << >>
  /\ changes' = << >>
  /\ LET p == changes[1].path
     IN \/ /\ changes[1].action = "added"
           /\ known' = known \cup {p}
           /\ length' = [f \in Files |-> IF f = p THEN 0 ELSE length[f]]
        \/ /\ changes[1].action = "deleted"
           /\ known' = known \ {p}
           /\ UNCHANGED length
        \/ /\ changes[1].action = "modified"
           /\ \E n \in Stat(p) : length' = [length EXCEPT ![p] = n]
           /\ UNCHANGED known
  /\ UNCHANGED <<files, kernel, queue, phase, todo, batch, directories>>

\* HandleAdded, HandleDeleted, HandleModified and what their store change tells.
Handle ==
  /\ phase = "handle"
  /\ changes # << >>
  /\ changes' = Tail(changes)
  /\ LET p == changes[1].path
     IN \/ /\ changes[1].action = "added"
           /\ known' = known \cup {p}
           /\ length' = [f \in Files |-> IF f = p THEN 0 ELSE length[f]]
        \/ /\ changes[1].action = "deleted"
           /\ known' = known \ {p}
           /\ UNCHANGED length
        \/ /\ changes[1].action = "modified"
           /\ \E n \in Stat(p) : length' = [length EXCEPT ![p] = n]
           /\ UNCHANGED known
  /\ UNCHANGED <<files, kernel, queue, phase, todo, batch, directories>>

Handled ==
  /\ phase = "handle"
  /\ changes = << >>
  /\ phase' = "wait"
  /\ UNCHANGED <<files, kernel, queue, todo, batch, directories, changes, known,
                 length>>

----------------------------------------------------------------------------
Watcher ==
  \/ ListTree \/ WatchListed \/ Constructed
  \/ ReadEvents \/ ReadUnknown \/ ReadIgnored \/ ReadCreate \/ AddNew
  \/ ReadOther \/ EventsRead
  \/ Handle \/ Handled

Next == Store \/ Watcher

Spec == Init /\ [][Next]_vars

\* Device::Run pumps the watcher as long as it lives.
FairSpec == Spec /\ WF_vars(Watcher)

----------------------------------------------------------------------------
(* Properties                                                              *)

Kinds == {"create", "delete", "modify", "ignored", "overflow"}
Events == [kind : Kinds, wd : Int, name : Names \cup {""}]
Changes == [action : {"added", "deleted", "modified"}, path : Paths]

TypeOK ==
  /\ tree \subseteq Paths
  /\ size \in [Files -> 0..MaxSize]
  /\ wds \in [Dirs \cup {Root} -> Nat]
  /\ nextWd \in Nat
  /\ queue \in Seq(Events)
  /\ phase \in Phases
  /\ todo \subseteq Dirs
  /\ batch \in Seq(Events)
  /\ DOMAIN directories \subseteq 1..(nextWd - 1)
  /\ \A w \in DOMAIN directories : directories[w] \in Dirs \cup {Root}
  /\ changes \in Seq(Changes)
  /\ known \subseteq Paths
  /\ length \in [Files -> 0..(MaxSize + 1)]
  /\ told \subseteq Paths
  /\ toldLength \subseteq Paths
  /\ ops \in 0..MaxOps

(***************************************************************************)
(* An event of a watch the DirectoryWatcher does not know, which ends the  *)
(* thread, is never anything but the kernel's overflow, however            *)
(* directories are removed and made again between the events               *)
(* (directories.erase on IN_IGNORED).                                      *)
(***************************************************************************)
UnknownIsOverflow ==
  phase = "read" /\ batch # << >> /\ ~Known => batch[1] = Overflow

\* The watcher has read and handled all there is.
Idle == phase = "wait" /\ queue = << >>

(***************************************************************************)
(* When the watcher has handled all there is, a receiver of the changes    *)
(* knows of every path whose last coming or going met a watch whether it   *)
(* exists, and of every such stream its length: the length comes from a    *)
(* stat after the event was taken from the queue, so that no growth is     *)
(* lost to merged events (WaitForChanges, Pump).                           *)
(***************************************************************************)
ViewCatchesUp ==
  Idle => /\ \A p \in told : p \in known <=> p \in tree
          /\ \A f \in toldLength \cap tree \cap Files : length[f] = size[f]

(***************************************************************************)
(* The growth of a stream that meets a watch is announced, unless the      *)
(* stream or the watcher goes first (Pump returns to WaitForChanges).      *)
(***************************************************************************)
GrowthAnnounced ==
  \A f \in Files :
    (f \in toldLength \cap tree /\ length[f] # size[f])
      ~> (phase = "dead" \/ f \notin toldLength \cap tree \/ length[f] = size[f])

(***************************************************************************)
(* platform.hpp says of DirectoryWatcher "If recursively watching a tree,  *)
(* the watcher will automatically watch newly-created directories, as they *)
(* are added": when it has handled all there is, it watches every          *)
(* directory.                                                              *)
(***************************************************************************)
TreeIsWatched == Idle => \A d \in tree \cap Dirs : wds[d] # 0

=============================================================================
