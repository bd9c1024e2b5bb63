-------------------------- MODULE StoreWatchProofs --------------------------
(***************************************************************************)
(* Proofs about StoreWatch, for any buckets, sets and streams, any length  *)
(* of the kernel's queue and any number of changes to the store.           *)
(***************************************************************************)
EXTENDS StoreWatch, SequenceTheorems, TLAPS

Directories == Dirs \cup {Root}

----------------------------------------------------------------------------
(* The invariant                                                           *)

\* The watcher knows each watch of the kernel by the directory it is on.
WatchInv ==
  /\ nextWd > 0
  /\ \A d \in Directories :
       wds[d] # 0 => wds[d] \in DOMAIN directories /\ directories[wds[d]] = d

\* What an event of a known watch is about: the path it will be taken for.
Place(e, dirs) == PathJoin(dirs[e.wd], e.name)

Sound(e, dirs) ==
  e # Overflow =>
    /\ e.wd \in DOMAIN dirs
    /\ e.kind \in {"create", "delete"} => Place(e, dirs) \in Paths
    /\ e.kind = "modify" => Place(e, dirs) \in Files

\* Behind the last event of a watch there is none of it, and no directory has it.
Final(s, w) ==
  \A i, j \in 1..Len(s) :
    s[i].kind = "ignored" =>
      /\ i < j => s[i].wd # s[j].wd
      /\ \A d \in Directories : w[d] # s[i].wd

Good(s, dirs, w) == Final(s, w) /\ \A i \in 1..Len(s) : Sound(s[i], dirs)

\* The events that are read come before those in the queue.
EventInv == Good(batch \o queue, directories, wds)

PhaseInv ==
  /\ phase \in {"list", "watch", "wait", "handle"} => batch = << >>
  /\ phase = "add" => batch # << >> /\ Known /\ EventPath \in Dirs

ChangeInv ==
  \A i \in 1..Len(changes) : changes[i].action = "modified" => changes[i].path \in Files

WInv ==
  /\ TypeOK
  /\ WatchInv
  /\ EventInv
  /\ PhaseInv
  /\ ChangeInv

----------------------------------------------------------------------------
(* Paths, and sequences of events                                          *)

\* A path is what PathJoin makes of its directory and its name.
LEMMA PathFacts ==
  ASSUME NEW p \in Paths
  PROVE  /\ Parent(p) \in Directories
         /\ Name(p) \in Names
         /\ PathJoin(Parent(p), Name(p)) = p
         /\ Parent(p) # p
  <1>1. p \in Seq(Names) /\ p # << >> /\ Parent(p) \in Directories
    BY StoreWatchAssumption DEF Root, Directories
  <1>2. Len(p) \in Nat \ {0}
    BY <1>1, EmptySeq
  <1>3. \A i \in 1..Len(p) : p[i] \in Names
    BY <1>1, ElementOfSeq
  <1>4. /\ Parent(p) \in Seq(Names)
        /\ Len(Parent(p)) = Len(p) - 1
        /\ \A i \in 1..(Len(p) - 1) : Parent(p)[i] = p[i]
    <2>1. \A i \in 1..(Len(p) - 1) : p[i] \in Names
      BY <1>2, <1>3
    <2> DEFINE n == Len(p) - 1
    <2>2. n \in Nat
      BY <1>2
    <2> HIDE DEF n
    <2>3. /\ SubSeq(p, 1, n) \in Seq(Names)
          /\ Len(SubSeq(p, 1, n)) = IF 1 <= n THEN n - 1 + 1 ELSE 0
          /\ \A i \in 1..(n - 1 + 1) : SubSeq(p, 1, n)[i] = p[1 + i - 1]
      BY <2>1, <2>2, SubSeqProperties DEF n
    <2>4. /\ SubSeq(p, 1, n) \in Seq(Names)
          /\ Len(SubSeq(p, 1, n)) = n
          /\ \A i \in 1..n : SubSeq(p, 1, n)[i] = p[i]
      BY <2>2, <2>3
    <2> QED BY <2>4 DEF Parent, n
  <1>5. Name(p) \in Names
    BY <1>2, <1>3 DEF Name
  <1>6. PathJoin(Parent(p), Name(p)) = p
    <2> DEFINE t == Append(Parent(p), Name(p))
    <2>1. t \in Seq(Names) /\ Len(t) = Len(p)
      BY <1>2, <1>4, <1>5, AppendProperties
    <2>2. \A i \in 1..Len(p) : t[i] = p[i]
      BY <1>2, <1>4, <1>5, AppendProperties DEF Name
    <2> HIDE DEF t
    <2>3. t = p
      BY <1>1, <2>1, <2>2, SeqEqual
    <2> QED BY <2>3 DEF PathJoin, t
  <1>7. Parent(p) # p
    BY <1>2, <1>4
  <1> QED BY <1>1, <1>5, <1>6, <1>7

LEMMA EventFacts ==
  /\ Overflow \in Events
  /\ Overflow.wd = -1 /\ Overflow.kind = "overflow"
  BY DEF Overflow, Event, Events, Kinds

\* An event behind good ones, whose watch has not met its last event.
LEMMA GoodAppend ==
  ASSUME NEW s \in Seq(Events), NEW e \in Events, NEW dirs, NEW w,
         Good(s, dirs, w), Sound(e, dirs),
         e.kind = "ignored" => \A d \in Directories : w[d] # e.wd,
         \A i \in 1..Len(s) : s[i].kind = "ignored" => s[i].wd # e.wd
  PROVE  Good(Append(s, e), dirs, w)
  <1> DEFINE t == Append(s, e)
  <1>1. Len(s) \in Nat
    BY LenProperties
  <1>2. /\ Len(t) = Len(s) + 1
        /\ \A i \in 1..Len(s) : t[i] = s[i]
        /\ t[Len(s) + 1] = e
    BY AppendProperties
  <1> HIDE DEF t
  <1>3. \A i \in 1..Len(t) : Sound(t[i], dirs)
    BY <1>1, <1>2 DEF Good
  <1>4. Final(t, w)
    <2> SUFFICES ASSUME NEW i \in 1..Len(t), NEW j \in 1..Len(t), t[i].kind = "ignored"
                 PROVE  /\ i < j => t[i].wd # t[j].wd
                        /\ \A d \in Directories : w[d] # t[i].wd
      BY DEF Final
    <2>1. CASE i \in 1..Len(s) /\ j \in 1..Len(s)
      BY <1>2, <2>1 DEF Good, Final
    <2>2. CASE i \in 1..Len(s) /\ j = Len(s) + 1
      BY <1>2, <2>2 DEF Good, Final
    <2>3. CASE i = Len(s) + 1
      BY <1>1, <1>2, <2>3
    <2> QED BY <1>1, <1>2, <2>1, <2>2, <2>3
  <1> QED BY <1>3, <1>4 DEF Good, t

\* So the kernel may queue it, or merge it, or replace it by the overflow.
LEMMA GoodEnqueue ==
  ASSUME NEW b \in Seq(Events), NEW q \in Seq(Events), NEW e \in Events, NEW dirs, NEW w,
         DOMAIN dirs \subseteq Nat, Good(b \o q, dirs, w), Sound(e, dirs),
         e.kind = "ignored" => \A d \in Directories : w[d] # e.wd,
         \A i \in 1..Len(b \o q) : (b \o q)[i].kind = "ignored" => (b \o q)[i].wd # e.wd
  PROVE  /\ Enqueue(q, e) \in Seq(Events)
         /\ Good(b \o Enqueue(q, e), dirs, w)
  <1>1. b \o q \in Seq(Events)
    BY ConcatProperties
  <1>2. \A f \in Events : /\ Append(q, f) \in Seq(Events)
                          /\ b \o Append(q, f) = Append(b \o q, f)
    <2> TAKE f \in Events
    <2>1. <<f>> \in Seq(Events)
      OBVIOUS
    <2>2. b \o Append(q, f) = (b \o q) \o <<f>>
      BY <2>1, AppendIsConcat, ConcatAssociative
    <2> QED BY <1>1, <2>2, AppendIsConcat, AppendProperties
  <1>3. Good(b \o Append(q, e), dirs, w)
    BY <1>1, <1>2, GoodAppend
  <1>4. Good(b \o Append(q, Overflow), dirs, w)
    <2>1. Sound(Overflow, dirs)
      BY DEF Sound
    <2>2. ASSUME NEW i \in 1..Len(b \o q), (b \o q)[i].kind = "ignored"
          PROVE  (b \o q)[i].wd # -1
      <3>1. (b \o q)[i] # Overflow
        BY <2>2, EventFacts
      <3>2. Sound((b \o q)[i], dirs)
        BY DEF Good
      <3>3. (b \o q)[i].wd \in Nat
        BY <3>1, <3>2 DEF Sound
      <3> QED BY <3>3
    <2> QED BY <1>1, <1>2, <2>1, <2>2, GoodAppend, EventFacts
  <1>5. Enqueue(q, e) \in {q, Append(q, e), Append(q, Overflow)}
    BY DEF Enqueue
  <1> QED BY <1>2, <1>3, <1>4, <1>5, EventFacts

\* What the first event and the events behind it are.
LEMMA TailFacts ==
  ASSUME NEW b \in Seq(Events), NEW q \in Seq(Events), b # << >>
  PROVE  /\ Tail(b) \in Seq(Events)
         /\ Len(b \o q) \in Nat /\ Len(b \o q) >= 1
         /\ (b \o q)[1] = b[1]
         /\ b[1] \in Events
         /\ Len(Tail(b) \o q) = Len(b \o q) - 1
         /\ \A i \in 1..(Len(b \o q) - 1) : (Tail(b) \o q)[i] = (b \o q)[i + 1]
  <1>1. Len(b) \in Nat /\ Len(b) >= 1 /\ Len(q) \in Nat
    BY EmptySeq, LenProperties
  <1>2. /\ Tail(b) \in Seq(Events)
        /\ Len(Tail(b)) = Len(b) - 1
        /\ \A i \in 1..(Len(b) - 1) : Tail(b)[i] = b[i + 1]
    BY HeadTailProperties
  <1>3. /\ Len(b \o q) = Len(b) + Len(q)
        /\ \A i \in 1..(Len(b) + Len(q)) :
             (b \o q)[i] = IF i <= Len(b) THEN b[i] ELSE q[i - Len(b)]
    BY ConcatProperties
  <1>4. /\ Len(Tail(b) \o q) = Len(b) - 1 + Len(q)
        /\ \A i \in 1..(Len(b) - 1 + Len(q)) :
             (Tail(b) \o q)[i] = IF i <= Len(b) - 1 THEN Tail(b)[i] ELSE q[i - (Len(b) - 1)]
    BY <1>2, ConcatProperties
  <1>5. b[1] \in Events
    BY <1>1, ElementOfSeq
  <1>6. ASSUME NEW i \in 1..(Len(b) + Len(q) - 1)
        PROVE  (Tail(b) \o q)[i] = (b \o q)[i + 1]
    BY <1>1, <1>2, <1>3, <1>4
  <1> QED BY <1>1, <1>2, <1>3, <1>4, <1>5, <1>6

\* The first event is processed; what follows is as good, and does without the
\* watch when the event was its last one.
LEMMA GoodTail ==
  ASSUME NEW b \in Seq(Events), NEW q \in Seq(Events), b # << >>,
         NEW dirs, NEW w, Good(b \o q, dirs, w)
  PROVE  /\ Sound(b[1], dirs)
         /\ Good(Tail(b) \o q, dirs, w)
         /\ b[1].kind = "ignored" =>
              /\ \A d \in Directories : w[d] # b[1].wd
              /\ Good(Tail(b) \o q, [v \in DOMAIN dirs \ {b[1].wd} |-> dirs[v]], w)
  <1> DEFINE s == b \o q
             t == Tail(b) \o q
  <1>1. /\ Len(s) \in Nat /\ Len(s) >= 1
        /\ s[1] = b[1]
        /\ Len(t) = Len(s) - 1
        /\ \A i \in 1..(Len(s) - 1) : t[i] = s[i + 1]
    BY TailFacts
  <1>2. Good(s, dirs, w)
    OBVIOUS
  <1> HIDE DEF s, t
  <1>3. Sound(s[1], dirs)
    BY <1>1, <1>2 DEF Good
  <1>4. \A i \in 1..Len(t) : Sound(t[i], dirs)
    BY <1>1, <1>2 DEF Good
  <1>5. Final(t, w)
    BY <1>1, <1>2 DEF Good, Final
  <1>6. ASSUME s[1].kind = "ignored"
        PROVE  /\ \A d \in Directories : w[d] # s[1].wd
               /\ \A i \in 1..Len(t) : Sound(t[i], [v \in DOMAIN dirs \ {s[1].wd} |-> dirs[v]])
    <2>1. \A d \in Directories : w[d] # s[1].wd
      BY <1>1, <1>2, <1>6 DEF Good, Final
    <2>2. \A i \in 1..Len(t) : t[i].wd # s[1].wd
      BY <1>1, <1>2, <1>6 DEF Good, Final
    <2> QED BY <1>4, <2>1, <2>2 DEF Sound, Place
  <1> QED BY <1>1, <1>3, <1>4, <1>5, <1>6 DEF Good, s, t

----------------------------------------------------------------------------
(* The kernel's part                                                       *)

LEMMA TypeFacts ==
  ASSUME WInv
  PROVE  /\ queue \in Seq(Events) /\ batch \in Seq(Events)
         /\ batch \o queue \in Seq(Events)
         /\ nextWd \in Nat /\ nextWd > 0
         /\ DOMAIN directories \subseteq Nat \ {0}
         /\ \A d \in Directories : wds[d] \in Nat
  <1>1. queue \in Seq(Events) /\ batch \in Seq(Events) /\ nextWd \in Nat /\ nextWd > 0
    BY DEF WInv, TypeOK, WatchInv
  <1>2. DOMAIN directories \subseteq Nat \ {0}
    BY <1>1 DEF WInv, TypeOK
  <1>3. \A d \in Directories : wds[d] \in Nat
    BY DEF WInv, TypeOK, Directories
  <1> QED BY <1>1, <1>2, <1>3, ConcatProperties

\* The last event of a watch is none that a directory has.
LEMMA NotFinal ==
  ASSUME WInv, NEW d \in Directories, NEW i \in 1..Len(batch \o queue),
         (batch \o queue)[i].kind = "ignored"
  PROVE  (batch \o queue)[i].wd # wds[d]
  BY DEF WInv, EventInv, Good, Final

\* What happens to a path is told truly, or not at all.
LEMMA Notified ==
  ASSUME WInv, NEW p \in Paths, NEW kind \in {"create", "delete", "modify"},
         kind = "modify" => p \in Files
  PROVE  /\ Notify(kind, p) \in Seq(Events)
         /\ Good(batch \o Notify(kind, p), directories, wds)
         /\ \A d \in Directories :
              wds[d] # 0 /\ d # Parent(p) =>
                \A i \in 1..Len(batch \o Notify(kind, p)) :
                  (batch \o Notify(kind, p))[i].kind = "ignored" =>
                    (batch \o Notify(kind, p))[i].wd # wds[d]
  <1> DEFINE e == Event(kind, wds[Parent(p)], Name(p))
  <1>0. queue \in Seq(Events) /\ batch \in Seq(Events) /\ DOMAIN directories \subseteq Nat
    BY TypeFacts
  <1>1. Good(batch \o queue, directories, wds)
    BY DEF WInv, EventInv
  <1>2. CASE ~Watched(p)
    <2>1. Notify(kind, p) = queue
      BY <1>2 DEF Notify
    <2> QED BY <1>0, <1>1, <2>1, NotFinal
  <1>3. CASE Watched(p)
    <2>1. Parent(p) \in Directories /\ Name(p) \in Names /\ PathJoin(Parent(p), Name(p)) = p
      BY PathFacts
    <2>2. wds[Parent(p)] \in DOMAIN directories /\ directories[wds[Parent(p)]] = Parent(p)
      BY <1>3, <2>1 DEF Watched, WInv, WatchInv
    <2>3. e \in Events /\ e.kind = kind /\ e.wd = wds[Parent(p)] /\ e.name = Name(p)
      <3>1. wds[Parent(p)] \in Int /\ kind \in Kinds /\ Name(p) \in Names \cup {""}
        <4>1. kind \in Kinds
          BY DEF Kinds
        <4>2. wds[Parent(p)] \in Nat
          BY <2>1, TypeFacts
        <4>3. wds[Parent(p)] \in Int
          BY <4>2
        <4>4. Name(p) \in Names \cup {""}
          BY <2>1, Zenon
        <4> QED BY <4>1, <4>3, <4>4, Zenon
      <3> QED BY <3>1 DEF Event, Events
    <2>4. Sound(e, directories)
      BY <2>1, <2>2, <2>3 DEF Sound, Place
    <2>5. \A i \in 1..Len(batch \o queue) :
            (batch \o queue)[i].kind = "ignored" => (batch \o queue)[i].wd # e.wd
      BY <2>1, <2>3, NotFinal
    <2>6. e.kind # "ignored"
      BY <2>3
    <2>7. Notify(kind, p) = Enqueue(queue, e)
      BY <1>3 DEF Notify
    <2> HIDE DEF e
    <2>8. Notify(kind, p) \in Seq(Events) /\ Good(batch \o Notify(kind, p), directories, wds)
      BY <1>0, <1>1, <2>3, <2>4, <2>5, <2>6, <2>7, GoodEnqueue
    <2> QED BY <2>8 DEF Good, Final
  <1> QED BY <1>2, <1>3

\* A watch is added, or found: all events stay good.
LEMMA WatchAdded ==
  ASSUME WInv, NEW d \in Dirs, AddWatch(d)
  PROVE  /\ wds' \in [Directories -> Nat]
         /\ nextWd' \in Nat
         /\ DOMAIN directories' \subseteq 1..(nextWd' - 1)
         /\ \A v \in DOMAIN directories' : directories'[v] \in Directories
         /\ WatchInv'
         /\ \A v \in DOMAIN directories : directories'[v] = directories[v]
         /\ \A s \in Seq(Events) :
              Good(s, directories, wds) => Good(s, directories', wds')
  <1> DEFINE w == IF wds[d] = 0 THEN nextWd ELSE wds[d]
  <1>0. /\ wds \in [Directories -> Nat] /\ nextWd \in Nat /\ nextWd > 0
        /\ d \in Directories
        /\ DOMAIN directories \subseteq 1..(nextWd - 1)
        /\ \A v \in DOMAIN directories : directories[v] \in Directories
        /\ \A c \in Directories :
             wds[c] # 0 => wds[c] \in DOMAIN directories /\ directories[wds[c]] = c
    BY DEF WInv, TypeOK, WatchInv, Directories
  <1>1. /\ wds' = [wds EXCEPT ![d] = w]
        /\ nextWd' = IF wds[d] = 0 THEN nextWd + 1 ELSE nextWd
        /\ directories' = [v \in DOMAIN directories \cup {w} |->
                             IF v = w THEN d ELSE directories[v]]
    BY DEF AddWatch
  <1>2. /\ w \in Nat \ {0}
        /\ w \in DOMAIN directories => directories[w] = d /\ wds[d] = w
        /\ w < nextWd'
        /\ nextWd <= nextWd'
        /\ nextWd' \in Nat
    BY <1>0, <1>1
  <1>3. \A c \in Directories : wds[c] = w => c = d
    BY <1>0, <1>2
  <1> HIDE DEF w
  <1>4. wds' \in [Directories -> Nat] /\ wds'[d] = w /\ \A c \in Directories \ {d} : wds'[c] = wds[c]
    BY <1>0, <1>1, <1>2
  <1>5. DOMAIN directories' \subseteq 1..(nextWd' - 1)
    BY <1>0, <1>1, <1>2
  <1>6. \A v \in DOMAIN directories' : directories'[v] \in Directories
    BY <1>0, <1>1
  <1>7. WatchInv'
    <2>1. nextWd' > 0
      BY <1>0, <1>2
    <2>2. ASSUME NEW c \in Directories, wds'[c] # 0
          PROVE  wds'[c] \in DOMAIN directories' /\ directories'[wds'[c]] = c
      BY <1>0, <1>1, <1>3, <1>4, <2>2
    <2> QED BY <2>1, <2>2 DEF WatchInv
  <1>8. \A v \in DOMAIN directories : v \in DOMAIN directories' /\ directories'[v] = directories[v]
    BY <1>1, <1>2
  <1>9. ASSUME NEW s \in Seq(Events), Good(s, directories, wds)
        PROVE  Good(s, directories', wds')
    <2>1. \A i \in 1..Len(s) : Sound(s[i], directories')
      BY <1>8, <1>9 DEF Good, Sound, Place
    <2>2. ASSUME NEW i \in 1..Len(s), s[i].kind = "ignored"
          PROVE  s[i].wd # w
      <3>1. s[i].wd \in DOMAIN directories
        BY <1>9, <2>2, EventFacts DEF Good, Sound
      <3>2. wds[d] # s[i].wd
        BY <1>0, <1>9, <2>2 DEF Good, Final
      <3> QED BY <1>2, <3>1, <3>2
    <2>3. Final(s, wds')
      BY <1>4, <1>9, <2>2 DEF Good, Final
    <2> QED BY <2>1, <2>3 DEF Good
  <1> QED BY <1>2, <1>4, <1>5, <1>6, <1>7, <1>8, <1>9

----------------------------------------------------------------------------
(* The steps                                                               *)

LEMMA Initially == ASSUME Init PROVE WInv
  <1>1. TypeOK
    <2>1. wds \in [Directories -> Nat] /\ size \in [Files -> 0..MaxSize]
      BY StoreWatchAssumption DEF Init, Directories
    <2>2. length \in [Files -> 0..(MaxSize + 1)] /\ ops \in 0..MaxOps
      BY StoreWatchAssumption DEF Init
    <2>3. DOMAIN directories \subseteq 1..(nextWd - 1) /\ nextWd \in Nat
      BY DEF Init
    <2>4. \A v \in DOMAIN directories : directories[v] \in Dirs \cup {Root}
      BY DEF Init
    <2>5. queue \in Seq(Events) /\ batch \in Seq(Events) /\ changes \in Seq(Changes)
      BY DEF Init
    <2>6. tree \subseteq Paths /\ phase \in Phases /\ todo \subseteq Dirs /\ known \subseteq Paths
          /\ told \subseteq Paths /\ toldLength \subseteq Paths
      BY DEF Init, Phases
    <2> QED BY <2>1, <2>2, <2>3, <2>4, <2>5, <2>6 DEF TypeOK, Directories
  <1>2. WatchInv
    BY DEF Init, WatchInv, Directories
  <1>3. EventInv
    <2>1. batch \o queue = << >>
      BY DEF Init
    <2> QED BY <2>1 DEF EventInv, Good, Final
  <1>4. PhaseInv /\ ChangeInv
    BY DEF Init, PhaseInv, ChangeInv
  <1> QED BY <1>1, <1>2, <1>3, <1>4 DEF WInv

\* What no change to the store disturbs.
LEMMA ChangeStep ==
  ASSUME WInv, Change
  PROVE  /\ PhaseInv' /\ ChangeInv'
         /\ ops' \in 0..MaxOps /\ nextWd' \in Nat /\ phase' \in Phases /\ todo' \subseteq Dirs
         /\ batch' \in Seq(Events) /\ batch' = batch
         /\ DOMAIN directories' \subseteq 1..(nextWd' - 1) /\ directories' = directories
         /\ \A v \in DOMAIN directories' : directories'[v] \in Dirs \cup {Root}
         /\ changes' \in Seq(Changes)
         /\ known' \subseteq Paths
         /\ length' \in [Files -> 0..(MaxSize + 1)]
         /\ nextWd' = nextWd
  <1>1. UNCHANGED <<nextWd, phase, todo, batch, directories, changes, known, length>>
    BY DEF Change
  <1>2. ops' \in 0..MaxOps
    BY StoreWatchAssumption DEF Change, WInv, TypeOK
  <1>3. PhaseInv' /\ ChangeInv'
    BY <1>1 DEF WInv, PhaseInv, ChangeInv, Known, EventPath
  <1> QED BY <1>1, <1>2, <1>3 DEF WInv, TypeOK

LEMMA CreateStep ==
  ASSUME WInv, NEW p \in Paths, Create(p) PROVE WInv'
  <1>0. Change
    BY DEF Create
  <1>1. queue' \in Seq(Events) /\ EventInv'
    <2>1. queue' = Notify("create", p) /\ wds' = wds
      BY DEF Create
    <2>2. Notify("create", p) \in Seq(Events) /\ Good(batch \o Notify("create", p), directories, wds)
      BY Notified
    <2> QED BY <1>0, <2>1, <2>2, ChangeStep DEF EventInv
  <1>2. WatchInv'
    BY <1>0, ChangeStep DEF Create, WInv, WatchInv
  <1>3. TypeOK'
    <2>1. tree' \subseteq Paths /\ told' \subseteq Paths /\ toldLength' \subseteq Paths
      BY DEF Create, WInv, TypeOK
    <2>2. size' \in [Files -> 0..MaxSize]
      BY StoreWatchAssumption DEF Create, WInv, TypeOK
    <2>3. wds' \in [Dirs \cup {Root} -> Nat]
      BY DEF Create, WInv, TypeOK
    <2> QED BY <1>0, <1>1, <2>1, <2>2, <2>3, ChangeStep DEF TypeOK
  <1> QED BY <1>0, <1>1, <1>2, <1>3, ChangeStep DEF WInv

LEMMA GrowStep ==
  ASSUME WInv, NEW p \in Paths, Grow(p) PROVE WInv'
  <1>0. Change /\ p \in Files
    BY DEF Grow
  <1>1. queue' \in Seq(Events) /\ EventInv'
    <2>1. queue' = Notify("modify", p) /\ wds' = wds
      BY DEF Grow
    <2>2. Notify("modify", p) \in Seq(Events) /\ Good(batch \o Notify("modify", p), directories, wds)
      BY <1>0, Notified
    <2> QED BY <1>0, <2>1, <2>2, ChangeStep DEF EventInv
  <1>2. WatchInv'
    BY <1>0, ChangeStep DEF Grow, WInv, WatchInv
  <1>3. TypeOK'
    <2>1. tree' \subseteq Paths /\ told' \subseteq Paths /\ toldLength' \subseteq Paths
      BY DEF Grow, WInv, TypeOK
    <2>2. size' \in [Files -> 0..MaxSize]
      BY <1>0, StoreWatchAssumption DEF Grow, WInv, TypeOK
    <2>3. wds' \in [Dirs \cup {Root} -> Nat]
      BY DEF Grow, WInv, TypeOK
    <2> QED BY <1>0, <1>1, <2>1, <2>2, <2>3, ChangeStep DEF TypeOK
  <1> QED BY <1>0, <1>1, <1>2, <1>3, ChangeStep DEF WInv

LEMMA RemoveStep ==
  ASSUME WInv, NEW p \in Paths, Remove(p) PROVE WInv'
  <1>0. Change
    BY DEF Remove
  <1> DEFINE q == Notify("delete", p)
             e == Event("ignored", wds[p], "")
             Watching == p \in Dirs /\ wds[p] # 0
  <1>1. /\ q \in Seq(Events)
        /\ Good(batch \o q, directories, wds)
        /\ \A d \in Directories :
             wds[d] # 0 /\ d # Parent(p) =>
               \A i \in 1..Len(batch \o q) :
                 (batch \o q)[i].kind = "ignored" => (batch \o q)[i].wd # wds[d]
    BY Notified
  <1>2. /\ queue' = IF Watching THEN Enqueue(q, e) ELSE q
        /\ wds' = IF Watching THEN [wds EXCEPT ![p] = 0] ELSE wds
    BY DEF Remove
  <1> HIDE DEF q
  <1>3. wds' \in [Directories -> Nat] /\ \A d \in Directories : wds'[d] \in {0, wds[d]}
    BY <1>2 DEF WInv, TypeOK, Directories
  <1>4. WatchInv'
    BY <1>0, <1>3, ChangeStep DEF WInv, WatchInv
  <1>5. Good(batch \o q, directories, wds')
    <2>1. ASSUME NEW i \in 1..Len(batch \o q), (batch \o q)[i].kind = "ignored"
          PROVE  (batch \o q)[i].wd # 0
      <3>1. (batch \o q)[i].wd \in DOMAIN directories
        BY <1>1, <2>1, EventFacts DEF Good, Sound
      <3> QED BY <3>1, TypeFacts
    <2> QED BY <1>1, <1>3, <2>1 DEF Good, Final
  <1>6. ASSUME Watching
        PROVE  queue' \in Seq(Events) /\ Good(batch \o queue', directories, wds')
    <2>1. p \in Directories /\ p # Parent(p) /\ wds[p] # 0 /\ wds[p] \in Nat
      BY <1>6, PathFacts, TypeFacts DEF Directories
    <2>2. wds[p] \in DOMAIN directories /\ directories[wds[p]] = p
      BY <2>1 DEF WInv, WatchInv
    <2>3. e \in Events /\ e.kind = "ignored" /\ e.wd = wds[p]
      <3>1. wds[p] \in Int /\ "ignored" \in Kinds /\ "" \in Names \cup {""}
        BY <2>1 DEF Kinds
      <3> QED BY <3>1 DEF Event, Events
    <2>4. Sound(e, directories)
      BY <2>2, <2>3 DEF Sound
    <2>5. \A d \in Directories : wds'[d] # e.wd
      <3> SUFFICES ASSUME NEW d \in Directories, wds'[d] = wds[p] PROVE FALSE
        BY <2>3
      <3>1. d # p
        BY <1>2, <1>6, <2>1 DEF WInv, TypeOK, Directories
      <3>2. wds[d] = wds[p]
        BY <1>3, <2>1
      <3>3. directories[wds[d]] = d
        BY <2>1, <3>2 DEF WInv, WatchInv
      <3> QED BY <2>2, <3>1, <3>2, <3>3
    <2>6. \A i \in 1..Len(batch \o q) :
            (batch \o q)[i].kind = "ignored" => (batch \o q)[i].wd # e.wd
      BY <1>1, <2>1, <2>3
    <2>7. queue' = Enqueue(q, e)
      BY <1>2, <1>6
    <2>8. batch \in Seq(Events) /\ DOMAIN directories \subseteq Nat
      BY TypeFacts
    <2> HIDE DEF e
    <2>9. queue' \in Seq(Events) /\ Good(batch \o queue', directories, wds')
      BY <1>1, <1>5, <2>3, <2>4, <2>5, <2>6, <2>7, <2>8, GoodEnqueue
    <2> QED BY <2>9
  <1>7. ASSUME ~Watching
        PROVE  queue' \in Seq(Events) /\ Good(batch \o queue', directories, wds')
    BY <1>1, <1>2, <1>5, <1>7
  <1>8. queue' \in Seq(Events) /\ EventInv'
    <2>1. queue' \in Seq(Events) /\ Good(batch \o queue', directories, wds')
      BY <1>6, <1>7
    <2> QED BY <1>0, <2>1, ChangeStep DEF EventInv
  <1>9. TypeOK'
    <2>1. tree' \subseteq Paths /\ told' \subseteq Paths /\ toldLength' \subseteq Paths
      BY DEF Remove, WInv, TypeOK
    <2>2. size' \in [Files -> 0..MaxSize]
      BY DEF Remove, WInv, TypeOK
    <2> QED BY <1>0, <1>3, <1>8, <2>1, <2>2, ChangeStep DEF TypeOK, Directories
  <1> QED BY <1>0, <1>4, <1>8, <1>9, ChangeStep DEF WInv

\* A step of the watcher that leaves the store's files and the queue alone.
LEMMA WatcherTypes ==
  ASSUME WInv, UNCHANGED <<files, known, length>>,
         queue' \in Seq(Events),
         wds' \in [Directories -> Nat] /\ nextWd' \in Nat,
         phase' \in Phases,
         todo' \subseteq Dirs,
         batch' \in Seq(Events),
         DOMAIN directories' \subseteq 1..(nextWd' - 1),
         \A v \in DOMAIN directories' : directories'[v] \in Directories,
         changes' \in Seq(Changes)
  PROVE  TypeOK'
  BY DEF WInv, TypeOK, files, Directories

\* One that leaves the kernel's watches and what is known of them alone, too.
LEMMA QuietTypes ==
  ASSUME WInv, UNCHANGED <<files, kernel, queue, directories, known, length>>,
         phase' \in Phases, todo' \subseteq Dirs, batch' \in Seq(Events),
         changes' \in Seq(Changes)
  PROVE  TypeOK' /\ WatchInv'
  <1>1. wds' \in [Directories -> Nat] /\ nextWd' \in Nat
    BY DEF WInv, TypeOK, Directories, kernel
  <1>2. /\ queue' \in Seq(Events)
        /\ DOMAIN directories' \subseteq 1..(nextWd' - 1)
        /\ \A v \in DOMAIN directories' : directories'[v] \in Directories
    BY DEF WInv, TypeOK, Directories, kernel
  <1>3. WatchInv'
    BY DEF WInv, WatchInv, kernel
  <1> QED BY <1>1, <1>2, <1>3, WatcherTypes

\* An exception leaves everything where it is.
LEMMA ThrowStep ==
  ASSUME WInv, Throw, UNCHANGED <<files, queue, known, length>> PROVE WInv'
  <1>1. TypeOK' /\ WatchInv'
    BY QuietTypes DEF Throw, Phases, WInv, TypeOK
  <1>2. EventInv'
    BY DEF Throw, WInv, EventInv, kernel
  <1>3. PhaseInv' /\ ChangeInv'
    BY DEF Throw, WInv, PhaseInv, ChangeInv
  <1> QED BY <1>1, <1>2, <1>3 DEF WInv

LEMMA ConstructorStep ==
  ASSUME WInv, ListTree \/ WatchListed \/ Constructed PROVE WInv'
  <1>1. CASE ListTree
    <2>1. TypeOK' /\ WatchInv'
      BY <1>1, QuietTypes DEF ListTree, Phases, WInv, TypeOK
    <2>2. EventInv' /\ PhaseInv' /\ ChangeInv'
      BY <1>1 DEF ListTree, WInv, EventInv, PhaseInv, ChangeInv, kernel
    <2> QED BY <2>1, <2>2 DEF WInv
  <1>2. CASE WatchListed
    <2>1. PICK d \in todo :
            \/ AddWatch(d) /\ todo' = todo \ {d} /\ UNCHANGED <<phase, batch, changes>>
            \/ Throw
      BY <1>2 DEF WatchListed
    <2>2. UNCHANGED <<files, queue, known, length>> /\ phase = "watch" /\ d \in Dirs
      BY <1>2 DEF WatchListed, WInv, TypeOK
    <2>3. CASE AddWatch(d) /\ todo' = todo \ {d} /\ UNCHANGED <<phase, batch, changes>>
      <3>1. /\ wds' \in [Directories -> Nat]
            /\ nextWd' \in Nat
            /\ DOMAIN directories' \subseteq 1..(nextWd' - 1)
            /\ \A v \in DOMAIN directories' : directories'[v] \in Directories
            /\ WatchInv'
            /\ \A s \in Seq(Events) :
                 Good(s, directories, wds) => Good(s, directories', wds')
        BY <2>2, <2>3, WatchAdded
      <3>2. queue' \in Seq(Events) /\ phase' \in Phases /\ todo' \subseteq Dirs
            /\ batch' \in Seq(Events) /\ changes' \in Seq(Changes)
        BY <2>2, <2>3 DEF WInv, TypeOK
      <3>3. TypeOK'
        BY <2>2, <3>1, <3>2, WatcherTypes
      <3>4. EventInv'
        BY <2>2, <2>3, <3>1, TypeFacts DEF WInv, EventInv
      <3>5. PhaseInv' /\ ChangeInv'
        BY <2>2, <2>3 DEF WInv, PhaseInv, ChangeInv
      <3> QED BY <3>1, <3>3, <3>4, <3>5 DEF WInv
    <2>4. CASE Throw
      BY <2>2, <2>4, ThrowStep
    <2> QED BY <2>1, <2>3, <2>4
  <1>3. CASE Constructed
    <2>1. TypeOK' /\ WatchInv'
      BY <1>3, QuietTypes DEF Constructed, Phases, WInv, TypeOK
    <2>2. EventInv' /\ PhaseInv' /\ ChangeInv'
      BY <1>3 DEF Constructed, WInv, EventInv, PhaseInv, ChangeInv, kernel
    <2> QED BY <2>1, <2>2 DEF WInv
  <1> QED BY <1>1, <1>2, <1>3

\* The first event, when its watch is known, is about a path.
LEMMA EventPathType ==
  ASSUME WInv, Known
  PROVE  /\ batch # << >> /\ batch[1] # Overflow
         /\ batch[1].kind \in {"create", "delete"} => EventPath \in Paths
         /\ batch[1].kind = "modify" => EventPath \in Files
  <1>1. batch # << >> /\ batch[1].wd \in DOMAIN directories
    BY DEF Known
  <1>2. batch[1] # Overflow
    <2>1. batch[1].wd \in Nat
      BY <1>1, TypeFacts
    <2> QED BY <2>1, EventFacts
  <1>3. Sound(batch[1], directories)
    BY <1>1, TypeFacts, GoodTail DEF WInv, EventInv
  <1> QED BY <1>1, <1>2, <1>3 DEF Sound, Place, EventPath

\* A change is collected of the first event.
LEMMA CollectStep ==
  ASSUME WInv, Known, NEW action \in {"added", "deleted", "modified"}, Collect(action),
         EventPath \in Paths, action = "modified" => EventPath \in Files
  PROVE  /\ phase' \in Phases /\ batch' \in Seq(Events) /\ changes' \in Seq(Changes)
         /\ PhaseInv' /\ ChangeInv'
         /\ Good(batch' \o queue, directories, wds)
  <1> DEFINE c == [action |-> action, path |-> EventPath]
  <1>1. phase' = "read" /\ batch' = Tail(batch) /\ changes' = Append(changes, c)
    BY DEF Collect
  <1>2. c \in Changes /\ c.action = action /\ c.path = EventPath
    BY DEF Changes
  <1>3. changes \in Seq(Changes)
    BY DEF WInv, TypeOK
  <1> HIDE DEF c
  <1>4. /\ changes' \in Seq(Changes)
        /\ Len(changes) \in Nat
        /\ Len(changes') = Len(changes) + 1
        /\ \A i \in 1..Len(changes) : changes'[i] = changes[i]
        /\ changes'[Len(changes) + 1] = c
    BY <1>1, <1>2, <1>3, AppendProperties, LenProperties
  <1>5. ChangeInv'
    BY <1>2, <1>4 DEF WInv, ChangeInv
  <1>6. batch # << >>
    BY DEF Known
  <1>7. batch' \in Seq(Events) /\ Good(batch' \o queue, directories, wds)
    BY <1>1, <1>6, TypeFacts, TailFacts, GoodTail DEF WInv, EventInv
  <1>8. phase' \in Phases /\ PhaseInv'
    BY <1>1 DEF Phases, PhaseInv
  <1> QED BY <1>4, <1>5, <1>7, <1>8

LEMMA ReadStep ==
  ASSUME WInv, ReadEvents \/ ReadUnknown \/ ReadOther \/ EventsRead PROVE WInv'
  <1>1. CASE ReadEvents
    <2>1. TypeOK' /\ WatchInv'
      <3>1. queue' \in Seq(Events) /\ batch' \in Seq(Events) /\ phase' \in Phases
        BY <1>1, TypeFacts, EmptySeq DEF ReadEvents, Phases
      <3>2. UNCHANGED <<files, kernel, todo, directories, changes, known, length>>
        BY <1>1 DEF ReadEvents
      <3>3. /\ wds' \in [Directories -> Nat] /\ nextWd' \in Nat
            /\ todo' \subseteq Dirs /\ changes' \in Seq(Changes)
        BY <3>2 DEF WInv, TypeOK, Directories, kernel
      <3>4. /\ DOMAIN directories' \subseteq 1..(nextWd' - 1)
            /\ \A v \in DOMAIN directories' : directories'[v] \in Directories
        BY <3>2 DEF WInv, TypeOK, Directories, kernel
      <3>5. WatchInv'
        BY <3>2 DEF WInv, WatchInv, kernel
      <3> QED BY <3>1, <3>2, <3>3, <3>4, <3>5, WatcherTypes
    <2>2. EventInv'
      <3>1. batch = << >>
        BY <1>1 DEF ReadEvents, WInv, PhaseInv
      <3>2. batch' \o queue' = batch \o queue
        BY <1>1, <3>1, TypeFacts, ConcatEmptySeq DEF ReadEvents
      <3> QED BY <1>1, <3>2 DEF ReadEvents, WInv, EventInv, kernel
    <2>3. PhaseInv' /\ ChangeInv'
      BY <1>1 DEF ReadEvents, WInv, PhaseInv, ChangeInv
    <2> QED BY <2>1, <2>2, <2>3 DEF WInv
  <1>2. CASE ReadUnknown
    BY <1>2, ThrowStep DEF ReadUnknown
  <1>3. CASE ReadOther
    <2>0. PICK action \in {"deleted", "modified"} :
            /\ Collect(action)
            /\ action = "deleted" => batch[1].kind = "delete"
            /\ action = "modified" => batch[1].kind = "modify"
      BY <1>3 DEF ReadOther
    <2>1. UNCHANGED <<files, kernel, queue, todo, directories, known, length>> /\ Known
      BY <1>3 DEF ReadOther
    <2>2. EventPath \in Paths /\ (action = "modified" => EventPath \in Files)
      BY <2>0, <2>1, EventPathType DEF Paths
    <2>3. /\ phase' \in Phases /\ batch' \in Seq(Events) /\ changes' \in Seq(Changes)
          /\ PhaseInv' /\ ChangeInv'
          /\ Good(batch' \o queue, directories, wds)
      BY <2>0, <2>1, <2>2, CollectStep
    <2>4. TypeOK' /\ WatchInv'
      <3>1. todo' \subseteq Dirs
        BY <2>1 DEF WInv, TypeOK
      <3> QED BY <2>1, <2>3, <3>1, QuietTypes
    <2>5. EventInv'
      BY <2>1, <2>3 DEF EventInv, kernel
    <2> QED BY <2>3, <2>4, <2>5 DEF WInv
  <1>4. CASE EventsRead
    <2>1. TypeOK' /\ WatchInv'
      BY <1>4, QuietTypes DEF EventsRead, Phases, WInv, TypeOK
    <2>2. EventInv' /\ PhaseInv' /\ ChangeInv'
      BY <1>4 DEF EventsRead, WInv, EventInv, PhaseInv, ChangeInv, kernel
    <2> QED BY <2>1, <2>2 DEF WInv
  <1> QED BY <1>1, <1>2, <1>3, <1>4

\* The watch of a directory that is gone is forgotten: no event of it is left.
LEMMA IgnoredStep ==
  ASSUME WInv, ReadIgnored PROVE WInv'
  <1> DEFINE gone == batch[1].wd
  <1>1. /\ UNCHANGED <<files, kernel, queue, phase, todo, changes, known, length>>
        /\ phase = "read"
        /\ directories' = [v \in DOMAIN directories \ {gone} |-> directories[v]]
        /\ batch' = Tail(batch)
        /\ batch # << >> /\ batch[1].kind = "ignored"
    BY DEF ReadIgnored, Known
  <1>2. batch' \in Seq(Events)
    BY <1>1, TypeFacts, TailFacts
  <1>3. /\ \A d \in Directories : wds[d] # gone
        /\ Good(batch' \o queue, directories', wds)
    BY <1>1, TypeFacts, GoodTail DEF WInv, EventInv
  <1> HIDE DEF gone
  <1>4. EventInv'
    BY <1>1, <1>3 DEF EventInv, kernel
  <1>5. WatchInv'
    BY <1>1, <1>3 DEF WInv, WatchInv, kernel
  <1>6. TypeOK'
    <2>1. wds' \in [Directories -> Nat] /\ nextWd' \in Nat
      BY <1>1 DEF WInv, TypeOK, Directories, kernel
    <2>2. /\ DOMAIN directories' \subseteq 1..(nextWd' - 1)
          /\ \A v \in DOMAIN directories' : directories'[v] \in Directories
      BY <1>1 DEF WInv, TypeOK, Directories, kernel
    <2>3. queue' \in Seq(Events) /\ phase' \in Phases /\ todo' \subseteq Dirs /\ changes' \in Seq(Changes)
      BY <1>1 DEF WInv, TypeOK
    <2> QED BY <1>1, <1>2, <2>1, <2>2, <2>3, WatcherTypes
  <1>7. PhaseInv' /\ ChangeInv'
    BY <1>1 DEF WInv, PhaseInv, ChangeInv
  <1> QED BY <1>4, <1>5, <1>6, <1>7 DEF WInv

LEMMA CreatedStep ==
  ASSUME WInv, ReadCreate \/ AddNew PROVE WInv'
  <1>1. CASE ReadCreate
    <2>0. Known /\ UNCHANGED <<files, queue, known, length>>
      BY <1>1 DEF ReadCreate
    <2>1. CASE Throw
      BY <2>0, <2>1, ThrowStep
    <2>2. CASE EventPath \in tree \cap Files /\ Collect("added") /\ UNCHANGED <<kernel, todo, directories>>
      <3>1. EventPath \in Paths
        BY <2>2 DEF Paths
      <3>2. /\ phase' \in Phases /\ batch' \in Seq(Events) /\ changes' \in Seq(Changes)
            /\ PhaseInv' /\ ChangeInv'
            /\ Good(batch' \o queue, directories, wds)
        BY <2>0, <2>2, <3>1, CollectStep
      <3>3. TypeOK' /\ WatchInv'
        <4>1. todo' \subseteq Dirs
          BY <2>2 DEF WInv, TypeOK
        <4> QED BY <2>0, <2>2, <3>2, <4>1, QuietTypes
      <3>4. EventInv'
        BY <2>0, <2>2, <3>2 DEF EventInv, kernel
      <3> QED BY <3>2, <3>3, <3>4 DEF WInv
    <2>3. CASE /\ EventPath \in tree \cap Dirs /\ phase' = "add"
               /\ UNCHANGED <<kernel, todo, batch, directories, changes>>
      <3>1. TypeOK' /\ WatchInv'
        <4>1. phase' \in Phases /\ todo' \subseteq Dirs /\ batch' \in Seq(Events)
              /\ changes' \in Seq(Changes)
          BY <2>3 DEF Phases, WInv, TypeOK
        <4> QED BY <2>0, <2>3, <4>1, QuietTypes
      <3>2. EventInv' /\ ChangeInv'
        BY <2>0, <2>3 DEF WInv, EventInv, ChangeInv, kernel
      <3>3. PhaseInv'
        BY <2>0, <2>3 DEF PhaseInv, Known, EventPath
      <3> QED BY <3>1, <3>2, <3>3 DEF WInv
    <2> QED BY <1>1, <2>1, <2>2, <2>3 DEF ReadCreate
  <1>2. CASE AddNew
    <2>0. /\ phase = "add" /\ UNCHANGED <<files, queue, known, length>>
          /\ Known /\ EventPath \in Dirs
      BY <1>2 DEF AddNew, WInv, PhaseInv
    <2>1. CASE Throw
      BY <2>0, <2>1, ThrowStep
    <2>2. CASE AddWatch(EventPath) /\ Collect("added") /\ UNCHANGED todo
      <3>1. EventPath \in Paths
        BY <2>0 DEF Paths
      <3>2. /\ phase' \in Phases /\ batch' \in Seq(Events) /\ changes' \in Seq(Changes)
            /\ PhaseInv' /\ ChangeInv'
            /\ Good(batch' \o queue, directories, wds)
        BY <2>0, <2>2, <3>1, CollectStep
      <3>3. /\ wds' \in [Directories -> Nat]
            /\ nextWd' \in Nat
            /\ DOMAIN directories' \subseteq 1..(nextWd' - 1)
            /\ \A v \in DOMAIN directories' : directories'[v] \in Directories
            /\ WatchInv'
            /\ \A s \in Seq(Events) :
                 Good(s, directories, wds) => Good(s, directories', wds')
        BY <2>0, <2>2, WatchAdded
      <3>4. queue' \in Seq(Events) /\ todo' \subseteq Dirs /\ batch' \o queue' \in Seq(Events)
        BY <2>0, <2>2, <3>2, ConcatProperties DEF WInv, TypeOK
      <3>5. TypeOK'
        BY <2>0, <3>2, <3>3, <3>4, WatcherTypes
      <3>6. EventInv'
        BY <2>0, <3>2, <3>3, <3>4 DEF EventInv
      <3> QED BY <3>2, <3>3, <3>5, <3>6 DEF WInv
    <2> QED BY <1>2, <2>1, <2>2 DEF AddNew
  <1> QED BY <1>1, <1>2

LEMMA HandleStep ==
  ASSUME WInv, Handle \/ Handled PROVE WInv'
  <1>1. CASE Handle
    <2>0. /\ UNCHANGED <<files, kernel, queue, phase, todo, batch, directories>>
          /\ changes # << >> /\ changes' = Tail(changes)
      BY <1>1 DEF Handle
    <2>1. changes \in Seq(Changes)
      BY DEF WInv, TypeOK
    <2>2. /\ changes' \in Seq(Changes)
          /\ Len(changes) \in Nat /\ Len(changes) >= 1
          /\ Len(changes') = Len(changes) - 1
          /\ \A i \in 1..Len(changes') : changes'[i] = changes[i + 1]
      BY <2>0, <2>1, EmptySeq, HeadTailProperties
    <2>3. changes[1] \in Changes
      BY <2>1, <2>2, ElementOfSeq
    <2>4. changes[1].path \in Paths
          /\ (changes[1].action = "modified" => changes[1].path \in Files)
      BY <2>2, <2>3 DEF Changes, WInv, ChangeInv
    <2>5. known' \subseteq Paths
      BY <1>1, <2>4 DEF Handle, WInv, TypeOK
    <2>6. length' \in [Files -> 0..(MaxSize + 1)]
      <3> DEFINE p == changes[1].path
      <3>0. length \in [Files -> 0..(MaxSize + 1)] /\ MaxSize \in Nat
        BY StoreWatchAssumption DEF WInv, TypeOK
      <3>1. CASE changes[1].action = "added"
        <4>1. length' = [f \in Files |-> IF f = p THEN 0 ELSE length[f]]
          BY <1>1, <3>1 DEF Handle
        <4> QED BY <3>0, <4>1
      <3>2. CASE changes[1].action = "deleted"
        BY <1>1, <3>0, <3>2 DEF Handle
      <3>3. CASE changes[1].action = "modified"
        <4>1. PICK n \in Stat(p) : length' = [length EXCEPT ![p] = n]
          BY <1>1, <3>3 DEF Handle
        <4>2. p \in Files
          BY <2>4, <3>3
        <4>3. size[p] \in 0..MaxSize
          BY <4>2 DEF WInv, TypeOK
        <4>4. n \in 0..(MaxSize + 1)
          BY <3>0, <4>1, <4>3 DEF Stat
        <4> QED BY <3>0, <4>1, <4>4
      <3> QED BY <1>1, <3>1, <3>2, <3>3 DEF Handle
    <2>7. TypeOK'
      BY <2>0, <2>2, <2>5, <2>6 DEF WInv, TypeOK, files, kernel
    <2>8. WatchInv' /\ EventInv'
      BY <2>0 DEF WInv, WatchInv, EventInv, kernel
    <2>9. PhaseInv'
      BY <2>0 DEF WInv, PhaseInv, Known, EventPath
    <2>10. ChangeInv'
      BY <2>2 DEF WInv, ChangeInv
    <2> QED BY <2>7, <2>8, <2>9, <2>10 DEF WInv
  <1>2. CASE Handled
    <2>1. TypeOK' /\ WatchInv'
      <3>1. "wait" \in Phases
        BY DEF Phases
      <3>2. phase' \in Phases /\ todo' \subseteq Dirs /\ batch' \in Seq(Events)
            /\ changes' \in Seq(Changes)
        BY <1>2, <3>1 DEF Handled, WInv, TypeOK
      <3>3. UNCHANGED <<files, kernel, queue, directories, known, length>>
        BY <1>2 DEF Handled
      <3> QED BY <3>2, <3>3, QuietTypes
    <2>2. EventInv' /\ PhaseInv' /\ ChangeInv'
      BY <1>2 DEF Handled, WInv, EventInv, PhaseInv, ChangeInv, kernel
    <2> QED BY <2>1, <2>2 DEF WInv
  <1> QED BY <1>1, <1>2

LEMMA Inductive == ASSUME WInv, [Next]_vars PROVE WInv'
  <1>1. CASE Store
    <2>1. PICK p \in Paths : Create(p) \/ Grow(p) \/ Remove(p)
      BY <1>1 DEF Store
    <2> QED BY <2>1, CreateStep, GrowStep, RemoveStep
  <1>2. CASE Watcher
    BY <1>2, ConstructorStep, ReadStep, IgnoredStep, CreatedStep, HandleStep DEF Watcher
  <1>3. CASE UNCHANGED vars
    <2>1. TypeOK'
      BY <1>3 DEF vars, WInv, TypeOK
    <2>2. WatchInv' /\ EventInv'
      BY <1>3 DEF vars, WInv, WatchInv, EventInv
    <2>3. PhaseInv' /\ ChangeInv'
      BY <1>3 DEF vars, WInv, PhaseInv, ChangeInv, Known, EventPath
    <2> QED BY <2>1, <2>2, <2>3 DEF WInv
  <1> QED BY <1>1, <1>2, <1>3 DEF Next

----------------------------------------------------------------------------
(* What the receiver is going to be told                                   *)

ActionOf(kind) ==
  CASE kind = "create" -> "added"
    [] kind = "delete" -> "deleted"
    [] kind = "modify" -> "modified"
    [] OTHER           -> "none"

\* The change an event becomes.
Tell(e, dirs) == [action |-> ActionOf(e.kind), path |-> Place(e, dirs)]

\* The changes that wait for Pump, then those of the events in their order.
Told(ch, s, dirs) ==
  [i \in 1..(Len(ch) + Len(s)) |->
     IF i <= Len(ch) THEN ch[i] ELSE Tell(s[i - Len(ch)], dirs)]

Pending == Told(changes, batch \o queue, directories)

IsOf(c, p, A) == c.path = p /\ c.action \in A
Silent(t, p, A) == \A i \in DOMAIN t : ~IsOf(t[i], p, A)

\* The last change in t of p by an action of A is one of R.
Last(t, p, A, R) ==
  \A i \in DOMAIN t :
    /\ IsOf(t[i], p, A)
    /\ \A j \in DOMAIN t : j > i => ~IsOf(t[j], p, A)
    => t[i].action \in R

Comings == {"added", "deleted"}
Growths == {"added", "modified"}

\* The last coming or going of p that is announced is the last there was; the
\* receiver knows of it when none is left to be announced.
PlaceTold(t, p, exists, knows) ==
  /\ Last(t, p, Comings, IF exists THEN {"added"} ELSE {"deleted"})
  /\ Silent(t, p, Comings) => (knows <=> exists)

\* Its length is read behind its last growth; the change that announces a
\* stream tells no length but 0.
LengthTold(t, f, sz, len) ==
  /\ Last(t, f, Growths, IF sz = 0 THEN Growths ELSE {"modified"})
  /\ Silent(t, f, Growths) => len = sz

Overflown(s) == \E i \in 1..Len(s) : s[i] = Overflow

\* An overflow ends the thread as soon as it is read, and waits until then.
Lost == phase = "dead" \/ Overflown(batch \o queue)

ViewInv ==
  Lost \/ /\ \A p \in told : PlaceTold(Pending, p, p \in tree, p \in known)
          /\ \A f \in toldLength \cap tree \cap Files :
               LengthTold(Pending, f, size[f], length[f])

\* The queue is longer than its length by the overflow only.
OverInv(q) == Len(q) > MaxQueue => Overflown(q)

\* Pump waits for events when all changes are handled, and adds the watch of a
\* directory for its event.
PumpInv ==
  /\ phase \in {"list", "watch", "wait"} => changes = << >>
  /\ phase = "add" => batch[1].kind = "create"

VInv == WInv /\ OverInv(queue) /\ PumpInv /\ ViewInv

----------------------------------------------------------------------------
(* Sequences of changes                                                    *)

\* A change that ends the sequence is the last one.
LEMMA LastNew ==
  ASSUME NEW t, NEW n \in Nat \ {0}, DOMAIN t = 1..n, NEW p, NEW A, NEW R,
         IsOf(t[n], p, A), t[n].action \in R
  PROVE  Last(t, p, A, R) /\ ~Silent(t, p, A)
  BY DEF Last, Silent

\* One behind the others that is about something else says nothing.
LEMMA LastOther ==
  ASSUME NEW t, NEW u, NEW n \in Nat, DOMAIN t = 1..n, DOMAIN u = 1..(n + 1),
         \A i \in 1..n : u[i] = t[i],
         NEW p, NEW A, NEW R, ~IsOf(u[n + 1], p, A)
  PROVE  /\ Last(t, p, A, R) => Last(u, p, A, R)
         /\ Silent(u, p, A) => Silent(t, p, A)
  <1>1. ASSUME Last(t, p, A, R), NEW i \in 1..(n + 1), IsOf(u[i], p, A),
               \A j \in 1..(n + 1) : j > i => ~IsOf(u[j], p, A)
        PROVE  u[i].action \in R
    <2>1. i \in 1..n
      BY <1>1
    <2>2. IsOf(t[i], p, A) /\ \A j \in 1..n : j > i => ~IsOf(t[j], p, A)
      BY <1>1, <2>1
    <2>3. t[i].action \in R
      BY <1>1, <2>1, <2>2 DEF Last
    <2> QED BY <2>1, <2>3
  <1>2. Last(t, p, A, R) => Last(u, p, A, R)
    BY <1>1 DEF Last
  <1>3. Silent(u, p, A) => Silent(t, p, A)
    BY DEF Silent
  <1> QED BY <1>2, <1>3

\* The first one is done with: the last one stays the last, unless it was that.
LEMMA LastTail ==
  ASSUME NEW t, NEW u, NEW n \in Nat, DOMAIN t = 1..(n + 1), DOMAIN u = 1..n,
         \A i \in 1..n : u[i] = t[i + 1],
         NEW p, NEW A, NEW R, Last(t, p, A, R)
  PROVE  /\ Last(u, p, A, R)
         /\ Silent(u, p, A) => IF IsOf(t[1], p, A) THEN t[1].action \in R ELSE Silent(t, p, A)
  <1>1. ASSUME NEW i \in 1..n, IsOf(u[i], p, A),
               \A j \in 1..n : j > i => ~IsOf(u[j], p, A)
        PROVE  u[i].action \in R
    <2>1. i + 1 \in 1..(n + 1) /\ IsOf(t[i + 1], p, A)
      BY <1>1
    <2>2. ASSUME NEW j \in 1..(n + 1), j > i + 1 PROVE ~IsOf(t[j], p, A)
      <3>1. j - 1 \in 1..n /\ j - 1 > i /\ (j - 1) + 1 = j
        BY <2>2
      <3> QED BY <1>1, <3>1
    <2>3. t[i + 1].action \in R
      BY <2>1, <2>2 DEF Last
    <2> QED BY <2>3
  <1>2. ASSUME Silent(u, p, A)
        PROVE  \A j \in 1..(n + 1) : j > 1 => ~IsOf(t[j], p, A)
    <2> SUFFICES ASSUME NEW j \in 1..(n + 1), j > 1 PROVE ~IsOf(t[j], p, A)
      OBVIOUS
    <2>1. j - 1 \in 1..n /\ (j - 1) + 1 = j
      OBVIOUS
    <2> QED BY <1>2, <2>1 DEF Silent
  <1>3. ASSUME Silent(u, p, A), IsOf(t[1], p, A) PROVE t[1].action \in R
    <2>1. 1 \in DOMAIN t
      OBVIOUS
    <2> QED BY <1>2, <1>3, <2>1 DEF Last
  <1>4. ASSUME Silent(u, p, A), ~IsOf(t[1], p, A) PROVE Silent(t, p, A)
    BY <1>2, <1>4 DEF Silent
  <1>5. Last(u, p, A, R)
    BY <1>1 DEF Last
  <1> QED BY <1>3, <1>4, <1>5

\* How long the announcements are.
LEMMA ToldFacts ==
  ASSUME NEW ch \in Seq(Changes), NEW s \in Seq(Events), NEW dirs
  PROVE  /\ Len(ch) \in Nat /\ Len(s) \in Nat
         /\ DOMAIN Told(ch, s, dirs) = 1..(Len(ch) + Len(s))
         /\ \A i \in 1..Len(ch) : Told(ch, s, dirs)[i] = ch[i]
         /\ \A i \in 1..Len(s) : Told(ch, s, dirs)[Len(ch) + i] = Tell(s[i], dirs)
  <1>1. Len(ch) \in Nat /\ Len(s) \in Nat
    BY LenProperties
  <1>2. DOMAIN Told(ch, s, dirs) = 1..(Len(ch) + Len(s))
    BY DEF Told
  <1>3. \A i \in 1..Len(ch) : Told(ch, s, dirs)[i] = ch[i]
    BY <1>1 DEF Told
  <1>4. ASSUME NEW i \in 1..Len(s) PROVE Told(ch, s, dirs)[Len(ch) + i] = Tell(s[i], dirs)
    <2>1. /\ Len(ch) + i \in 1..(Len(ch) + Len(s))
          /\ ~(Len(ch) + i <= Len(ch))
          /\ (Len(ch) + i) - Len(ch) = i
      BY <1>1
    <2> QED BY <2>1 DEF Told
  <1> QED BY <1>1, <1>2, <1>3, <1>4

\* An event behind the others is announced behind the others.
LEMMA ToldAppend ==
  ASSUME NEW ch \in Seq(Changes), NEW s \in Seq(Events), NEW e \in Events, NEW dirs
  PROVE  /\ DOMAIN Told(ch, Append(s, e), dirs) = 1..(Len(ch) + Len(s) + 1)
         /\ \A i \in 1..(Len(ch) + Len(s)) :
              Told(ch, Append(s, e), dirs)[i] = Told(ch, s, dirs)[i]
         /\ Told(ch, Append(s, e), dirs)[Len(ch) + Len(s) + 1] = Tell(e, dirs)
  <1> DEFINE u == Append(s, e)
  <1>1. /\ u \in Seq(Events)
        /\ Len(u) = Len(s) + 1
        /\ \A i \in 1..Len(s) : u[i] = s[i]
        /\ u[Len(s) + 1] = e
    BY AppendProperties
  <1>2. Len(ch) \in Nat /\ Len(s) \in Nat
    BY LenProperties
  <1> HIDE DEF u
  <1>3. DOMAIN Told(ch, u, dirs) = 1..(Len(ch) + Len(s) + 1)
    BY <1>1, <1>2, ToldFacts
  <1>4. ASSUME NEW i \in 1..(Len(ch) + Len(s)) PROVE Told(ch, u, dirs)[i] = Told(ch, s, dirs)[i]
    BY <1>1, <1>2 DEF Told
  <1>5. Told(ch, u, dirs)[Len(ch) + Len(s) + 1] = Tell(e, dirs)
    <2>1. Len(s) + 1 \in 1..Len(u) /\ Len(ch) + (Len(s) + 1) = Len(ch) + Len(s) + 1
      BY <1>1, <1>2
    <2>2. Told(ch, u, dirs)[Len(ch) + (Len(s) + 1)] = Tell(u[Len(s) + 1], dirs)
      BY <1>1, <2>1, ToldFacts
    <2> QED BY <1>1, <2>1, <2>2
  <1> QED BY <1>3, <1>4, <1>5 DEF u

\* The event that is read becomes the change that is collected of it.
LEMMA ToldCollect ==
  ASSUME NEW ch \in Seq(Changes), NEW c \in Changes, NEW s \in Seq(Events), NEW u \in Seq(Events),
         NEW dirs, NEW old, Len(s) = Len(u) + 1, c = Tell(s[1], old),
         \A i \in 1..Len(u) : Tell(u[i], dirs) = Tell(s[i + 1], old)
  PROVE  Told(Append(ch, c), u, dirs) = Told(ch, s, old)
  <1> DEFINE d == Append(ch, c)
  <1>1. /\ d \in Seq(Changes)
        /\ Len(d) = Len(ch) + 1
        /\ \A i \in 1..Len(ch) : d[i] = ch[i]
        /\ d[Len(ch) + 1] = c
    BY AppendProperties
  <1>2. Len(ch) \in Nat /\ Len(s) \in Nat /\ Len(u) \in Nat
    BY LenProperties
  <1> HIDE DEF d
  <1>3. \A i \in 1..(Len(ch) + Len(s)) :
          (IF i <= Len(d) THEN d[i] ELSE Tell(u[i - Len(d)], dirs))
            = (IF i <= Len(ch) THEN ch[i] ELSE Tell(s[i - Len(ch)], old))
    <2> TAKE i \in 1..(Len(ch) + Len(s))
    <2>1. CASE i <= Len(ch)
      BY <1>1, <1>2, <2>1
    <2>2. CASE i = Len(ch) + 1
      <3>1. i <= Len(d) /\ ~(i <= Len(ch)) /\ i - Len(ch) = 1
        BY <1>1, <1>2, <2>2
      <3> QED BY <1>1, <2>2, <3>1
    <2>3. CASE i > Len(ch) + 1
      <3>1. i \in Int /\ Len(ch) \in Int /\ i <= Len(ch) + Len(s)
        BY <1>2
      <3>2. i - Len(d) \in 1..Len(u) /\ (i - Len(d)) + 1 = i - Len(ch)
        BY <1>1, <1>2, <2>3, <3>1
      <3>3. ~(i <= Len(d)) /\ ~(i <= Len(ch))
        BY <1>1, <1>2, <2>3, <3>1
      <3>4. Tell(u[i - Len(d)], dirs) = Tell(s[(i - Len(d)) + 1], old)
        BY <3>2
      <3>5. Tell(u[i - Len(d)], dirs) = Tell(s[i - Len(ch)], old)
        BY <3>2, <3>4
      <3> QED BY <3>3, <3>5
    <2>4. i <= Len(ch) \/ i = Len(ch) + 1 \/ i > Len(ch) + 1
      BY <1>2
    <2> QED BY <2>1, <2>2, <2>3, <2>4, Zenon
  <1>4. Len(d) + Len(u) = Len(ch) + Len(s)
    BY <1>1, <1>2
  <1> QED BY <1>3, <1>4 DEF Told, d

\* What is forgotten of directories says nothing of the events.
LEMMA ToldSame ==
  ASSUME NEW ch \in Seq(Changes), NEW s \in Seq(Events), NEW dirs, NEW old,
         \A i \in 1..Len(s) : Tell(s[i], dirs) = Tell(s[i], old)
  PROVE  Told(ch, s, dirs) = Told(ch, s, old)
  <1>1. Len(ch) \in Nat /\ Len(s) \in Nat
    BY LenProperties
  <1>2. \A i \in 1..(Len(ch) + Len(s)) : ~(i <= Len(ch)) => i - Len(ch) \in 1..Len(s)
    BY <1>1
  <1> QED BY <1>2 DEF Told

----------------------------------------------------------------------------
(* An event is queued                                                      *)

\* v tells the same as t of p, by the actions of A.
Keeps(t, v, p, A) ==
  /\ \A R : Last(t, p, A, R) => Last(v, p, A, R)
  /\ Silent(v, p, A) => Silent(t, p, A)

\* The last thing v tells of p, by an action of A, is the action a.
Ends(v, p, A, a) ==
  /\ \A R : a \in R => Last(v, p, A, R)
  /\ ~Silent(v, p, A)

LEMMA KeepsTransitive ==
  ASSUME NEW t, NEW u, NEW v, NEW p, NEW A, Keeps(u, v, p, A)
  PROVE  /\ Keeps(t, u, p, A) => Keeps(t, v, p, A)
         /\ \A a : Ends(u, p, A, a) => Ends(v, p, A, a)
  BY DEF Keeps, Ends

LEMMA OverflownConcat ==
  ASSUME NEW b \in Seq(Events), NEW q \in Seq(Events)
  PROVE  Overflown(b \o q) <=> Overflown(b) \/ Overflown(q)
  <1>1. /\ Len(b) \in Nat /\ Len(q) \in Nat
        /\ Len(b \o q) = Len(b) + Len(q)
        /\ \A i \in 1..(Len(b) + Len(q)) :
             (b \o q)[i] = IF i <= Len(b) THEN b[i] ELSE q[i - Len(b)]
    BY ConcatProperties, LenProperties
  <1>2. ASSUME Overflown(b \o q) PROVE Overflown(b) \/ Overflown(q)
    <2>1. PICK i \in 1..(Len(b) + Len(q)) : (b \o q)[i] = Overflow
      BY <1>1, <1>2 DEF Overflown
    <2>2. CASE i <= Len(b)
      BY <1>1, <2>1, <2>2 DEF Overflown
    <2>3. CASE ~(i <= Len(b))
      <3>1. i - Len(b) \in 1..Len(q) /\ q[i - Len(b)] = Overflow
        BY <1>1, <2>1, <2>3
      <3> QED BY <3>1 DEF Overflown
    <2> QED BY <2>2, <2>3
  <1>3. ASSUME NEW i \in 1..Len(b), b[i] = Overflow PROVE Overflown(b \o q)
    <2>1. i \in 1..(Len(b) + Len(q)) /\ (b \o q)[i] = Overflow
      BY <1>1, <1>3
    <2> QED BY <1>1, <2>1 DEF Overflown
  <1>4. ASSUME NEW i \in 1..Len(q), q[i] = Overflow PROVE Overflown(b \o q)
    <2>1. /\ Len(b) + i \in 1..(Len(b) + Len(q))
          /\ ~(Len(b) + i <= Len(b)) /\ (Len(b) + i) - Len(b) = i
      BY <1>1
    <2>2. (b \o q)[Len(b) + i] = Overflow
      BY <1>1, <1>4, <2>1
    <2> QED BY <1>1, <2>1, <2>2 DEF Overflown
  <1> QED BY <1>2, <1>3, <1>4 DEF Overflown

LEMMA OverflownAppend ==
  ASSUME NEW q \in Seq(Events), NEW e \in Events
  PROVE  Overflown(Append(q, e)) <=> Overflown(q) \/ e = Overflow
  <1>1. /\ Len(q) \in Nat
        /\ Len(Append(q, e)) = Len(q) + 1
        /\ \A i \in 1..Len(q) : Append(q, e)[i] = q[i]
        /\ Append(q, e)[Len(q) + 1] = e
    BY AppendProperties, LenProperties
  <1> QED BY <1>1 DEF Overflown

\* Unless the queue has overflowed, an event that is queued is its last one,
\* behind the others or as one of them.
LEMMA Queued ==
  ASSUME NEW b \in Seq(Events), NEW q \in Seq(Events), NEW e \in Events,
         e # Overflow, OverInv(q)
  PROVE  /\ OverInv(Enqueue(q, e))
         /\ ~Overflown(b \o Enqueue(q, e)) =>
              /\ ~Overflown(b \o q)
              /\ \/ b \o Enqueue(q, e) = Append(b \o q, e)
                 \/ /\ b \o Enqueue(q, e) = b \o q
                    /\ Len(b \o q) >= 1 /\ (b \o q)[Len(b \o q)] = e
  <1>0. Len(q) \in Nat /\ MaxQueue \in Nat /\ Overflow \in Events
    BY StoreWatchAssumption, LenProperties, EventFacts
  <1>1. CASE q # << >> /\ q[Len(q)] = e
    <2>1. Enqueue(q, e) = q
      BY <1>1 DEF Enqueue
    <2>2. Len(q) >= 1
      BY <1>1, <1>0, EmptySeq
    <2>3. /\ Len(b) \in Nat
          /\ Len(b \o q) = Len(b) + Len(q)
          /\ \A i \in 1..(Len(b) + Len(q)) :
               (b \o q)[i] = IF i <= Len(b) THEN b[i] ELSE q[i - Len(b)]
      BY ConcatProperties, LenProperties
    <2>4. Len(b \o q) >= 1 /\ (b \o q)[Len(b \o q)] = e
      BY <1>0, <1>1, <2>2, <2>3
    <2> QED BY <2>1, <2>4
  <1>2. CASE ~(q # << >> /\ q[Len(q)] = e) /\ Len(q) < MaxQueue
    <2>1. Enqueue(q, e) = Append(q, e)
      BY <1>0, <1>2 DEF Enqueue
    <2>2. Append(q, e) \in Seq(Events) /\ Len(Append(q, e)) = Len(q) + 1
      BY AppendProperties
    <2>3. OverInv(Append(q, e))
      BY <1>0, <1>2, <2>2 DEF OverInv
    <2>4. b \o Append(q, e) = Append(b \o q, e)
      <3>1. <<e>> \in Seq(Events) /\ b \o q \in Seq(Events)
        BY ConcatProperties
      <3>2. b \o Append(q, e) = (b \o q) \o <<e>>
        BY <3>1, AppendIsConcat, ConcatAssociative
      <3> QED BY <3>1, <3>2, AppendIsConcat
    <2>5. Overflown(b \o q) => Overflown(b \o Append(q, e))
      BY <2>2, OverflownConcat, OverflownAppend
    <2> QED BY <2>1, <2>3, <2>4, <2>5
  <1>3. CASE ~(q # << >> /\ q[Len(q)] = e) /\ Len(q) = MaxQueue
    <2>1. Enqueue(q, e) = Append(q, Overflow)
      BY <1>0, <1>3 DEF Enqueue
    <2>2. Append(q, Overflow) \in Seq(Events) /\ Overflown(Append(q, Overflow))
      BY <1>0, OverflownAppend, AppendProperties
    <2>3. Overflown(b \o Append(q, Overflow))
      BY <2>2, OverflownConcat
    <2> QED BY <2>1, <2>2, <2>3 DEF OverInv
  <1>4. CASE ~(q # << >> /\ q[Len(q)] = e) /\ Len(q) > MaxQueue
    <2>1. Enqueue(q, e) = q
      BY <1>0, <1>4 DEF Enqueue
    <2>2. Overflown(b \o q)
      BY <1>4, OverflownConcat DEF OverInv
    <2> QED BY <2>1, <2>2
  <1>5. Len(q) < MaxQueue \/ Len(q) = MaxQueue \/ Len(q) > MaxQueue
    BY <1>0
  <1> QED BY <1>1, <1>2, <1>3, <1>4, <1>5

\* It is announced last, and of everything else the same is told.
LEMMA Announced ==
  ASSUME NEW ch \in Seq(Changes), NEW s \in Seq(Events), NEW u, NEW e \in Events, NEW dirs,
         \/ u = Append(s, e)
         \/ u = s /\ Len(s) >= 1 /\ s[Len(s)] = e,
         NEW p, NEW A
  PROVE  /\ IsOf(Tell(e, dirs), p, A) => Ends(Told(ch, u, dirs), p, A, Tell(e, dirs).action)
         /\ ~IsOf(Tell(e, dirs), p, A) => Keeps(Told(ch, s, dirs), Told(ch, u, dirs), p, A)
  <1> DEFINE t == Told(ch, s, dirs)
             v == Told(ch, u, dirs)
             n == Len(ch) + Len(s)
             c == Tell(e, dirs)
  <1>0. Len(ch) \in Nat /\ Len(s) \in Nat /\ n \in Nat
    BY LenProperties
  <1>1. DOMAIN t = 1..n
    BY ToldFacts
  <1>2. CASE u = Append(s, e)
    <2>1. DOMAIN v = 1..(n + 1) /\ v[n + 1] = c /\ \A i \in 1..n : v[i] = t[i]
      BY <1>2, ToldAppend
    <2>2. n + 1 \in Nat \ {0}
      BY <1>0
    <2> HIDE DEF t, v, n, c
    <2>3. IsOf(c, p, A) => Ends(v, p, A, c.action)
      BY <2>1, <2>2, LastNew DEF Ends
    <2>4. ASSUME ~IsOf(c, p, A) PROVE Keeps(t, v, p, A)
      <3>1. ~IsOf(v[n + 1], p, A)
        BY <2>1, <2>4
      <3>2. \A R : /\ Last(t, p, A, R) => Last(v, p, A, R)
                   /\ Silent(v, p, A) => Silent(t, p, A)
        BY <1>0, <1>1, <2>1, <3>1, LastOther
      <3> QED BY <3>2 DEF Keeps
    <2> QED BY <2>3, <2>4 DEF t, v, c
  <1>3. CASE u = s /\ Len(s) >= 1 /\ s[Len(s)] = e
    <2>1. v = t
      BY <1>3
    <2>2. Len(s) \in 1..Len(s) /\ n \in Nat \ {0}
      BY <1>0, <1>3
    <2>3. t[n] = c
      BY <1>3, <2>2, ToldFacts
    <2> HIDE DEF t, v, n, c
    <2>4. IsOf(c, p, A) => Ends(v, p, A, c.action)
      BY <1>1, <2>1, <2>2, <2>3, LastNew DEF Ends
    <2>5. Keeps(t, v, p, A)
      BY <2>1 DEF Keeps
    <2> QED BY <2>4, <2>5 DEF t, v, c
  <1> QED BY <1>2, <1>3

\* What happens to a path is the last that is told of it, if its directory is
\* watched; of other paths, and by other actions, the same is told.
LEMMA NotifyTold ==
  ASSUME WInv, OverInv(queue), NEW p \in Paths, NEW kind \in {"create", "delete", "modify"},
         kind = "modify" => p \in Files
  PROVE  /\ OverInv(Notify(kind, p))
         /\ ~Overflown(batch \o Notify(kind, p)) =>
              /\ ~Overflown(batch \o queue)
              /\ \A x, A : ~Watched(p) \/ x # p \/ ActionOf(kind) \notin A =>
                   Keeps(Pending, Told(changes, batch \o Notify(kind, p), directories), x, A)
              /\ \A A : Watched(p) /\ ActionOf(kind) \in A =>
                   Ends(Told(changes, batch \o Notify(kind, p), directories), p, A, ActionOf(kind))
  <1> DEFINE e == Event(kind, wds[Parent(p)], Name(p))
             q == Notify(kind, p)
             v == Told(changes, batch \o q, directories)
  <1>0. /\ queue \in Seq(Events) /\ batch \in Seq(Events) /\ batch \o queue \in Seq(Events)
        /\ changes \in Seq(Changes)
    BY TypeFacts DEF WInv, TypeOK
  <1>1. CASE ~Watched(p)
    <2>1. q = queue
      BY <1>1 DEF Notify
    <2>2. v = Pending
      BY <2>1 DEF Pending
    <2> HIDE DEF q, v
    <2>3. \A x, A : Keeps(Pending, v, x, A)
      BY <2>2 DEF Keeps
    <2> QED BY <1>1, <2>1, <2>3 DEF q, v
  <1>2. CASE Watched(p)
    <2>1. Parent(p) \in Directories /\ Name(p) \in Names /\ PathJoin(Parent(p), Name(p)) = p
      BY PathFacts
    <2>2. wds[Parent(p)] \in Nat /\ wds[Parent(p)] # 0 /\ directories[wds[Parent(p)]] = Parent(p)
      BY <1>2, <2>1, TypeFacts DEF Watched, WInv, WatchInv
    <2>3. e.kind = kind /\ e.wd = wds[Parent(p)] /\ e.name = Name(p)
      BY DEF Event
    <2>4. e \in Events
      <3>1. kind \in Kinds
        BY DEF Kinds
      <3>2. wds[Parent(p)] \in Int
        BY <2>2
      <3>3. Name(p) \in Names \cup {""}
        BY <2>1, Zenon
      <3> QED BY <3>1, <3>2, <3>3, Zenon DEF Event, Events
    <2>5. e # Overflow
      BY <2>2, <2>3, EventFacts
    <2>6. q = Enqueue(queue, e)
      BY <1>2 DEF Notify
    <2>7. Tell(e, directories) = [action |-> ActionOf(kind), path |-> p]
      BY <2>1, <2>2, <2>3 DEF Tell, Place
    <2> HIDE DEF e, q
    <2>8. /\ OverInv(q)
          /\ ~Overflown(batch \o q) =>
               /\ ~Overflown(batch \o queue)
               /\ \/ batch \o q = Append(batch \o queue, e)
                  \/ /\ batch \o q = batch \o queue
                     /\ Len(batch \o queue) >= 1 /\ (batch \o queue)[Len(batch \o queue)] = e
      BY <1>0, <2>4, <2>5, <2>6, Queued
    <2>9. ASSUME ~Overflown(batch \o q), NEW x, NEW A
          PROVE  /\ IsOf(Tell(e, directories), x, A) => Ends(v, x, A, Tell(e, directories).action)
                 /\ ~IsOf(Tell(e, directories), x, A) => Keeps(Pending, v, x, A)
      BY <1>0, <2>4, <2>8, <2>9, Announced DEF Pending
    <2>10. \A x, A : IsOf(Tell(e, directories), x, A) <=> x = p /\ ActionOf(kind) \in A
      BY <2>7 DEF IsOf
    <2>11. Tell(e, directories).action = ActionOf(kind)
      BY <2>7
    <2> HIDE DEF v
    <2> QED BY <1>2, <2>8, <2>9, <2>10, <2>11 DEF q, v
  <1> QED BY <1>1, <1>2

----------------------------------------------------------------------------
(* The steps of the store                                                  *)

LEMMA CreateView ==
  ASSUME VInv, NEW p \in Paths, Create(p) PROVE OverInv(queue') /\ PumpInv' /\ ViewInv'
  <1> DEFINE v == Told(changes, batch \o Notify("create", p), directories)
  <1>0. /\ UNCHANGED <<phase, batch, directories, changes, known, length, wds>>
        /\ queue' = Notify("create", p)
        /\ tree' = tree \cup {p} /\ p \notin tree
        /\ size' = [f \in Files |-> IF f = p THEN 0 ELSE size[f]]
        /\ told' = IF Watched(p) THEN told \cup {p} ELSE told \ {p}
        /\ toldLength' = IF Watched(p) THEN toldLength \cup {p} ELSE toldLength \ {p}
    BY DEF Create, Change
  <1>1. WInv /\ OverInv(queue) /\ PumpInv /\ ViewInv
    BY DEF VInv
  <1>2. ActionOf("create") = "added"
    BY DEF ActionOf
  <1>3. /\ OverInv(queue')
        /\ ~Overflown(batch \o queue') =>
             /\ ~Overflown(batch \o queue)
             /\ \A x, A : ~Watched(p) \/ x # p \/ "added" \notin A => Keeps(Pending, v, x, A)
             /\ \A A : Watched(p) /\ "added" \in A => Ends(v, p, A, "added")
    BY <1>0, <1>1, <1>2, NotifyTold
  <1>4. Pending' = v
    BY <1>0 DEF Pending
  <1> HIDE DEF v
  <1>5. PumpInv'
    BY <1>0, <1>1 DEF PumpInv
  <1>6. ASSUME ~Lost'
        PROVE  /\ \A x \in told' : PlaceTold(v, x, x \in tree', x \in known')
               /\ \A f \in toldLength' \cap tree' \cap Files : LengthTold(v, f, size'[f], length'[f])
    <2>1. /\ ~Lost
          /\ \A x, A : ~Watched(p) \/ x # p \/ "added" \notin A => Keeps(Pending, v, x, A)
          /\ \A A : Watched(p) /\ "added" \in A => Ends(v, p, A, "added")
      BY <1>0, <1>3, <1>6 DEF Lost
    <2>2. /\ \A x \in told : PlaceTold(Pending, x, x \in tree, x \in known)
          /\ \A f \in toldLength \cap tree \cap Files : LengthTold(Pending, f, size[f], length[f])
      BY <1>1, <2>1 DEF ViewInv
    <2>3. ASSUME NEW x \in told' PROVE PlaceTold(v, x, x \in tree', x \in known')
      <3>1. CASE x = p
        <4>1. Ends(v, x, Comings, "added")
          BY <1>0, <2>1, <2>3, <3>1 DEF Comings
        <4> QED BY <1>0, <3>1, <4>1 DEF PlaceTold, Ends
      <3>2. CASE x # p
        <4>1. PlaceTold(Pending, x, x \in tree, x \in known) /\ Keeps(Pending, v, x, Comings)
          BY <1>0, <2>1, <2>2, <2>3, <3>2
        <4>2. x \in tree' <=> x \in tree
          BY <1>0, <3>2
        <4> QED BY <1>0, <4>1, <4>2 DEF PlaceTold, Keeps
      <3> QED BY <3>1, <3>2
    <2>4. ASSUME NEW f \in toldLength' \cap tree' \cap Files PROVE LengthTold(v, f, size'[f], length'[f])
      <3>1. CASE f = p
        <4>1. Ends(v, f, Growths, "added")
          BY <1>0, <2>1, <2>4, <3>1 DEF Growths
        <4>2. size'[f] = 0
          BY <1>0, <2>4, <3>1
        <4> QED BY <4>1, <4>2 DEF LengthTold, Ends, Growths
      <3>2. CASE f # p
        <4>1. LengthTold(Pending, f, size[f], length[f]) /\ Keeps(Pending, v, f, Growths)
          BY <1>0, <2>1, <2>2, <2>4, <3>2
        <4>2. size'[f] = size[f]
          BY <1>0, <2>4, <3>2
        <4> QED BY <1>0, <4>1, <4>2 DEF LengthTold, Keeps
      <3> QED BY <3>1, <3>2
    <2> QED BY <2>3, <2>4
  <1>7. ViewInv'
    BY <1>4, <1>6 DEF ViewInv
  <1> QED BY <1>3, <1>5, <1>7

LEMMA GrowView ==
  ASSUME VInv, NEW p \in Paths, Grow(p) PROVE OverInv(queue') /\ PumpInv' /\ ViewInv'
  <1> DEFINE v == Told(changes, batch \o Notify("modify", p), directories)
  <1>0. /\ UNCHANGED <<phase, batch, directories, changes, known, length, wds, tree, told>>
        /\ queue' = Notify("modify", p)
        /\ p \in tree \cap Files
        /\ size' = [size EXCEPT ![p] = @ + 1]
        /\ toldLength' = IF Watched(p) THEN toldLength \cup {p} ELSE toldLength \ {p}
    BY DEF Grow, Change
  <1>1. WInv /\ OverInv(queue) /\ PumpInv /\ ViewInv
    BY DEF VInv
  <1>2. ActionOf("modify") = "modified"
    BY DEF ActionOf
  <1>3. /\ OverInv(queue')
        /\ ~Overflown(batch \o queue') =>
             /\ ~Overflown(batch \o queue)
             /\ \A x, A : ~Watched(p) \/ x # p \/ "modified" \notin A => Keeps(Pending, v, x, A)
             /\ \A A : Watched(p) /\ "modified" \in A => Ends(v, p, A, "modified")
    BY <1>0, <1>1, <1>2, NotifyTold
  <1>4. Pending' = v
    BY <1>0 DEF Pending
  <1> HIDE DEF v
  <1>5. PumpInv'
    BY <1>0, <1>1 DEF PumpInv
  <1>6. size \in [Files -> Nat]
    BY StoreWatchAssumption, <1>1 DEF WInv, TypeOK
  <1>7. ASSUME ~Lost'
        PROVE  /\ \A x \in told' : PlaceTold(v, x, x \in tree', x \in known')
               /\ \A f \in toldLength' \cap tree' \cap Files : LengthTold(v, f, size'[f], length'[f])
    <2>1. /\ ~Lost
          /\ \A x, A : ~Watched(p) \/ x # p \/ "modified" \notin A => Keeps(Pending, v, x, A)
          /\ \A A : Watched(p) /\ "modified" \in A => Ends(v, p, A, "modified")
      BY <1>0, <1>3, <1>7 DEF Lost
    <2>2. /\ \A x \in told : PlaceTold(Pending, x, x \in tree, x \in known)
          /\ \A f \in toldLength \cap tree \cap Files : LengthTold(Pending, f, size[f], length[f])
      BY <1>1, <2>1 DEF ViewInv
    <2>3. ASSUME NEW x \in told' PROVE PlaceTold(v, x, x \in tree', x \in known')
      <3>1. PlaceTold(Pending, x, x \in tree, x \in known)
        BY <1>0, <2>2, <2>3
      <3>2. Keeps(Pending, v, x, Comings)
        BY <2>1 DEF Comings
      <3> QED BY <1>0, <3>1, <3>2 DEF PlaceTold, Keeps
    <2>4. ASSUME NEW f \in toldLength' \cap tree' \cap Files
          PROVE LengthTold(v, f, size'[f], length'[f])
      <3>1. CASE f = p
        <4>1. Ends(v, f, Growths, "modified")
          BY <1>0, <2>1, <2>4, <3>1 DEF Growths
        <4>2. size'[f] # 0
          BY <1>0, <1>6, <2>4, <3>1
        <4> QED BY <4>1, <4>2 DEF LengthTold, Ends
      <3>2. CASE f # p
        <4>1. LengthTold(Pending, f, size[f], length[f]) /\ Keeps(Pending, v, f, Growths)
          BY <1>0, <2>1, <2>2, <2>4, <3>2
        <4>2. size'[f] = size[f]
          BY <1>0, <1>6, <2>4, <3>2
        <4> QED BY <1>0, <4>1, <4>2 DEF LengthTold, Keeps
      <3> QED BY <3>1, <3>2
    <2> QED BY <2>3, <2>4
  <1>8. ViewInv'
    BY <1>4, <1>7 DEF ViewInv
  <1> QED BY <1>3, <1>5, <1>8

\* The last event of a watch tells nothing.
LEMMA RemoveTold ==
  ASSUME VInv, NEW p \in Paths, Remove(p)
  PROVE  /\ OverInv(queue')
         /\ ~Overflown(batch \o queue') =>
              /\ ~Overflown(batch \o queue)
              /\ \A x : \A A \in {Comings, Growths} :
                   ~Watched(p) \/ x # p \/ "deleted" \notin A =>
                     Keeps(Pending, Told(changes, batch \o queue', directories), x, A)
              /\ Watched(p) =>
                   Ends(Told(changes, batch \o queue', directories), p, Comings, "deleted")
  <1> DEFINE q == Notify("delete", p)
             e == Event("ignored", wds[p], "")
             t == Told(changes, batch \o q, directories)
             v == Told(changes, batch \o queue', directories)
             Watching == p \in Dirs /\ wds[p] # 0
  <1>0. /\ queue' = IF Watching THEN Enqueue(q, e) ELSE q
        /\ WInv /\ OverInv(queue)
        /\ ActionOf("delete") = "deleted" /\ ActionOf("ignored") = "none"
    BY DEF Remove, VInv, ActionOf
  <1>1. /\ OverInv(q)
        /\ ~Overflown(batch \o q) =>
             /\ ~Overflown(batch \o queue)
             /\ \A x, A : ~Watched(p) \/ x # p \/ "deleted" \notin A => Keeps(Pending, t, x, A)
             /\ Watched(p) => Ends(t, p, Comings, "deleted")
    BY <1>0, NotifyTold DEF Comings
  <1>2. CASE ~Watching
    <2>1. queue' = q
      BY <1>0, <1>2
    <2>2. t = v
      BY <2>1
    <2> HIDE DEF q, t, v
    <2>3. /\ OverInv(queue')
          /\ ~Overflown(batch \o queue') =>
              /\ ~Overflown(batch \o queue)
              /\ \A x : \A A \in {Comings, Growths} :
                   ~Watched(p) \/ x # p \/ "deleted" \notin A => Keeps(Pending, v, x, A)
              /\ Watched(p) => Ends(v, p, Comings, "deleted")
      BY <1>1, <2>1, <2>2
    <2> QED BY <2>3 DEF v
  <1>3. CASE Watching
    <2>1. /\ q \in Seq(Events) /\ batch \in Seq(Events) /\ batch \o q \in Seq(Events)
          /\ changes \in Seq(Changes)
      BY <1>0, Notified, TypeFacts, ConcatProperties DEF WInv, TypeOK
    <2>2. e \in Events /\ e.kind = "ignored" /\ e # Overflow
      <3>1. wds[p] \in Nat
        BY <1>0, <1>3, TypeFacts DEF Directories
      <3>2. wds[p] \in Int /\ "ignored" \in Kinds /\ "" \in Names \cup {""}
        BY <3>1 DEF Kinds
      <3>3. e \in Events /\ e.kind = "ignored"
        BY <3>2 DEF Event, Events
      <3> QED BY <3>3, EventFacts
    <2>3. queue' = Enqueue(q, e)
      BY <1>0, <1>3
    <2> HIDE DEF q, e
    <2>4. /\ OverInv(queue')
          /\ ~Overflown(batch \o queue') =>
               /\ ~Overflown(batch \o q)
               /\ \/ batch \o queue' = Append(batch \o q, e)
                  \/ /\ batch \o queue' = batch \o q
                     /\ Len(batch \o q) >= 1 /\ (batch \o q)[Len(batch \o q)] = e
      BY <1>1, <2>1, <2>2, <2>3, Queued
    <2>5. ASSUME NEW x, NEW A \in {Comings, Growths} PROVE ~IsOf(Tell(e, directories), x, A)
      BY <1>0, <2>2 DEF IsOf, Tell, Comings, Growths
    <2>6. ASSUME ~Overflown(batch \o queue'), NEW x, NEW A \in {Comings, Growths}
          PROVE  Keeps(t, v, x, A)
      BY <2>1, <2>2, <2>4, <2>5, <2>6, Announced
    <2> HIDE DEF t, v
    <2>7. ASSUME ~Overflown(batch \o queue'), NEW x, NEW A \in {Comings, Growths},
                 ~Watched(p) \/ x # p \/ "deleted" \notin A
          PROVE  Keeps(Pending, v, x, A)
      BY <1>1, <2>4, <2>6, <2>7, KeepsTransitive
    <2>8. ASSUME ~Overflown(batch \o queue'), Watched(p) PROVE Ends(v, p, Comings, "deleted")
      BY <1>1, <2>4, <2>6, <2>8, KeepsTransitive
    <2> QED BY <1>1, <2>4, <2>7, <2>8 DEF v
  <1> QED BY <1>2, <1>3

LEMMA RemoveView ==
  ASSUME VInv, NEW p \in Paths, Remove(p) PROVE OverInv(queue') /\ PumpInv' /\ ViewInv'
  <1> DEFINE v == Told(changes, batch \o queue', directories)
  <1>0. /\ UNCHANGED <<phase, batch, directories, changes, known, length, size, toldLength>>
        /\ tree' = tree \ {p}
        /\ told' = IF Watched(p) THEN told \cup {p} ELSE told \ {p}
    BY DEF Remove, Change
  <1>1. PumpInv /\ ViewInv
    BY DEF VInv
  <1>2. /\ OverInv(queue')
        /\ ~Overflown(batch \o queue') =>
             /\ ~Overflown(batch \o queue)
             /\ \A x : \A A \in {Comings, Growths} :
                  ~Watched(p) \/ x # p \/ "deleted" \notin A => Keeps(Pending, v, x, A)
             /\ Watched(p) => Ends(v, p, Comings, "deleted")
    BY RemoveTold
  <1>3. Pending' = v
    BY <1>0 DEF Pending
  <1> HIDE DEF v
  <1>4. PumpInv'
    BY <1>0, <1>1 DEF PumpInv
  <1>5. ASSUME ~Lost'
        PROVE  /\ \A x \in told' : PlaceTold(v, x, x \in tree', x \in known')
               /\ \A f \in toldLength' \cap tree' \cap Files : LengthTold(v, f, size'[f], length'[f])
    <2>1. /\ ~Lost
          /\ \A x : \A A \in {Comings, Growths} :
               ~Watched(p) \/ x # p \/ "deleted" \notin A => Keeps(Pending, v, x, A)
          /\ Watched(p) => Ends(v, p, Comings, "deleted")
      BY <1>0, <1>2, <1>5 DEF Lost
    <2>2. /\ \A x \in told : PlaceTold(Pending, x, x \in tree, x \in known)
          /\ \A f \in toldLength \cap tree \cap Files : LengthTold(Pending, f, size[f], length[f])
      BY <1>1, <2>1 DEF ViewInv
    <2>3. ASSUME NEW x \in told' PROVE PlaceTold(v, x, x \in tree', x \in known')
      <3>1. CASE x = p
        <4>1. Ends(v, x, Comings, "deleted") /\ x \notin tree'
          BY <1>0, <2>1, <2>3, <3>1
        <4> QED BY <4>1 DEF PlaceTold, Ends
      <3>2. CASE x # p
        <4>1. PlaceTold(Pending, x, x \in tree, x \in known) /\ Keeps(Pending, v, x, Comings)
          BY <1>0, <2>1, <2>2, <2>3, <3>2
        <4>2. x \in tree' <=> x \in tree
          BY <1>0, <3>2
        <4> QED BY <1>0, <4>1, <4>2 DEF PlaceTold, Keeps
      <3> QED BY <3>1, <3>2
    <2>4. ASSUME NEW f \in toldLength' \cap tree' \cap Files
          PROVE LengthTold(v, f, size'[f], length'[f])
      <3>1. LengthTold(Pending, f, size[f], length[f])
        BY <1>0, <2>2, <2>4
      <3>2. Keeps(Pending, v, f, Growths)
        BY <2>1 DEF Growths
      <3> QED BY <1>0, <3>1, <3>2 DEF LengthTold, Keeps
    <2> QED BY <2>3, <2>4
  <1>6. ViewInv'
    BY <1>3, <1>5 DEF ViewInv
  <1> QED BY <1>2, <1>4, <1>6

----------------------------------------------------------------------------
(* The steps of the watcher                                                *)

\* A change that is dropped is missed by those only whom it is about.
LEMMA LastDrop ==
  ASSUME NEW t, NEW u, NEW n \in Nat, DOMAIN t = 1..(n + 1), DOMAIN u = 1..n,
         NEW k \in 1..(n + 1),
         \A i \in 1..n : u[i] = IF i < k THEN t[i] ELSE t[i + 1],
         NEW p, NEW A, ~IsOf(t[k], p, A)
  PROVE  Keeps(t, u, p, A)
  <1>1. ASSUME NEW R, Last(t, p, A, R), NEW i \in 1..n, IsOf(u[i], p, A),
               \A j \in 1..n : j > i => ~IsOf(u[j], p, A)
        PROVE  u[i].action \in R
    <2>1. PICK m \in 1..(n + 1) : m = IF i < k THEN i ELSE i + 1
      OBVIOUS
    <2>2. u[i] = t[m]
      BY <2>1
    <2>3. ASSUME NEW j \in 1..(n + 1), j > m, j # k PROVE ~IsOf(t[j], p, A)
      <3>1. CASE j < k
        BY <1>1, <2>1, <2>3, <3>1
      <3>2. CASE j > k
        <4>1. j - 1 \in 1..n /\ j - 1 > i /\ ~(j - 1 < k) /\ (j - 1) + 1 = j
          BY <2>1, <2>3, <3>2
        <4>2. u[j - 1] = t[j]
          BY <4>1
        <4> QED BY <1>1, <4>1, <4>2
      <3> QED BY <2>3, <3>1, <3>2
    <2>4. \A j \in 1..(n + 1) : j > m => ~IsOf(t[j], p, A)
      BY <2>3
    <2>5. t[m].action \in R
      BY <1>1, <2>1, <2>2, <2>4 DEF Last
    <2> QED BY <2>2, <2>5
  <1>2. ASSUME Silent(u, p, A), NEW j \in 1..(n + 1) PROVE ~IsOf(t[j], p, A)
    <2>1. CASE j < k
      <3>1. j \in 1..n /\ u[j] = t[j]
        BY <2>1
      <3> QED BY <1>2, <3>1 DEF Silent
    <2>2. CASE j > k
      <3>1. j - 1 \in 1..n /\ ~(j - 1 < k) /\ (j - 1) + 1 = j
        BY <2>2
      <3>2. u[j - 1] = t[j]
        BY <3>1
      <3> QED BY <1>2, <3>1, <3>2 DEF Silent
    <2> QED BY <2>1, <2>2
  <1>3. \A R : Last(t, p, A, R) => Last(u, p, A, R)
    BY <1>1 DEF Last
  <1> QED BY <1>2, <1>3 DEF Keeps, Silent

\* The receiver is told no less when the same is announced.
LEMMA ViewKept ==
  ASSUME VInv, UNCHANGED <<files, known, length>>,
         ~Lost' => ~Lost /\ \A x : \A A \in {Comings, Growths} : Keeps(Pending, Pending', x, A)
  PROVE  ViewInv'
  <1>1. UNCHANGED <<tree, size, told, toldLength, known, length>>
    BY DEF files
  <1>2. ASSUME ~Lost', NEW x \in told' PROVE PlaceTold(Pending', x, x \in tree', x \in known')
    <2>1. PlaceTold(Pending, x, x \in tree, x \in known)
      BY <1>1, <1>2 DEF VInv, ViewInv
    <2>2. Keeps(Pending, Pending', x, Comings)
      BY <1>2
    <2> QED BY <1>1, <2>1, <2>2 DEF PlaceTold, Keeps
  <1>3. ASSUME ~Lost', NEW f \in toldLength' \cap tree' \cap Files
        PROVE  LengthTold(Pending', f, size'[f], length'[f])
    <2>1. LengthTold(Pending, f, size[f], length[f])
      BY <1>1, <1>3 DEF VInv, ViewInv
    <2>2. Keeps(Pending, Pending', f, Growths)
      BY <1>3
    <2> QED BY <1>1, <2>1, <2>2 DEF LengthTold, Keeps
  <1> QED BY <1>2, <1>3 DEF ViewInv

LEMMA SameKept ==
  ASSUME VInv, UNCHANGED <<files, known, length>>, ~Lost' => ~Lost /\ Pending' = Pending
  PROVE  ViewInv'
  <1>1. \A t, x, A : Keeps(t, t, x, A)
    BY DEF Keeps
  <1>2. ~Lost' => ~Lost /\ \A x : \A A \in {Comings, Growths} : Keeps(Pending, Pending', x, A)
    BY <1>1
  <1> QED BY <1>2, ViewKept

\* What a new watch adds to what is known of directories changes no event.
LEMMA TellSame ==
  ASSUME NEW s \in Seq(Events), NEW dirs, NEW old, NEW w, Good(s, old, w), ~Overflown(s),
         \A v \in DOMAIN old : dirs[v] = old[v],
         NEW i \in 1..Len(s)
  PROVE  Tell(s[i], dirs) = Tell(s[i], old)
  <1>1. s[i].wd \in DOMAIN old
    BY DEF Good, Sound, Overflown
  <1> QED BY <1>1 DEF Tell, Place

\* The watcher goes on, and has not read anything.
LEMMA QuietView ==
  ASSUME VInv, UNCHANGED <<files, known, length, queue, batch, directories, changes>>,
         phase # "dead"
  PROVE  ViewInv'
  <1>1. Pending' = Pending
    BY DEF Pending
  <1>2. Lost => Lost'
    BY DEF Lost
  <1> QED BY <1>1, <1>2, SameKept

LEMMA ThrowView ==
  ASSUME VInv, Throw, UNCHANGED queue PROVE OverInv(queue') /\ PumpInv' /\ ViewInv'
  <1>1. phase' = "dead"
    BY DEF Throw
  <1>2. Lost'
    BY <1>1 DEF Lost
  <1> QED BY <1>1, <1>2 DEF VInv, PumpInv, ViewInv

LEMMA ConstructorView ==
  ASSUME VInv, ListTree \/ WatchListed \/ Constructed
  PROVE  OverInv(queue') /\ PumpInv' /\ ViewInv'
  <1>1. CASE ListTree
    <2>1. ViewInv'
      BY <1>1, QuietView DEF ListTree
    <2> QED BY <1>1, <2>1 DEF ListTree, VInv, PumpInv
  <1>2. CASE Constructed
    <2>1. ViewInv'
      BY <1>2, QuietView DEF Constructed
    <2> QED BY <1>2, <2>1 DEF Constructed, VInv, PumpInv
  <1>3. CASE WatchListed
    <2>1. PICK d \in todo :
            \/ AddWatch(d) /\ todo' = todo \ {d} /\ UNCHANGED <<phase, batch, changes>>
            \/ Throw
      BY <1>3 DEF WatchListed
    <2>2. UNCHANGED <<files, queue, known, length>> /\ phase = "watch" /\ d \in Dirs
      BY <1>3 DEF WatchListed, VInv, WInv, TypeOK
    <2>3. CASE AddWatch(d) /\ UNCHANGED <<phase, batch, changes>>
      <3>1. \A v \in DOMAIN directories : directories'[v] = directories[v]
        BY <2>2, <2>3, WatchAdded DEF VInv
      <3>2. batch \o queue \in Seq(Events) /\ changes \in Seq(Changes)
            /\ Good(batch \o queue, directories, wds)
        BY TypeFacts DEF VInv, WInv, TypeOK, EventInv
      <3>3. ASSUME ~Lost' PROVE ~Lost /\ Pending' = Pending
        <4>1. ~Lost /\ ~Overflown(batch \o queue)
          BY <2>2, <2>3, <3>3 DEF Lost
        <4>2. \A i \in 1..Len(batch \o queue) :
                Tell((batch \o queue)[i], directories') = Tell((batch \o queue)[i], directories)
          BY <3>1, <3>2, <4>1, TellSame
        <4>3. Told(changes, batch \o queue, directories') = Pending
          BY <3>2, <4>2, ToldSame DEF Pending
        <4> QED BY <2>2, <2>3, <4>1, <4>3 DEF Pending
      <3>4. ViewInv'
        BY <2>2, <3>3, SameKept
      <3> QED BY <2>2, <2>3, <3>4 DEF VInv, PumpInv
    <2> QED BY <2>1, <2>2, <2>3, ThrowView
  <1> QED BY <1>1, <1>2, <1>3

\* The first event is taken from the others.
LEMMA Taken ==
  ASSUME VInv, batch # << >>, batch[1] # Overflow
  PROVE  /\ Overflown(batch \o queue) => Overflown(Tail(batch) \o queue)
         /\ Tail(batch) \in Seq(Events)
         /\ Tail(batch) \o queue \in Seq(Events)
         /\ Len(Tail(batch) \o queue) \in Nat
         /\ Len(batch \o queue) = Len(Tail(batch) \o queue) + 1
         /\ (batch \o queue)[1] = batch[1]
         /\ \A i \in 1..Len(Tail(batch) \o queue) :
              (Tail(batch) \o queue)[i] = (batch \o queue)[i + 1]
  <1> DEFINE s == batch \o queue
             u == Tail(batch) \o queue
  <1>1. batch \in Seq(Events) /\ queue \in Seq(Events)
    BY TypeFacts DEF VInv
  <1>2. /\ Tail(batch) \in Seq(Events)
        /\ Len(s) \in Nat /\ Len(s) >= 1
        /\ s[1] = batch[1]
        /\ Len(u) = Len(s) - 1
        /\ \A i \in 1..(Len(s) - 1) : u[i] = s[i + 1]
    BY <1>1, TailFacts
  <1>3. u \in Seq(Events)
    BY <1>1, <1>2, ConcatProperties
  <1> HIDE DEF s, u
  <1>4. ASSUME Overflown(s) PROVE Overflown(u)
    <2>1. PICK i \in 1..Len(s) : s[i] = Overflow
      BY <1>4 DEF Overflown
    <2>2. i # 1
      BY <1>2, <2>1
    <2>3. i - 1 \in 1..Len(u) /\ (i - 1) + 1 = i
      BY <1>2, <2>2
    <2>4. u[i - 1] = Overflow
      BY <1>2, <2>1, <2>3
    <2> QED BY <2>3, <2>4 DEF Overflown
  <1> QED BY <1>2, <1>3, <1>4 DEF s, u

LEMMA CollectView ==
  ASSUME VInv, Known, phase # "dead", NEW action \in {"added", "deleted", "modified"},
         Collect(action), action = ActionOf(batch[1].kind), EventPath \in Paths,
         UNCHANGED <<files, queue, known, length>>,
         \A v \in DOMAIN directories : directories'[v] = directories[v]
  PROVE  PumpInv' /\ ViewInv'
  <1> DEFINE c == [action |-> action, path |-> EventPath]
             s == batch \o queue
             u == Tail(batch) \o queue
  <1>1. phase' = "read" /\ batch' = Tail(batch) /\ changes' = Append(changes, c)
    BY DEF Collect
  <1>2. WInv /\ changes \in Seq(Changes) /\ s \in Seq(Events) /\ Good(s, directories, wds)
    BY TypeFacts DEF VInv, WInv, TypeOK, EventInv
  <1>3. c \in Changes /\ c = Tell(batch[1], directories)
    BY DEF Changes, Tell, EventPath, Place
  <1>4. batch # << >> /\ batch[1] # Overflow
    BY <1>2, EventPathType
  <1>5. /\ Overflown(s) => Overflown(u)
        /\ u \in Seq(Events) /\ Len(s) = Len(u) + 1 /\ Len(u) \in Nat
        /\ s[1] = batch[1]
        /\ \A i \in 1..Len(u) : u[i] = s[i + 1]
    BY <1>4, Taken
  <1>6. Pending' = Told(Append(changes, c), u, directories') /\ Pending = Told(changes, s, directories)
    BY <1>1 DEF Pending
  <1>7. Lost' <=> Overflown(u)
    BY <1>1 DEF Lost
  <1>8. Lost <=> Overflown(s)
    BY DEF Lost
  <1> HIDE DEF c, s, u
  <1>9. ASSUME ~Lost' PROVE ~Lost /\ Pending' = Pending
    <2>1. ~Overflown(s)
      BY <1>5, <1>7, <1>9
    <2>2. ASSUME NEW i \in 1..Len(u) PROVE Tell(u[i], directories') = Tell(s[i + 1], directories)
      <3>1. i + 1 \in 1..Len(s)
        BY <1>5
      <3>2. Tell(s[i + 1], directories') = Tell(s[i + 1], directories)
        BY <1>2, <2>1, <3>1, TellSame
      <3> QED BY <1>5, <3>2
    <2>3. c = Tell(s[1], directories)
      BY <1>3, <1>5
    <2>4. Told(Append(changes, c), u, directories') = Told(changes, s, directories)
      BY <1>2, <1>3, <1>5, <2>2, <2>3, ToldCollect
    <2> QED BY <1>6, <1>8, <2>1, <2>4
  <1>10. ViewInv'
    BY <1>9, SameKept
  <1> QED BY <1>1, <1>10 DEF PumpInv

\* A watch that is gone was of no event that is left.
LEMMA IgnoredView ==
  ASSUME VInv, ReadIgnored PROVE OverInv(queue') /\ PumpInv' /\ ViewInv'
  <1> DEFINE s == batch \o queue
             u == Tail(batch) \o queue
             t == Told(changes, s, directories)
             v == Told(changes, u, directories')
             k == Len(changes) + 1
             n == Len(changes) + Len(u)
  <1>1. /\ UNCHANGED <<files, kernel, queue, phase, todo, changes, known, length>>
        /\ phase = "read"
        /\ directories' = [w \in DOMAIN directories \ {batch[1].wd} |-> directories[w]]
        /\ batch' = Tail(batch)
        /\ Known /\ batch # << >> /\ batch[1].kind = "ignored"
    BY DEF ReadIgnored, Known
  <1>2. WInv /\ changes \in Seq(Changes) /\ s \in Seq(Events) /\ Good(s, directories, wds)
    BY TypeFacts DEF VInv, WInv, TypeOK, EventInv
  <1>3. batch[1] # Overflow
    BY <1>1, EventFacts
  <1>4. /\ Overflown(s) => Overflown(u)
        /\ u \in Seq(Events) /\ Len(s) = Len(u) + 1 /\ Len(u) \in Nat
        /\ s[1] = batch[1]
        /\ \A i \in 1..Len(u) : u[i] = s[i + 1]
    BY <1>1, <1>3, Taken
  <1>5. Pending' = v /\ Pending = t
    BY <1>1 DEF Pending
  <1>6. (Lost' <=> Overflown(u)) /\ (Lost <=> Overflown(s))
    BY <1>1 DEF Lost
  <1>7. Len(changes) \in Nat /\ n \in Nat /\ k \in 1..(n + 1)
    BY <1>2, <1>4, LenProperties
  <1>8. DOMAIN t = 1..(n + 1) /\ DOMAIN v = 1..n
    <2>1. Len(changes) + Len(s) = n + 1
      BY <1>4, <1>7
    <2>2. DOMAIN t = 1..(Len(changes) + Len(s))
      BY <1>2, ToldFacts
    <2>3. DOMAIN v = 1..(Len(changes) + Len(u))
      BY <1>2, <1>4, ToldFacts
    <2> QED BY <2>1, <2>2, <2>3
  <1> HIDE DEF s, u
  <1>9. t[k] = Tell(batch[1], directories)
    <2>1. 1 \in 1..Len(s)
      BY <1>4
    <2> QED BY <1>2, <1>4, <2>1, ToldFacts
  <1>10. \A x : \A A \in {Comings, Growths} : ~IsOf(t[k], x, A)
    <2>1. t[k].action = "none"
      BY <1>1, <1>9 DEF Tell, ActionOf
    <2> HIDE DEF t, k
    <2> QED BY <2>1 DEF IsOf, Comings, Growths
  <1>11. ASSUME ~Overflown(s), NEW i \in 1..n
         PROVE  v[i] = IF i < k THEN t[i] ELSE t[i + 1]
    <2>1. CASE i < k
      <3>1. i \in 1..Len(changes)
        BY <1>7, <2>1
      <3>2. t[i] = changes[i] /\ v[i] = changes[i]
        BY <1>2, <1>4, <3>1, ToldFacts
      <3> HIDE DEF t, v, k
      <3> QED BY <2>1, <3>2
    <2>2. CASE ~(i < k)
      <3>1. PICK j \in 1..Len(u) : i = Len(changes) + j
        <4>1. i - Len(changes) \in 1..Len(u) /\ i = Len(changes) + (i - Len(changes))
          BY <1>4, <1>7, <2>2
        <4> QED BY <4>1
      <3>2. v[Len(changes) + j] = Tell(u[j], directories')
        BY <1>2, <1>4, ToldFacts
      <3>3. j + 1 \in 1..Len(s) /\ i + 1 = Len(changes) + (j + 1)
        BY <1>4, <1>7, <3>1
      <3>4. t[Len(changes) + (j + 1)] = Tell(s[j + 1], directories)
        BY <1>2, <3>3, ToldFacts
      <3>5. Tell(s[j + 1], directories') = Tell(s[j + 1], directories)
        <4>1. s[j + 1].wd \in DOMAIN directories
          BY <1>2, <1>11, <3>3 DEF Good, Sound, Overflown
        <4>2. s[j + 1].wd # batch[1].wd
          <5>1. 1 \in 1..Len(s) /\ 1 < j + 1
            BY <1>4, <3>3
          <5> QED BY <1>1, <1>2, <1>4, <3>3, <5>1 DEF Good, Final
        <4> QED BY <1>1, <4>1, <4>2 DEF Tell, Place
      <3>6. u[j] = s[j + 1]
        BY <1>4
      <3> HIDE DEF t, v, k
      <3>7. v[i] = t[i + 1]
        BY <3>1, <3>2, <3>3, <3>4, <3>5, <3>6
      <3> QED BY <2>2, <3>7
    <2> QED BY <2>1, <2>2
  <1> HIDE DEF t, v, k, n
  <1>12. ASSUME ~Lost'
         PROVE  ~Lost /\ \A x : \A A \in {Comings, Growths} : Keeps(Pending, Pending', x, A)
    <2>1. ~Overflown(s)
      BY <1>4, <1>6, <1>12
    <2>2. \A i \in 1..n : v[i] = IF i < k THEN t[i] ELSE t[i + 1]
      BY <1>11, <2>1
    <2>3. \A x : \A A \in {Comings, Growths} : Keeps(t, v, x, A)
      BY <1>7, <1>8, <1>10, <2>2, LastDrop
    <2> QED BY <1>5, <1>6, <2>1, <2>3
  <1>13. ViewInv'
    BY <1>1, <1>12, ViewKept
  <1> QED BY <1>1, <1>13 DEF VInv, PumpInv

LEMMA ReadView ==
  ASSUME VInv, ReadEvents \/ ReadUnknown \/ ReadOther \/ EventsRead
  PROVE  OverInv(queue') /\ PumpInv' /\ ViewInv'
  <1>0. WInv /\ batch \in Seq(Events) /\ queue \in Seq(Events)
    BY TypeFacts DEF VInv
  <1>1. CASE ReadEvents
    <2>1. /\ phase = "wait" /\ phase' = "read" /\ batch' = queue /\ queue' = << >>
          /\ UNCHANGED <<files, directories, changes, known, length>>
      BY <1>1 DEF ReadEvents
    <2>2. batch = << >>
      BY <1>0, <2>1 DEF WInv, PhaseInv
    <2>3. batch' \o queue' = batch \o queue
      BY <1>0, <2>1, <2>2, ConcatEmptySeq
    <2>4. Pending' = Pending /\ (Lost => Lost')
      BY <2>1, <2>3 DEF Pending, Lost
    <2>5. ViewInv'
      BY <2>1, <2>4, SameKept
    <2>6. OverInv(queue')
      BY <2>1, StoreWatchAssumption DEF OverInv
    <2> QED BY <2>1, <2>5, <2>6 DEF PumpInv
  <1>2. CASE ReadUnknown
    BY <1>2, ThrowView DEF ReadUnknown
  <1>3. CASE ReadOther
    <2>1. PICK action \in {"deleted", "modified"} :
            /\ Collect(action)
            /\ action = "deleted" => batch[1].kind = "delete"
            /\ action = "modified" => batch[1].kind = "modify"
      BY <1>3 DEF ReadOther
    <2>2. /\ UNCHANGED <<files, queue, directories, known, length>>
          /\ Known /\ phase = "read"
      BY <1>3 DEF ReadOther
    <2>3. EventPath \in Paths
      BY <1>0, <2>1, <2>2, EventPathType DEF Paths
    <2>4. action = ActionOf(batch[1].kind)
      BY <2>1 DEF ActionOf
    <2>5. \A v \in DOMAIN directories : directories'[v] = directories[v]
      BY <2>2
    <2>6. phase # "dead" /\ action \in {"added", "deleted", "modified"}
      BY <2>2
    <2>7. PumpInv' /\ ViewInv'
      BY <2>1, <2>2, <2>3, <2>4, <2>5, <2>6, CollectView
    <2> QED BY <2>2, <2>7 DEF VInv
  <1>4. CASE EventsRead
    <2>1. ViewInv'
      BY <1>4, QuietView DEF EventsRead
    <2> QED BY <1>4, <2>1 DEF EventsRead, VInv, PumpInv
  <1> QED BY <1>1, <1>2, <1>3, <1>4

LEMMA CreatedView ==
  ASSUME VInv, ReadCreate \/ AddNew
  PROVE  OverInv(queue') /\ PumpInv' /\ ViewInv'
  <1>0. /\ UNCHANGED <<files, queue, known, length>>
        /\ WInv /\ Known /\ phase \in {"read", "add"} /\ phase # "dead"
        /\ batch[1].kind = "create"
    BY DEF ReadCreate, AddNew, VInv, WInv, PhaseInv, PumpInv
  <1>1. ActionOf(batch[1].kind) = "added"
    BY <1>0 DEF ActionOf
  <1>2. EventPath \in Paths
    BY <1>0, EventPathType
  <1>3. ASSUME Collect("added"), \A v \in DOMAIN directories : directories'[v] = directories[v]
        PROVE  OverInv(queue') /\ PumpInv' /\ ViewInv'
    <2>1. PumpInv' /\ ViewInv'
      BY <1>0, <1>1, <1>2, <1>3, CollectView
    <2> QED BY <1>0, <2>1 DEF VInv
  <1>4. CASE Throw
    BY <1>0, <1>4, ThrowView
  <1>5. CASE Collect("added") /\ UNCHANGED directories
    BY <1>3, <1>5
  <1>6. CASE AddWatch(EventPath) /\ Collect("added") /\ phase = "add"
    <2>1. EventPath \in Dirs
      BY <1>0, <1>6 DEF WInv, PhaseInv
    <2>2. \A v \in DOMAIN directories : directories'[v] = directories[v]
      BY <1>0, <1>6, <2>1, WatchAdded
    <2> QED BY <1>3, <1>6, <2>2
  <1>7. CASE /\ phase' = "add"
             /\ UNCHANGED <<kernel, todo, batch, directories, changes>>
    <2>1. ViewInv'
      BY <1>0, <1>7, QuietView
    <2> QED BY <1>0, <1>7, <2>1 DEF VInv, PumpInv
  <1> QED BY <1>4, <1>5, <1>6, <1>7 DEF ReadCreate, AddNew

\* Pump handles the first change.
LEMMA HandleView ==
  ASSUME VInv, Handle PROVE OverInv(queue') /\ PumpInv' /\ ViewInv'
  <1> DEFINE s == batch \o queue
             t == Told(changes, s, directories)
             d == Tail(changes)
             v == Told(d, s, directories)
             n == Len(d) + Len(s)
             c == changes[1]
  <1>1. /\ UNCHANGED <<files, queue, phase, batch, directories>>
        /\ phase = "handle"
        /\ changes # << >> /\ changes' = d
    BY DEF Handle
  <1>2. changes \in Seq(Changes) /\ s \in Seq(Events) /\ WInv
    BY TypeFacts DEF VInv, WInv, TypeOK
  <1>3. /\ d \in Seq(Changes)
        /\ Len(changes) \in Nat /\ Len(changes) >= 1
        /\ Len(d) = Len(changes) - 1
        /\ \A i \in 1..Len(d) : d[i] = changes[i + 1]
    BY <1>1, <1>2, EmptySeq, HeadTailProperties, LenProperties
  <1>4. Pending' = v /\ Pending = t /\ (Lost => Lost')
    BY <1>1 DEF Pending, Lost
  <1> HIDE DEF s, d
  <1>5. Len(s) \in Nat /\ n \in Nat /\ Len(changes) + Len(s) = n + 1
    BY <1>2, <1>3, LenProperties
  <1>6. DOMAIN t = 1..(n + 1) /\ DOMAIN v = 1..n
    <2>1. DOMAIN t = 1..(Len(changes) + Len(s))
      BY <1>2, ToldFacts
    <2>2. DOMAIN v = 1..(Len(d) + Len(s))
      BY <1>2, <1>3, ToldFacts
    <2> QED BY <1>5, <2>1, <2>2
  <1>7. t[1] = c
    <2>1. 1 \in 1..Len(changes)
      BY <1>3
    <2> QED BY <1>2, <2>1, ToldFacts
  <1>8. ASSUME NEW i \in 1..n PROVE v[i] = t[i + 1]
    <2>1. CASE i <= Len(d)
      <3>1. i \in 1..Len(d) /\ i + 1 \in 1..Len(changes)
        BY <1>3, <1>5, <2>1
      <3>2. \A k \in 1..Len(d) : v[k] = d[k]
        BY <1>2, <1>3, ToldFacts
      <3>3. \A k \in 1..Len(changes) : t[k] = changes[k]
        BY <1>2, ToldFacts
      <3> HIDE DEF t, v
      <3> QED BY <1>3, <3>1, <3>2, <3>3
    <2>2. CASE ~(i <= Len(d))
      <3>1. PICK j \in 1..Len(s) : i = Len(d) + j /\ i + 1 = Len(changes) + j
        <4>1. /\ i - Len(d) \in 1..Len(s)
              /\ i = Len(d) + (i - Len(d))
              /\ i + 1 = Len(changes) + (i - Len(d))
          BY <1>3, <1>5, <2>2
        <4> QED BY <4>1
      <3>2. v[Len(d) + j] = Tell(s[j], directories)
        BY <1>2, <1>3, ToldFacts
      <3>3. t[Len(changes) + j] = Tell(s[j], directories)
        BY <1>2, ToldFacts
      <3> HIDE DEF t, v
      <3> QED BY <3>1, <3>2, <3>3
    <2> QED BY <2>1, <2>2
  <1> HIDE DEF t, v, n
  <1>9. \A p, A, R : Last(t, p, A, R) =>
          /\ Last(v, p, A, R)
          /\ Silent(v, p, A) => IF IsOf(c, p, A) THEN c.action \in R ELSE Silent(t, p, A)
    BY <1>5, <1>6, <1>7, <1>8, LastTail
  <1>10. /\ UNCHANGED <<tree, size, told, toldLength>>
         /\ length \in [Files -> 0..(MaxSize + 1)]
    BY <1>1, <1>2 DEF files, WInv, TypeOK
  <1>11. \/ /\ c.action = "added"
            /\ known' = known \cup {c.path}
            /\ length' = [f \in Files |-> IF f = c.path THEN 0 ELSE length[f]]
         \/ /\ c.action = "deleted"
            /\ known' = known \ {c.path}
            /\ length' = length
         \/ /\ c.action = "modified"
            /\ \E m \in Stat(c.path) : length' = [length EXCEPT ![c.path] = m]
            /\ known' = known
    BY DEF Handle
  <1> HIDE DEF c
  <1>12. ASSUME ~Lost', NEW x \in told' PROVE PlaceTold(v, x, x \in tree', x \in known')
    <2>1. PlaceTold(t, x, x \in tree, x \in known)
      BY <1>4, <1>10, <1>12 DEF VInv, ViewInv
    <2> DEFINE R == IF x \in tree THEN {"added"} ELSE {"deleted"}
    <2>2. /\ Last(t, x, Comings, R)
          /\ Silent(t, x, Comings) => (x \in known <=> x \in tree)
      BY <2>1 DEF PlaceTold
    <2>3. /\ Last(v, x, Comings, R)
          /\ Silent(v, x, Comings) =>
               IF IsOf(c, x, Comings) THEN c.action \in R ELSE Silent(t, x, Comings)
      BY <1>9, <2>2
    <2>4. ASSUME Silent(v, x, Comings) PROVE x \in known' <=> x \in tree
      <3>1. CASE IsOf(c, x, Comings)
        <4>1. c.action \in R /\ c.path = x
          BY <2>3, <2>4, <3>1 DEF IsOf
        <4> QED BY <1>11, <4>1
      <3>2. CASE ~IsOf(c, x, Comings)
        <4>1. x \in known <=> x \in tree
          BY <2>2, <2>3, <2>4, <3>2
        <4>2. c.path # x \/ c.action = "modified"
          BY <1>11, <3>2 DEF IsOf, Comings
        <4>3. x \in known' <=> x \in known
          BY <1>11, <4>2
        <4> QED BY <4>1, <4>3
      <3> QED BY <3>1, <3>2
    <2> QED BY <1>10, <2>3, <2>4 DEF PlaceTold
  <1>13. ASSUME ~Lost', NEW f \in toldLength' \cap tree' \cap Files
         PROVE  LengthTold(v, f, size'[f], length'[f])
    <2>1. LengthTold(t, f, size[f], length[f])
      BY <1>4, <1>10, <1>13 DEF VInv, ViewInv
    <2> DEFINE R == IF size[f] = 0 THEN Growths ELSE {"modified"}
    <2>2. /\ Last(t, f, Growths, R)
          /\ Silent(t, f, Growths) => length[f] = size[f]
      BY <2>1 DEF LengthTold
    <2>3. /\ Last(v, f, Growths, R)
          /\ Silent(v, f, Growths) =>
               IF IsOf(c, f, Growths) THEN c.action \in R ELSE Silent(t, f, Growths)
      BY <1>9, <2>2
    <2>4. ASSUME Silent(v, f, Growths) PROVE length'[f] = size[f]
      <3>1. CASE IsOf(c, f, Growths)
        <4>1. c.action \in R /\ c.action \in {"added", "modified"} /\ c.path = f
          BY <2>3, <2>4, <3>1 DEF IsOf, Growths
        <4>2. CASE c.action = "added"
          <5>1. size[f] = 0
            BY <4>1, <4>2
          <5> QED BY <1>11, <4>1, <4>2, <5>1
        <4>3. CASE c.action = "modified"
          <5>1. PICK m \in Stat(f) : length' = [length EXCEPT ![f] = m]
            BY <1>11, <4>1, <4>3
          <5>2. m = size[f]
            BY <1>10, <1>13, <5>1 DEF Stat
          <5> QED BY <1>10, <1>13, <5>1, <5>2
        <4> QED BY <4>1, <4>2, <4>3
      <3>2. CASE ~IsOf(c, f, Growths)
        <4>1. length[f] = size[f]
          BY <2>2, <2>3, <2>4, <3>2
        <4>2. c.path # f \/ c.action = "deleted"
          BY <1>11, <3>2 DEF IsOf, Growths
        <4>3. length'[f] = length[f]
          BY <1>10, <1>11, <1>13, <4>2
        <4> QED BY <4>1, <4>3
      <3> QED BY <3>1, <3>2
    <2> QED BY <1>10, <2>3, <2>4 DEF LengthTold
  <1>14. ViewInv'
    BY <1>4, <1>12, <1>13 DEF ViewInv
  <1> QED BY <1>1, <1>14 DEF VInv, PumpInv

LEMMA ViewInitially == ASSUME Init PROVE VInv
  <1>1. ViewInv /\ PumpInv
    BY DEF Init, ViewInv, PumpInv
  <1>2. OverInv(queue)
    BY StoreWatchAssumption DEF Init, OverInv
  <1> QED BY <1>1, <1>2, Initially DEF VInv

LEMMA ViewInductive == ASSUME VInv, [Next]_vars PROVE VInv'
  <1>0. WInv'
    BY Inductive DEF VInv
  <1>1. CASE Store
    <2>1. PICK p \in Paths : Create(p) \/ Grow(p) \/ Remove(p)
      BY <1>1 DEF Store
    <2>2. OverInv(queue') /\ PumpInv' /\ ViewInv'
      BY <2>1, CreateView, GrowView, RemoveView
    <2> QED BY <1>0, <2>2 DEF VInv, OverInv, Overflown
  <1>2. CASE Handled
    <2>1. ViewInv'
      BY <1>2, QuietView DEF Handled
    <2>2. OverInv(queue') /\ PumpInv'
      BY <1>2 DEF Handled, VInv, PumpInv
    <2> QED BY <1>0, <2>1, <2>2 DEF VInv, OverInv, Overflown
  <1>3. CASE Watcher /\ ~Handled
    <2>1. OverInv(queue') /\ PumpInv' /\ ViewInv'
      BY <1>3, ConstructorView, ReadView, IgnoredView, CreatedView, HandleView DEF Watcher
    <2> QED BY <1>0, <2>1 DEF VInv, OverInv, Overflown
  <1>4. CASE UNCHANGED vars
    <2>1. OverInv(queue')
      BY <1>4 DEF vars, VInv
    <2>2. PumpInv'
      BY <1>4 DEF vars, VInv, PumpInv
    <2>3. ViewInv'
      BY <1>4 DEF vars, VInv, ViewInv, Lost, Pending
    <2> QED BY <1>0, <2>1, <2>2, <2>3 DEF VInv, OverInv, Overflown
  <1> QED BY <1>1, <1>2, <1>3, <1>4 DEF Next

----------------------------------------------------------------------------
(* The theorems                                                            *)

(***************************************************************************)
(* Of every directory with a watch the DirectoryWatcher knows the watch,   *)
(* and every event that is queued or being read is one of a watch it will  *)
(* know when its turn comes, except the overflow.                          *)
(***************************************************************************)
THEOREM Invariance == Spec => []WInv
  <1>1. Init => WInv
    BY Initially
  <1>2. WInv /\ [Next]_vars => WInv'
    BY Inductive
  <1> QED BY <1>1, <1>2, PTL DEF Spec

\* Types, for any store and any length of the queue.
THEOREM TypeCorrect == Spec => []TypeOK
  <1>1. WInv => TypeOK
    BY DEF WInv
  <1> QED BY <1>1, Invariance, PTL

(***************************************************************************)
(* WaitForChanges throws for an unknown watch only when the kernel's queue *)
(* has overflowed: directories.erase on IN_IGNORED never forgets a watch   *)
(* that an event still names.                                              *)
(***************************************************************************)
THEOREM OnlyOverflowIsUnknown == Spec => []UnknownIsOverflow
  <1>1. ASSUME WInv, phase = "read", batch # << >>, ~Known PROVE batch[1] = Overflow
    <2>1. Sound(batch[1], directories)
      BY <1>1, TypeFacts, GoodTail DEF WInv, EventInv
    <2> QED BY <1>1, <2>1 DEF Sound, Known
  <1>2. WInv => UnknownIsOverflow
    BY <1>1 DEF UnknownIsOverflow
  <1> QED BY <1>2, Invariance, PTL

(***************************************************************************)
(* When Pump has handled all there is, what the receiver of its changes    *)
(* knows is true of every path whose last coming or going met a watch, and *)
(* of the length of every such stream: neither the merging of events, nor  *)
(* a stat long after the event, nor the forgetting of watches loses the    *)
(* last thing there is to tell.                                            *)
(***************************************************************************)
THEOREM CaughtUp == Spec => []ViewCatchesUp
  <1>1. ASSUME VInv, Idle PROVE ViewCatchesUp
    <2>1. /\ phase = "wait" /\ queue = << >> /\ batch = << >> /\ changes = << >>
      BY <1>1 DEF Idle, VInv, WInv, PhaseInv, PumpInv
    <2>2. batch \o queue = << >> /\ Len(<< >>) = 0
      BY <2>1, ConcatEmptySeq
    <2>3. DOMAIN Pending = 1..0
      BY <2>1, <2>2 DEF Pending, Told
    <2>4. \A p, A : Silent(Pending, p, A)
      BY <2>3 DEF Silent
    <2>5. ~Lost
      BY <2>1, <2>2 DEF Lost, Overflown
    <2>6. /\ \A p \in told : PlaceTold(Pending, p, p \in tree, p \in known)
          /\ \A f \in toldLength \cap tree \cap Files :
               LengthTold(Pending, f, size[f], length[f])
      BY <1>1, <2>5 DEF VInv, ViewInv
    <2> QED BY <2>4, <2>6 DEF ViewCatchesUp, PlaceTold, LengthTold
  <1>2. VInv => ViewCatchesUp
    BY <1>1 DEF ViewCatchesUp
  <1>3. Init => VInv
    BY ViewInitially
  <1>4. VInv /\ [Next]_vars => VInv'
    BY ViewInductive
  <1> QED BY <1>2, <1>3, <1>4, PTL DEF Spec

----------------------------------------------------------------------------
(* What is wrong is on its way                                             *)

\* A change of p by an action of A waits to be told.
StillToTell(p, A) == \E i \in DOMAIN Pending : IsOf(Pending[i], p, A)

WrongIsPending ==
  Lost \/ /\ \A p \in told : ~(p \in known <=> p \in tree) => StillToTell(p, Comings)
          /\ \A f \in toldLength \cap tree \cap Files :
               length[f] # size[f] =>
                 /\ StillToTell(f, Growths)
                 /\ size[f] # 0 =>
                      Last(Pending, f, Growths, {"modified"})

(***************************************************************************)
(* What the receiver of the changes has wrong is still to be told, by a    *)
(* change Pump has collected or by an event that waits, of this watcher or *)
(* of the kernel; and of a stream with contents by one that makes Pump     *)
(* take its size.  With CaughtUp for when nothing waits, the safety half   *)
(* of GrowthAnnounced: all that a run has to add is that Pump goes on.     *)
(***************************************************************************)
THEOREM ErrorsArePending == Spec => []WrongIsPending
  <1>1. ASSUME VInv, ~Lost PROVE WrongIsPending
    <2>1. ASSUME NEW p \in told, ~(p \in known <=> p \in tree)
          PROVE  StillToTell(p, Comings)
      <3>1. PlaceTold(Pending, p, p \in tree, p \in known)
        BY <1>1, <2>1 DEF VInv, ViewInv
      <3>2. ~Silent(Pending, p, Comings)
        BY <2>1, <3>1 DEF PlaceTold
      <3> QED BY <3>2 DEF Silent, StillToTell
    <2>2. ASSUME NEW f \in toldLength \cap tree \cap Files, length[f] # size[f]
          PROVE  /\ StillToTell(f, Growths)
                 /\ size[f] # 0 => Last(Pending, f, Growths, {"modified"})
      <3>1. LengthTold(Pending, f, size[f], length[f])
        BY <1>1, <2>2 DEF VInv, ViewInv
      <3>2. ~Silent(Pending, f, Growths)
        BY <2>2, <3>1 DEF LengthTold
      <3> QED BY <3>1, <3>2 DEF LengthTold, Silent, StillToTell
    <2> QED BY <2>1, <2>2 DEF WrongIsPending
  <1>2. VInv => WrongIsPending
    BY <1>1 DEF WrongIsPending
  <1>3. Init => VInv
    BY ViewInitially
  <1>4. VInv /\ [Next]_vars => VInv'
    BY ViewInductive
  <1> QED BY <1>2, <1>3, <1>4, PTL DEF Spec

=============================================================================
