---------------------------- MODULE StateManager ----------------------------
(***************************************************************************)
(* A PersistedStateManager: the subscriptions of a reactor, their timers,  *)
(* and the streams it has heard of.  Its callers, the reactor's Pump and   *)
(* the unit tests, drive it from one thread; an action is one call, or a   *)
(* microsecond passing.  A call that throws before it has changed anything *)
(* is no step, so there is none for a duplicate id.                        *)
(*                                                                         *)
(* Timer counts microseconds down in a uint32 by a timer of the system,    *)
(* which has only so many.  RemoveExpiredSubscriptions takes a record out  *)
(* of the map and does not delete it, so its timer is never given back.    *)
(***************************************************************************)
EXTENDS StorePaths

CONSTANTS
  Ids,          \* subscription ids, numbers in the order of the map
  Infos,        \* bound: [type, paths] of SubscriptionInfos
  Ttls,         \* bound: values of subscription_ttl, in milliseconds
  PerMs,        \* microseconds in a millisecond; the code has 1000
  Width,        \* number of values of a uint32
  MaxTimers,    \* timers the system has for this process
  MaxRenewals,  \* bound: renewals
  Files,        \* bound: the files of streams, as paths from the store's root
  MaxLength     \* bound: length of a stream

Types == {"STORE_CHANGE", "ENVELOPE"}

ASSUME StateManagerAssumption ==
  /\ Ids \subseteq Nat /\ IsFiniteSet(Ids)
  /\ \A info \in Infos : info.type \in Types
  /\ Ttls \subseteq Nat
  /\ PerMs \in Nat
  /\ Width \in Nat \ {0}
  /\ MaxTimers \in Nat
  /\ MaxRenewals \in Nat
  /\ MaxLength \in Nat
  /\ Files \subseteq {StreamPath(b, s, n \o <<Extension>>) : b, s, n \in Names}

VARIABLES
  ttl,                 \* subscription_ttl
  subscriptions,       \* function from the registered ids to Records, below
  timers,              \* timers created
  renewals,            \* renewals so far
  stream_read_offsets  \* function from the paths of the streams known to offsets

vars == <<ttl, subscriptions, timers, renewals, stream_read_offsets>>

\* What is meant, and what the multiplication in uint32 gives.
Micros == ttl * PerMs
Period == Micros % Width

(***************************************************************************)
(* armed  the timer was created and runs                                   *)
(* left   microseconds until it signals                                    *)
(* age    history: microseconds since it was started last, up to Micros    *)
(***************************************************************************)
Records == [info : Infos, armed : BOOLEAN, left : Nat, age : Nat]

Started(info) == [info |-> info, armed |-> TRUE, left |-> Period, age |-> 0]

\* Those of files that StreamNames finds: the ones with something before the
\* extension, which it takes off by its length.
NamesOf(f) ==
  LET name == Component(f, 3)
  IN IF Len(name) > 1 /\ name[Len(name)] = Extension
     THEN {SubSeq(name, 1, Len(name) - 1)} ELSE {}

StreamPaths(files) ==
  UNION {{StreamPath(Component(f, 1), Component(f, 2), name) : name \in NamesOf(f)} : f \in files}

\* The path a reactor makes of the names in a change that the watcher made of
\* the path of the file.
ChangedPath(file) ==
  LET c == ParsePath(file) IN StreamPath(c.bucket, c.set, c.stream)

\* The constructor reads the lengths of the streams there are.
Init ==
  /\ ttl \in Ttls
  /\ subscriptions = << >>
  /\ timers = 0
  /\ renewals = 0
  /\ \E existing \in SUBSET Files :
       stream_read_offsets \in [StreamPaths(existing) -> 0..MaxLength]

Registered == DOMAIN subscriptions

Minus1(n) == IF n = 0 THEN 0 ELSE n - 1

Tick ==
  /\ subscriptions' = [id \in Registered |->
       LET r == subscriptions[id]
       IN [r EXCEPT !.left = IF r.armed THEN Minus1(@) ELSE @,
                    !.age = IF @ < Micros THEN @ + 1 ELSE @]]
  /\ UNCHANGED <<ttl, timers, renewals, stream_read_offsets>>

\* mutant: the timer is armed by the first renewal
RegisterSubscriptionMutant(id, info) ==
  /\ id \notin Registered
  /\ subscriptions' = [i \in Registered \cup {id} |->
       IF i # id THEN subscriptions[i]
       ELSE [info |-> info, armed |-> FALSE, left |-> 0, age |-> 0]]
  /\ UNCHANGED <<ttl, timers, renewals, stream_read_offsets>>

\* mutant: a timer is created whether there is one or not
RegisterSubscriptionUnlimited(id, info) ==
  /\ id \notin Registered
  /\ subscriptions' = [i \in Registered \cup {id} |->
                         IF i = id THEN Started(info) ELSE subscriptions[i]]
  /\ timers' = timers + 1
  /\ UNCHANGED <<ttl, renewals, stream_read_offsets>>

(***************************************************************************)
(* The record is in the map before its timer is created; if that fails     *)
(* RegisterSubscription throws, and the record stays.                      *)
(***************************************************************************)
RegisterSubscription(id, info) ==
  /\ id \notin Registered
  /\ LET record == IF timers < MaxTimers THEN Started(info)
                   ELSE [info |-> info, armed |-> FALSE, left |-> 0, age |-> 0]
     IN subscriptions' = [i \in Registered \cup {id} |->
                            IF i = id THEN record ELSE subscriptions[i]]
  /\ timers' = IF timers < MaxTimers THEN timers + 1 ELSE timers
  /\ UNCHANGED <<ttl, renewals, stream_read_offsets>>

\* Those of ids whose timer has to be created and cannot be.
TimerFails(ids) ==
  LET unarmed == {i \in ids : ~subscriptions[i].armed}
  IN {i \in unarmed : Cardinality({j \in unarmed : j <= i}) > MaxTimers - timers}

\* mutant: a timer that runs is left alone, as Timer::Start might
RenewSubscriptionsMutant(ids) ==
  /\ renewals < MaxRenewals
  /\ renewals' = renewals + 1
  /\ subscriptions' = [i \in Registered |->
       IF i \in ids THEN [subscriptions[i] EXCEPT !.age = 0] ELSE subscriptions[i]]
  /\ UNCHANGED <<ttl, timers, stream_read_offsets>>

(***************************************************************************)
(* The timers of the registered ones of ids are started again, also those  *)
(* that are overdue, in the order of the map and until one fails, which    *)
(* throws.  The timer of a record that has none is created.                *)
(***************************************************************************)
RenewSubscriptions(ids) ==
  /\ renewals < MaxRenewals
  /\ renewals' = renewals + 1
  /\ LET known == ids \cap Registered
         renewed == {i \in known : \A j \in TimerFails(known) : i < j}
     IN /\ subscriptions' = [i \in Registered |->
             IF i \in renewed THEN Started(subscriptions[i].info) ELSE subscriptions[i]]
        /\ timers' = timers + Cardinality({i \in renewed : ~subscriptions[i].armed})
  /\ UNCHANGED <<ttl, stream_read_offsets>>

Signaled(id) == subscriptions[id].armed /\ subscriptions[id].left = 0

\* mutant: the loop ends at the first record that has not expired
RemoveExpiredSubscriptionsMutant ==
  /\ subscriptions' =
       [i \in {j \in Registered : \E k \in Registered : k <= j /\ ~Signaled(k)} |-> subscriptions[i]]
  /\ UNCHANGED <<ttl, timers, renewals, stream_read_offsets>>

RemoveExpiredSubscriptions ==
  /\ subscriptions' = [i \in {j \in Registered : ~Signaled(j)} |-> subscriptions[i]]
  /\ UNCHANGED <<ttl, timers, renewals, stream_read_offsets>>

\* The callback of a path's subscriptions is not called.
ProcessStoreChangePathAdded(path) ==
  /\ IsStreamPath(path)
  /\ stream_read_offsets' = [p \in DOMAIN stream_read_offsets \cup {path} |->
                               IF p = path THEN 0 ELSE stream_read_offsets[p]]
  /\ UNCHANGED <<ttl, subscriptions, timers, renewals>>

(***************************************************************************)
(* The offset is the new length before the stream is read from it, so that *)
(* no envelope is read, and the callback is not called.                    *)
(***************************************************************************)
ProcessStoreChangeStreamAppended(path, length) ==
  /\ stream_read_offsets' = [p \in DOMAIN stream_read_offsets \cup {path} |->
                               IF p = path THEN length ELSE stream_read_offsets[p]]
  /\ UNCHANGED <<ttl, subscriptions, timers, renewals>>

Next ==
  \/ Tick
  \/ \E id \in Ids, info \in Infos : RegisterSubscription(id, info)
  \/ \E ids \in SUBSET Ids : RenewSubscriptions(ids)
  \/ RemoveExpiredSubscriptions
  \/ \E file \in Files : ProcessStoreChangePathAdded(ChangedPath(file))
  \/ \E file \in Files, length \in 0..MaxLength :
       ProcessStoreChangeStreamAppended(ChangedPath(file), length)

Spec == Init /\ [][Next]_vars

\* Time passes, and every Pump of the reactor removes what has expired.
FairSpec ==
  /\ Spec
  /\ WF_vars(Tick)
  /\ WF_vars(RemoveExpiredSubscriptions)

----------------------------------------------------------------------------
(* Who is subscribed                                                       *)

\* mutant: a path is not in its own subtree
IsPathSubscribedMutant(path, info) ==
  \E prefix \in info.paths :
    /\ Len(prefix) < Len(path)
    /\ SubSeq(path, 1, Len(prefix)) = prefix

\* The subscription's path is a prefix of the path, character by character.
IsPathSubscribed(path, info) ==
  \E prefix \in info.paths :
    /\ Len(prefix) <= Len(path)
    /\ SubSeq(path, 1, Len(prefix)) = prefix

\* HaveStoreChangeSubscriptions and HaveEnvelopeSubscription of a path.
HaveSubscription(type, path) ==
  \E id \in Registered :
    /\ subscriptions[id].info.type = type
    /\ IsPathSubscribed(path, subscriptions[id].info)

----------------------------------------------------------------------------
(* Properties                                                              *)

TypeOK ==
  /\ ttl \in Ttls
  /\ Registered \subseteq Ids
  /\ subscriptions \in [Registered -> Records]
  /\ \A id \in Registered : subscriptions[id].age <= Micros
  /\ timers \in 0..MaxTimers
  /\ renewals \in 0..MaxRenewals
  /\ stream_read_offsets \in [DOMAIN stream_read_offsets -> 0..MaxLength]

(***************************************************************************)
(* A subscription is not removed before its time to live has passed since  *)
(* it was registered or renewed last, unless that overflows a uint32 of    *)
(* microseconds (RenewSubscriptions and RemoveExpiredSubscriptions).       *)
(***************************************************************************)
KeptForTtl ==
  [][\A id \in Registered :
       id \notin Registered' => subscriptions[id].age >= Micros \/ Micros >= Width]_vars

(***************************************************************************)
(* A subscription that nobody renews is removed, however its time to live  *)
(* overflows, unless no timer could be created for it: that one stays for  *)
(* ever (RemoveExpiredSubscriptions).                                      *)
(***************************************************************************)
Reaped ==
  \A id \in Ids :
    id \in Registered ~> id \notin Registered \/ ~subscriptions[id].armed

(***************************************************************************)
(* Only when the removed subscriptions have used up the timers of the      *)
(* system is there one without (RegisterSubscription, and Timer::Start     *)
(* that creates the timer of a record).                                    *)
(***************************************************************************)
UnarmedOnlyAtLimit ==
  \A id \in Registered : ~subscriptions[id].armed => timers = MaxTimers

(***************************************************************************)
(* Every stream is known by one path, whether the constructor found it or  *)
(* a store change told of it, and its file is where StreamFilesystemPath   *)
(* looks for it (StreamNames and ParsePath, which each take the extension  *)
(* off the name of the file).                                              *)
(***************************************************************************)
KnownByOneName ==
  \A p \in DOMAIN stream_read_offsets : p \o <<Extension>> \in Files

\* q is p or below it, by their components.
Below(q, p) ==
  LET of == ParsePath(p)
      at == ParsePath(q)
  IN /\ of.bucket \in {<< >>, at.bucket}
     /\ of.set \in {<< >>, at.set}
     /\ of.stream \in {<< >>, at.stream}

(***************************************************************************)
(* A subscription to a path as the store spells it has everything below    *)
(* that path, by components and not by characters (IsPathSubscribed, whose *)
(* test has "/foo/bar/stream" subscribed through "/foo").                  *)
(***************************************************************************)
SubtreeCovered ==
  \A id \in Registered :
    \A p \in subscriptions[id].info.paths \cap Spelled, q \in Spelled :
      Below(q, p) => HaveSubscription(subscriptions[id].info.type, q)

=============================================================================
