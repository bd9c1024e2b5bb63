------------------------- MODULE StateManagerProofs -------------------------
(***************************************************************************)
(* Proofs about StateManager, for any finite set of ids, any time to live, *)
(* any width of the integers, any limit of timers and any names.           *)
(***************************************************************************)
EXTENDS StateManager, StorePathsProofs, FiniteSetTheorems, TLAPS

\* Unless the period overflows, a timer has what the record's age lacks.
RunsForTtl ==
  \A id \in Registered :
    LET r == subscriptions[id]
    IN r.armed /\ Micros < Width => r.left + r.age >= Micros

IInv == TypeOK /\ UnarmedOnlyAtLimit /\ RunsForTtl

LEMMA MicrosType ==
  ASSUME ttl \in Ttls
  PROVE  /\ Micros \in Nat
         /\ Period \in Nat
         /\ Micros < Width => Period = Micros
  <1>1. ttl \in Nat /\ PerMs \in Nat /\ Width \in Nat \ {0}
    BY StateManagerAssumption
  <1>2. Micros \in Nat
    BY <1>1 DEF Micros
  <1>3. \A n, w \in Nat : w > 0 => n % w \in Nat
    OBVIOUS
  <1>4. \A n, w \in Nat : n < w => n % w = n
    OBVIOUS
  <1> QED BY <1>1, <1>2, <1>3, <1>4 DEF Period

LEMMA UnchangedMicros ==
  ASSUME ttl' = ttl
  PROVE  Micros' = Micros /\ Period' = Period
  BY DEF Micros, Period

\* A record that was just started is what the invariant asks of it.
LEMMA StartedRecord ==
  ASSUME ttl \in Ttls, NEW info \in Infos
  PROVE  /\ Started(info) \in Records
         /\ Started(info).armed
         /\ Started(info).age = 0
         /\ Micros < Width => Started(info).left + Started(info).age >= Micros
  <1>1. Micros \in Nat /\ Period \in Nat /\ (Micros < Width => Period = Micros)
    BY MicrosType
  <1> QED BY <1>1 DEF Started, Records

\* As long as no timer can be created, no record gets one by a renewal.
LEMMA NoneCreated ==
  ASSUME IInv, NEW ids \in SUBSET Ids
  PROVE  LET known == ids \cap Registered
             renewed == {i \in known : \A j \in TimerFails(known) : i < j}
         IN {i \in renewed : ~subscriptions[i].armed} = {}
  <1> DEFINE known == ids \cap Registered
             unarmed == {i \in known : ~subscriptions[i].armed}
  <1>1. ASSUME NEW i \in unarmed PROVE i \in TimerFails(known)
    <2>1. timers = MaxTimers /\ MaxTimers - timers = 0
      BY StateManagerAssumption DEF IInv, TypeOK, UnarmedOnlyAtLimit
    <2>2. IsFiniteSet({j \in unarmed : j <= i})
      <3>1. {j \in unarmed : j <= i} \subseteq Ids
        OBVIOUS
      <3> QED BY <3>1, FS_Subset, StateManagerAssumption
    <2>3. i \in {j \in unarmed : j <= i}
      <3>1. i \in Nat
        BY StateManagerAssumption
      <3> QED BY <3>1
    <2>4. Cardinality({j \in unarmed : j <= i}) \in Nat
          /\ Cardinality({j \in unarmed : j <= i}) # 0
      BY <2>2, <2>3, FS_CardinalityType, FS_EmptySet
    <2> QED BY <2>1, <2>4 DEF TimerFails
  <1>2. \A i \in known : ~(i < i)
    BY StateManagerAssumption
  <1> QED BY <1>1, <1>2

LEMMA Initially == Init => IInv
  <1> SUFFICES ASSUME Init PROVE IInv
    OBVIOUS
  <1> USE DEF Init
  <1>1. Registered = {}
    BY DEF Registered
  <1>2. TypeOK
    <2>1. subscriptions \in [Registered -> Records]
      BY <1>1
    <2>2. timers \in 0..MaxTimers /\ renewals \in 0..MaxRenewals
      BY StateManagerAssumption
    <2>3. stream_read_offsets \in [DOMAIN stream_read_offsets -> 0..MaxLength]
      OBVIOUS
    <2> QED BY <1>1, <2>1, <2>2, <2>3 DEF TypeOK
  <1> QED BY <1>1, <1>2 DEF IInv, UnarmedOnlyAtLimit, RunsForTtl

LEMMA TickStep ==
  ASSUME IInv, Tick
  PROVE  IInv'
  <1>1. /\ subscriptions' = [id \in Registered |->
             LET r == subscriptions[id]
             IN [r EXCEPT !.left = IF r.armed THEN Minus1(@) ELSE @,
                          !.age = IF @ < Micros THEN @ + 1 ELSE @]]
        /\ UNCHANGED <<ttl, timers, renewals, stream_read_offsets>>
    BY DEF Tick
  <1>2. Micros \in Nat /\ Micros' = Micros
    BY <1>1, MicrosType, UnchangedMicros DEF IInv, TypeOK
  <1>3. Registered' = Registered
    BY <1>1 DEF Registered
  <1>4. ASSUME NEW id \in Registered
        PROVE  /\ subscriptions'[id] \in Records
               /\ subscriptions'[id].armed = subscriptions[id].armed
               /\ subscriptions'[id].age <= Micros
               /\ subscriptions[id].armed /\ Micros < Width =>
                    subscriptions'[id].left + subscriptions'[id].age >= Micros
    <2> DEFINE r == subscriptions[id]
    <2>1. r \in Records /\ r.age <= Micros
      BY DEF IInv, TypeOK
    <2>2. r.armed /\ Micros < Width => r.left + r.age >= Micros
      BY DEF IInv, RunsForTtl
    <2>3. subscriptions'[id] = [r EXCEPT !.left = IF r.armed THEN Minus1(@) ELSE @,
                                         !.age = IF @ < Micros THEN @ + 1 ELSE @]
      BY <1>1
    <2> HIDE DEF r
    <2>4. /\ subscriptions'[id].info = r.info
          /\ subscriptions'[id].armed = r.armed
          /\ subscriptions'[id].left = IF r.armed THEN Minus1(r.left) ELSE r.left
          /\ subscriptions'[id].age = IF r.age < Micros THEN r.age + 1 ELSE r.age
      BY <2>1, <2>3 DEF Records
    <2>5. r.left \in Nat /\ r.age \in Nat
      BY <2>1 DEF Records
    <2>6. subscriptions'[id].left \in Nat /\ subscriptions'[id].age \in Nat
      BY <1>2, <2>4, <2>5 DEF Minus1
    <2>7. subscriptions'[id].age <= Micros
      BY <1>2, <2>1, <2>4, <2>5
    <2>8. subscriptions'[id] \in Records
      BY <2>1, <2>3, <2>4, <2>6 DEF Records
    <2>9. r.armed /\ Micros < Width => subscriptions'[id].left + subscriptions'[id].age >= Micros
      BY <1>2, <2>1, <2>2, <2>4, <2>5 DEF Minus1
    <2> QED BY <2>4, <2>7, <2>8, <2>9 DEF r
  <1>5. TypeOK'
    <2>1. subscriptions' \in [Registered -> Records]
      BY <1>1, <1>4
    <2> QED BY <1>1, <1>2, <1>3, <1>4, <2>1 DEF IInv, TypeOK
  <1>6. UnarmedOnlyAtLimit'
    BY <1>1, <1>3, <1>4 DEF IInv, UnarmedOnlyAtLimit
  <1>7. RunsForTtl'
    BY <1>2, <1>3, <1>4 DEF RunsForTtl
  <1> QED BY <1>5, <1>6, <1>7 DEF IInv

LEMMA RegisterStep ==
  ASSUME IInv, NEW id \in Ids, NEW info \in Infos, RegisterSubscription(id, info)
  PROVE  IInv'
  <1> DEFINE record == IF timers < MaxTimers THEN Started(info)
                       ELSE [info |-> info, armed |-> FALSE, left |-> 0, age |-> 0]
  <1>1. /\ id \notin Registered
        /\ subscriptions' = [i \in Registered \cup {id} |->
                               IF i = id THEN record ELSE subscriptions[i]]
        /\ timers' = IF timers < MaxTimers THEN timers + 1 ELSE timers
        /\ UNCHANGED <<ttl, renewals, stream_read_offsets>>
    BY DEF RegisterSubscription
  <1>2. Micros \in Nat /\ Micros' = Micros
    BY <1>1, MicrosType, UnchangedMicros DEF IInv, TypeOK
  <1>3. timers \in Nat /\ timers <= MaxTimers /\ MaxTimers \in Nat
    BY StateManagerAssumption DEF IInv, TypeOK
  <1>4. /\ record \in Records
        /\ record.age = 0
        /\ ~record.armed => timers = MaxTimers
        /\ record.armed /\ Micros < Width => record.left + record.age >= Micros
    <2>1. CASE timers < MaxTimers
      BY <2>1, StartedRecord DEF IInv, TypeOK
    <2>2. CASE ~(timers < MaxTimers)
      BY <1>3, <2>2 DEF Records
    <2> QED BY <2>1, <2>2
  <1> HIDE DEF record
  <1>5. Registered' = Registered \cup {id}
        /\ subscriptions'[id] = record
        /\ \A i \in Registered : subscriptions'[i] = subscriptions[i]
    BY <1>1 DEF Registered
  <1>6. timers' \in 0..MaxTimers /\ timers' >= timers
    BY <1>1, <1>3
  <1>7. TypeOK'
    <2>1. subscriptions' \in [Registered \cup {id} -> Records]
      BY <1>1, <1>4 DEF IInv, TypeOK
    <2>2. \A i \in Registered' : subscriptions'[i].age <= Micros'
      BY <1>2, <1>4, <1>5 DEF IInv, TypeOK
    <2> QED BY <1>1, <1>5, <1>6, <2>1, <2>2 DEF IInv, TypeOK
  <1>8. UnarmedOnlyAtLimit'
    BY <1>3, <1>4, <1>5, <1>6 DEF IInv, UnarmedOnlyAtLimit
  <1>9. RunsForTtl'
    BY <1>2, <1>4, <1>5 DEF IInv, RunsForTtl
  <1> QED BY <1>7, <1>8, <1>9 DEF IInv

LEMMA RenewStep ==
  ASSUME IInv, NEW ids \in SUBSET Ids, RenewSubscriptions(ids)
  PROVE  IInv'
  <1> DEFINE known == ids \cap Registered
             renewed == {i \in known : \A j \in TimerFails(known) : i < j}
  <1>1. /\ renewals < MaxRenewals /\ renewals' = renewals + 1
        /\ subscriptions' = [i \in Registered |->
             IF i \in renewed THEN Started(subscriptions[i].info) ELSE subscriptions[i]]
        /\ timers' = timers + Cardinality({i \in renewed : ~subscriptions[i].armed})
        /\ UNCHANGED <<ttl, stream_read_offsets>>
    BY DEF RenewSubscriptions
  <1>2. timers' = timers
    <2>1. {i \in renewed : ~subscriptions[i].armed} = {}
      BY NoneCreated
    <2>2. timers \in Nat
      BY StateManagerAssumption DEF IInv, TypeOK
    <2> HIDE DEF renewed
    <2>3. Cardinality({i \in renewed : ~subscriptions[i].armed}) = 0
      BY <2>1, FS_EmptySet
    <2> QED BY <1>1, <2>2, <2>3
  <1> HIDE DEF renewed
  <1>3. Micros \in Nat /\ Micros' = Micros
    BY <1>1, MicrosType, UnchangedMicros DEF IInv, TypeOK
  <1>4. Registered' = Registered
    BY <1>1 DEF Registered
  <1>5. ASSUME NEW i \in Registered
        PROVE  /\ subscriptions'[i] \in Records
               /\ subscriptions'[i].age <= Micros
               /\ ~subscriptions'[i].armed => ~subscriptions[i].armed
               /\ subscriptions'[i].armed /\ Micros < Width =>
                    subscriptions'[i].left + subscriptions'[i].age >= Micros
    <2>1. subscriptions[i] \in Records /\ subscriptions[i].info \in Infos
      BY DEF IInv, TypeOK, Records
    <2>2. CASE i \in renewed
      <3>1. subscriptions'[i] = Started(subscriptions[i].info)
        BY <1>1, <2>2
      <3>2. ttl \in Ttls
        BY DEF IInv, TypeOK
      <3> QED BY <1>3, <2>1, <3>1, <3>2, StartedRecord
    <2>3. CASE i \notin renewed
      <3>1. subscriptions'[i] = subscriptions[i]
        BY <1>1, <2>3
      <3> QED BY <2>1, <3>1 DEF IInv, TypeOK, RunsForTtl
    <2> QED BY <2>2, <2>3
  <1>6. TypeOK'
    <2>1. subscriptions' \in [Registered -> Records]
      BY <1>1, <1>5
    <2>2. renewals' \in 0..MaxRenewals
      BY <1>1, StateManagerAssumption DEF IInv, TypeOK
    <2> QED BY <1>1, <1>2, <1>3, <1>4, <1>5, <2>1, <2>2 DEF IInv, TypeOK
  <1>7. UnarmedOnlyAtLimit'
    BY <1>2, <1>4, <1>5 DEF IInv, UnarmedOnlyAtLimit
  <1>8. RunsForTtl'
    BY <1>3, <1>4, <1>5 DEF RunsForTtl
  <1> QED BY <1>6, <1>7, <1>8 DEF IInv

LEMMA RemoveStep ==
  ASSUME IInv, RemoveExpiredSubscriptions
  PROVE  /\ IInv'
         /\ \A id \in Registered :
              id \notin Registered' => subscriptions[id].age >= Micros \/ Micros >= Width
  <1>1. /\ subscriptions' = [i \in {j \in Registered : ~Signaled(j)} |-> subscriptions[i]]
        /\ UNCHANGED <<ttl, timers, renewals, stream_read_offsets>>
    BY DEF RemoveExpiredSubscriptions
  <1>2. Micros \in Nat /\ Micros' = Micros /\ Width \in Nat
    BY <1>1, MicrosType, UnchangedMicros, StateManagerAssumption DEF IInv, TypeOK
  <1>3. /\ Registered' = {j \in Registered : ~Signaled(j)}
        /\ \A i \in Registered' : subscriptions'[i] = subscriptions[i]
    BY <1>1 DEF Registered
  <1>4. TypeOK'
    <2>1. subscriptions' \in [Registered' -> Records]
      <3>1. \A i \in {j \in Registered : ~Signaled(j)} : subscriptions[i] \in Records
        BY DEF IInv, TypeOK
      <3> QED BY <1>1, <1>3, <3>1
    <2> QED BY <1>1, <1>2, <1>3, <2>1 DEF IInv, TypeOK
  <1>5. UnarmedOnlyAtLimit' /\ RunsForTtl'
    BY <1>1, <1>2, <1>3 DEF IInv, UnarmedOnlyAtLimit, RunsForTtl
  <1>6. ASSUME NEW id \in Registered, id \notin Registered'
        PROVE  subscriptions[id].age >= Micros \/ Micros >= Width
    <2>1. subscriptions[id].armed /\ subscriptions[id].left = 0
      BY <1>3, <1>6 DEF Signaled
    <2>2. subscriptions[id].age \in Nat
      BY DEF IInv, TypeOK, Records
    <2>3. Micros < Width => subscriptions[id].left + subscriptions[id].age >= Micros
      BY <2>1 DEF IInv, RunsForTtl
    <2> QED BY <1>2, <2>1, <2>2, <2>3
  <1> QED BY <1>4, <1>5, <1>6 DEF IInv

LEMMA OffsetsStep ==
  ASSUME IInv, NEW path, NEW n \in 0..MaxLength,
         stream_read_offsets' = [p \in DOMAIN stream_read_offsets \cup {path} |->
                                   IF p = path THEN n ELSE stream_read_offsets[p]],
         UNCHANGED <<ttl, subscriptions, timers, renewals>>
  PROVE  IInv'
  <1>1. Micros' = Micros
    BY UnchangedMicros
  <1>2. stream_read_offsets' \in [DOMAIN stream_read_offsets' -> 0..MaxLength]
    BY DEF IInv, TypeOK
  <1>3. TypeOK'
    BY <1>1, <1>2 DEF IInv, TypeOK, Registered
  <1> QED BY <1>1, <1>3 DEF IInv, UnarmedOnlyAtLimit, RunsForTtl, Registered

LEMMA Inductive ==
  ASSUME IInv, [Next]_vars
  PROVE  /\ IInv'
         /\ \A id \in Registered :
              id \notin Registered' => subscriptions[id].age >= Micros \/ Micros >= Width
  <1>1. CASE Tick
    <2>1. Registered' = Registered
      BY <1>1 DEF Tick, Registered
    <2> QED BY <1>1, <2>1, TickStep
  <1>2. CASE \E id \in Ids, info \in Infos : RegisterSubscription(id, info)
    <2>1. PICK id \in Ids, info \in Infos : RegisterSubscription(id, info)
      BY <1>2
    <2>2. Registered \subseteq Registered'
      BY <2>1 DEF RegisterSubscription, Registered
    <2> QED BY <2>1, <2>2, RegisterStep
  <1>3. CASE \E ids \in SUBSET Ids : RenewSubscriptions(ids)
    <2>1. PICK ids \in SUBSET Ids : RenewSubscriptions(ids)
      BY <1>3
    <2>2. Registered' = Registered
      BY <2>1 DEF RenewSubscriptions, Registered
    <2> QED BY <2>1, <2>2, RenewStep
  <1>4. CASE RemoveExpiredSubscriptions
    BY <1>4, RemoveStep
  <1>5. CASE \E file \in Files : ProcessStoreChangePathAdded(ChangedPath(file))
    <2>1. PICK path : ProcessStoreChangePathAdded(path)
      BY <1>5
    <2>2. 0 \in 0..MaxLength
      BY StateManagerAssumption
    <2> QED BY <2>1, <2>2, OffsetsStep DEF ProcessStoreChangePathAdded, Registered
  <1>6. CASE \E file \in Files, length \in 0..MaxLength :
               ProcessStoreChangeStreamAppended(ChangedPath(file), length)
    <2>1. PICK file \in Files, length \in 0..MaxLength :
            ProcessStoreChangeStreamAppended(ChangedPath(file), length)
      BY <1>6
    <2> QED BY <2>1, OffsetsStep DEF ProcessStoreChangeStreamAppended, Registered
  <1>7. CASE UNCHANGED vars
    <2>1. UNCHANGED <<ttl, subscriptions, timers, renewals, stream_read_offsets>>
      BY <1>7 DEF vars
    <2>2. Micros' = Micros
      BY <2>1, UnchangedMicros
    <2> QED BY <2>1, <2>2 DEF IInv, TypeOK, UnarmedOnlyAtLimit, RunsForTtl, Registered
  <1> QED BY <1>1, <1>2, <1>3, <1>4, <1>5, <1>6, <1>7 DEF Next

\* The inductive invariant: a timer that runs has what the age of its record
\* lacks, and only at the limit is there a record without a running timer.
THEOREM Invariance == Spec => []IInv
  <1>1. Init => IInv
    BY Initially
  <1>2. IInv /\ [Next]_vars => IInv'
    BY Inductive
  <1> QED BY <1>1, <1>2, PTL DEF Spec

\* Subscriptions, timers and offsets have their types, and no more timers
\* are created than the system has (RegisterSubscription, Timer::Start).
THEOREM TypeCorrect == Spec => []TypeOK
  <1>1. IInv => TypeOK
    BY DEF IInv
  <1> QED BY <1>1, Invariance, PTL

\* A record without a running timer means that the removed subscriptions
\* have used up the timers (RemoveExpiredSubscriptions, which keeps records).
THEOREM UnarmedAtLimit == Spec => []UnarmedOnlyAtLimit
  <1>1. IInv => UnarmedOnlyAtLimit
    BY DEF IInv
  <1> QED BY <1>1, Invariance, PTL

\* A subscription is kept for its time to live since it was registered or
\* renewed last, unless that overflows (RemoveExpiredSubscriptions).
THEOREM Kept == Spec => KeptForTtl
  <1>1. IInv /\ [Next]_vars =>
          [\A id \in Registered :
             id \notin Registered' => subscriptions[id].age >= Micros \/ Micros >= Width]_vars
    BY Inductive
  <1> QED BY <1>1, Invariance, PTL DEF Spec, KeptForTtl

----------------------------------------------------------------------------
(* Paths                                                                   *)

\* A path of the store that is below another one begins with it.
LEMMA BelowStarts ==
  ASSUME NEW p \in Spelled, NEW q \in Spelled, Below(q, p)
  PROVE  p \in Seq(Tokens) /\ Starts(p, q)
  <1> DEFINE root == [bucket |-> << >>, set |-> << >>, stream |-> << >>]
             of == ParsePath(p)
             at == ParsePath(q)
  <1>1. /\ of.bucket \in {<< >>, at.bucket}
        /\ of.set \in {<< >>, at.set}
        /\ of.stream \in {<< >>, at.stream}
    BY DEF Below
  <1>2. \A n \in Names : n \in Words /\ n # << >>
    BY NameProperties
  <1>3. ASSUME NEW b \in Names, NEW s \in Names, NEW n \in Names
        PROVE  /\ Starts(<<Slash>>, BucketPath(b))
               /\ Starts(<<Slash>>, StreamsetPath(b, s))
               /\ Starts(<<Slash>>, StreamPath(b, s, n))
               /\ Starts(BucketPath(b), StreamsetPath(b, s))
               /\ Starts(BucketPath(b), StreamPath(b, s, n))
               /\ Starts(StreamsetPath(b, s), StreamPath(b, s, n))
    <2>1. /\ <<Slash>> \in Seq(Tokens)
          /\ BucketPath(b) \in Seq(Tokens)
          /\ StreamsetPath(b, s) \in Seq(Tokens)
      BY <1>2, RootParts, BucketParts, StreamsetParts
    <2>2. /\ Starts(<<Slash>>, BucketPath(b))
          /\ Starts(BucketPath(b), StreamsetPath(b, s))
          /\ Starts(StreamsetPath(b, s), StreamPath(b, s, n))
      BY <1>2, StartsEach
    <2>3. /\ Starts(<<Slash>>, StreamsetPath(b, s))
          /\ Starts(BucketPath(b), StreamPath(b, s, n))
      BY <2>1, <2>2, StartsOn
    <2>4. Starts(<<Slash>>, StreamPath(b, s, n))
      BY <2>1, <2>2, <2>3, StartsOn
    <2> QED BY <2>2, <2>3, <2>4
  <1>4. p \in Seq(Tokens)
    <2>1. <<Slash>> \in Seq(Tokens)
      BY RootParts
    <2>2. \A b \in Names : BucketPath(b) \in Seq(Tokens)
      BY <1>2, BucketParts
    <2>3. \A b, s \in Names : StreamsetPath(b, s) \in Seq(Tokens)
      BY <1>2, StreamsetParts
    <2>4. \A b, s, n \in Names : StreamPath(b, s, n) \in Seq(Tokens)
      BY <1>2, StreamParts
    <2>5. \/ p = <<Slash>>
          \/ \E b \in Names : p = BucketPath(b)
          \/ \E b, s \in Names : p = StreamsetPath(b, s)
          \/ \E b, s, n \in Names : p = StreamPath(b, s, n)
      BY DEF Spelled
    <2> QED BY <2>1, <2>2, <2>3, <2>4, <2>5
  <1>5. CASE p = q
    BY <1>4, <1>5, StartsItself
  <1>6. CASE p = <<Slash>>
    <2>1. CASE q = <<Slash>>
      BY <1>5, <1>6, <2>1
    <2>2. CASE q # <<Slash>>
      BY <1>3, <1>4, <1>6, <2>2 DEF Spelled
    <2> QED BY <2>1, <2>2
  <1>7. ASSUME NEW b \in Names, p = BucketPath(b) PROVE Starts(p, q)
    <2>1. of.bucket = b
      BY <1>7, Parsed
    <2>2. at.bucket = b
      BY <1>1, <1>2, <2>1
    <2>3. CASE q = <<Slash>>
      BY <1>2, <1>7, <2>2, <2>3, Parsed
    <2>4. ASSUME NEW d \in Names, q = BucketPath(d) PROVE Starts(p, q)
      <3>1. d = b
        BY <2>2, <2>4, Parsed
      <3> QED BY <1>5, <1>7, <2>4, <3>1
    <2>5. ASSUME NEW d \in Names, NEW t \in Names, q = StreamsetPath(d, t) PROVE Starts(p, q)
      <3>1. d = b
        BY <2>2, <2>5, Parsed
      <3> QED BY <1>3, <1>7, <2>5, <3>1
    <2>6. ASSUME NEW d \in Names, NEW t \in Names, NEW m \in Names, q = StreamPath(d, t, m)
          PROVE  Starts(p, q)
      <3>1. d = b
        BY <2>2, <2>6, Parsed
      <3> QED BY <1>3, <1>7, <2>6, <3>1
    <2> QED BY <2>3, <2>4, <2>5, <2>6 DEF Spelled
  <1>8. ASSUME NEW b \in Names, NEW s \in Names, p = StreamsetPath(b, s) PROVE Starts(p, q)
    <2>1. of.bucket = b /\ of.set = s
      BY <1>8, Parsed
    <2>2. at.bucket = b /\ at.set = s /\ b # << >> /\ s # << >>
      BY <1>1, <1>2, <2>1
    <2>3. CASE q = <<Slash>>
      BY <1>8, <2>2, <2>3, Parsed
    <2>4. ASSUME NEW d \in Names, q = BucketPath(d) PROVE Starts(p, q)
      BY <2>2, <2>4, Parsed
    <2>5. ASSUME NEW d \in Names, NEW t \in Names, q = StreamsetPath(d, t) PROVE Starts(p, q)
      <3>1. d = b /\ t = s
        BY <2>2, <2>5, Parsed
      <3> QED BY <1>5, <1>8, <2>5, <3>1
    <2>6. ASSUME NEW d \in Names, NEW t \in Names, NEW m \in Names, q = StreamPath(d, t, m)
          PROVE  Starts(p, q)
      <3>1. d = b /\ t = s
        BY <2>2, <2>6, Parsed
      <3> QED BY <1>3, <1>8, <2>6, <3>1
    <2> QED BY <2>3, <2>4, <2>5, <2>6 DEF Spelled
  <1>9. ASSUME NEW b \in Names, NEW s \in Names, NEW n \in Names, p = StreamPath(b, s, n)
        PROVE  Starts(p, q)
    <2>1. of.bucket = b /\ of.set = s /\ of.stream = n
      BY <1>9, Parsed
    <2>2. at.bucket = b /\ at.set = s /\ at.stream = n /\ n # << >>
      BY <1>1, <1>2, <2>1
    <2>3. CASE q = <<Slash>>
      BY <1>9, <2>2, <2>3, Parsed
    <2>4. ASSUME NEW d \in Names, q = BucketPath(d) PROVE Starts(p, q)
      BY <2>2, <2>4, Parsed
    <2>5. ASSUME NEW d \in Names, NEW t \in Names, q = StreamsetPath(d, t) PROVE Starts(p, q)
      BY <2>2, <2>5, Parsed
    <2>6. ASSUME NEW d \in Names, NEW t \in Names, NEW m \in Names, q = StreamPath(d, t, m)
          PROVE  Starts(p, q)
      <3>1. d = b /\ t = s /\ m = n
        BY <2>2, <2>6, Parsed
      <3> QED BY <1>5, <1>9, <2>6, <3>1
    <2> QED BY <2>3, <2>4, <2>5, <2>6 DEF Spelled
  <1> QED BY <1>4, <1>6, <1>7, <1>8, <1>9 DEF Spelled

\* The constructor and a store change call the stream of a file the same.
LEMMA OneNameOfFile ==
  ASSUME NEW f \in Files
  PROVE  /\ ChangedPath(f) \o <<Extension>> = f
         /\ \A name \in NamesOf(f) :
              StreamPath(Component(f, 1), Component(f, 2), name) = ChangedPath(f)
  <1>1. PICK b \in Names, s \in Names, n \in Names : f = StreamPath(b, s, n \o <<Extension>>)
    BY StateManagerAssumption
  <1> DEFINE e == <<Extension>>
             w == n \o e
  <1>2. b \in Words /\ s \in Words /\ n \in Words
    BY NameProperties
  <1>3. /\ w \in Words /\ Len(w) > 1 /\ w[Len(w)] = Extension
        /\ SubSeq(w, 1, Len(w) - 1) = n
        /\ WithoutExtension(w) = n
    BY FileNameProperties
  <1> HIDE DEF w, e
  <1>4. Component(f, 1) = b /\ Component(f, 2) = s /\ Component(f, 3) = w
    <2>1. f = StreamPath(b, s, w)
      BY <1>1 DEF w, e
    <2> QED BY <1>2, <1>3, <2>1, StreamParts
  <1>5. ChangedPath(f) = StreamPath(b, s, n)
    BY <1>3, <1>4 DEF ChangedPath, ParsePath
  <1>6. NamesOf(f) = {n}
    BY <1>3, <1>4 DEF NamesOf
  <1>7. StreamPath(b, s, n) \o e = f
    <2> DEFINE o == StreamsetPath(b, s) \o <<Slash>>
    <2>1. StreamsetPath(b, s) \in Seq(Tokens) /\ <<Slash>> \in Seq(Tokens) /\ e \in Seq(Tokens)
      <3>1. StreamsetPath(b, s) \in Seq(Tokens)
        BY <1>2, StreamsetParts
      <3> QED BY <3>1 DEF Tokens, e
    <2>2. o \in Seq(Tokens) /\ n \in Seq(Tokens)
      BY <1>2, <2>1, ConcatProperties, WordProperties
    <2> HIDE DEF o
    <2>3. (o \o n) \o e = o \o (n \o e)
      BY <2>1, <2>2, ConcatAssociative
    <2>4. StreamPath(b, s, n) = o \o n /\ f = o \o (n \o e)
      BY <1>1 DEF StreamPath, o, e
    <2> QED BY <2>3, <2>4
  <1> QED BY <1>4, <1>5, <1>6, <1>7 DEF e

\* A subscription to a path of the store has every path below it: what is
\* below by its components begins with it by its characters
\* (IsPathSubscribed).
THEOREM Covered == Spec => []SubtreeCovered
  <1>1. TypeOK => SubtreeCovered
    <2> SUFFICES ASSUME TypeOK, NEW id \in Registered,
                        NEW p \in subscriptions[id].info.paths \cap Spelled,
                        NEW q \in Spelled, Below(q, p)
                 PROVE  HaveSubscription(subscriptions[id].info.type, q)
      BY DEF SubtreeCovered
    <2>1. p \in Seq(Tokens) /\ Starts(p, q)
      BY BelowStarts
    <2>2. PICK t \in Seq(Tokens) : q = p \o t
      BY <2>1 DEF Starts
    <2>3. Len(p) <= Len(q) /\ SubSeq(q, 1, Len(p)) = p
      BY <2>1, <2>2, Begins
    <2>4. IsPathSubscribed(q, subscriptions[id].info)
      BY <2>3 DEF IsPathSubscribed
    <2> QED BY <2>4 DEF HaveSubscription
  <1> QED BY <1>1, TypeCorrect, PTL

\* Every stream is known by one path, that of its file without the extension,
\* whoever told of it (the constructor's StreamNames, ParsePath in the
\* watcher's handlers).
THEOREM OneName == Spec => []KnownByOneName
  <1> DEFINE known == DOMAIN stream_read_offsets
  <1>1. Init => KnownByOneName
    <2> SUFFICES ASSUME Init, NEW p \in known PROVE p \o <<Extension>> \in Files
      BY DEF KnownByOneName
    <2>1. PICK existing \in SUBSET Files : p \in StreamPaths(existing)
      BY DEF Init
    <2>2. PICK f \in existing :
            \E name \in NamesOf(f) : p = StreamPath(Component(f, 1), Component(f, 2), name)
      BY <2>1 DEF StreamPaths
    <2>3. f \in Files
      OBVIOUS
    <2>4. p \o <<Extension>> = f
      BY <2>2, <2>3, OneNameOfFile
    <2> QED BY <2>3, <2>4
  <1>2. KnownByOneName /\ [Next]_vars => KnownByOneName'
    <2> SUFFICES ASSUME KnownByOneName, [Next]_vars PROVE KnownByOneName'
      OBVIOUS
    <2>1. CASE UNCHANGED stream_read_offsets
      BY <2>1 DEF KnownByOneName
    <2>2. ASSUME NEW f \in Files, known' = known \cup {ChangedPath(f)} PROVE KnownByOneName'
      BY <2>2, OneNameOfFile DEF KnownByOneName
    <2>3. ASSUME NEW f \in Files, ProcessStoreChangePathAdded(ChangedPath(f))
          PROVE  known' = known \cup {ChangedPath(f)}
      BY <2>3 DEF ProcessStoreChangePathAdded
    <2>4. ASSUME NEW f \in Files, NEW n \in 0..MaxLength,
                 ProcessStoreChangeStreamAppended(ChangedPath(f), n)
          PROVE  known' = known \cup {ChangedPath(f)}
      BY <2>4 DEF ProcessStoreChangeStreamAppended
    <2>5. \/ UNCHANGED stream_read_offsets
          \/ \E f \in Files : known' = known \cup {ChangedPath(f)}
      BY <2>3, <2>4 DEF Next, vars, Tick, RegisterSubscription, RenewSubscriptions,
                        RemoveExpiredSubscriptions
    <2> QED BY <2>1, <2>2, <2>5
  <1> QED BY <1>1, <1>2, PTL DEF Spec

----------------------------------------------------------------------------
(* When a timer signals                                                    *)

\* A timer has what its record's age lacks of the period, overflow and all.
OnTime ==
  \A id \in Registered :
    LET r == subscriptions[id]
    IN r.armed => r.left = IF r.age < Period THEN Period - r.age ELSE 0

\* The remainder of a division is at most what is divided.
LEMMA PeriodBound == ASSUME ttl \in Ttls PROVE Period \in Nat /\ Period <= Micros
  <1>1. ttl \in Nat /\ PerMs \in Nat /\ Width \in Nat \ {0}
    BY StateManagerAssumption
  <1>2. Micros \in Nat
    BY <1>1 DEF Micros
  <1>3. \A n, w \in Nat : w > 0 => n % w \in Nat /\ n % w <= n
    OBVIOUS
  <1> QED BY <1>1, <1>2, <1>3 DEF Period

LEMMA OnTimeStep ==
  ASSUME IInv, OnTime, [Next]_vars PROVE OnTime'
  <1>0. Period' = Period /\ Micros' = Micros
    <2>1. ttl' = ttl
      BY DEF Next, vars, Tick, RegisterSubscription, RenewSubscriptions,
             RemoveExpiredSubscriptions, ProcessStoreChangePathAdded,
             ProcessStoreChangeStreamAppended
    <2> QED BY <2>1, UnchangedMicros
  <1>1. Period \in Nat /\ Micros \in Nat /\ Period <= Micros
    BY PeriodBound, MicrosType DEF IInv, TypeOK
  <1> SUFFICES ASSUME NEW id \in Registered', subscriptions'[id].armed
               PROVE  subscriptions'[id].left =
                        IF subscriptions'[id].age < Period THEN Period - subscriptions'[id].age ELSE 0
    BY <1>0 DEF OnTime
  <1>2. CASE id \in Registered /\ subscriptions'[id] = subscriptions[id]
    BY <1>2 DEF OnTime
  <1>3. ASSUME NEW info, subscriptions'[id] = Started(info)
        PROVE  subscriptions'[id].left = Period /\ subscriptions'[id].age = 0
    BY <1>3 DEF Started
  <1>4. CASE Tick
    <2> DEFINE r == subscriptions[id]
    <2>1. id \in Registered
      BY <1>4 DEF Tick, Registered
    <2>2. r \in Records /\ r.left \in Nat /\ r.age \in Nat /\ r.age <= Micros
      BY <2>1 DEF IInv, TypeOK, Records
    <2>3. subscriptions'[id] = [r EXCEPT !.left = IF r.armed THEN Minus1(@) ELSE @,
                                         !.age = IF @ < Micros THEN @ + 1 ELSE @]
      BY <1>4, <2>1 DEF Tick
    <2>4. r.armed => r.left = IF r.age < Period THEN Period - r.age ELSE 0
      BY <2>1 DEF OnTime
    <2> HIDE DEF r
    <2>5. /\ subscriptions'[id].armed = r.armed
          /\ subscriptions'[id].left = IF r.armed THEN Minus1(r.left) ELSE r.left
          /\ subscriptions'[id].age = IF r.age < Micros THEN r.age + 1 ELSE r.age
      BY <2>2, <2>3 DEF Records
    <2> QED BY <1>1, <2>2, <2>4, <2>5 DEF Minus1
  <1>5. ASSUME NEW i \in Ids, NEW info \in Infos, RegisterSubscription(i, info)
        PROVE  \/ id \in Registered /\ subscriptions'[id] = subscriptions[id]
               \/ subscriptions'[id] = Started(info)
    BY <1>5 DEF RegisterSubscription, Registered
  <1>6. ASSUME NEW ids \in SUBSET Ids, RenewSubscriptions(ids)
        PROVE  /\ id \in Registered
               /\ \/ subscriptions'[id] = subscriptions[id]
                  \/ subscriptions'[id] = Started(subscriptions[id].info)
    BY <1>6 DEF RenewSubscriptions, Registered
  <1>7. CASE RemoveExpiredSubscriptions
    BY <1>2, <1>7 DEF RemoveExpiredSubscriptions, Registered
  <1>8. CASE UNCHANGED subscriptions
    BY <1>2, <1>8 DEF Registered
  <1>9. \/ Tick \/ RemoveExpiredSubscriptions \/ UNCHANGED subscriptions
        \/ \E i \in Ids, info \in Infos : RegisterSubscription(i, info)
        \/ \E ids \in SUBSET Ids : RenewSubscriptions(ids)
    BY DEF Next, vars, ProcessStoreChangePathAdded, ProcessStoreChangeStreamAppended
  <1> QED BY <1>1, <1>2, <1>3, <1>4, <1>5, <1>6, <1>7, <1>8, <1>9

\* A subscription with a timer is due exactly from the end of the period on.
DueAtPeriod ==
  \A id \in Registered :
    subscriptions[id].armed => (Signaled(id) <=> subscriptions[id].age >= Period)

\* A timer signals when ttl * 1000 microseconds modulo 2^32 have passed since
\* the subscription was registered or renewed last, not before and not after:
\* this is also how much too early an overflow removes it (Timer's counter).
THEOREM SignalsOnTime == Spec => []DueAtPeriod
  <1>1. Init => OnTime
    BY DEF Init, OnTime, Registered
  <1>2. IInv /\ OnTime /\ [Next]_vars => OnTime'
    BY OnTimeStep
  <1>3. IInv /\ OnTime => DueAtPeriod
    <2> SUFFICES ASSUME IInv, OnTime, NEW id \in Registered, subscriptions[id].armed
                 PROVE  Signaled(id) <=> subscriptions[id].age >= Period
      BY DEF DueAtPeriod
    <2> DEFINE left == subscriptions[id].left
               age == subscriptions[id].age
    <2>1. left = IF age < Period THEN Period - age ELSE 0
      BY DEF OnTime
    <2>2. age \in Nat /\ Period \in Nat
      BY PeriodBound DEF IInv, TypeOK, Records
    <2> HIDE DEF left, age
    <2>3. left = 0 <=> age >= Period
      BY <2>1, <2>2
    <2> QED BY <2>3 DEF Signaled, left, age
  <1> QED BY <1>1, <1>2, <1>3, Invariance, PTL DEF Spec

=============================================================================
