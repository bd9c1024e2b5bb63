-------------------------- MODULE StorePathsProofs --------------------------
(***************************************************************************)
(* Lemmas about the paths a store builds: what they are taken apart into,  *)
(* and that one below another begins with it, character by character.      *)
(***************************************************************************)
EXTENDS StorePaths, SequenceTheorems, FiniteSetTheorems, TLAPS

Tokens == Letters \cup {Slash, Extension}

\* Names of buckets, sets and streams, with or without an extension.
Words == Seq(Letters \cup {Extension}) \ {<< >>}

----------------------------------------------------------------------------
(* Components                                                              *)

\* How many slashes there are up to i when there is one at 1, k and m.
LEMMA SlashCount ==
  ASSUME NEW p, NEW k \in Nat, NEW m \in Nat, 1 < k, k < m,
         Len(p) \in Nat,
         \A j \in 1..Len(p) : p[j] = Slash <=> j \in {1, k, m},
         NEW i \in 1..Len(p)
  PROVE  SlashesUpTo(p, i) = IF i < k THEN 1 ELSE IF i < m THEN 2 ELSE 3
  <1> DEFINE at == {j \in 1..i : p[j] = Slash}
  <1>1. at = {1, k, m} \cap (1..i)
    OBVIOUS
  <1>2. /\ IsFiniteSet({1}) /\ Cardinality({1}) = 1
        /\ IsFiniteSet({1} \cup {k}) /\ Cardinality({1} \cup {k}) = 2
        /\ Cardinality(({1} \cup {k}) \cup {m}) = 3
    <2>1. IsFiniteSet({1}) /\ Cardinality({1}) = 1
      BY FS_Singleton
    <2>2. IsFiniteSet({1} \cup {k}) /\ Cardinality({1} \cup {k}) = 2
      <3> DEFINE A == {1}
      <3>1. IsFiniteSet(A) /\ Cardinality(A) = 1 /\ k \notin A
        BY <2>1
      <3> HIDE DEF A
      <3>2. IsFiniteSet(A \cup {k}) /\ Cardinality(A \cup {k}) = 2
        BY <3>1, FS_AddElement
      <3> QED BY <3>2 DEF A
    <2>3. Cardinality(({1} \cup {k}) \cup {m}) = 3
      <3> DEFINE A == {1} \cup {k}
      <3>1. IsFiniteSet(A) /\ Cardinality(A) = 2
        BY <2>2
      <3>2. m \notin A
        OBVIOUS
      <3> HIDE DEF A
      <3>3. Cardinality(A \cup {m}) = IF m \in A THEN Cardinality(A) ELSE Cardinality(A) + 1
        BY <3>1, FS_AddElement
      <3>4. Cardinality(A \cup {m}) = 3
        BY <3>1, <3>2, <3>3
      <3> QED BY <3>4 DEF A
    <2> QED BY <2>1, <2>2, <2>3
  <1>3. CASE i < k
    <2>1. at = {1}
      BY <1>1, <1>3
    <2> QED BY <1>2, <1>3, <2>1 DEF SlashesUpTo
  <1>4. CASE ~(i < k) /\ i < m
    <2>1. at = {1} \cup {k}
      BY <1>1, <1>4
    <2> QED BY <1>2, <1>4, <2>1 DEF SlashesUpTo
  <1>5. CASE ~(i < m)
    <2>1. at = ({1} \cup {k}) \cup {m}
      BY <1>1, <1>5
    <2>2. ~(i < k)
      BY <1>5
    <2>3. SlashesUpTo(p, i) = 3
      BY <1>2, <2>1, Zenon DEF SlashesUpTo
    <2> QED BY <1>5, <2>2, <2>3
  <1> QED BY <1>3, <1>4, <1>5

\* A word that stands behind the n-th slash, from lo on, is the component.
LEMMA ComponentIs ==
  ASSUME NEW p \in Seq(Tokens), NEW n \in Nat, NEW w \in Words, NEW lo \in Nat,
         \A i \in 1..Len(p) :
           p[i] # Slash /\ SlashesUpTo(p, i) = n <=> lo <= i /\ i < lo + Len(w),
         1 <= lo, lo + Len(w) - 1 <= Len(p),
         \A j \in 1..Len(w) : p[lo + j - 1] = w[j]
  PROVE  Component(p, n) = w
  <1> DEFINE between == {i \in 1..Len(p) : p[i] # Slash /\ SlashesUpTo(p, i) = n}
             hi == lo + Len(w) - 1
  <1>1. w \in Seq(Tokens) /\ Len(w) \in Nat \ {0} /\ Len(p) \in Nat
    <2>1. w \in Seq(Letters \cup {Extension}) /\ w # << >>
      BY DEF Words
    <2>2. w \in Seq(Tokens)
      BY <2>1, SeqMonotonic DEF Tokens
    <2> QED BY <2>1, <2>2, EmptySeq, LenProperties
  <1>2. between = lo..hi
    BY <1>1
  <1>3. between # {} /\ Cardinality(between) = Len(w)
    <2>1. lo \in Int /\ hi \in Int /\ ~(lo > hi) /\ hi - lo + 1 = Len(w) /\ lo \in lo..hi
      BY <1>1
    <2> HIDE DEF hi, between
    <2>2. Cardinality(lo..hi) = Len(w)
      BY <2>1, FS_Interval
    <2> QED BY <1>2, <2>1, <2>2
  <1>4. (CHOOSE i \in between : \A j \in between : i <= j) = lo
    BY <1>1, <1>2
  <1>5. Component(p, n) = SubSeq(p, lo, lo + Len(w) - 1)
    BY <1>3, <1>4 DEF Component
  <1>6. SubSeq(p, lo, hi) = w
    <2>1. \A i \in lo..hi : p[i] \in Tokens
      BY <1>1, ElementOfSeq
    <2>2. /\ SubSeq(p, lo, hi) \in Seq(Tokens)
          /\ Len(SubSeq(p, lo, hi)) = Len(w)
          /\ \A i \in 1..Len(w) : SubSeq(p, lo, hi)[i] = p[lo + i - 1]
      BY <1>1, <2>1, SubSeqProperties
    <2> QED BY <1>1, <2>2, SeqEqual
  <1> QED BY <1>5, <1>6

LEMMA NoComponent ==
  ASSUME NEW p, NEW n,
         \A i \in 1..Len(p) : ~(p[i] # Slash /\ SlashesUpTo(p, i) = n)
  PROVE  Component(p, n) = << >>
  BY DEF Component

LEMMA WordProperties ==
  ASSUME NEW w \in Words
  PROVE  /\ w \in Seq(Tokens)
         /\ Len(w) \in Nat \ {0}
         /\ \A i \in 1..Len(w) : w[i] # Slash
  <1>1. w \in Seq(Letters \cup {Extension}) /\ w # << >>
    BY DEF Words
  <1>2. w \in Seq(Tokens)
    BY <1>1, SeqMonotonic DEF Tokens
  <1>3. Slash \notin Letters \cup {Extension}
    BY LettersAssumption DEF Slash, Extension
  <1>4. \A i \in 1..Len(w) : w[i] \in Letters \cup {Extension}
    BY <1>1, ElementOfSeq
  <1> QED BY <1>1, <1>2, <1>3, <1>4, EmptySeq

\* Something followed by a slash and a word.
LEMMA Extended ==
  ASSUME NEW p \in Seq(Tokens), NEW w \in Words
  PROVE  LET q == p \o <<Slash>> \o w
         IN /\ q \in Seq(Tokens)
            /\ q = p \o (<<Slash>> \o w)
            /\ Len(q) = Len(p) + 1 + Len(w)
            /\ \A i \in 1..Len(p) : q[i] = p[i]
            /\ q[Len(p) + 1] = Slash
            /\ \A i \in 1..Len(w) : q[Len(p) + 1 + i] = w[i]
  <1>1. w \in Seq(Tokens) /\ Len(w) \in Nat /\ Len(p) \in Nat
    BY WordProperties, LenProperties
  <1>2. <<Slash>> \in Seq(Tokens) /\ Len(<<Slash>>) = 1 /\ <<Slash>>[1] = Slash
    BY DEF Tokens
  <1>3. /\ p \o <<Slash>> \in Seq(Tokens)
        /\ Len(p \o <<Slash>>) = Len(p) + 1
        /\ \A i \in 1..Len(p) : (p \o <<Slash>>)[i] = p[i]
        /\ (p \o <<Slash>>)[Len(p) + 1] = Slash
    BY <1>1, <1>2, ConcatProperties
  <1> DEFINE r == p \o <<Slash>>
  <1>4. /\ r \o w \in Seq(Tokens)
        /\ Len(r \o w) = Len(r) + Len(w)
        /\ \A i \in 1..Len(r) + Len(w) : (r \o w)[i] = IF i <= Len(r) THEN r[i] ELSE w[i - Len(r)]
    BY <1>1, <1>3, ConcatProperties
  <1>5. r \o w = p \o (<<Slash>> \o w)
    BY <1>1, <1>2, ConcatAssociative
  <1> HIDE DEF r
  <1>6. /\ \A i \in 1..Len(p) : (r \o w)[i] = p[i]
        /\ (r \o w)[Len(p) + 1] = Slash
        /\ \A i \in 1..Len(w) : (r \o w)[Len(p) + 1 + i] = w[i]
    <2>1. Len(r) = Len(p) + 1 /\ (\A i \in 1..Len(p) : r[i] = p[i]) /\ r[Len(p) + 1] = Slash
      BY <1>3 DEF r
    <2>2. ASSUME NEW i \in 1..Len(p) PROVE (r \o w)[i] = p[i]
      BY <1>1, <1>4, <2>1
    <2>3. (r \o w)[Len(p) + 1] = Slash
      BY <1>1, <1>4, <2>1
    <2>4. ASSUME NEW i \in 1..Len(w) PROVE (r \o w)[Len(p) + 1 + i] = w[i]
      <3>1. Len(p) + 1 + i \in 1..Len(r) + Len(w) /\ ~(Len(p) + 1 + i <= Len(r))
            /\ Len(p) + 1 + i - Len(r) = i
        BY <1>1, <2>1
      <3> QED BY <1>4, <3>1
    <2> QED BY <2>2, <2>3, <2>4
  <1> QED BY <1>1, <1>3, <1>4, <1>5, <1>6 DEF r

----------------------------------------------------------------------------
(* The paths a store builds                                                *)

LEMMA BucketParts ==
  ASSUME NEW b \in Words
  PROVE  LET p == BucketPath(b)
         IN /\ p \in Seq(Tokens)
            /\ Len(p) = 1 + Len(b)
            /\ p[1] = Slash
            /\ \A i \in 1..Len(b) : p[1 + i] = b[i]
            /\ Component(p, 1) = b /\ Component(p, 2) = << >> /\ Component(p, 3) = << >>
  <1> DEFINE p == BucketPath(b)
             k == Len(b) + 2
             m == Len(b) + 3
  <1>1. b \in Seq(Tokens) /\ Len(b) \in Nat \ {0} /\ \A i \in 1..Len(b) : b[i] # Slash
    BY WordProperties
  <1>2. <<Slash>> \in Seq(Tokens) /\ Len(<<Slash>>) = 1 /\ <<Slash>>[1] = Slash
    BY DEF Tokens
  <1>3. /\ p \in Seq(Tokens)
        /\ Len(p) = 1 + Len(b)
        /\ \A i \in 1..1 + Len(b) : p[i] = IF i <= 1 THEN Slash ELSE b[i - 1]
    BY <1>1, <1>2, ConcatProperties DEF BucketPath
  <1> HIDE DEF p
  <1>4. p[1] = Slash /\ \A i \in 1..Len(b) : p[1 + i] = b[i]
    BY <1>1, <1>3
  <1>5. \A j \in 1..Len(p) : p[j] = Slash <=> j \in {1, k, m}
    <2>1. ASSUME NEW j \in 1..Len(p), j # 1 PROVE p[j] # Slash /\ j \notin {1, k, m}
      <3>1. j - 1 \in 1..Len(b) /\ p[j] = b[j - 1]
        BY <1>1, <1>3, <2>1
      <3> QED BY <1>1, <1>3, <2>1, <3>1
    <2> QED BY <1>4, <2>1
  <1>6. \A i \in 1..Len(p) : SlashesUpTo(p, i) = 1
    <2>1. \A i \in 1..Len(p) : SlashesUpTo(p, i) = IF i < k THEN 1 ELSE IF i < m THEN 2 ELSE 3
      <3> HIDE DEF k, m
      <3>1. k \in Nat /\ m \in Nat /\ 1 < k /\ k < m /\ Len(p) \in Nat
        BY <1>1, <1>3 DEF k, m
      <3> QED BY <1>5, <3>1, SlashCount
    <2> QED BY <1>1, <1>3, <2>1
  <1>7. Component(p, 1) = b
    <2> DEFINE lo == 2
    <2>1. \A i \in 1..Len(p) :
            p[i] # Slash /\ SlashesUpTo(p, i) = 1 <=> lo <= i /\ i < lo + Len(b)
      BY <1>1, <1>3, <1>6
    <2>2. \A i \in 1..Len(b) : p[lo + i - 1] = b[i]
      BY <1>1, <1>4
    <2>3. lo \in Nat /\ 1 <= lo /\ lo + Len(b) - 1 <= Len(p)
      BY <1>1, <1>3
    <2> HIDE DEF lo
    <2> QED BY <1>3, <2>1, <2>2, <2>3, ComponentIs
  <1>8. Component(p, 2) = << >> /\ Component(p, 3) = << >>
    BY <1>6, NoComponent
  <1> QED BY <1>3, <1>4, <1>7, <1>8 DEF p

LEMMA StreamsetParts ==
  ASSUME NEW b \in Words, NEW s \in Words
  PROVE  LET p == StreamsetPath(b, s)
         IN /\ p \in Seq(Tokens)
            /\ Len(p) = 2 + Len(b) + Len(s)
            /\ \A i \in 1..Len(p) : p[i] = Slash <=> i \in {1, 2 + Len(b)}
            /\ \A i \in 1..Len(b) : p[1 + i] = b[i]
            /\ \A i \in 1..Len(s) : p[2 + Len(b) + i] = s[i]
            /\ Component(p, 1) = b /\ Component(p, 2) = s /\ Component(p, 3) = << >>
  <1> DEFINE o == BucketPath(b)
             p == StreamsetPath(b, s)
             k == Len(b) + 2
             m == Len(b) + Len(s) + 3
  <1>1. /\ Len(b) \in Nat \ {0} /\ \A i \in 1..Len(b) : b[i] # Slash
        /\ Len(s) \in Nat \ {0} /\ \A i \in 1..Len(s) : s[i] # Slash
    BY WordProperties
  <1>2. /\ o \in Seq(Tokens) /\ Len(o) = 1 + Len(b) /\ o[1] = Slash
        /\ \A i \in 1..Len(b) : o[1 + i] = b[i]
    BY BucketParts
  <1>3. /\ p \in Seq(Tokens)
        /\ Len(p) = Len(o) + 1 + Len(s)
        /\ \A i \in 1..Len(o) : p[i] = o[i]
        /\ p[Len(o) + 1] = Slash
        /\ \A i \in 1..Len(s) : p[Len(o) + 1 + i] = s[i]
    <2> HIDE DEF o
    <2>1. p = o \o <<Slash>> \o s
      BY DEF StreamsetPath, o
    <2> HIDE DEF p
    <2> QED BY <1>2, <2>1, Extended
  <1> HIDE DEF o, p
  <1>4. Len(p) = 2 + Len(b) + Len(s)
    BY <1>1, <1>2, <1>3
  <1>5. \A i \in 1..Len(b) : p[1 + i] = b[i]
    BY <1>1, <1>2, <1>3
  <1>6. \A i \in 1..Len(s) : p[2 + Len(b) + i] = s[i]
    BY <1>1, <1>2, <1>3
  <1>7. p[1] = Slash /\ p[k] = Slash
    BY <1>1, <1>2, <1>3
  <1>8. ASSUME NEW i \in 1..Len(p), i # 1, i # k PROVE p[i] # Slash
    <2>1. CASE i < k
      <3>1. i - 1 \in 1..Len(b) /\ p[i] = b[i - 1]
        BY <1>1, <1>5, <1>8, <2>1
      <3> QED BY <1>1, <3>1
    <2>2. CASE i > k
      <3>1. i - k \in 1..Len(s) /\ p[i] = s[i - k]
        BY <1>1, <1>4, <1>6, <1>8, <2>2
      <3> QED BY <1>1, <3>1
    <2> QED BY <1>1, <1>8, <2>1, <2>2
  <1>9. \A j \in 1..Len(p) : p[j] = Slash <=> j \in {1, k, m}
    BY <1>1, <1>4, <1>7, <1>8
  <1>10. \A i \in 1..Len(p) : SlashesUpTo(p, i) = IF i < k THEN 1 ELSE 2
    <2>1. \A i \in 1..Len(p) : SlashesUpTo(p, i) = IF i < k THEN 1 ELSE IF i < m THEN 2 ELSE 3
      <3>1. k \in Nat /\ m \in Nat /\ 1 < k /\ k < m /\ Len(p) \in Nat
        BY <1>1, <1>4
      <3> HIDE DEF k, m
      <3> QED BY <1>9, <3>1, SlashCount
    <2> QED BY <1>1, <1>4, <2>1
  <1>11. Component(p, 1) = b
    <2> DEFINE lo == 2
    <2>1. \A i \in 1..Len(p) :
            p[i] # Slash /\ SlashesUpTo(p, i) = 1 <=> lo <= i /\ i < lo + Len(b)
      BY <1>1, <1>4, <1>9, <1>10
    <2>2. \A i \in 1..Len(b) : p[lo + i - 1] = b[i]
      BY <1>1, <1>5
    <2>3. lo \in Nat /\ 1 <= lo /\ lo + Len(b) - 1 <= Len(p)
      BY <1>1, <1>4
    <2> HIDE DEF lo
    <2> QED BY <1>3, <2>1, <2>2, <2>3, ComponentIs
  <1>12. Component(p, 2) = s
    <2>1. \A i \in 1..Len(p) :
            p[i] # Slash /\ SlashesUpTo(p, i) = 2 <=> k + 1 <= i /\ i < k + 1 + Len(s)
      BY <1>1, <1>4, <1>9, <1>10
    <2>2. \A i \in 1..Len(s) : p[k + 1 + i - 1] = s[i]
      BY <1>1, <1>6
    <2>3. k + 1 \in Nat /\ 1 <= k + 1 /\ k + 1 + Len(s) - 1 <= Len(p)
      BY <1>1, <1>4
    <2> HIDE DEF k
    <2> QED BY <1>3, <2>1, <2>2, <2>3, ComponentIs
  <1>13. Component(p, 3) = << >>
    BY <1>10, NoComponent
  <1>14. \A i \in 1..Len(p) : p[i] = Slash <=> i \in {1, 2 + Len(b)}
    BY <1>1, <1>4, <1>9
  <1> HIDE DEF k, m
  <1> QED BY <1>3, <1>4, <1>5, <1>6, <1>11, <1>12, <1>13, <1>14 DEF p

LEMMA StreamParts ==
  ASSUME NEW b \in Words, NEW s \in Words, NEW n \in Words
  PROVE  LET p == StreamPath(b, s, n)
         IN /\ p \in Seq(Tokens)
            /\ Component(p, 1) = b /\ Component(p, 2) = s /\ Component(p, 3) = n
  <1> DEFINE o == StreamsetPath(b, s)
             p == StreamPath(b, s, n)
             k == Len(b) + 2
             m == Len(b) + Len(s) + 3
  <1>1. /\ Len(b) \in Nat \ {0} /\ Len(s) \in Nat \ {0}
        /\ Len(n) \in Nat \ {0} /\ \A i \in 1..Len(n) : n[i] # Slash
    BY WordProperties
  <1>2. /\ o \in Seq(Tokens) /\ Len(o) = 2 + Len(b) + Len(s)
        /\ \A i \in 1..Len(o) : o[i] = Slash <=> i \in {1, 2 + Len(b)}
        /\ \A i \in 1..Len(b) : o[1 + i] = b[i]
        /\ \A i \in 1..Len(s) : o[2 + Len(b) + i] = s[i]
    BY StreamsetParts
  <1>3. /\ p \in Seq(Tokens)
        /\ Len(p) = Len(o) + 1 + Len(n)
        /\ \A i \in 1..Len(o) : p[i] = o[i]
        /\ p[Len(o) + 1] = Slash
        /\ \A i \in 1..Len(n) : p[Len(o) + 1 + i] = n[i]
    <2> HIDE DEF o
    <2>1. p = o \o <<Slash>> \o n
      BY DEF StreamPath, o
    <2> HIDE DEF p
    <2> QED BY <1>2, <2>1, Extended
  <1> HIDE DEF o, p
  <1>4. Len(p) = m + Len(n) /\ Len(o) + 1 = m
    BY <1>1, <1>2, <1>3
  <1>5. /\ \A i \in 1..Len(b) : p[1 + i] = b[i]
        /\ \A i \in 1..Len(s) : p[k + i] = s[i]
        /\ \A i \in 1..Len(n) : p[m + i] = n[i]
    <2>1. \A i \in 1..Len(b) : 1 + i \in 1..Len(o)
      BY <1>1, <1>2
    <2>2. \A i \in 1..Len(s) : k + i \in 1..Len(o) /\ k + i = 2 + Len(b) + i
      BY <1>1, <1>2
    <2> HIDE DEF k, m
    <2> QED BY <1>2, <1>3, <1>4, <2>1, <2>2
  <1>6. \A j \in 1..Len(p) : p[j] = Slash <=> j \in {1, k, m}
    <2>1. ASSUME NEW j \in 1..Len(o) PROVE p[j] = Slash <=> j \in {1, k, m}
      BY <1>1, <1>2, <1>3, <1>4
    <2>2. p[m] = Slash
      BY <1>3, <1>4
    <2>3. ASSUME NEW j \in 1..Len(n)
          PROVE  p[m + j] # Slash /\ m + j \notin {1, k, m}
      BY <1>1, <1>5
    <2>4. \A j \in 1..Len(p) : j \in 1..Len(o) \/ j = m \/ j - m \in 1..Len(n)
      BY <1>1, <1>4
    <2>5. ASSUME NEW j \in 1..Len(p), j - m \in 1..Len(n) PROVE m + (j - m) = j
      BY <1>1
    <2> HIDE DEF m
    <2> QED BY <2>1, <2>2, <2>3, <2>4, <2>5
  <1>7. k \in Nat /\ m \in Nat /\ 1 < k /\ k < m /\ Len(p) \in Nat /\ m = k + Len(s) + 1
    BY <1>1, <1>4
  <1>8. \A i \in 1..Len(p) : SlashesUpTo(p, i) = IF i < k THEN 1 ELSE IF i < m THEN 2 ELSE 3
    <2> HIDE DEF k, m
    <2> QED BY <1>6, <1>7, SlashCount
  <1>9. Component(p, 1) = b
    <2> DEFINE lo == 2
    <2>1. \A i \in 1..Len(p) :
            p[i] # Slash /\ SlashesUpTo(p, i) = 1 <=> lo <= i /\ i < lo + Len(b)
      BY <1>1, <1>6, <1>8
    <2>2. \A i \in 1..Len(b) : p[lo + i - 1] = b[i]
      BY <1>1, <1>5
    <2>3. lo \in Nat /\ 1 <= lo /\ lo + Len(b) - 1 <= Len(p)
      BY <1>1, <1>4
    <2> HIDE DEF lo
    <2> QED BY <1>3, <2>1, <2>2, <2>3, ComponentIs
  <1>10. Component(p, 2) = s
    <2> HIDE DEF k, m
    <2>1. \A i \in 1..Len(p) :
            p[i] # Slash /\ SlashesUpTo(p, i) = 2 <=> k + 1 <= i /\ i < k + 1 + Len(s)
      BY <1>1, <1>6, <1>7, <1>8
    <2>2. \A i \in 1..Len(s) : p[k + 1 + i - 1] = s[i]
      BY <1>1, <1>5, <1>7
    <2>3. k + 1 \in Nat /\ 1 <= k + 1 /\ k + 1 + Len(s) - 1 <= Len(p)
      BY <1>1, <1>4, <1>7
    <2> QED BY <1>3, <2>1, <2>2, <2>3, ComponentIs
  <1>11. Component(p, 3) = n
    <2> HIDE DEF k, m
    <2>1. \A i \in 1..Len(p) :
            p[i] # Slash /\ SlashesUpTo(p, i) = 3 <=> m + 1 <= i /\ i < m + 1 + Len(n)
      BY <1>1, <1>4, <1>6, <1>7, <1>8
    <2>2. \A i \in 1..Len(n) : p[m + 1 + i - 1] = n[i]
      BY <1>1, <1>5, <1>7
    <2>3. m + 1 \in Nat /\ 1 <= m + 1 /\ m + 1 + Len(n) - 1 <= Len(p)
      BY <1>1, <1>4, <1>7
    <2> QED BY <1>3, <2>1, <2>2, <2>3, ComponentIs
  <1> QED BY <1>3, <1>9, <1>10, <1>11 DEF p

LEMMA RootParts ==
  LET p == <<Slash>>
  IN /\ p \in Seq(Tokens)
     /\ Component(p, 1) = << >> /\ Component(p, 2) = << >> /\ Component(p, 3) = << >>
  <1> DEFINE p == <<Slash>>
  <1>1. p \in Seq(Tokens)
    BY DEF Tokens
  <1>2. \A n, i : i \in 1..Len(p) => ~(p[i] # Slash /\ SlashesUpTo(p, i) = n)
    OBVIOUS
  <1> HIDE DEF p
  <1>3. \A n : Component(p, n) = << >>
    BY <1>2, NoComponent
  <1> QED BY <1>1, <1>3 DEF p

\* Names are words that do not end in the extension.
LEMMA NameProperties ==
  ASSUME NEW n \in Names
  PROVE  /\ n \in Words /\ n # << >>
         /\ WithoutExtension(n) = n
  <1>1. n \in Seq(Letters) /\ n # << >>
    BY NamesAssumption
  <1>2. n \in Words
    BY <1>1, SeqMonotonic DEF Words
  <1>3. n[Len(n)] # Extension
    <2>1. Len(n) \in 1..Len(n)
      BY <1>1, EmptySeq
    <2>2. n[Len(n)] \in Letters
      BY <1>1, <2>1, ElementOfSeq
    <2> QED BY <2>2, LettersAssumption
  <1> QED BY <1>1, <1>2, <1>3 DEF WithoutExtension

\* The extension, of a name of a file.
LEMMA FileNameProperties ==
  ASSUME NEW n \in Names
  PROVE  LET f == n \o <<Extension>>
         IN /\ f \in Words
            /\ Len(f) > 1
            /\ f[Len(f)] = Extension
            /\ SubSeq(f, 1, Len(f) - 1) = n
            /\ WithoutExtension(f) = n
  <1> DEFINE S == Letters \cup {Extension}
             e == <<Extension>>
             f == n \o e
  <1>1. n \in Seq(Letters) /\ n # << >> /\ n \in Seq(S)
    <2>1. n \in Seq(Letters) /\ n # << >>
      BY NamesAssumption
    <2> QED BY <2>1, SeqMonotonic
  <1>2. Len(n) \in Nat \ {0}
    BY <1>1, EmptySeq
  <1>3. e \in Seq(S) /\ Len(e) = 1 /\ e[1] = Extension
    OBVIOUS
  <1> HIDE DEF S, e
  <1>4. /\ f \in Seq(S)
        /\ Len(f) = Len(n) + 1
        /\ \A i \in 1..Len(n) + 1 : f[i] = IF i <= Len(n) THEN n[i] ELSE e[i - Len(n)]
    BY <1>1, <1>3, ConcatProperties
  <1>5. f[Len(f)] = Extension /\ Len(f) > 1 /\ Len(f) - 1 = Len(n)
    BY <1>2, <1>3, <1>4
  <1>6. SubSeq(f, 1, Len(n)) = n
    <2>1. Len(n) \in 1..Len(n) /\ 1 \in 1..Len(n)
      BY <1>2
    <2>2. SubSeq(f, 1, Len(n)) = SubSeq(n, 1, Len(n))
      BY <1>1, <1>3, <2>1, SubSeqOfConcat1
    <2> QED BY <1>1, <2>2, SubSeqFull
  <1>7. f # << >>
    BY <1>4, <1>5, EmptySeq
  <1> HIDE DEF f
  <1>8. SubSeq(f, 1, Len(f) - 1) = n
    BY <1>5, <1>6
  <1>9. WithoutExtension(f) = n
    BY <1>5, <1>8 DEF WithoutExtension
  <1>10. f \in Words
    BY <1>4, <1>7 DEF Words, S
  <1> QED BY <1>5, <1>8, <1>9, <1>10 DEF f, e

\* What comes first in a concatenation.
LEMMA Begins ==
  ASSUME NEW p \in Seq(Tokens), NEW t \in Seq(Tokens)
  PROVE  Len(p) <= Len(p \o t) /\ SubSeq(p \o t, 1, Len(p)) = p
  <1>1. Len(p) \in Nat /\ Len(t) \in Nat
    BY LenProperties
  <1>2. /\ p \o t \in Seq(Tokens)
        /\ Len(p \o t) = Len(p) + Len(t)
        /\ \A i \in 1..Len(p) + Len(t) : (p \o t)[i] = IF i <= Len(p) THEN p[i] ELSE t[i - Len(p)]
    BY ConcatProperties
  <1> DEFINE q == p \o t
             u == SubSeq(q, 1, Len(p))
  <1>3. \A i \in 1..Len(p) : q[i] = p[i]
    BY <1>1, <1>2
  <1> HIDE DEF q
  <1>4. \A i \in 1..Len(p) : q[i] \in Tokens
    BY <1>3, ElementOfSeq
  <1>5. /\ u \in Seq(Tokens)
        /\ Len(u) = Len(p)
        /\ \A i \in 1..Len(p) : u[i] = q[i]
    <2>1. /\ u \in Seq(Tokens)
          /\ Len(u) = IF 1 <= Len(p) THEN Len(p) - 1 + 1 ELSE 0
          /\ \A i \in 1..Len(p) - 1 + 1 : u[i] = q[1 + i - 1]
      BY <1>1, <1>4, SubSeqProperties
    <2> HIDE DEF u
    <2> QED BY <1>1, <2>1
  <1> HIDE DEF u
  <1>6. u = p
    BY <1>3, <1>5, SeqEqual
  <1> QED BY <1>1, <1>2, <1>6 DEF q, u

----------------------------------------------------------------------------
(* What lies below a path begins with it                                   *)

Starts(p, q) == \E t \in Seq(Tokens) : q = p \o t

LEMMA StartsItself ==
  ASSUME NEW p \in Seq(Tokens)
  PROVE  Starts(p, p)
  <1>1. << >> \in Seq(Tokens) /\ p = p \o << >>
    BY ConcatEmptySeq
  <1> QED BY <1>1 DEF Starts

LEMMA StartsOn ==
  ASSUME NEW p \in Seq(Tokens), NEW q, NEW r, Starts(p, q), Starts(q, r)
  PROVE  Starts(p, r)
  <1>1. PICK t \in Seq(Tokens) : q = p \o t
    BY DEF Starts
  <1>2. PICK u \in Seq(Tokens) : r = q \o u
    BY DEF Starts
  <1>3. r = p \o (t \o u)
    BY <1>1, <1>2, ConcatAssociative
  <1>4. t \o u \in Seq(Tokens)
    BY ConcatProperties
  <1> QED BY <1>3, <1>4 DEF Starts

LEMMA StartsEach ==
  ASSUME NEW b \in Words, NEW s \in Words, NEW n \in Words
  PROVE  /\ Starts(<<Slash>>, BucketPath(b))
         /\ Starts(BucketPath(b), StreamsetPath(b, s))
         /\ Starts(StreamsetPath(b, s), StreamPath(b, s, n))
  <1>1. Starts(<<Slash>>, BucketPath(b))
    <2>1. b \in Seq(Tokens)
      BY WordProperties
    <2> QED BY <2>1 DEF Starts, BucketPath
  <1>2. ASSUME NEW p \in Seq(Tokens), NEW w \in Words
        PROVE  Starts(p, p \o <<Slash>> \o w)
    <2> DEFINE t == <<Slash>> \o w
    <2>1. w \in Seq(Tokens) /\ <<Slash>> \in Seq(Tokens)
      BY WordProperties DEF Tokens
    <2>2. t \in Seq(Tokens)
      BY <2>1, ConcatProperties
    <2>3. p \o <<Slash>> \o w = p \o t
      BY <2>1, ConcatAssociative
    <2> HIDE DEF t
    <2> QED BY <2>2, <2>3 DEF Starts
  <1>3. BucketPath(b) \in Seq(Tokens) /\ StreamsetPath(b, s) \in Seq(Tokens)
    BY BucketParts, StreamsetParts
  <1> QED BY <1>1, <1>2, <1>3 DEF StreamsetPath, StreamPath

\* What the paths of a store are taken apart into.
LEMMA Parsed ==
  ASSUME NEW b \in Names, NEW s \in Names, NEW n \in Names
  PROVE  /\ ParsePath(<<Slash>>) = [bucket |-> << >>, set |-> << >>, stream |-> << >>]
         /\ ParsePath(BucketPath(b)) = [bucket |-> b, set |-> << >>, stream |-> << >>]
         /\ ParsePath(StreamsetPath(b, s)) = [bucket |-> b, set |-> s, stream |-> << >>]
         /\ ParsePath(StreamPath(b, s, n)) = [bucket |-> b, set |-> s, stream |-> n]
  <1>1. WithoutExtension(<< >>) = << >>
    BY DEF WithoutExtension
  <1>2. b \in Words /\ s \in Words /\ n \in Words /\ WithoutExtension(n) = n
    BY NameProperties
  <1>3. ParsePath(<<Slash>>) = [bucket |-> << >>, set |-> << >>, stream |-> << >>]
    BY <1>1, RootParts DEF ParsePath
  <1>4. ParsePath(BucketPath(b)) = [bucket |-> b, set |-> << >>, stream |-> << >>]
    BY <1>1, <1>2, BucketParts DEF ParsePath
  <1>5. ParsePath(StreamsetPath(b, s)) = [bucket |-> b, set |-> s, stream |-> << >>]
    BY <1>1, <1>2, StreamsetParts DEF ParsePath
  <1>6. ParsePath(StreamPath(b, s, n)) = [bucket |-> b, set |-> s, stream |-> n]
    BY <1>1, <1>2, StreamParts DEF ParsePath
  <1> QED BY <1>3, <1>4, <1>5, <1>6

=============================================================================
