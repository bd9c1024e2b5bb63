----------------------------- MODULE StorePaths -----------------------------
(***************************************************************************)
(* The paths of a store: which strings Store::ValidatePath accepts, what   *)
(* Store::ParsePath takes them apart into, and the paths the store builds  *)
(* itself.  A path is a sequence of tokens: "/", the extension             *)
(* ".zippylog", a member of Letters for a character that names may have,   *)
(* and any other string, as ".", for one that they may not.                *)
(***************************************************************************)
EXTENDS Naturals, Sequences, FiniteSets

CONSTANTS
  Letters,   \* bound: characters of names; the code has 0-9, A-Z, a-z, - and _
  Names      \* bound: names of buckets, stream sets and streams

Slash == "/"
Extension == ".zippylog"

ASSUME LettersAssumption == {Slash, Extension, "."} \cap Letters = {}

ASSUME NamesAssumption == Names \subseteq Seq(Letters) \ {<< >>}

SlashesUpTo(p, i) == Cardinality({j \in 1..i : p[j] = Slash})

(***************************************************************************)
(* No two slashes in a row, no more than three, and the extension at the   *)
(* end of a third component only.                                          *)
(***************************************************************************)
ValidatePath(p) ==
  /\ p # << >>
  /\ p[1] = Slash
  /\ \A i \in 2..Len(p) :
       \/ p[i] = Slash /\ p[i - 1] # Slash /\ SlashesUpTo(p, i) <= 3
       \/ p[i] \in Letters
       \/ p[i] = Extension /\ i = Len(p) /\ SlashesUpTo(p, i) = 3

\* What is between the n-th slash and the next one or the end; nothing if
\* there are fewer slashes.
Component(p, n) ==
  LET between == {i \in 1..Len(p) : p[i] # Slash /\ SlashesUpTo(p, i) = n}
  IN IF between = {} THEN << >>
     ELSE LET first == CHOOSE i \in between : \A j \in between : i <= j
          IN SubSeq(p, first, first + Cardinality(between) - 1)

\* The extension goes, unless the component has nothing else.
WithoutExtension(s) ==
  IF Len(s) > 1 /\ s[Len(s)] = Extension THEN SubSeq(s, 1, Len(s) - 1) ELSE s

\* mutant: the extension stays
ParsePathMutant(p) ==
  [bucket |-> Component(p, 1), set |-> Component(p, 2), stream |-> Component(p, 3)]

\* The components of a path that ValidatePath accepts.
ParsePath(p) ==
  [bucket |-> Component(p, 1),
   set    |-> Component(p, 2),
   stream |-> WithoutExtension(Component(p, 3))]

IsStreamPath(p) ==
  /\ ValidatePath(p)
  /\ LET c == ParsePath(p)
     IN c.bucket # << >> /\ c.set # << >> /\ c.stream # << >>

BucketPath(bucket) == <<Slash>> \o bucket
StreamsetPath(bucket, set) == BucketPath(bucket) \o <<Slash>> \o set
StreamPath(bucket, set, stream) == StreamsetPath(bucket, set) \o <<Slash>> \o stream

\* The paths the store itself builds of the names.
Spelled ==
  {<<Slash>>}
  \cup {BucketPath(b) : b \in Names}
  \cup {StreamsetPath(b, s) : b, s \in Names}
  \cup {StreamPath(b, s, n) : b, s, n \in Names}

=============================================================================
