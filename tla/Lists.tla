-------------------------------- MODULE Lists --------------------------------
(***************************************************************************)
(* Filtering, sorting and joining, which the program takes from its        *)
(* language's library: iter().filter, the stable sort_by_key, extend.      *)
(* They stand here with definitions of their own, and not as SelectSeq,    *)
(* SortSeq and FlattenSeq, so that proofs can look inside.                 *)
(***************************************************************************)
EXTENDS Naturals, Sequences, FiniteSets

\* The elements of s that are in keep, in the order they have in s.
Picked(s, keep) ==
  LET upTo[n \in 0 .. Len(s)] ==
        IF n = 0 THEN <<>>
        ELSE IF s[n] \in keep THEN Append(upTo[n - 1], s[n]) ELSE upTo[n - 1]
  IN  upTo[Len(s)]

\* The sequences of ss one behind the other.
Joined(ss) ==
  LET upTo[n \in 0 .. Len(ss)] == IF n = 0 THEN <<>> ELSE upTo[n - 1] \o ss[n]
  IN  upTo[Len(ss)]

\* The numbers of a set, in ascending order.
SortedSet(S) ==
  [k \in 1 .. Cardinality(S) |-> CHOOSE x \in S : Cardinality({y \in S : y < x}) = k - 1]

\* The places whose elements come before that of place j when keys[i] is the key
\* of place i: a smaller key, or the same key and an earlier place.
Ahead(keys, j) == {i \in DOMAIN keys : keys[i] < keys[j] \/ (keys[i] = keys[j] /\ i < j)}

\* s in the order of the keys of its places.
InOrder(s, keys) ==
  [k \in DOMAIN s |-> s[CHOOSE j \in DOMAIN s : Cardinality(Ahead(keys, j)) = k - 1]]

=============================================================================
