---------------------------- MODULE BasicLemmas ------------------------------
(***************************************************************************)
(* What the proofs of the other modules keep needing.                      *)
(*                                                                         *)
(* Quotients, remainders and rounding up, for every divisor: the divisors  *)
(* of the code (page, block and section sizes) are constants of the        *)
(* modules, so every fact about them is one about products and is proved   *)
(* here once.  Least and greatest elements of sets of naturals, from which *)
(* what the modules CHOOSE is known to exist; induction and recursion, for *)
(* claims and steps given as sets and functions; filtering, sorting and    *)
(* joining sequences.                                                      *)
(***************************************************************************)
EXTENDS Align, Lists, FiniteSetTheorems, WellFoundedInduction, TLAPS

\* Among some naturals one is the least: an induction over the naturals is the
\* search for the least one that the claim fails for.
LEMMA Least ==
  ASSUME NEW T, T \subseteq Nat, T # {}
  PROVE  \E n \in T : \A m \in T : n <= m
<1> DEFINE R == OpToRel(<, Nat)
<1>1. IsWellFoundedOn(R, Nat)
  BY NatLessThanWellFounded
<1>2. ASSUME NEW x \in T, NEW y \in T, y < x
      PROVE  <<y, x>> \in R
  BY <1>2 DEF OpToRel
<1> HIDE DEF R
<1>3. PICK x \in T : \A y \in T : ~ (<<y, x>> \in R)
  BY <1>1, WFMin
<1>4. \A y \in T : ~ (y < x)
  BY <1>2, <1>3
<1> QED BY <1>4

\* Among naturals that do not exceed a bound one is the greatest.
LEMMA Greatest ==
  ASSUME NEW T, T \subseteq Nat, T # {}, NEW b \in Nat, \A m \in T : m <= b
  PROVE  \E n \in T : \A m \in T : m <= n
<1> DEFINE D == {d \in Nat : \E m \in T : d = b - m}
<1>1. \A m \in T : b - m \in D
  OBVIOUS
<1>2. PICK d \in D : \A e \in D : d <= e
  BY <1>1, Least
<1>3. PICK n \in T : d = b - n
  BY <1>2
<1>4. ASSUME NEW m \in T PROVE m <= n
  BY <1>1, <1>2, <1>3
<1> QED BY <1>4

\* A product of naturals is a natural, and grows with its factors.
LEMMA MulMono ==
  ASSUME NEW a \in Nat, NEW b \in Nat, NEW p \in Nat, a <= b
  PROVE  a * p \in Nat /\ b * p \in Nat /\ a * p <= b * p
<1>1. PICK d \in Nat : b = a + d
  <2>1. b - a \in Nat /\ b = a + (b - a)
    OBVIOUS
  <2> QED BY <2>1
<1>2. b * p = a * p + d * p
  BY <1>1
<1>3. a * p \in Nat /\ d * p \in Nat
  OBVIOUS
<1> QED BY <1>2, <1>3

\* What division gives back.
LEMMA DivMod ==
  ASSUME NEW x \in Nat, NEW p \in Nat \ {0}
  PROVE  /\ x \div p \in Nat
         /\ x % p \in 0 .. p - 1
         /\ x = (x \div p) * p + (x % p)
OBVIOUS

\* Quotient and remainder are the only ones.
LEMMA DivUnique ==
  ASSUME NEW x \in Nat, NEW p \in Nat \ {0}, NEW q \in Nat, NEW r \in 0 .. p - 1,
         x = q * p + r
  PROVE  x \div p = q /\ x % p = r
<1> DEFINE Q == x \div p
           R == x % p
<1>1. Q \in Nat /\ R \in 0 .. p - 1 /\ x = Q * p + R
  BY DivMod
<1> HIDE DEF Q, R
<1>2. Q * p + R = q * p + r
  BY <1>1
<1>3. ASSUME Q < q PROVE FALSE
  <2>1. (Q + 1) * p <= q * p
    BY <1>1, <1>3, MulMono
  <2>2. (Q + 1) * p = Q * p + p
    BY <1>1
  <2>3. Q * p \in Nat /\ q * p \in Nat
    BY <1>1, MulMono
  <2> QED BY <1>1, <1>2, <2>1, <2>2, <2>3
<1>4. ASSUME q < Q PROVE FALSE
  <2>1. (q + 1) * p <= Q * p
    BY <1>1, <1>4, MulMono
  <2>2. (q + 1) * p = q * p + p
    OBVIOUS
  <2>3. Q * p \in Nat /\ q * p \in Nat
    BY <1>1, MulMono
  <2> QED BY <1>1, <1>2, <2>1, <2>2, <2>3
<1>5. Q = q
  BY <1>1, <1>3, <1>4
<1>6. q * p \in Nat
  BY MulMono
<1> QED BY <1>1, <1>2, <1>5, <1>6 DEF Q, R

\* A multiple has no remainder, and what has none is a multiple.
LEMMA MultipleOf ==
  ASSUME NEW q \in Nat, NEW p \in Nat \ {0}
  PROVE  (q * p) \div p = q /\ (q * p) % p = 0
<1>1. q * p \in Nat /\ q * p = q * p + 0
  BY MulMono
<1> QED BY <1>1, DivUnique

\* Rounding up: the least multiple at or after x, less than one step away.
LEMMA AlignUpIsLeast ==
  ASSUME NEW x \in Nat, NEW a \in Nat \ {0}
  PROVE  /\ AlignUp(x, a) \in Nat
         /\ x <= AlignUp(x, a)
         /\ AlignUp(x, a) < x + a
         /\ AlignUp(x, a) % a = 0
         /\ \A y \in Nat : x <= y /\ y % a = 0 => AlignUp(x, a) <= y
<1> DEFINE q == (x + a - 1) \div a
           r == (x + a - 1) % a
<1>1. q \in Nat /\ r \in 0 .. a - 1 /\ x + a - 1 = q * a + r
  <2>1. x + a - 1 \in Nat
    OBVIOUS
  <2> QED BY <2>1, DivMod
<1>2. AlignUp(x, a) = q * a
  BY DEF AlignUp
<1> HIDE DEF q, r
<1>3. q * a \in Nat /\ (q * a) % a = 0
  <2>1. q \in Nat
    BY <1>1
  <2>2. (q * a) % a = 0
    BY <2>1, MultipleOf
  <2>3. q * a \in Nat
    BY <2>1, MulMono
  <2> QED BY <2>2, <2>3
<1>4. x <= q * a /\ q * a < x + a
  BY <1>1, <1>3
<1>5. ASSUME NEW y \in Nat, x <= y, y % a = 0 PROVE q * a <= y
  <2>1. PICK k \in Nat : y = k * a
    <3>1. y \div a \in Nat /\ y = (y \div a) * a + (y % a)
      BY DivMod
    <3>2. (y \div a) * a \in Nat
      BY <3>1, MulMono
    <3> QED BY <1>5, <3>1, <3>2
  <2>2. ASSUME k < q PROVE FALSE
    <3>1. (k + 1) * a <= q * a
      BY <1>1, <2>2, MulMono
    <3>2. (k + 1) * a = k * a + a
      OBVIOUS
    <3>3. k * a \in Nat
      BY MulMono
    <3> QED BY <1>1, <1>3, <1>4, <1>5, <2>1, <3>1, <3>2, <3>3
  <2>3. q <= k
    BY <1>1, <2>2
  <2> QED BY <1>1, <2>1, <2>3, MulMono
<1> QED BY <1>2, <1>3, <1>4, <1>5

\* Division keeps the order.
LEMMA DivMono ==
  ASSUME NEW x \in Nat, NEW y \in Nat, NEW p \in Nat \ {0}, x <= y
  PROVE  x \div p <= y \div p
<1> DEFINE a == x \div p
           b == y \div p
<1>1. a \in Nat /\ b \in Nat /\ a * p \in Nat /\ b * p \in Nat
      /\ a * p <= x /\ y < b * p + p
  BY DivMod, MulMono
<1> HIDE DEF a, b
<1>2. ASSUME b < a PROVE FALSE
  <2>1. (b + 1) * p <= a * p
    BY <1>1, <1>2, MulMono
  <2>2. (b + 1) * p = b * p + p
    BY <1>1
  <2> QED BY <1>1, <2>1, <2>2
<1>3. a <= b
  BY <1>1, <1>2
<1> QED BY <1>3 DEF a, b

-----------------------------------------------------------------------------
\* Induction over the naturals, with the claim as the set of those it holds for.
LEMMA Induct ==
  ASSUME NEW P, 0 \in P, \A n \in Nat : n \in P => n + 1 \in P
  PROVE  Nat \subseteq P
<1> SUFFICES ASSUME Nat \ P # {} PROVE FALSE
  OBVIOUS
<1>1. PICK n \in Nat \ P : \A m \in Nat \ P : n <= m
  BY Least
<1>2. n # 0 /\ n - 1 \in Nat
  OBVIOUS
<1>3. n - 1 \in P
  BY <1>1, <1>2
<1>4. (n - 1) + 1 \in P
  BY <1>2, <1>3
<1> QED BY <1>1, <1>4

\* A recursion over 0 .. N whose step is a function has a solution.
Recurs(f, N, V, v, step) ==
  /\ f \in [0 .. N -> V]
  /\ f[0] = v
  /\ \A n \in 1 .. N : f[n] = step[n][f[n - 1]]

\* Going through the numbers one by one defines a function.
LEMMA Recursion ==
  ASSUME NEW N \in Nat, NEW V, NEW v \in V, NEW step \in [1 .. N -> [V -> V]]
  PROVE  \E f : Recurs(f, N, V, v, step)
<1> USE DEF Recurs
<1> DEFINE Solves(f, m) == Recurs(f, m, V, v, step)
           P == {m \in Nat : m <= N => \E f : Solves(f, m)}
<1>1. 0 \in P
  <2>1. Solves([n \in 0 .. 0 |-> v], 0)
    OBVIOUS
  <2> QED BY <2>1
<1>2. ASSUME NEW m \in Nat, m \in P PROVE m + 1 \in P
  <2> SUFFICES ASSUME m + 1 <= N PROVE \E f : Solves(f, m + 1)
    OBVIOUS
  <2>1. PICK f : Solves(f, m)
    BY <1>2
  <2> DEFINE g == [n \in 0 .. m + 1 |-> IF n = m + 1 THEN step[m + 1][f[m]] ELSE f[n]]
  <2>2. f[m] \in V /\ m + 1 \in 1 .. N
    BY <2>1
  <2>3. step[m + 1] \in [V -> V]
    BY <2>2
  <2>4. step[m + 1][f[m]] \in V
    BY <2>2, <2>3
  <2>5. g \in [0 .. m + 1 -> V]
    BY <2>1, <2>4
  <2>6. g[0] = v
    BY <2>1
  <2>7. ASSUME NEW n \in 1 .. m + 1 PROVE g[n] = step[n][g[n - 1]]
    <3>1. CASE n = m + 1
      BY <3>1
    <3>2. CASE n # m + 1
      <4>1. n \in 1 .. m /\ n - 1 \in 0 .. m
        BY <3>2
      <4>2. g[n] = f[n] /\ g[n - 1] = f[n - 1]
        BY <4>1, <3>2
      <4> QED BY <4>1, <4>2, <2>1
    <3> QED BY <3>1, <3>2
  <2>8. Solves(g, m + 1)
    BY <2>5, <2>6, <2>7
  <2> QED BY <2>8
<1>3. N \in P
  <2> HIDE DEF P
  <2> QED BY <1>1, <1>2, Induct
<1> QED BY <1>3

-----------------------------------------------------------------------------
\* A sequence over some values is one over more.
LEMMA SeqWider ==
  ASSUME NEW S, NEW U, S \subseteq U, NEW s \in Seq(S)
  PROVE  s \in Seq(U)
OBVIOUS

\* The places of p's elements in s, and nothing that is kept lies between them.
PickedFrom(p, s, n, keep, f) ==
  /\ f \in [1 .. Len(p) -> 1 .. n]
  /\ \A k \in 1 .. Len(p) : p[k] = s[f[k]] /\ s[f[k]] \in keep
  /\ \A j, k \in 1 .. Len(p) : j < k => f[j] < f[k]
  /\ \A i \in 1 .. n : s[i] \in keep => \E k \in 1 .. Len(p) : f[k] = i

\* Filtering keeps order, and all that is to be kept.
LEMMA PickedIs ==
  ASSUME NEW T, NEW s \in Seq(T), NEW keep
  PROVE  /\ Picked(s, keep) \in Seq(T)
         /\ Len(Picked(s, keep)) <= Len(s)
         /\ \E f : PickedFrom(Picked(s, keep), s, Len(s), keep, f)
<1> DEFINE N == Len(s)
           step == [n \in 1 .. N |-> [p \in Seq(T) |->
                      IF s[n] \in keep THEN Append(p, s[n]) ELSE p]]
           Rec(u) == u = [n \in 0 .. N |->
                        IF n = 0 THEN <<>>
                        ELSE IF s[n] \in keep THEN Append(u[n - 1], s[n]) ELSE u[n - 1]]
           upTo == CHOOSE u : Rec(u)
<1>1. N \in Nat /\ \A n \in 1 .. N : s[n] \in T
  OBVIOUS
<1>2. step \in [1 .. N -> [Seq(T) -> Seq(T)]]
  BY <1>1
<1>3. \E u : Rec(u)
  <2>1. PICK u \in [0 .. N -> Seq(T)] : /\ u[0] = <<>>
                                       /\ \A n \in 1 .. N : u[n] = step[n][u[n - 1]]
    <3> HIDE DEF step, N
    <3>1. <<>> \in Seq(T)
      OBVIOUS
    <3>2. PICK u : Recurs(u, N, Seq(T), <<>>, step)
      BY <1>1, <1>2, <3>1, Recursion
    <3> QED BY <3>2 DEF Recurs
  <2>2. ASSUME NEW n \in 1 .. N
        PROVE u[n] = IF s[n] \in keep THEN Append(u[n - 1], s[n]) ELSE u[n - 1]
    <3>1. u[n - 1] \in Seq(T)
      BY <2>1
    <3> QED BY <2>1, <3>1
  <2>3. Rec(u)
    <3> HIDE DEF step, N
    <3>1. \A n \in 0 .. N : n = 0 \/ n \in 1 .. N
      BY <1>1
    <3> QED BY <2>1, <2>2, <3>1
  <2> QED BY <2>3
<1>4. Rec(upTo)
  BY <1>3
<1>5. Picked(s, keep) = upTo[N]
  BY DEF Picked
<1> HIDE DEF upTo
<1>6. /\ upTo[0] = <<>>
      /\ \A n \in 1 .. N : upTo[n] = IF s[n] \in keep THEN Append(upTo[n - 1], s[n])
                                                       ELSE upTo[n - 1]
  <2> HIDE DEF N
  <2>1. 0 \in 0 .. N /\ \A n \in 1 .. N : n \in 0 .. N /\ n # 0
    BY <1>1
  <2> QED BY <1>4, <2>1
<1> DEFINE Good(n) == /\ upTo[n] \in Seq(T)
                      /\ Len(upTo[n]) <= n
                      /\ \E f : PickedFrom(upTo[n], s, n, keep, f)
           P == {n \in Nat : n <= N => Good(n)}
<1>7. 0 \in P
  <2>1. PickedFrom(<<>>, s, 0, keep, <<>>)
    BY DEF PickedFrom
  <2>2. <<>> \in Seq(T) /\ Len(<<>>) <= 0
    OBVIOUS
  <2>3. Good(0)
    BY <1>6, <2>1, <2>2
  <2> QED BY <2>3
<1>8. ASSUME NEW n \in Nat, n \in P PROVE n + 1 \in P
  <2> SUFFICES ASSUME n + 1 <= N PROVE Good(n + 1)
    OBVIOUS
  <2>1. Good(n) /\ n + 1 \in 1 .. N /\ (n + 1) - 1 = n
    BY <1>8, <1>1
  <2>2. PICK f : PickedFrom(upTo[n], s, n, keep, f)
    BY <2>1
  <2>0. PICK p \in Seq(T) : p = upTo[n] /\ Len(p) <= n /\ PickedFrom(p, s, n, keep, f)
    BY <2>1, <2>2
  <2>3. CASE s[n + 1] \notin keep
    <3>1. upTo[n + 1] = upTo[n]
      BY <1>6, <2>1, <2>3
    <3>2. PickedFrom(p, s, n + 1, keep, f)
      BY <2>0, <2>3 DEF PickedFrom
    <3> QED BY <2>0, <2>1, <3>1, <3>2
  <2>4. CASE s[n + 1] \in keep
    <3>1. upTo[n + 1] = Append(p, s[n + 1])
      BY <1>6, <2>0, <2>1, <2>4
    <3> DEFINE q == Append(p, s[n + 1])
               g == [k \in 1 .. Len(q) |-> IF k = Len(q) THEN n + 1 ELSE f[k]]
    <3>2. s[n + 1] \in T
      BY <1>1, <2>1
    <3>3. q \in Seq(T) /\ Len(q) = Len(p) + 1 /\ Len(p) \in Nat
      BY <2>0, <3>2
    <3>4. q[Len(q)] = s[n + 1] /\ \A k \in 1 .. Len(p) : q[k] = p[k]
      BY <2>0, <3>2, <3>3
    <3> HIDE DEF q
    <3>5. g \in [1 .. Len(q) -> 1 .. n + 1]
      BY <2>0, <3>3 DEF PickedFrom
    <3>6. \A k \in 1 .. Len(q) : q[k] = s[g[k]] /\ s[g[k]] \in keep
      BY <2>0, <2>4, <3>3, <3>4 DEF PickedFrom
    <3>7. ASSUME NEW j \in 1 .. Len(q), NEW k \in 1 .. Len(q), j < k
          PROVE  g[j] < g[k]
      <4>0. j \in 1 .. Len(p)
        BY <3>3, <3>7
      <4>4. f[j] \in 1 .. n
        BY <2>0, <4>0 DEF PickedFrom
      <4>1. j \in 1 .. Len(p) /\ g[j] = f[j] /\ f[j] \in 1 .. n
        BY <3>3, <4>0, <4>4
      <4>2. CASE k = Len(q)
        BY <4>1, <4>2
      <4>3. CASE k # Len(q)
        <5>1. k \in 1 .. Len(p) /\ g[k] = f[k]
          BY <3>3, <4>3
        <5> QED BY <2>0, <3>7, <4>1, <5>1 DEF PickedFrom
      <4> QED BY <4>2, <4>3
    <3>8. ASSUME NEW i \in 1 .. n + 1, s[i] \in keep PROVE \E k \in 1 .. Len(q) : g[k] = i
      <4>1. CASE i = n + 1
        BY <4>1, <3>3
      <4>2. CASE i # n + 1
        <5>1. PICK k \in 1 .. Len(p) : f[k] = i
          BY <2>0, <3>8, <4>2 DEF PickedFrom
        <5>2. k \in 1 .. Len(q) /\ k # Len(q)
          BY <3>3
        <5> QED BY <5>1, <5>2
      <4> QED BY <4>1, <4>2
    <3>9. PickedFrom(q, s, n + 1, keep, g)
      BY <3>5, <3>6, <3>7, <3>8 DEF PickedFrom
    <3> HIDE DEF g
    <3> QED BY <2>0, <3>1, <3>3, <3>9 DEF q
  <2> QED BY <2>3, <2>4
<1>9. N \in P
  <2> HIDE DEF P
  <2> QED BY <1>1, <1>7, <1>8, Induct
<1> QED BY <1>1, <1>5, <1>9

-----------------------------------------------------------------------------
\* How many places come before one is different for every place.
LEMMA RanksDiffer ==
  ASSUME NEW n \in Nat, NEW keys \in [1 .. n -> Int], NEW i \in 1 .. n, NEW j \in 1 .. n,
         keys[i] < keys[j] \/ (keys[i] = keys[j] /\ i < j)
  PROVE  Cardinality(Ahead(keys, i)) < Cardinality(Ahead(keys, j))
<1>1. IsFiniteSet(1 .. n)
  BY FS_Interval
<1>2. /\ Ahead(keys, i) \subseteq Ahead(keys, j)
      /\ Ahead(keys, i) # Ahead(keys, j)
      /\ Ahead(keys, j) \subseteq 1 .. n
  <2>1. i \in Ahead(keys, j) /\ i \notin Ahead(keys, i)
    BY DEF Ahead
  <2>2. Ahead(keys, i) \subseteq Ahead(keys, j)
    BY DEF Ahead
  <2> QED BY <2>1, <2>2 DEF Ahead
<1>3. IsFiniteSet(Ahead(keys, j))
  BY <1>1, <1>2, FS_Subset
<1> QED BY <1>2, <1>3, FS_Subset, FS_CardinalityType

\* A place for every rank: there are as many ranks as places.
LEMMA RankTaken ==
  ASSUME NEW n \in Nat, NEW keys \in [1 .. n -> Int], NEW k \in 1 .. n
  PROVE  \E j \in 1 .. n : Cardinality(Ahead(keys, j)) = k - 1
<1> SUFFICES ASSUME \A j \in 1 .. n : Cardinality(Ahead(keys, j)) # k - 1
             PROVE  FALSE
  OBVIOUS
<1> DEFINE D == 1 .. n
           R == (0 .. n - 1) \ {k - 1}
           rank == [j \in D |-> Cardinality(Ahead(keys, j))]
<1>1. IsFiniteSet(D) /\ Cardinality(D) = n
  BY FS_Interval
<1>2. ASSUME NEW j \in D PROVE Cardinality(Ahead(keys, j)) \in 0 .. n - 1
  <2>1. Ahead(keys, j) \subseteq D \ {j}
    BY DEF Ahead
  <2>2. IsFiniteSet(D \ {j}) /\ Cardinality(D \ {j}) = n - 1
    BY <1>1, FS_RemoveElement
  <2>3. Cardinality(Ahead(keys, j)) \in Nat /\ Cardinality(Ahead(keys, j)) <= n - 1
    BY <2>1, <2>2, FS_Subset, FS_CardinalityType
  <2> QED BY <2>3
<1>3. rank \in [D -> R]
  BY <1>2
<1>4. IsFiniteSet(R) /\ Cardinality(R) = n - 1
  <2>1. IsFiniteSet(0 .. n - 1) /\ Cardinality(0 .. n - 1) = n
    <3>1. PICK a, m \in Int : a = 0 /\ m = n - 1 /\ m >= 0
      OBVIOUS
    <3>2. IsFiniteSet(a .. m) /\ Cardinality(a .. m) = IF a > m THEN 0 ELSE m - a + 1
      BY FS_Interval
    <3> QED BY <3>1, <3>2
  <2>2. k - 1 \in 0 .. n - 1
    OBVIOUS
  <2> QED BY <2>1, <2>2, FS_RemoveElement
<1> HIDE DEF R
<1>5. PICK i, j \in D : i # j /\ rank[i] = rank[j]
  <2> HIDE DEF D, rank
  <2> QED BY <1>1, <1>3, <1>4, FS_PigeonHole
<1>6. /\ Cardinality(Ahead(keys, i)) = Cardinality(Ahead(keys, j))
      /\ Cardinality(Ahead(keys, i)) \in Nat /\ Cardinality(Ahead(keys, j)) \in Nat
  BY <1>2, <1>5
<1>7. \/ keys[i] < keys[j] \/ (keys[i] = keys[j] /\ i < j)
      \/ keys[j] < keys[i] \/ (keys[j] = keys[i] /\ j < i)
  BY <1>5
<1> QED BY <1>6, <1>7, RanksDiffer

\* Which place each element of q has in s, and that the keys go up.
SortedFrom(q, s, keys, f) ==
  /\ Len(q) = Len(s)
  /\ f \in [1 .. Len(s) -> 1 .. Len(s)]
  /\ \A k \in 1 .. Len(s) : q[k] = s[f[k]]
  /\ \A j, k \in 1 .. Len(s) : j < k => keys[f[j]] <= keys[f[k]] /\ f[j] # f[k]
  /\ \A i \in 1 .. Len(s) : \E k \in 1 .. Len(s) : f[k] = i

\* Sorting loses nothing, doubles nothing, and puts the keys in order.
LEMMA SortedIs ==
  ASSUME NEW T, NEW s \in Seq(T), NEW keys \in [1 .. Len(s) -> Int]
  PROVE  /\ InOrder(s, keys) \in Seq(T)
         /\ \E f : SortedFrom(InOrder(s, keys), s, keys, f)
<1> DEFINE n == Len(s)
           place == [k \in 1 .. n |->
                       CHOOSE j \in 1 .. n : Cardinality(Ahead(keys, j)) = k - 1]
           q == InOrder(s, keys)
<1>1. n \in Nat /\ DOMAIN s = 1 .. n /\ \A j \in 1 .. n : s[j] \in T
  OBVIOUS
<1>2. \A k \in 1 .. n : place[k] \in 1 .. n /\ Cardinality(Ahead(keys, place[k])) = k - 1
  BY <1>1, RankTaken
<1>3. q = [k \in 1 .. n |-> s[place[k]]]
  BY <1>1 DEF InOrder
<1>4. place = [k \in 1 .. n |-> place[k]]
  OBVIOUS
<1> HIDE DEF place, q
<1>5. \A k \in 1 .. n : q[k] = s[place[k]] /\ q[k] \in T
  BY <1>1, <1>2, <1>3
<1>6. q \in Seq(T) /\ Len(q) = n
  <2>1. q \in [1 .. n -> T]
    BY <1>1, <1>3, <1>5
  <2> QED BY <1>1, <2>1
<1>7. place \in [1 .. n -> 1 .. n]
  BY <1>2, <1>4
<1>8. ASSUME NEW j \in 1 .. n, NEW k \in 1 .. n, j < k
      PROVE  keys[place[j]] <= keys[place[k]] /\ place[j] # place[k]
  <2>1. /\ place[j] \in 1 .. n /\ place[k] \in 1 .. n
        /\ Cardinality(Ahead(keys, place[j])) < Cardinality(Ahead(keys, place[k]))
        /\ Cardinality(Ahead(keys, place[j])) \in Int
        /\ Cardinality(Ahead(keys, place[k])) \in Int
    BY <1>2, <1>8
  <2>2. ASSUME keys[place[k]] < keys[place[j]] PROVE FALSE
    <3>1. Cardinality(Ahead(keys, place[k])) < Cardinality(Ahead(keys, place[j]))
      BY <1>1, <2>1, <2>2, RanksDiffer
    <3> QED BY <2>1, <3>1
  <2> QED BY <1>1, <2>1, <2>2
<1>9. ASSUME NEW i \in 1 .. n PROVE \E k \in 1 .. n : place[k] = i
  <2>1. IsFiniteSet(1 .. n) /\ Cardinality(1 .. n) = n
    BY <1>1, FS_Interval
  <2>2. place \in Injection(1 .. n, 1 .. n)
    <3>1. \A j, k \in 1 .. n : place[j] = place[k] => j = k
      BY <1>1, <1>8
    <3> QED BY <1>7, <3>1 DEF Injection, IsInjective
  <2>3. place \in Surjection(1 .. n, 1 .. n)
    BY <2>1, <2>2, FS_Injection
  <2> QED BY <2>3 DEF Surjection
<1>10. SortedFrom(q, s, keys, place)
  BY <1>5, <1>6, <1>7, <1>8, <1>9 DEF SortedFrom
<1> QED BY <1>6, <1>10 DEF q

-----------------------------------------------------------------------------
\* One sequence behind another.
LEMMA SeqJoined ==
  ASSUME NEW S, NEW s \in Seq(S), NEW t \in Seq(S), NEW u, u = s \o t
  PROVE  /\ u \in Seq(S) /\ Len(u) = Len(s) + Len(t)
         /\ \A j \in 1 .. Len(s) : u[j] = s[j]
         /\ \A j \in 1 .. Len(t) : u[Len(s) + j] = t[j]
<1>1. u \in Seq(S) /\ Len(u) = Len(s) + Len(t)
  OBVIOUS
<1>2. \A j \in 1 .. Len(s) : u[j] = s[j]
  OBVIOUS
<1>3. \A j \in 1 .. Len(t) : u[Len(s) + j] = t[j]
  OBVIOUS
<1> QED BY <1>1, <1>2, <1>3

\* A sequence with one member more.
LEMMA SeqGrown ==
  ASSUME NEW S, NEW s \in Seq(S), NEW x \in S, NEW u, u = Append(s, x), NEW n, n = Len(s)
  PROVE  /\ u \in Seq(S) /\ Len(u) = n + 1 /\ u[n + 1] = x
         /\ \A j \in 1 .. n : u[j] = s[j]
<1>1. u \in Seq(S) /\ Len(u) = n + 1
  OBVIOUS
<1>2. u[n + 1] = x
  OBVIOUS
<1>3. \A j \in 1 .. n : u[j] = s[j]
  OBVIOUS
<1> QED BY <1>1, <1>2, <1>3

\* How many numbers of a set come before one is different for every number.
LEMMA PlacesDiffer ==
  ASSUME NEW S, S \subseteq Nat, IsFiniteSet(S), NEW x \in S, NEW z \in S, x < z
  PROVE  Cardinality({y \in S : y < x}) < Cardinality({y \in S : y < z})
<1> DEFINE A == {y \in S : y < x}
           B == {y \in S : y < z}
<1>1. A \subseteq B /\ B \subseteq S
  <2>1. ASSUME NEW y \in A PROVE y \in B
    <3>1. x \in Nat /\ y \in Nat /\ z \in Nat /\ y < x
      OBVIOUS
    <3> QED BY <3>1
  <2> QED BY <2>1
<1>2. x \in B /\ x \notin A
  OBVIOUS
<1> HIDE DEF A, B
<1>3. IsFiniteSet(B)
  BY <1>1, FS_Subset
<1>4. IsFiniteSet(A) /\ Cardinality(A) < Cardinality(B)
  <2>1. IsFiniteSet(A) /\ Cardinality(A) <= Cardinality(B)
        /\ (Cardinality(B) = Cardinality(A) => B = A)
    BY <1>1, <1>3, FS_Subset
  <2>2. PICK a, b \in Nat : a = Cardinality(A) /\ b = Cardinality(B)
    BY <1>3, <2>1, FS_CardinalityType
  <2>3. a <= b /\ a # b
    BY <1>2, <2>1, <2>2
  <2>4. a < b
    BY <2>3
  <2> QED BY <2>1, <2>2, <2>4
<1> QED BY <1>4 DEF A, B

\* A member of a finite set of numbers has fewer below it than the set has members.
LEMMA PlaceIn ==
  ASSUME NEW S, S \subseteq Nat, IsFiniteSet(S), NEW x \in S
  PROVE  Cardinality({y \in S : y < x}) \in 0 .. Cardinality(S) - 1
<1> DEFINE A == {y \in S : y < x}
<1>1. A \subseteq S \ {x}
  OBVIOUS
<1>2. IsFiniteSet(S \ {x}) /\ Cardinality(S \ {x}) = Cardinality(S) - 1
  BY FS_RemoveElement
<1> HIDE DEF A
<1>3. IsFiniteSet(A) /\ Cardinality(A) <= Cardinality(S) - 1
  BY <1>1, <1>2, FS_Subset
<1>4. Cardinality(A) \in Nat /\ Cardinality(S) \in Nat
  BY <1>3, FS_CardinalityType
<1>5. Cardinality(A) \in 0 .. Cardinality(S) - 1
  BY <1>3, <1>4
<1> QED BY <1>5 DEF A

\* A number for every place: there are as many places as numbers.
LEMMA PlaceTaken ==
  ASSUME NEW S, S \subseteq Nat, IsFiniteSet(S), NEW k \in 1 .. Cardinality(S)
  PROVE  \E x \in S : Cardinality({y \in S : y < x}) = k - 1
<1> SUFFICES ASSUME \A x \in S : Cardinality({y \in S : y < x}) # k - 1
             PROVE  FALSE
  OBVIOUS
<1> DEFINE place == [x \in S |-> Cardinality({y \in S : y < x})]
<1>1. PICK n \in Nat : n = Cardinality(S)
  BY FS_CardinalityType
<1>2. PICK R : R = (0 .. n - 1) \ {k - 1}
  OBVIOUS
<1>3. \A x \in S : place[x] \in 0 .. n - 1
  BY <1>1, PlaceIn
<1>4. place \in [S -> R]
  <2>1. \A x \in S : place[x] # k - 1
    OBVIOUS
  <2>2. \A x \in S : place[x] \in R
    BY <1>2, <1>3, <2>1
  <2> QED BY <2>2
<1>5. IsFiniteSet(R) /\ Cardinality(R) = n - 1
  <2>1. PICK a, m \in Int : a = 0 /\ m = n - 1 /\ m >= 0
    BY <1>1
  <2>2. IsFiniteSet(a .. m) /\ Cardinality(a .. m) = IF a > m THEN 0 ELSE m - a + 1
    BY FS_Interval
  <2>3. IsFiniteSet(0 .. n - 1) /\ Cardinality(0 .. n - 1) = n
    BY <1>1, <2>1, <2>2
  <2>4. k - 1 \in 0 .. n - 1
    BY <1>1
  <2> QED BY <1>2, <2>3, <2>4, FS_RemoveElement
<1>6. PICK x, z \in S : x # z /\ place[x] = place[z]
  <2>1. Cardinality(R) < Cardinality(S)
    BY <1>1, <1>5
  <2> HIDE DEF place
  <2> QED BY <1>4, <1>5, <2>1, FS_PigeonHole
<1>7. x < z \/ z < x
  BY <1>6
<1>8. place[x] < place[z] \/ place[z] < place[x]
  BY <1>7, PlacesDiffer
<1>9. place[x] \in Nat /\ place[z] \in Nat
  BY <1>1, <1>3
<1> QED BY <1>6, <1>8, <1>9

\* A sorted set has every number of the set, once.
LEMMA SortedSetIs ==
  ASSUME NEW S, S \subseteq Nat, IsFiniteSet(S)
  PROVE  /\ SortedSet(S) \in Seq(S) /\ Len(SortedSet(S)) = Cardinality(S)
         /\ \A j, k \in 1 .. Cardinality(S) : j # k => SortedSet(S)[j] # SortedSet(S)[k]
         /\ \A x \in S : \E k \in 1 .. Cardinality(S) : SortedSet(S)[k] = x
<1> DEFINE place(x) == Cardinality({y \in S : y < x})
<1>1. PICK n \in Nat : n = Cardinality(S)
  BY FS_CardinalityType
<1>2. \A k \in 1 .. n : SortedSet(S)[k] = CHOOSE x \in S : place(x) = k - 1
  BY <1>1 DEF SortedSet
<1>3. \A k \in 1 .. n : \E x \in S : place(x) = k - 1
  BY <1>1, PlaceTaken
<1> HIDE DEF place
<1>4. \A k \in 1 .. n : SortedSet(S)[k] \in S /\ place(SortedSet(S)[k]) = k - 1
  BY <1>2, <1>3
<1>5. SortedSet(S) \in Seq(S) /\ Len(SortedSet(S)) = n
  <2>1. SortedSet(S) = [k \in 1 .. n |-> SortedSet(S)[k]]
    BY <1>1 DEF SortedSet
  <2>2. SortedSet(S) \in [1 .. n -> S]
    BY <1>4, <2>1
  <2> QED BY <1>1, <2>2
<1>6. ASSUME NEW x \in S PROVE \E k \in 1 .. n : SortedSet(S)[k] = x
  <2>4. PICK q \in 0 .. n - 1 : q = place(x)
    <3>1. Cardinality({y \in S : y < x}) \in 0 .. Cardinality(S) - 1
      BY PlaceIn
    <3> QED BY <1>1, <3>1 DEF place
  <2>1. PICK k \in 1 .. n : k = q + 1
    OBVIOUS
  <2>2. PICK z \in S : z = SortedSet(S)[k] /\ place(z) = place(x) /\ place(x) \in Nat
    <3>1. place(x) \in Nat
      BY <2>4
    <3>2. place(SortedSet(S)[k]) = k - 1 /\ SortedSet(S)[k] \in S
      BY <1>4
    <3>3. k - 1 = q
      BY <2>1
    <3> QED BY <2>4, <3>1, <3>2, <3>3
  <2>3. ~ (x < z) /\ ~ (z < x)
    <3>4. x \in Nat /\ z \in Nat
      OBVIOUS
    <3>1. x < z => place(x) < place(z)
      BY PlacesDiffer DEF place
    <3>2. z < x => place(z) < place(x)
      BY PlacesDiffer DEF place
    <3> QED BY <2>2, <3>1, <3>2
  <2> QED BY <2>2, <2>3
<1>7. ASSUME NEW j \in 1 .. n, NEW k \in 1 .. n, j # k
      PROVE  SortedSet(S)[j] # SortedSet(S)[k]
  BY <1>4, <1>7
<1> QED BY <1>1, <1>5, <1>6, <1>7

-----------------------------------------------------------------------------
\* What u has joined after so many of the sequences.
Joining(u, ss, S) ==
  /\ u \in [0 .. Len(ss) -> Seq(S)] /\ u[0] = <<>>
  /\ \A n \in 1 .. Len(ss) : u[n] = u[n - 1] \o ss[n]

\* Joined is what appending the sequences one by one, in their order, comes to.
LEMMA JoinedIs ==
  ASSUME NEW S, NEW ss \in Seq(Seq(S))
  PROVE  \E u : Joining(u, ss, S) /\ Joined(ss) = u[Len(ss)]
<1> DEFINE N == Len(ss)
           step == [n \in 1 .. N |-> [p \in Seq(S) |-> p \o ss[n]]]
           Rec(u) == u = [n \in 0 .. N |-> IF n = 0 THEN <<>> ELSE u[n - 1] \o ss[n]]
           upTo == CHOOSE u : Rec(u)
<1>1. N \in Nat /\ \A n \in 1 .. N : ss[n] \in Seq(S)
  OBVIOUS
<1>2. step \in [1 .. N -> [Seq(S) -> Seq(S)]]
  <2>1. \A n \in 1 .. N : \A p \in Seq(S) : p \o ss[n] \in Seq(S)
    BY <1>1
  <2> QED BY <2>1
<1>3. PICK u : Recurs(u, N, Seq(S), <<>>, step)
  <2>1. <<>> \in Seq(S)
    OBVIOUS
  <2> HIDE DEF step, N
  <2> QED BY <1>1, <1>2, <2>1, Recursion
<1>4. Rec(u)
  <2>1. ASSUME NEW n \in 1 .. N PROVE u[n] = u[n - 1] \o ss[n]
    <3>1. u[n - 1] \in Seq(S)
      <4>1. n - 1 \in 0 .. N
        BY <1>1
      <4>2. u \in [0 .. N -> Seq(S)]
        BY <1>3 DEF Recurs
      <4> QED BY <4>1, <4>2
    <3>2. u[n] = step[n][u[n - 1]]
      BY <1>3 DEF Recurs
    <3>3. step[n][u[n - 1]] = u[n - 1] \o ss[n]
      BY <3>1
    <3> QED BY <3>2, <3>3
  <2> HIDE DEF step, N
  <2>2. \A n \in 0 .. N : n = 0 \/ n \in 1 .. N
    BY <1>1
  <2> QED BY <1>3, <2>1, <2>2 DEF Recurs
<1>5. Rec(upTo)
  BY <1>4
<1>6. Joined(ss) = upTo[N]
  BY DEF Joined
<1> HIDE DEF upTo
<1>7. /\ upTo[0] = <<>>
      /\ \A n \in 1 .. N : upTo[n] = upTo[n - 1] \o ss[n]
  <2> HIDE DEF N
  <2>1. 0 \in 0 .. N /\ \A n \in 1 .. N : n \in 0 .. N /\ n # 0
    BY <1>1
  <2> QED BY <1>5, <2>1
<1> DEFINE P == {n \in Nat : n <= N => upTo[n] \in Seq(S)}
<1>8. 0 \in P
  <2>1. <<>> \in Seq(S)
    OBVIOUS
  <2>2. upTo[0] \in Seq(S)
    BY <1>7, <2>1
  <2> QED BY <2>2
<1>9. ASSUME NEW n \in Nat, n \in P PROVE n + 1 \in P
  <2> SUFFICES ASSUME n + 1 <= N PROVE upTo[n + 1] \in Seq(S)
    OBVIOUS
  <2>1. upTo[n] \in Seq(S) /\ n + 1 \in 1 .. N /\ (n + 1) - 1 = n
    BY <1>9, <1>1
  <2>2. ss[n + 1] \in Seq(S) /\ upTo[n + 1] = upTo[n] \o ss[n + 1]
    BY <1>1, <1>7, <2>1
  <2> QED BY <2>1, <2>2
<1>10. \A n \in 0 .. N : upTo[n] \in Seq(S)
  <2>1. Nat \subseteq P
    <3> HIDE DEF P
    <3> QED BY <1>8, <1>9, Induct
  <2> QED BY <1>1, <2>1
<1>11. Joining(upTo, ss, S)
  <2>1. upTo = [n \in 0 .. N |-> upTo[n]]
    <3> HIDE DEF N
    <3> QED BY <1>5
  <2>2. upTo \in [0 .. N -> Seq(S)]
    <3> HIDE DEF N
    <3> QED BY <1>10, <2>1
  <2> QED BY <1>7, <2>2 DEF Joining
<1> QED BY <1>6, <1>11

\* Whatever joins the sequences step by step ends in the same.
LEMMA JoinedAs ==
  ASSUME NEW S, NEW ss \in Seq(Seq(S)), NEW u, Joining(u, ss, S)
  PROVE  Joined(ss) = u[Len(ss)] /\ Joined(ss) \in Seq(S)
<1>1. PICK v : Joining(v, ss, S) /\ Joined(ss) = v[Len(ss)]
  BY JoinedIs
<1>2. PICK N \in Nat : N = Len(ss)
  OBVIOUS
<1> DEFINE P == {n \in Nat : n <= N => u[n] = v[n]}
<1>3. 0 \in P
  BY <1>1 DEF Joining
<1>4. ASSUME NEW n \in Nat, n \in P PROVE n + 1 \in P
  <2> SUFFICES ASSUME n + 1 <= N PROVE u[n + 1] = v[n + 1]
    OBVIOUS
  <2>1. n + 1 \in 1 .. Len(ss) /\ (n + 1) - 1 = n /\ u[n] = v[n]
    BY <1>2, <1>4
  <2>2. u[n + 1] = u[n] \o ss[n + 1] /\ v[n + 1] = v[n] \o ss[n + 1]
    BY <1>1, <2>1 DEF Joining
  <2> QED BY <2>1, <2>2
<1>5. N \in P
  <2> HIDE DEF P
  <2> QED BY <1>3, <1>4, Induct
<1>6. v[N] \in Seq(S)
  BY <1>1, <1>2 DEF Joining
<1> QED BY <1>1, <1>2, <1>5, <1>6

\* Joining sequences of one element each.
LEMMA JoinedSingles ==
  ASSUME NEW S, NEW s \in Seq(S), NEW ss, ss = [k \in DOMAIN s |-> <<s[k]>>]
  PROVE  Joined(ss) = s
<1>1. PICK N \in Nat : N = Len(s) /\ DOMAIN s = 1 .. N
  OBVIOUS
<1>2. ss \in Seq(Seq(S)) /\ Len(ss) = N /\ \A k \in 1 .. N : ss[k] = <<s[k]>>
  BY <1>1
<1> DEFINE u == [n \in 0 .. N |-> SubSeq(s, 1, n)]
<1>3. \A n \in 0 .. N : SubSeq(s, 1, n) \in Seq(S) /\ Len(SubSeq(s, 1, n)) = n
  BY <1>1
<1>4. u \in [0 .. N -> Seq(S)] /\ u[0] = <<>>
  BY <1>3
<1>5. ASSUME NEW n \in 1 .. N PROVE u[n] = u[n - 1] \o ss[n]
  <2>1. n \in 0 .. N /\ n - 1 \in 0 .. N
    BY <1>1
  <2>2. SubSeq(s, 1, n) = SubSeq(s, 1, n - 1) \o <<s[n]>>
    BY <1>1
  <2> QED BY <1>2, <2>1, <2>2
<1>6. Joining(u, ss, S)
  BY <1>2, <1>4, <1>5 DEF Joining
<1>7. u[N] = s
  BY <1>1
<1> HIDE DEF u
<1> QED BY <1>2, <1>6, <1>7, JoinedAs

\* Joining one sequence more.
LEMMA JoinedAppend ==
  ASSUME NEW S, NEW ss \in Seq(Seq(S)), NEW s \in Seq(S)
  PROVE  /\ Joined(Append(ss, s)) = Joined(ss) \o s
         /\ Joined(ss) \in Seq(S)
<1>1. PICK u : Joining(u, ss, S) /\ Joined(ss) = u[Len(ss)]
  BY JoinedIs
<1>2. PICK N \in Nat : N = Len(ss)
  OBVIOUS
<1>3. PICK t : t = Append(ss, s)
  OBVIOUS
<1>4. /\ t \in Seq(Seq(S)) /\ Len(t) = N + 1 /\ t[N + 1] = s
      /\ \A k \in 1 .. N : t[k] = ss[k]
  BY <1>2, <1>3, SeqGrown
<1>5. u \in [0 .. N -> Seq(S)] /\ u[0] = <<>>
      /\ \A n \in 1 .. N : u[n] = u[n - 1] \o ss[n]
  BY <1>1, <1>2 DEF Joining
<1>6. u[N] \in Seq(S) /\ u[N] \o s \in Seq(S)
  BY <1>5
<1> DEFINE v == [n \in 0 .. N + 1 |-> IF n = N + 1 THEN u[N] \o s ELSE u[n]]
<1>7. v \in [0 .. N + 1 -> Seq(S)] /\ v[0] = <<>>
  BY <1>5, <1>6
<1>8. ASSUME NEW n \in 1 .. N + 1 PROVE v[n] = v[n - 1] \o t[n]
  <2>1. CASE n = N + 1
    <3>1. v[n] = u[N] \o s /\ v[n - 1] = u[N]
      BY <2>1
    <3> QED BY <1>4, <2>1, <3>1
  <2>2. CASE n # N + 1
    <3>1. n \in 1 .. N /\ n - 1 \in 0 .. N
      BY <2>2
    <3>2. v[n] = u[n] /\ v[n - 1] = u[n - 1]
      BY <3>1, <2>2
    <3> QED BY <1>4, <1>5, <3>1, <3>2
  <2> QED BY <2>1, <2>2
<1>9. Joining(v, t, S)
  BY <1>4, <1>7, <1>8 DEF Joining
<1>10. v[N + 1] = u[N] \o s
  OBVIOUS
<1> HIDE DEF v
<1> QED BY <1>1, <1>2, <1>3, <1>4, <1>6, <1>9, <1>10, JoinedAs

\* Joining the sequences of two lists.
LEMMA JoinedTwo ==
  ASSUME NEW S, NEW a \in Seq(Seq(S)), NEW b \in Seq(Seq(S))
  PROVE  Joined(a \o b) = Joined(a) \o Joined(b)
<1>1. PICK A, B \in Nat : A = Len(a) /\ B = Len(b)
  OBVIOUS
<1>2. PICK u : Joining(u, a, S) /\ Joined(a) = u[A]
  BY <1>1, JoinedIs
<1>3. PICK w : Joining(w, b, S) /\ Joined(b) = w[B]
  BY <1>1, JoinedIs
<1>4. /\ u \in [0 .. A -> Seq(S)] /\ u[0] = <<>>
      /\ \A n \in 1 .. A : u[n] = u[n - 1] \o a[n]
  BY <1>1, <1>2 DEF Joining
<1>5. /\ w \in [0 .. B -> Seq(S)] /\ w[0] = <<>>
      /\ \A n \in 1 .. B : w[n] = w[n - 1] \o b[n]
  BY <1>1, <1>3 DEF Joining
<1>6. PICK c : c = a \o b
  OBVIOUS
<1>7. /\ c \in Seq(Seq(S)) /\ Len(c) = A + B /\ (\A n \in 1 .. A : c[n] = a[n])
      /\ \A n \in 1 .. B : c[A + n] = b[n]
  BY <1>1, <1>6, SeqJoined
<1> DEFINE v == [n \in 0 .. A + B |-> IF n <= A THEN u[n] ELSE u[A] \o w[n - A]]
<1>8. v \in [0 .. A + B -> Seq(S)]
  <2>1. ASSUME NEW n \in 0 .. A + B PROVE v[n] \in Seq(S)
    <3>1. CASE n <= A
      BY <1>4, <3>1
    <3>2. CASE n > A
      <4>1. n - A \in 0 .. B /\ A \in 0 .. A
        BY <3>2
      <4>2. u[A] \in Seq(S) /\ w[n - A] \in Seq(S)
        BY <1>4, <1>5, <4>1
      <4> QED BY <3>2, <4>2
    <3> QED BY <3>1, <3>2
  <2> QED BY <2>1
<1>9. ASSUME NEW n \in 1 .. A + B PROVE v[n] = v[n - 1] \o c[n]
  <2>1. CASE n <= A
    <3>1. n \in 1 .. A /\ v[n] = u[n] /\ v[n - 1] = u[n - 1]
      BY <2>1
    <3> QED BY <1>4, <1>7, <3>1
  <2>2. CASE n > A
    <3>1. PICK m \in 1 .. B : m = n - A /\ n = A + m
      BY <2>2
    <3>2. c[n] = b[m] /\ v[n] = u[A] \o w[m] /\ w[m] = w[m - 1] \o b[m]
      <4>1. c[n] = b[m]
        BY <1>7, <3>1
      <4>2. v[n] = u[A] \o w[m]
        <5>1. n \in 0 .. A + B /\ ~ (n <= A)
          BY <2>2
        <5>2. v[n] = u[A] \o w[n - A]
          BY <5>1
        <5> QED BY <3>1, <5>2
      <4>3. w[m] = w[m - 1] \o b[m]
        BY <1>5
      <4> QED BY <4>1, <4>2, <4>3
    <3>3. PICK x \in Seq(S), y \in Seq(S), z \in Seq(S) : x = u[A] /\ y = w[m - 1] /\ z = b[m]
      <4>1. A \in 0 .. A /\ m - 1 \in 0 .. B
        OBVIOUS
      <4>2. u[A] \in Seq(S)
        BY <1>4, <4>1
      <4>3. w[m - 1] \in Seq(S)
        BY <1>5, <4>1
      <4>4. b[m] \in Seq(S)
        BY <1>1
      <4> QED BY <4>2, <4>3, <4>4
    <3>4. v[n - 1] = x \o y
      <4>1. CASE m = 1
        <5>1. n - 1 = A /\ m - 1 = 0
          BY <3>1, <4>1
        <5>2. v[A] = u[A]
          OBVIOUS
        <5>3. v[n - 1] = x /\ y = <<>>
          BY <1>5, <3>3, <5>1, <5>2
        <5>4. x = x \o <<>>
          OBVIOUS
        <5> QED BY <5>3, <5>4
      <4>2. CASE m # 1
        <5>1. n - 1 \in 0 .. A + B /\ ~ (n - 1 <= A) /\ (n - 1) - A = m - 1
          BY <3>1, <4>2
        <5>2. v[n - 1] = u[A] \o w[m - 1]
          BY <5>1
        <5> QED BY <3>3, <5>2
      <4> QED BY <4>1, <4>2
    <3>5. (x \o y) \o z = x \o (y \o z)
      OBVIOUS
    <3>6. v[n] = x \o (y \o z) /\ c[n] = z
      BY <3>2, <3>3
    <3> HIDE DEF v
    <3> QED BY <3>4, <3>5, <3>6
  <2>3. n <= A \/ n > A
    OBVIOUS
  <2> HIDE DEF v
  <2> QED BY <2>1, <2>2, <2>3, Zenon
<1>10. v[0] = <<>>
  BY <1>4
<1>11. v[A + B] = Joined(a) \o Joined(b)
  <2>1. CASE B = 0
    <3>1. w[B] = <<>> /\ v[A + B] = u[A] /\ u[A] \in Seq(S)
      BY <1>4, <1>5, <2>1
    <3> QED BY <1>2, <1>3, <3>1
  <2>2. CASE B # 0
    <3>1. A + B \in 0 .. A + B /\ ~ (A + B <= A) /\ (A + B) - A = B
      BY <2>2
    <3>2. v[A + B] = u[A] \o w[B]
      BY <3>1
    <3> QED BY <1>2, <1>3, <3>2
  <2> QED BY <2>1, <2>2
<1> HIDE DEF v
<1>12. Joining(v, c, S)
  BY <1>7, <1>8, <1>9, <1>10 DEF Joining
<1> QED BY <1>6, <1>7, <1>11, <1>12, JoinedAs

\* Joining what was joined, and joining each first.
LEMMA JoinedTwice ==
  ASSUME NEW S, NEW sss \in Seq(Seq(Seq(S)))
  PROVE  Joined(Joined(sss)) = Joined([j \in DOMAIN sss |-> Joined(sss[j])])
<1>1. PICK N \in Nat : N = Len(sss) /\ DOMAIN sss = 1 .. N
  OBVIOUS
<1>2. PICK v : Joining(v, sss, Seq(S)) /\ Joined(sss) = v[N]
  BY <1>1, JoinedIs
<1>3. /\ v \in [0 .. N -> Seq(Seq(S))] /\ v[0] = <<>>
      /\ \A n \in 1 .. N : v[n] = v[n - 1] \o sss[n]
  BY <1>1, <1>2 DEF Joining
<1>4. PICK ss : ss = [j \in DOMAIN sss |-> Joined(sss[j])]
  OBVIOUS
<1>5. ASSUME NEW x \in Seq(Seq(S)) PROVE Joined(x) \in Seq(S)
  BY JoinedIs, JoinedAs
<1>6. ss \in Seq(Seq(S)) /\ Len(ss) = N /\ \A n \in 1 .. N : ss[n] = Joined(sss[n])
  <2>1. \A n \in 1 .. N : sss[n] \in Seq(Seq(S))
    BY <1>1
  <2>2. \A n \in 1 .. N : Joined(sss[n]) \in Seq(S)
    BY <1>5, <2>1
  <2> QED BY <1>1, <1>4, <2>2
<1> DEFINE u == [n \in 0 .. N |-> Joined(v[n])]
<1>7. u \in [0 .. N -> Seq(S)]
  BY <1>3, <1>5
<1>8. u[0] = <<>>
  <2>1. Joined(<<>>) = <<>>
    <3>1. PICK e \in Seq(Seq(S)) : e = <<>> /\ Len(e) = 0
      <4>1. <<>> \in Seq(Seq(S)) /\ Len(<<>>) = 0
        OBVIOUS
      <4> QED BY <4>1
    <3>2. PICK w : Joining(w, e, S) /\ Joined(e) = w[Len(e)]
      BY JoinedIs
    <3> QED BY <3>1, <3>2 DEF Joining
  <2> QED BY <1>1, <1>3, <2>1
<1>9. ASSUME NEW n \in 1 .. N PROVE u[n] = u[n - 1] \o ss[n]
  <2>1. n \in 0 .. N /\ n - 1 \in 0 .. N
    BY <1>1
  <2>2. v[n - 1] \in Seq(Seq(S)) /\ sss[n] \in Seq(Seq(S)) /\ v[n] = v[n - 1] \o sss[n]
    <3>1. v[n - 1] \in Seq(Seq(S))
      BY <1>3, <2>1
    <3>2. sss[n] \in Seq(Seq(S))
      BY <1>1
    <3> QED BY <1>3, <3>1, <3>2
  <2>3. Joined(v[n - 1] \o sss[n]) = Joined(v[n - 1]) \o Joined(sss[n])
    BY <2>2, JoinedTwo
  <2>4. u[n] = Joined(v[n]) /\ u[n - 1] = Joined(v[n - 1])
    BY <2>1
  <2> QED BY <1>6, <2>2, <2>3, <2>4
<1>10. u[N] = Joined(v[N])
  BY <1>1
<1> HIDE DEF u
<1>11. Joining(u, ss, S)
  BY <1>6, <1>7, <1>8, <1>9 DEF Joining
<1>12. Joined(ss) = u[N]
  BY <1>6, <1>11, JoinedAs
<1> QED BY <1>2, <1>4, <1>10, <1>12

==============================================================================
