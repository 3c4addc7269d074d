----------------------------- MODULE IndexProofs ------------------------------
(***************************************************************************)
(* Proofs about Walk and Index, for every file: what the walk of a damaged *)
(* tree loses is in the list of problems, it loses nothing that healthy    *)
(* pages lead to, the lookups of a command line run go through the very    *)
(* index the run lists, a recovered index names whole blocks only and all  *)
(* there are, and "No damage found." is not said of damage that was met.   *)
(***************************************************************************)
EXTENDS Index, BasicLemmas, FiniteSetTheorems, TLAPS

Pending == [at : Nat, id : Nat, depth : Nat]

\* What the state of a walk is made of.
WalkTyped ==
  /\ file \in FILES
  /\ log \in [listed : Seq(Problems), count : Nat]
  /\ want \in {"none", "NBT", "BBT"}
  /\ todo \in Seq(Pending)
  /\ opened \in Seq(Nat)
  /\ Opened \subseteq DOMAIN file.pages

\* A page is opened at most once because it is seen before.
OnceEach ==
  /\ \A i, j \in 1 .. Len(opened) : opened[i] = opened[j] => i = j
  /\ Opened \subseteq seen

\* What is followed up or accounted for.
Told(at) ==
  \/ at \in Opened
  \/ \E k \in 1 .. Len(todo) : todo[k].at = at
  \/ \E k \in 1 .. Len(log.listed) : log.listed[k].at = at

NoneLost ==
  /\ want # "none" => Told(Root(want).at)
  /\ \A p \in Opened : ~ file.pages[p].leaf =>
       \A i \in 1 .. Len(file.pages[p].ents) : Told(file.pages[p].ents[i].at)

WalkInv == WalkTyped /\ OnceEach /\ NoneLost

-----------------------------------------------------------------------------
\* The files, and what is known of their branches.
LEMMA FileTyped ==
  ASSUME file \in FILES
  PROVE  /\ file.nbt \in Refs /\ file.bbt \in Refs
         /\ file.troubles \in Seq(Problems)
         /\ IsFiniteSet(DOMAIN file.pages)
         /\ \A kind : Root(kind) \in Refs
         /\ \A p \in DOMAIN file.pages :
              /\ file.pages[p].leaf \in BOOLEAN
              /\ ~ file.pages[p].leaf =>
                   /\ file.pages[p].ents \in Seq(Refs)
                   /\ DOMAIN file.pages[p].ents = 1 .. Len(file.pages[p].ents)
                   /\ Len(file.pages[p].ents) \in Nat
                   /\ \A i \in 1 .. Len(file.pages[p].ents) : file.pages[p].ents[i] \in Refs
  BY WalkAssumption DEF Root

\* A reference at a depth is something the walk can have pending.
LEMMA AtTyped ==
  ASSUME NEW r \in Refs, NEW d \in Nat
  PROVE  /\ At(r, d) \in Pending
         /\ At(r, d).at = r.at /\ At(r, d).id = r.id /\ At(r, d).depth = d
         /\ r.at \in Nat /\ r.id \in Nat
  BY DEF At, Pending, Refs

\* What may happen to the list of problems: nothing is taken off it.
Grown(l, m) ==
  \A k \in 1 .. Len(l.listed) : k \in 1 .. Len(m.listed) /\ m.listed[k] = l.listed[k]

\* A problem put on the list is there, and the list only grows.
LEMMA LogGrows ==
  ASSUME NEW l \in [listed : Seq(Problems), count : Nat], NEW p \in Problems
  PROVE  /\ Pushed(l, p) \in [listed : Seq(Problems), count : Nat]
         /\ Warned(l, p) \in [listed : Seq(Problems), count : Nat]
         /\ Grown(l, Pushed(l, p)) /\ Grown(l, Warned(l, p))
         /\ \E k \in 1 .. Len(Pushed(l, p).listed) : Pushed(l, p).listed[k] = p
         /\ Len(Warned(l, p).listed) >= Len(l.listed)
         /\ Len(Warned(l, p).listed) > 0
<1>1. /\ l.listed \in Seq(Problems) /\ l.count \in Nat /\ Len(l.listed) \in Nat
      /\ MAX_WARNINGS \in Nat
  BY WalkAssumption
<1>2. Problem("more", 0) \in Problems
  BY DEF Problem, Problems
<1>3. /\ Append(l.listed, p) \in Seq(Problems)
      /\ Append(l.listed, Problem("more", 0)) \in Seq(Problems)
      /\ Len(Append(l.listed, p)) = Len(l.listed) + 1
      /\ Len(Append(l.listed, Problem("more", 0))) = Len(l.listed) + 1
      /\ Append(l.listed, p)[Len(l.listed) + 1] = p
      /\ \A k \in 1 .. Len(l.listed) :
           /\ Append(l.listed, p)[k] = l.listed[k]
           /\ Append(l.listed, Problem("more", 0))[k] = l.listed[k]
  BY <1>1, <1>2
<1>4. /\ Pushed(l, p).listed = Append(l.listed, p) /\ Pushed(l, p).count = l.count
      /\ Pushed(l, p) \in [listed : Seq(Problems), count : Nat]
  BY <1>1, <1>3 DEF Pushed
<1>5. /\ Warned(l, p) \in [listed : Seq(Problems), count : Nat]
      /\ \/ Warned(l, p).listed = Append(l.listed, p)
         \/ Warned(l, p).listed = Append(l.listed, Problem("more", 0))
         \/ Warned(l, p).listed = l.listed /\ Len(l.listed) > MAX_WARNINGS
  <2>1. CASE Len(l.listed) < MAX_WARNINGS
    BY <2>1, <1>1, <1>3 DEF Warned
  <2>2. CASE Len(l.listed) = MAX_WARNINGS
    BY <2>2, <1>1, <1>3 DEF Warned
  <2>3. CASE Len(l.listed) > MAX_WARNINGS
    BY <2>3, <1>1, <1>3 DEF Warned
  <2> QED BY <2>1, <2>2, <2>3, <1>1
<1>6. /\ \A k \in 1 .. Len(l.listed) : k \in 1 .. Len(Warned(l, p).listed)
                                       /\ Warned(l, p).listed[k] = l.listed[k]
      /\ Len(Warned(l, p).listed) >= Len(l.listed)
      /\ Len(Warned(l, p).listed) > 0
  BY <1>1, <1>3, <1>5
<1>7. /\ \A k \in 1 .. Len(l.listed) : k \in 1 .. Len(Pushed(l, p).listed)
                                       /\ Pushed(l, p).listed[k] = l.listed[k]
      /\ \E k \in 1 .. Len(Pushed(l, p).listed) : Pushed(l, p).listed[k] = p
  BY <1>1, <1>3, <1>4
<1>8. Grown(l, Pushed(l, p)) /\ Grown(l, Warned(l, p))
  BY <1>6, <1>7 DEF Grown
<1> QED BY <1>4, <1>5, <1>6, <1>7, <1>8

-----------------------------------------------------------------------------
\* The reference that is followed next, and those after it.
LEMMA HeadTyped ==
  ASSUME todo \in Seq(Pending), todo # <<>>
  PROVE  /\ Here \in Pending /\ Here = todo[1] /\ Len(todo) \in Nat \ {0}
         /\ Tail(todo) \in Seq(Pending) /\ Len(Tail(todo)) = Len(todo) - 1
         /\ \A k \in 2 .. Len(todo) : /\ k - 1 \in 1 .. Len(Tail(todo))
                                      /\ Tail(todo)[k - 1] = todo[k]
         /\ \A k \in 1 .. Len(Tail(todo)) : Tail(todo)[k] = todo[k + 1]
         /\ Here.at \in Nat /\ Here.id \in Nat /\ Here.depth \in Nat
<1>1. /\ Len(todo) \in Nat \ {0} /\ todo[1] \in Pending /\ Head(todo) = todo[1]
  OBVIOUS
<1>2. /\ Tail(todo) \in Seq(Pending) /\ Len(Tail(todo)) = Len(todo) - 1
      /\ \A k \in 1 .. Len(todo) - 1 : Tail(todo)[k] = todo[k + 1]
  BY <1>1
<1> QED BY <1>1, <1>2 DEF Here, Pending

\* A step that settles the reference it takes keeps the account of all others.
LEMMA Followed ==
  ASSUME WalkInv, UNCHANGED <<file, want>>, todo # <<>>, Grown(log, log'),
         \A k \in 2 .. Len(todo) : \E j \in 1 .. Len(todo') : todo'[j] = todo[k],
         Opened \subseteq Opened',
         NEW h, h = Here.at, Told(h)',
         \A p \in Opened' \ Opened : ~ file.pages[p].leaf =>
           \A i \in 1 .. Len(file.pages[p].ents) : Told(file.pages[p].ents[i].at)'
  PROVE  NoneLost'
<1>1. ASSUME NEW x, Told(x)
      PROVE  Told(x)'
  <2>1. CASE x \in Opened
    BY <2>1 DEF Told
  <2>2. CASE \E k \in 1 .. Len(log.listed) : log.listed[k].at = x
    <3>1. PICK k \in 1 .. Len(log.listed) : log.listed[k].at = x
      BY <2>2
    <3>2. k \in 1 .. Len(log'.listed) /\ log'.listed[k] = log.listed[k]
      BY <3>1 DEF Grown
    <3>3. \E j \in 1 .. Len(log'.listed) : log'.listed[j].at = x
      BY <3>1, <3>2
    <3> QED BY <3>3 DEF Told
  <2>3. CASE \E k \in 1 .. Len(todo) : todo[k].at = x
    <3>1. PICK k \in 1 .. Len(todo) : todo[k].at = x
      BY <2>3
    <3>2. CASE k = 1
      BY <3>1, <3>2, HeadTyped DEF WalkInv, WalkTyped
    <3>3. CASE k # 1
      <4>1. k \in 2 .. Len(todo)
        BY <3>1, <3>3, HeadTyped DEF WalkInv, WalkTyped
      <4>2. PICK j \in 1 .. Len(todo') : todo'[j] = todo[k]
        BY <4>1
      <4> QED BY <3>1, <4>2 DEF Told
    <3> QED BY <3>2, <3>3
  <2> QED BY <1>1, <2>1, <2>2, <2>3 DEF Told
<1>2. want' # "none" => Told(Root(want).at)'
  <2>1. SUFFICES ASSUME want # "none"
                 PROVE  Told(Root(want).at)'
    OBVIOUS
  <2>2. Root(want)' = Root(want)
    BY DEF Root
  <2>3. Told(Root(want).at)
    BY <2>1 DEF WalkInv, NoneLost
  <2> DEFINE x == Root(want).at
  <2>4. Told(x)'
    <3> HIDE DEF x
    <3>1. PICK y : y = x OBVIOUS
    <3> QED BY <1>1, <2>2, <2>3, <3>1 DEF x, Told
  <2> QED BY <2>4
<1> QED BY <1>1, <1>2 DEF WalkInv, NoneLost

-----------------------------------------------------------------------------
\* What is recorded of a page is a problem with its place.
LEMMA ProblemTyped ==
  ASSUME NEW at \in Nat,
         NEW what \in {"checksum", "deep", "loop", "unreadable", "unusable", "length"}
  PROVE  Problem(what, at) \in Problems /\ Problem(what, at).at = at
  BY DEF Problem, Problems

\* A list that has grown twice has grown.
LEMMA GrownTwice ==
  ASSUME NEW l, NEW m, NEW n, Grown(l, m), Grown(m, n)
  PROVE  Grown(l, n)
  BY DEF Grown

\* The log a page leaves: as it was if the page is sound, else longer.
LEMMA PageLogged ==
  ASSUME log \in [listed : Seq(Problems), count : Nat], NEW at \in Nat
  PROVE  /\ LogOfPage(at) \in [listed : Seq(Problems), count : Nat]
         /\ Grown(log, LogOfPage(at))
         /\ ~ file.pages[at].sound => Len(LogOfPage(at).listed) > 0
<1>1. Problem("checksum", at) \in Problems
  BY ProblemTyped
<1>2. /\ Warned(log, Problem("checksum", at)) \in [listed : Seq(Problems), count : Nat]
      /\ Grown(log, Warned(log, Problem("checksum", at)))
      /\ Len(Warned(log, Problem("checksum", at)).listed) > 0
  BY <1>1, LogGrows
<1>3. Grown(log, log)
  BY DEF Grown
<1> QED BY <1>2, <1>3 DEF LogOfPage

\* A page is not taken: the problem says where.
LEMMA PassedOver ==
  ASSUME WalkInv, todo # <<>>, UNCHANGED <<file, want, opened>>, todo' = Tail(todo),
         seen \subseteq seen',
         NEW what \in {"checksum", "deep", "loop", "unreadable", "unusable", "length"},
         NEW l \in [listed : Seq(Problems), count : Nat], Grown(log, l),
         log' = Pushed(l, Problem(what, Here.at))
  PROVE  WalkInv'
<1>1. /\ Here \in Pending /\ Here.at \in Nat
      /\ Tail(todo) \in Seq(Pending)
      /\ \A k \in 2 .. Len(todo) : /\ k - 1 \in 1 .. Len(Tail(todo))
                                   /\ Tail(todo)[k - 1] = todo[k]
  BY HeadTyped DEF WalkInv, WalkTyped
<1> DEFINE q == Problem(what, Here.at)
<1>2. q \in Problems /\ q.at = Here.at
  BY <1>1, ProblemTyped
<1>3. /\ log' \in [listed : Seq(Problems), count : Nat]
      /\ Grown(l, log')
      /\ \E k \in 1 .. Len(log'.listed) : log'.listed[k] = q
  <2>1. PICK p : p = q
    OBVIOUS
  <2>2. p \in Problems /\ log' = Pushed(l, p)
    BY <1>2, <2>1
  <2>3. /\ Pushed(l, p) \in [listed : Seq(Problems), count : Nat]
        /\ Grown(l, Pushed(l, p))
        /\ \E k \in 1 .. Len(Pushed(l, p).listed) : Pushed(l, p).listed[k] = p
    BY <2>2, LogGrows
  <2> QED BY <2>1, <2>2, <2>3
<1>4. Grown(log, log')
  BY <1>3, GrownTwice
<1>5. Opened' = Opened
  BY DEF Opened
<1>6. \E k \in 1 .. Len(log'.listed) : log'.listed[k].at = Here.at
  BY <1>2, <1>3
<1>7. PICK h : h = Here.at
  OBVIOUS
<1>8. Told(h)'
  BY <1>6, <1>7 DEF Told
<1>9. \A k \in 2 .. Len(todo) : \E j \in 1 .. Len(todo') : todo'[j] = todo[k]
  BY <1>1
<1>10. NoneLost'
  BY <1>4, <1>5, <1>7, <1>8, <1>9, Followed
<1>11. WalkTyped'
  BY <1>1, <1>3, <1>5 DEF WalkInv, WalkTyped
<1>12. OnceEach'
  BY <1>5 DEF WalkInv, OnceEach
<1> QED BY <1>10, <1>11, <1>12 DEF WalkInv

\* A page is taken: it is at the end of the list, and nowhere before.
LEMMA TakenOnce ==
  ASSUME WalkInv, todo # <<>>, UNCHANGED file, Here.at \notin seen,
         Here.at \in DOMAIN file.pages,
         seen' = seen \union {Here.at}, opened' = Append(opened, Here.at)
  PROVE  /\ OnceEach'
         /\ opened' \in Seq(Nat)
         /\ Opened' = Opened \union {Here.at}
         /\ Opened' \subseteq DOMAIN file'.pages
<1>1. Here.at \in Nat
  BY HeadTyped DEF WalkInv, WalkTyped
<1>2. /\ opened \in Seq(Nat) /\ Len(opened) \in Nat /\ opened' \in Seq(Nat)
      /\ Len(opened') = Len(opened) + 1
      /\ opened'[Len(opened) + 1] = Here.at
      /\ \A i \in 1 .. Len(opened) : opened'[i] = opened[i]
      /\ DOMAIN opened = 1 .. Len(opened) /\ DOMAIN opened' = 1 .. Len(opened) + 1
  BY <1>1 DEF WalkInv, WalkTyped
<1>3. Opened' = Opened \union {Here.at}
  BY <1>2 DEF Opened, ToSet
<1>4. \A i \in 1 .. Len(opened) : opened[i] \in Opened
  BY <1>2 DEF Opened, ToSet
<1>5. \A i \in 1 .. Len(opened) : opened[i] # Here.at
  BY <1>4 DEF WalkInv, OnceEach
<1>6. ASSUME NEW i \in 1 .. Len(opened'), NEW j \in 1 .. Len(opened'),
             opened'[i] = opened'[j]
      PROVE  i = j
  BY <1>2, <1>5, <1>6 DEF WalkInv, OnceEach
<1>7. Opened' \subseteq seen'
  BY <1>3 DEF WalkInv, OnceEach
<1>8. Opened' \subseteq DOMAIN file'.pages
  BY <1>3 DEF WalkInv, WalkTyped
<1> QED BY <1>2, <1>3, <1>6, <1>7, <1>8 DEF OnceEach

\* A leaf hands over its entries and leaves what was pending beneath it.
LEMMA LeafKeeps ==
  ASSUME WalkInv, Leaf
  PROVE  WalkInv'
<1>1. /\ todo # <<>> /\ UNCHANGED <<file, want>> /\ Here.at \notin seen
      /\ Here.at \in DOMAIN file.pages /\ file.pages[Here.at].leaf
      /\ seen' = seen \union {Here.at} /\ opened' = Append(opened, Here.at)
      /\ todo' = Tail(todo) /\ log' = LogOfPage(Here.at)
  BY DEF Leaf, Fresh, Visiting, ReadsAs, Skip
<1>2. /\ Here.at \in Nat
      /\ Tail(todo) \in Seq(Pending)
      /\ \A k \in 2 .. Len(todo) : /\ k - 1 \in 1 .. Len(Tail(todo))
                                   /\ Tail(todo)[k - 1] = todo[k]
  BY <1>1, HeadTyped DEF WalkInv, WalkTyped
<1>3. /\ OnceEach' /\ opened' \in Seq(Nat)
      /\ Opened' = Opened \union {Here.at}
      /\ Opened' \subseteq DOMAIN file'.pages
  BY <1>1, TakenOnce
<1>4. /\ log' \in [listed : Seq(Problems), count : Nat] /\ Grown(log, log')
  BY <1>1, <1>2, PageLogged DEF WalkInv, WalkTyped
<1>5. PICK h : h = Here.at
  OBVIOUS
<1>6. Told(h)'
  BY <1>3, <1>5 DEF Told
<1>7. \A k \in 2 .. Len(todo) : \E j \in 1 .. Len(todo') : todo'[j] = todo[k]
  BY <1>1, <1>2
<1>8. \A p \in Opened' \ Opened : ~ file.pages[p].leaf =>
        \A i \in 1 .. Len(file.pages[p].ents) : Told(file.pages[p].ents[i].at)'
  BY <1>1, <1>3
<1>9. NoneLost'
  BY <1>1, <1>3, <1>4, <1>5, <1>6, <1>7, <1>8, Followed
<1>10. WalkTyped'
  BY <1>1, <1>2, <1>3, <1>4 DEF WalkInv, WalkTyped
<1> QED BY <1>3, <1>9, <1>10 DEF WalkInv

\* Where the elements of two sequences are when one follows the other.
Join(a, b, u) ==
  /\ \A i \in 1 .. Len(a) : i \in 1 .. Len(u) /\ u[i] = a[i]
  /\ \A k \in 1 .. Len(b) : \E j \in 1 .. Len(u) : u[j] = b[k]
  /\ \A j \in 1 .. Len(u) : \/ \E i \in 1 .. Len(a) : u[j] = a[i]
                            \/ \E k \in 1 .. Len(b) : u[j] = b[k]

\* What is put behind another sequence follows it.
LEMMA JoinedParts ==
  ASSUME NEW S, NEW a \in Seq(S), NEW b \in Seq(S)
  PROVE  a \o b \in Seq(S) /\ Join(a, b, a \o b)
<1>1. /\ Len(a) \in Nat /\ Len(b) \in Nat
      /\ a \o b \in Seq(S) /\ Len(a \o b) = Len(a) + Len(b)
      /\ \A j \in 1 .. Len(a) + Len(b) :
           (a \o b)[j] = IF j <= Len(a) THEN a[j] ELSE b[j - Len(a)]
  OBVIOUS
<1>2. \A k \in 1 .. Len(b) : (Len(a) + k) - Len(a) = k
  BY <1>1
<1>3. ASSUME NEW k \in 1 .. Len(b)
      PROVE  Len(a) + k \in 1 .. Len(a \o b) /\ (a \o b)[Len(a) + k] = b[k]
  <2>1. Len(a) + k \in 1 .. Len(a) + Len(b) /\ ~ (Len(a) + k <= Len(a))
    BY <1>1
  <2> QED BY <1>1, <1>2, <2>1
<1>4. ASSUME NEW j \in 1 .. Len(a \o b)
      PROVE  \/ \E i \in 1 .. Len(a) : (a \o b)[j] = a[i]
             \/ \E k \in 1 .. Len(b) : (a \o b)[j] = b[k]
  <2>1. CASE j <= Len(a)
    BY <2>1, <1>1
  <2>2. CASE j > Len(a)
    <3>1. j - Len(a) \in 1 .. Len(b) /\ (a \o b)[j] = b[j - Len(a)]
      BY <2>2, <1>1
    <3> QED BY <3>1
  <2> QED BY <2>1, <2>2, <1>1
<1>5. \A k \in 1 .. Len(b) : \E j \in 1 .. Len(a \o b) : (a \o b)[j] = b[k]
  BY <1>3
<1>6. \A i \in 1 .. Len(a) : i \in 1 .. Len(a \o b) /\ (a \o b)[i] = a[i]
  BY <1>1
<1> QED BY <1>1, <1>4, <1>5, <1>6 DEF Join

\* The list after a branch: its children, then what was still to follow.
ChildrenFirst(es, d, t, u) ==
  /\ \A i \in 1 .. Len(es) : i \in 1 .. Len(u) /\ u[i] = At(es[i], d)
  /\ \A k \in 2 .. Len(t) : \E j \in 1 .. Len(u) : u[j] = t[k]
  /\ \A j \in 1 .. Len(u) : \/ \E k \in 2 .. Len(t) : u[j] = t[k]
                            \/ \E i \in 1 .. Len(es) : u[j] = At(es[i], d)

\* The children of a branch are pending before all that was pending with it.
LEMMA PutFirst ==
  ASSUME NEW es \in Seq(Refs), NEW d \in Nat, NEW t \in Seq(Pending), t # <<>>
  PROVE  /\ [i \in DOMAIN es |-> At(es[i], d)] \o Tail(t) \in Seq(Pending)
         /\ ChildrenFirst(es, d, t, [i \in DOMAIN es |-> At(es[i], d)] \o Tail(t))
<1> DEFINE new == [i \in DOMAIN es |-> At(es[i], d)]
           rest == Tail(t)
           u == new \o rest
<1>1. /\ rest \in Seq(Pending) /\ Len(rest) = Len(t) - 1 /\ Len(t) \in Nat \ {0}
      /\ \A k \in 1 .. Len(rest) : rest[k] = t[k + 1]
  OBVIOUS
<1>2. \A k \in 2 .. Len(t) : k - 1 \in 1 .. Len(rest) /\ (k - 1) + 1 = k
  BY <1>1
<1>3. DOMAIN es = 1 .. Len(es) /\ Len(es) \in Nat /\ \A i \in 1 .. Len(es) : es[i] \in Refs
  OBVIOUS
<1>4. /\ new \in Seq(Pending) /\ Len(new) = Len(es)
      /\ \A i \in 1 .. Len(es) : new[i] = At(es[i], d)
  BY <1>3, AtTyped
<1> HIDE DEF new, rest
<1>5. u \in Seq(Pending) /\ Join(new, rest, u)
  BY <1>1, <1>4, JoinedParts
<1> HIDE DEF u
<1>6. \A i \in 1 .. Len(es) : i \in 1 .. Len(u) /\ u[i] = At(es[i], d)
  BY <1>4, <1>5 DEF Join
<1>7. ASSUME NEW k \in 2 .. Len(t)
      PROVE  \E j \in 1 .. Len(u) : u[j] = t[k]
  <2>1. k - 1 \in 1 .. Len(rest) /\ rest[k - 1] = t[k]
    BY <1>1, <1>2
  <2> QED BY <1>5, <2>1 DEF Join
<1>8. ASSUME NEW j \in 1 .. Len(u)
      PROVE  \/ \E k \in 2 .. Len(t) : u[j] = t[k]
             \/ \E i \in 1 .. Len(es) : u[j] = At(es[i], d)
  <2>1. CASE \E i \in 1 .. Len(new) : u[j] = new[i]
    BY <2>1, <1>4
  <2>2. CASE \E k \in 1 .. Len(rest) : u[j] = rest[k]
    <3>1. PICK m \in 1 .. Len(rest) : u[j] = rest[m]
      BY <2>2
    <3>2. m + 1 \in 2 .. Len(t) /\ u[j] = t[m + 1]
      BY <1>1, <3>1
    <3> QED BY <3>2
  <2> QED BY <2>1, <2>2, <1>5 DEF Join
<1>9. ChildrenFirst(es, d, t, u)
  BY <1>6, <1>7, <1>8 DEF ChildrenFirst
<1> QED BY <1>5, <1>9 DEF u, new, rest

\* A branch puts its children in its own place.
LEMMA BranchKeeps ==
  ASSUME WalkInv, Branch
  PROVE  WalkInv'
<1>1. /\ todo # <<>> /\ UNCHANGED <<file, want>> /\ Here.at \notin seen
      /\ Here.at \in DOMAIN file.pages /\ ~ file.pages[Here.at].leaf
      /\ seen' = seen \union {Here.at} /\ opened' = Append(opened, Here.at)
      /\ todo' = [i \in DOMAIN file.pages[Here.at].ents |->
                    At(file.pages[Here.at].ents[i], Here.depth + 1)] \o Tail(todo)
      /\ log' = LogOfPage(Here.at)
  BY DEF Branch, Fresh, Visiting, ReadsAs
<1>2. /\ Here.at \in Nat /\ Here.depth + 1 \in Nat
  BY <1>1, HeadTyped DEF WalkInv, WalkTyped
<1>3. /\ OnceEach' /\ opened' \in Seq(Nat)
      /\ Opened' = Opened \union {Here.at}
      /\ Opened' \subseteq DOMAIN file'.pages
  BY <1>1, TakenOnce
<1>4. /\ log' \in [listed : Seq(Problems), count : Nat] /\ Grown(log, log')
  BY <1>1, <1>2, PageLogged DEF WalkInv, WalkTyped
<1>5. PICK h : h = Here.at
  OBVIOUS
<1>6. Told(h)'
  BY <1>3, <1>5 DEF Told
<1>7. /\ todo' \in Seq(Pending)
      /\ \A i \in 1 .. Len(file.pages[Here.at].ents) :
           /\ i \in 1 .. Len(todo')
           /\ todo'[i] = At(file.pages[Here.at].ents[i], Here.depth + 1)
      /\ \A k \in 2 .. Len(todo) : \E j \in 1 .. Len(todo') : todo'[j] = todo[k]
  <2>1. file.pages[Here.at].ents \in Seq(Refs) /\ todo \in Seq(Pending)
    BY <1>1, FileTyped DEF WalkInv, WalkTyped
  <2>2. PICK es : es = file.pages[Here.at].ents
    OBVIOUS
  <2>3. PICK d : d = Here.depth + 1
    OBVIOUS
  <2>4. es \in Seq(Refs) /\ d \in Nat
    BY <1>2, <2>1, <2>2, <2>3
  <2>5. todo' = [i \in DOMAIN es |-> At(es[i], d)] \o Tail(todo)
    BY <1>1, <2>2, <2>3
  <2>6. todo' \in Seq(Pending) /\ ChildrenFirst(es, d, todo, todo')
    BY <1>1, <2>1, <2>4, <2>5, PutFirst
  <2> QED BY <2>2, <2>3, <2>6 DEF ChildrenFirst
<1>8. ASSUME NEW p \in Opened' \ Opened, ~ file.pages[p].leaf,
             NEW i \in 1 .. Len(file.pages[p].ents)
      PROVE  Told(file.pages[p].ents[i].at)'
  <2>1. p = Here.at
    BY <1>3
  <2>2. file.pages[p].ents[i] \in Refs
    BY <1>1, <2>1, FileTyped DEF WalkInv, WalkTyped
  <2>3. i \in 1 .. Len(todo') /\ todo'[i].at = file.pages[p].ents[i].at
    BY <1>2, <1>7, <2>1, <2>2, AtTyped
  <2> QED BY <1>1, <2>3 DEF Told
<1>9. NoneLost'
  BY <1>1, <1>3, <1>4, <1>5, <1>6, <1>7, <1>8, Followed
<1>10. WalkTyped'
  BY <1>1, <1>3, <1>4, <1>7 DEF WalkInv, WalkTyped
<1> QED BY <1>3, <1>9, <1>10 DEF WalkInv

\* One visit of the walk keeps the account.
LEMMA VisitKeeps ==
  ASSUME WalkInv, Visit
  PROVE  WalkInv'
<1>1. log \in [listed : Seq(Problems), count : Nat] /\ Grown(log, log)
  BY DEF WalkInv, WalkTyped, Grown
<1>2. CASE TooDeep
  BY <1>1, <1>2, PassedOver DEF TooDeep, Visiting, Skip
<1>3. CASE LoopsBack
  BY <1>1, <1>3, PassedOver DEF LoopsBack, Visiting, Skip
<1>4. CASE Unreadable
  BY <1>1, <1>4, PassedOver DEF Unreadable, Fresh, Visiting, Skip
<1>5. CASE Unusable
  <2>1. todo # <<>> /\ Here.at \in Nat
    BY <1>5, HeadTyped DEF Unusable, Fresh, Visiting, WalkInv, WalkTyped
  <2>2. PICK l : l = LogOfPage(Here.at)
    OBVIOUS
  <2>3. l \in [listed : Seq(Problems), count : Nat] /\ Grown(log, l)
    BY <1>1, <2>1, <2>2, PageLogged
  <2> QED BY <1>5, <2>2, <2>3, PassedOver DEF Unusable, Fresh, Visiting, Skip
<1>6. CASE Leaf
  BY <1>6, LeafKeeps
<1>7. CASE Branch
  BY <1>7, BranchKeeps
<1> QED BY <1>2, <1>3, <1>4, <1>5, <1>6, <1>7 DEF Visit

\* A walk begins with the root, whatever the log says.
LEMMA BeginKeeps ==
  ASSUME file \in FILES, UNCHANGED file, log' \in [listed : Seq(Problems), count : Nat],
         NEW kind \in {"NBT", "BBT"}, BeginWalk(kind)
  PROVE  WalkInv'
<1>1. want' = kind /\ todo' = <<At(Root(kind), 0)>> /\ seen' = {} /\ opened' = <<>>
  BY DEF BeginWalk
<1>2. PICK r : r = Root(kind)
  OBVIOUS
<1>3. r \in Refs
  BY <1>2, FileTyped
<1>4. PICK t : t = At(r, 0)
  OBVIOUS
<1>5. t \in Pending /\ t.at = r.at
  BY <1>3, <1>4, AtTyped
<1>6. todo' = <<t>> /\ todo' \in Seq(Pending) /\ Len(todo') = 1 /\ todo'[1] = t
  BY <1>1, <1>2, <1>4, <1>5
<1>7. Opened' = {}
  BY <1>1 DEF Opened, ToSet
<1>8. Root(want)' = r
  BY <1>1, <1>2 DEF Root
<1>9. \E k \in 1 .. Len(todo') : todo'[k].at = r.at
  BY <1>5, <1>6
<1>10. NoneLost'
  BY <1>7, <1>8, <1>9 DEF NoneLost, Told
<1>11. OnceEach'
  BY <1>1, <1>7 DEF OnceEach
<1>12. WalkTyped'
  BY <1>1, <1>6, <1>7 DEF WalkTyped
<1> QED BY <1>10, <1>11, <1>12 DEF WalkInv

\* A step that leaves the walk alone takes no problem off the list.
LEMMA RestKeeps ==
  ASSUME WalkInv, UNCHANGED <<file, walk>>,
         log' \in [listed : Seq(Problems), count : Nat], Grown(log, log')
  PROVE  WalkInv'
<1>1. UNCHANGED <<want, todo, seen, opened>> /\ Opened' = Opened
  BY DEF walk, Opened
<1>2. WalkTyped'
  BY <1>1 DEF WalkInv, WalkTyped
<1>3. OnceEach'
  BY <1>1 DEF WalkInv, OnceEach
<1>4. ASSUME NEW x, Told(x)
      PROVE  Told(x)'
  BY <1>1, <1>4 DEF Told, Grown
<1>5. Root(want)' = Root(want)
  BY <1>1 DEF Root
<1>6. PICK x : x = Root(want).at
  OBVIOUS
<1>7. want' # "none" => Told(x)'
  BY <1>1, <1>4, <1>6 DEF WalkInv, NoneLost
<1>8. want' # "none" => Told(Root(want).at)'
  BY <1>5, <1>6, <1>7 DEF Told
<1>9. NoneLost'
  BY <1>1, <1>4, <1>8 DEF WalkInv, NoneLost
<1> QED BY <1>2, <1>3, <1>9 DEF WalkInv

-----------------------------------------------------------------------------
\* Where x is named by an entry of a branch.
NamedAs(x) ==
  UNION {{<<p, i>> : i \in {i \in DOMAIN file.pages[p].ents : file.pages[p].ents[i].at = x}} :
         p \in {p \in DOMAIN file.pages : ~ file.pages[p].leaf}}
RootedAs(x) == {k \in {"NBT", "BBT"} : Root(k).at = x}

\* The references to a page, from pages and from the roots, can be counted.
LEMMA NamedFinite ==
  ASSUME file \in FILES, NEW x
  PROVE  /\ IsFiniteSet(NamedAs(x)) /\ IsFiniteSet(RootedAs(x))
         /\ Named(x) = Cardinality(NamedAs(x)) + Cardinality(RootedAs(x))
<1> DEFINE I(p) == {i \in DOMAIN file.pages[p].ents : file.pages[p].ents[i].at = x}
           B == {p \in DOMAIN file.pages : ~ file.pages[p].leaf}
           S == {{<<p, i>> : i \in I(p)} : p \in B}
<1>1. IsFiniteSet(B)
  <2>1. IsFiniteSet(DOMAIN file.pages) /\ B \subseteq DOMAIN file.pages
    BY FileTyped
  <2> HIDE DEF B
  <2> QED BY <2>1, FS_Subset
<1>2. ASSUME NEW p \in B
      PROVE  IsFiniteSet({<<p, i>> : i \in I(p)})
  <2>1. /\ DOMAIN file.pages[p].ents = 1 .. Len(file.pages[p].ents)
        /\ Len(file.pages[p].ents) \in Nat
    BY FileTyped
  <2>2. IsFiniteSet(1 .. Len(file.pages[p].ents))
    BY <2>1, FS_Interval
  <2>3. IsFiniteSet(I(p))
    BY <2>1, <2>2, FS_Subset
  <2> DEFINE J == I(p)
             T == {<<p, i>> : i \in J}
             f == [i \in J |-> <<p, i>>]
  <2>4. f \in Surjection(J, T)
    BY DEF Surjection
  <2> HIDE DEF J, T, f
  <2>5. IsFiniteSet(J)
    BY <2>3 DEF J
  <2>6. IsFiniteSet(T)
    BY <2>4, <2>5, FS_Surjection
  <2> QED BY <2>6 DEF T, J
<1>3. IsFiniteSet(S)
  <2> DEFINE F(p) == {<<p, i>> : i \in I(p)}
             f == [p \in B |-> F(p)]
  <2>1. f \in Surjection(B, S)
    <3> HIDE DEF B, F
    <3>1. S = {F(p) : p \in B}
      BY DEF F
    <3> HIDE DEF S
    <3> QED BY <3>1 DEF Surjection
  <2> HIDE DEF f, B, S
  <2> QED BY <1>1, <2>1, FS_Surjection
<1>4. \A s \in S : IsFiniteSet(s)
  BY <1>2
<1>5. IsFiniteSet(UNION S)
  <2> HIDE DEF S
  <2> QED BY <1>3, <1>4, FS_UNION
<1>6. NamedAs(x) = UNION S
  BY DEF NamedAs
<1>7. IsFiniteSet(RootedAs(x))
  <2>1. IsFiniteSet({"NBT", "BBT"})
    <3>1. /\ IsFiniteSet({}) /\ IsFiniteSet({} \union {"NBT"})
          /\ IsFiniteSet(({} \union {"NBT"}) \union {"BBT"})
      BY FS_EmptySet, FS_AddElement
    <3> QED BY <3>1
  <2>2. RootedAs(x) \subseteq {"NBT", "BBT"}
    BY DEF RootedAs
  <2> QED BY <2>1, <2>2, FS_Subset
<1>8. Named(x) = Cardinality(NamedAs(x)) + Cardinality(RootedAs(x))
  BY DEF Named, NamedAs, RootedAs
<1> QED BY <1>5, <1>6, <1>7, <1>8

\* A set of at most one element.
LEMMA AtMostOne ==
  ASSUME NEW S, IsFiniteSet(S), Cardinality(S) <= 1, NEW x \in S, NEW y \in S
  PROVE  x = y
<1>1. SUFFICES ASSUME x # y PROVE FALSE
  OBVIOUS
<1>2. /\ IsFiniteSet({x}) /\ Cardinality({x}) = 1
  BY FS_Singleton
<1>3. Cardinality({x} \union {y}) = 2 /\ IsFiniteSet({x} \union {y})
  BY <1>1, <1>2, FS_AddElement
<1>4. {x} \union {y} \subseteq S
  OBVIOUS
<1>5. Cardinality({x} \union {y}) <= Cardinality(S)
  BY <1>4, FS_Subset
<1>6. Cardinality(S) \in Nat
  BY FS_CardinalityType
<1> QED BY <1>3, <1>5, <1>6

\* A page named once is named by one entry, or by one root.
LEMMA NamedOnce ==
  ASSUME file \in FILES, NEW x, Named(x) = 1
  PROVE  /\ \A p, q \in DOMAIN file.pages : ~ file.pages[p].leaf /\ ~ file.pages[q].leaf =>
              \A i \in DOMAIN file.pages[p].ents, j \in DOMAIN file.pages[q].ents :
                file.pages[p].ents[i].at = x /\ file.pages[q].ents[j].at = x
                  => p = q /\ i = j
         /\ \A k \in {"NBT", "BBT"} : Root(k).at = x =>
              \A p \in DOMAIN file.pages : ~ file.pages[p].leaf =>
                \A i \in DOMAIN file.pages[p].ents : file.pages[p].ents[i].at # x
<1>1. /\ IsFiniteSet(NamedAs(x)) /\ IsFiniteSet(RootedAs(x))
      /\ Cardinality(NamedAs(x)) + Cardinality(RootedAs(x)) = 1
  BY NamedFinite
<1>2. Cardinality(NamedAs(x)) \in Nat /\ Cardinality(RootedAs(x)) \in Nat
  BY <1>1, FS_CardinalityType
<1>3. ASSUME NEW p \in DOMAIN file.pages, ~ file.pages[p].leaf,
             NEW i \in DOMAIN file.pages[p].ents, file.pages[p].ents[i].at = x
      PROVE  <<p, i>> \in NamedAs(x)
  BY <1>3 DEF NamedAs
<1>4. ASSUME NEW p \in DOMAIN file.pages, ~ file.pages[p].leaf,
             NEW i \in DOMAIN file.pages[p].ents, file.pages[p].ents[i].at = x,
             NEW q \in DOMAIN file.pages, ~ file.pages[q].leaf,
             NEW j \in DOMAIN file.pages[q].ents, file.pages[q].ents[j].at = x
      PROVE  p = q /\ i = j
  <2>1. <<p, i>> \in NamedAs(x) /\ <<q, j>> \in NamedAs(x)
    BY <1>3, <1>4
  <2>2. Cardinality(NamedAs(x)) <= 1
    BY <1>1, <1>2
  <2>3. <<p, i>> = <<q, j>>
    BY <1>1, <2>1, <2>2, AtMostOne
  <2> QED BY <2>3
<1>5. ASSUME NEW k \in {"NBT", "BBT"}, Root(k).at = x,
             NEW p \in DOMAIN file.pages, ~ file.pages[p].leaf,
             NEW i \in DOMAIN file.pages[p].ents
      PROVE  file.pages[p].ents[i].at # x
  <2>1. SUFFICES ASSUME file.pages[p].ents[i].at = x PROVE FALSE
    OBVIOUS
  <2>2. <<p, i>> \in NamedAs(x)
    BY <1>3, <1>5, <2>1
  <2>3. k \in RootedAs(x)
    BY <1>5 DEF RootedAs
  <2>4. Cardinality(NamedAs(x)) # 0 /\ Cardinality(RootedAs(x)) # 0
    BY <1>1, <2>2, <2>3, FS_EmptySet
  <2> QED BY <1>1, <1>2, <2>4
<1> QED BY <1>4, <1>5

-----------------------------------------------------------------------------
\* What leads to x on depth d when the depths above are those of L.
LeadsTo(L, d, r) ==
  \/ d = 0 /\ r = Root(want)
  \/ d # 0 /\ \E p \in L[d - 1] :
       /\ ~ file.pages[p].leaf
       /\ \E i \in DOMAIN file.pages[p].ents : r = file.pages[p].ents[i]

\* L names the healthy pages of every depth.
Graded(L) ==
  \A d \in 0 .. MAX_DEPTH : \A x :
    x \in L[d] <=> \E r : r.at = x /\ LeadsTo(L, d, r) /\ Healthy(r)

\* A healthy page is where what is still to follow says, or was taken, or hangs
\* on a page that was not; and what leads to it leads to it well.
HealthInv ==
  want # "none" =>
    \A L : Graded(L) =>
      /\ \A k \in 1 .. Len(todo), d \in 0 .. MAX_DEPTH :
           todo[k].at \in L[d] => todo[k].depth = d /\ ReadsAs(todo[k])
      /\ \A d \in 0 .. MAX_DEPTH : \A x \in L[d] : x \in seen => x \in Opened
      /\ \A d \in 0 .. MAX_DEPTH : \A x \in L[d] :
           \/ x \in Opened
           \/ \E k \in 1 .. Len(todo) : todo[k].at = x
           \/ d # 0 /\ \E p \in L[d - 1] :
                /\ p \notin Opened /\ ~ file.pages[p].leaf
                /\ \E i \in DOMAIN file.pages[p].ents : file.pages[p].ents[i].at = x

\* What a grade lists is a page, and only one reference names it.
LEMMA GradedPage ==
  ASSUME NEW L, Graded(L), NEW d \in 0 .. MAX_DEPTH, NEW x \in L[d]
  PROVE  x \in DOMAIN file.pages /\ Fits(x) /\ Named(x) = 1
<1>1. PICK r : r.at = x /\ Healthy(r)
  BY DEF Graded
<1> QED BY <1>1 DEF Healthy, ReadsAs

\* What names a healthy page is what made it one.
LEMMA GradedRoot ==
  ASSUME file \in FILES, want \in {"NBT", "BBT"}, NEW L, Graded(L),
         NEW d \in 0 .. MAX_DEPTH, Root(want).at \in L[d]
  PROVE  d = 0 /\ ReadsAs(Root(want))
<1>1. PICK x : x = Root(want).at
  OBVIOUS
<1>2. PICK r : r.at = x /\ LeadsTo(L, d, r) /\ Healthy(r)
  BY <1>1 DEF Graded
<1>3. Named(x) = 1
  BY <1>1, GradedPage
<1>4. CASE d = 0
  BY <1>2, <1>4 DEF LeadsTo, Healthy
<1>5. CASE d # 0
  <2>1. PICK p \in L[d - 1] : /\ ~ file.pages[p].leaf
                              /\ \E i \in DOMAIN file.pages[p].ents :
                                   r = file.pages[p].ents[i]
    BY <1>2, <1>5 DEF LeadsTo
  <2>2. d - 1 \in 0 .. MAX_DEPTH
    BY <1>5, WalkAssumption
  <2>3. p \in DOMAIN file.pages
    BY <2>1, <2>2, GradedPage
  <2> QED BY <1>1, <1>2, <1>3, <2>1, <2>3, NamedOnce
<1> QED BY <1>4, <1>5

\* A page that names a graded one is a graded branch one level above it.
LEMMA GradedChild ==
  ASSUME file \in FILES, want \in {"NBT", "BBT"}, NEW L, Graded(L),
         NEW d \in 0 .. MAX_DEPTH,
         NEW p \in DOMAIN file.pages, ~ file.pages[p].leaf,
         NEW i \in DOMAIN file.pages[p].ents, file.pages[p].ents[i].at \in L[d]
  PROVE  d # 0 /\ p \in L[d - 1] /\ ReadsAs(file.pages[p].ents[i])
<1>1. PICK x : x = file.pages[p].ents[i].at
  OBVIOUS
<1>2. PICK r : r.at = x /\ LeadsTo(L, d, r) /\ Healthy(r)
  BY <1>1 DEF Graded
<1>3. Named(x) = 1
  BY <1>1, GradedPage
<1>4. CASE d = 0
  <2>1. r = Root(want)
    BY <1>2, <1>4 DEF LeadsTo
  <2> QED BY <1>1, <1>2, <1>3, <2>1, NamedOnce
<1>5. CASE d # 0
  <2>1. PICK q \in L[d - 1] : /\ ~ file.pages[q].leaf
                              /\ \E j \in DOMAIN file.pages[q].ents :
                                   r = file.pages[q].ents[j]
    BY <1>2, <1>5 DEF LeadsTo
  <2>2. PICK j \in DOMAIN file.pages[q].ents : r = file.pages[q].ents[j]
    BY <2>1
  <2>3. d - 1 \in 0 .. MAX_DEPTH
    BY <1>5, WalkAssumption
  <2>4. q \in DOMAIN file.pages
    BY <2>1, <2>3, GradedPage
  <2>5. p = q /\ i = j
    BY <1>1, <1>2, <1>3, <2>1, <2>2, <2>4, NamedOnce
  <2> QED BY <1>2, <1>5, <2>1, <2>2, <2>5 DEF Healthy
<1> QED BY <1>4, <1>5

\* Health is a matter of the file and of the tree asked for.
LEMMA SameHealth ==
  ASSUME UNCHANGED <<file, want>>, NEW L
  PROVE  Graded(L)' <=> Graded(L)
<1>1. ASSUME NEW k PROVE Root(k)' = Root(k)
  BY DEF Root
<1>2. ASSUME NEW x PROVE Named(x)' = Named(x)
  <2>1. \A e : e \in NamedAs(x)' <=> e \in NamedAs(x)
    BY DEF NamedAs
  <2>2. \A e : e \in RootedAs(x)' <=> e \in RootedAs(x)
    BY <1>1 DEF RootedAs
  <2>3. NamedAs(x)' = NamedAs(x) /\ RootedAs(x)' = RootedAs(x)
    BY <2>1, <2>2
  <2>4. Named(x) = Cardinality(NamedAs(x)) + Cardinality(RootedAs(x))
    BY DEF Named, NamedAs, RootedAs
  <2>5. Named(x)' = Cardinality(NamedAs(x)') + Cardinality(RootedAs(x)')
    BY DEF Named, NamedAs, RootedAs
  <2> QED BY <2>3, <2>4, <2>5
<1>3. ASSUME NEW r PROVE Healthy(r)' <=> Healthy(r)
  BY <1>2 DEF Healthy, ReadsAs, Fits
<1>4. Root(want)' = Root(want)
  BY DEF Root
<1>5. ASSUME NEW d, NEW r PROVE LeadsTo(L, d, r)' <=> LeadsTo(L, d, r)
  BY <1>4 DEF LeadsTo
<1> QED BY <1>3, <1>5 DEF Graded

\* What is to follow after a step at h: what was, and at most the children of h,
\* and those for certain when h was taken.
Replaced(h) ==
  /\ \A j \in 1 .. Len(todo') :
       \/ \E k \in 2 .. Len(todo) : todo'[j] = todo[k]
       \/ /\ h \in DOMAIN file.pages /\ ~ file.pages[h].leaf
          /\ \E i \in DOMAIN file.pages[h].ents :
               todo'[j] = At(file.pages[h].ents[i], Here.depth + 1)
  /\ \A k \in 2 .. Len(todo) : \E j \in 1 .. Len(todo') : todo'[j] = todo[k]
  /\ h \in Opened' /\ h \notin Opened /\ ~ file.pages[h].leaf =>
       \A i \in DOMAIN file.pages[h].ents :
         \E j \in 1 .. Len(todo') : todo'[j].at = file.pages[h].ents[i].at

\* A step that takes the page it comes to whenever that page is healthy.
LEMMA HealthStep ==
  ASSUME WalkInv, HealthInv, todo # <<>>, UNCHANGED <<file, want>>,
         NEW h, h = Here.at,
         Replaced(h),
         Opened \subseteq Opened', Opened' \subseteq Opened \union {h},
         seen' \subseteq seen \union {h},
         Here.depth <= MAX_DEPTH /\ h \notin seen /\ ReadsAs(Here) /\ Fits(h) => h \in Opened'
  PROVE  HealthInv'
<1> USE DEF Replaced
<1> SUFFICES ASSUME want # "none", NEW L, Graded(L)
             PROVE  (/\ \A k \in 1 .. Len(todo), d \in 0 .. MAX_DEPTH :
                          todo[k].at \in L[d] => todo[k].depth = d /\ ReadsAs(todo[k])
                     /\ \A d \in 0 .. MAX_DEPTH : \A x \in L[d] : x \in seen => x \in Opened
                     /\ \A d \in 0 .. MAX_DEPTH : \A x \in L[d] :
                          \/ x \in Opened
                          \/ \E k \in 1 .. Len(todo) : todo[k].at = x
                          \/ d # 0 /\ \E p \in L[d - 1] :
                               /\ p \notin Opened /\ ~ file.pages[p].leaf
                               /\ \E i \in DOMAIN file.pages[p].ents :
                                    file.pages[p].ents[i].at = x)'
  BY SameHealth DEF HealthInv
<1>1. /\ file \in FILES /\ want \in {"NBT", "BBT"} /\ todo \in Seq(Pending)
      /\ MAX_DEPTH \in Nat
  BY WalkAssumption DEF WalkInv, WalkTyped
<1>2. /\ Here = todo[1] /\ 1 \in 1 .. Len(todo) /\ Len(todo) \in Nat
      /\ Here.depth \in Nat
  BY <1>1, HeadTyped
<1>3. /\ \A k \in 1 .. Len(todo), d \in 0 .. MAX_DEPTH :
           todo[k].at \in L[d] => todo[k].depth = d /\ ReadsAs(todo[k])
      /\ \A d \in 0 .. MAX_DEPTH : \A x \in L[d] : x \in seen => x \in Opened
      /\ \A d \in 0 .. MAX_DEPTH : \A x \in L[d] :
           \/ x \in Opened
           \/ \E k \in 1 .. Len(todo) : todo[k].at = x
           \/ d # 0 /\ \E p \in L[d - 1] :
                /\ p \notin Opened /\ ~ file.pages[p].leaf
                /\ \E i \in DOMAIN file.pages[p].ents : file.pages[p].ents[i].at = x
  BY DEF HealthInv
<1>4. ASSUME NEW d \in 0 .. MAX_DEPTH, h \in L[d]
      PROVE  /\ h \in Opened' /\ Here.depth = d
  <2>1. todo[1].depth = d /\ ReadsAs(todo[1])
    BY <1>2, <1>3, <1>4
  <2>2. Here.depth = d /\ ReadsAs(Here)
    BY <1>2, <2>1
  <2>3. Fits(h)
    BY <1>4, GradedPage
  <2>4. CASE h \in seen
    BY <1>3, <1>4, <2>2, <2>4
  <2>5. CASE h \notin seen
    <3>1. Here.depth <= MAX_DEPTH
      BY <1>1, <2>2
    <3> QED BY <2>2, <2>3, <2>5, <3>1
  <2> QED BY <2>4, <2>5
<1>5. ASSUME NEW j \in 1 .. Len(todo'), NEW d \in 0 .. MAX_DEPTH, todo'[j].at \in L[d]
      PROVE  todo'[j].depth = d /\ ReadsAs(todo'[j])
  <2>1. CASE \E k \in 2 .. Len(todo) : todo'[j] = todo[k]
    <3>1. PICK k \in 1 .. Len(todo) : todo'[j] = todo[k]
      BY <1>2, <2>1
    <3> QED BY <1>3, <1>5, <3>1
  <2>2. CASE /\ h \in DOMAIN file.pages /\ ~ file.pages[h].leaf
             /\ \E i \in DOMAIN file.pages[h].ents :
                  todo'[j] = At(file.pages[h].ents[i], Here.depth + 1)
    <3>1. PICK i \in DOMAIN file.pages[h].ents :
                 todo'[j] = At(file.pages[h].ents[i], Here.depth + 1)
      BY <2>2
    <3>2. PICK r : r = file.pages[h].ents[i]
      OBVIOUS
    <3> PICK e : e = Here.depth + 1
      OBVIOUS
    <3>3. r \in Refs /\ e \in Nat
      BY <1>1, <1>2, <2>2, <3>2, FileTyped
    <3>4. /\ todo'[j].at = r.at /\ todo'[j].id = r.id /\ todo'[j].depth = Here.depth + 1
      <4>1. todo'[j] = At(r, e)
        BY <3>1, <3>2
      <4>2. At(r, e).at = r.at /\ At(r, e).id = r.id /\ At(r, e).depth = e
        BY <3>3, AtTyped
      <4> QED BY <4>1, <4>2
    <3>5. d # 0 /\ h \in L[d - 1] /\ ReadsAs(r)
      BY <1>1, <1>5, <2>2, <3>2, <3>4, GradedChild
    <3>6. d - 1 \in 0 .. MAX_DEPTH
      BY <1>1, <3>5
    <3>7. Here.depth = d - 1
      BY <1>4, <3>5, <3>6
    <3>8. ReadsAs(todo'[j])
      BY <3>4, <3>5 DEF ReadsAs
    <3> QED BY <1>1, <3>4, <3>7, <3>8
  <2> QED BY <2>1, <2>2
<1>6. ASSUME NEW j \in 1 .. Len(todo'), NEW d \in 0 .. MAX_DEPTH, todo'[j].at \in L[d]
      PROVE  todo'[j].depth = d /\ ReadsAs(todo[j])'
  BY <1>5, <1>6 DEF ReadsAs
<1>7. ASSUME NEW d \in 0 .. MAX_DEPTH, NEW x \in L[d], x \in seen'
      PROVE  x \in Opened'
  BY <1>3, <1>4, <1>7
<1>8. ASSUME NEW d \in 0 .. MAX_DEPTH, NEW x \in L[d]
      PROVE  \/ x \in Opened'
             \/ \E k \in 1 .. Len(todo') : todo'[k].at = x
             \/ d # 0 /\ \E p \in L[d - 1] :
                  /\ p \notin Opened' /\ ~ file.pages[p].leaf
                  /\ \E i \in DOMAIN file.pages[p].ents : file.pages[p].ents[i].at = x
  <2>1. CASE x \in Opened
    BY <2>1
  <2>2. CASE \E k \in 1 .. Len(todo) : todo[k].at = x
    <3>1. PICK k \in 1 .. Len(todo) : todo[k].at = x
      BY <2>2
    <3>2. CASE k = 1
      BY <1>2, <1>4, <3>1, <3>2
    <3>3. CASE k # 1
      <4>1. k \in 2 .. Len(todo)
        BY <1>2, <3>3
      <4> QED BY <3>1, <4>1
    <3> QED BY <3>2, <3>3
  <2>3. CASE d # 0 /\ \E p \in L[d - 1] :
               /\ p \notin Opened /\ ~ file.pages[p].leaf
               /\ \E i \in DOMAIN file.pages[p].ents : file.pages[p].ents[i].at = x
    <3>1. PICK p \in L[d - 1] :
               /\ p \notin Opened /\ ~ file.pages[p].leaf
               /\ \E i \in DOMAIN file.pages[p].ents : file.pages[p].ents[i].at = x
      BY <2>3
    <3>2. CASE p \notin Opened'
      BY <2>3, <3>1, <3>2
    <3>3. CASE p \in Opened'
      <4>1. p = h
        BY <3>1, <3>3
      <4>2. PICK i \in DOMAIN file.pages[p].ents : file.pages[p].ents[i].at = x
        BY <3>1
      <4>3. \E j \in 1 .. Len(todo') : todo'[j].at = file.pages[h].ents[i].at
        BY <3>1, <3>3, <4>1, <4>2
      <4> QED BY <4>1, <4>2, <4>3
    <3> QED BY <3>2, <3>3
  <2> QED BY <1>3, <2>1, <2>2, <2>3
<1> QED BY <1>6, <1>7, <1>8

\* A visit to any page leaves every healthy page either delivered or still to come.
LEMMA HealthVisit ==
  ASSUME WalkInv, HealthInv, Visit
  PROVE  HealthInv'
<1>1. todo # <<>> /\ UNCHANGED <<file, want>>
  BY DEF Visit, TooDeep, LoopsBack, Unreadable, Unusable, Leaf, Branch, Fresh, Visiting
<1>2. /\ Here \in Pending /\ Here.at \in Nat /\ Here.depth \in Nat
      /\ Tail(todo) \in Seq(Pending)
      /\ \A k \in 2 .. Len(todo) : /\ k - 1 \in 1 .. Len(Tail(todo))
                                   /\ Tail(todo)[k - 1] = todo[k]
      /\ \A k \in 1 .. Len(Tail(todo)) : k + 1 \in 2 .. Len(todo)
                                         /\ Tail(todo)[k] = todo[k + 1]
  <2>1. todo \in Seq(Pending)
    BY DEF WalkInv, WalkTyped
  <2>2. \A k \in 1 .. Len(Tail(todo)) : k + 1 \in 2 .. Len(todo)
    BY <1>1, <2>1, HeadTyped
  <2> QED BY <1>1, <2>1, <2>2, HeadTyped
<1>3. PICK h : h = Here.at
  OBVIOUS
<1>4. ASSUME todo' = Tail(todo), h \in Opened' => h \in Opened \/ file.pages[h].leaf
      PROVE  Replaced(h)
  BY <1>2, <1>4 DEF Replaced
<1>5. ASSUME opened' = opened PROVE Opened' = Opened
  BY <1>5 DEF Opened
<1>6. CASE TooDeep
  <2>1. /\ todo' = Tail(todo) /\ opened' = opened /\ seen' = seen
        /\ ~ (Here.depth <= MAX_DEPTH)
    BY <1>2, <1>6, WalkAssumption DEF TooDeep, Skip
  <2> QED BY <1>1, <1>3, <1>4, <1>5, <2>1, HealthStep
<1>7. CASE LoopsBack
  <2>1. /\ todo' = Tail(todo) /\ opened' = opened /\ seen' = seen /\ h \in seen
    BY <1>3, <1>7 DEF LoopsBack, Skip
  <2> QED BY <1>1, <1>3, <1>4, <1>5, <2>1, HealthStep
<1>8. CASE Unreadable
  <2>1. /\ todo' = Tail(todo) /\ opened' = opened /\ seen' = seen \union {h}
        /\ ~ ReadsAs(Here)
    BY <1>3, <1>8 DEF Unreadable, Fresh, Skip
  <2> QED BY <1>1, <1>3, <1>4, <1>5, <2>1, HealthStep
<1>9. CASE Unusable
  <2>1. /\ todo' = Tail(todo) /\ opened' = opened /\ seen' = seen \union {h}
        /\ ~ Fits(h)
    BY <1>3, <1>9 DEF Unusable, Fresh, Skip
  <2> QED BY <1>1, <1>3, <1>4, <1>5, <2>1, HealthStep
<1>10. CASE Leaf
  <2>1. /\ todo' = Tail(todo) /\ seen' = seen \union {h} /\ file.pages[h].leaf
        /\ Here.at \notin seen /\ Here.at \in DOMAIN file.pages
        /\ seen' = seen \union {Here.at} /\ opened' = Append(opened, Here.at)
    BY <1>3, <1>10 DEF Leaf, Fresh, Skip, ReadsAs
  <2>2. Opened' = Opened \union {h}
    BY <1>1, <1>3, <2>1, TakenOnce
  <2> QED BY <1>1, <1>3, <1>4, <2>1, <2>2, HealthStep
<1>11. CASE Branch
  <2>1. /\ seen' = seen \union {h} /\ ~ file.pages[h].leaf /\ h \in DOMAIN file.pages
        /\ Here.at \notin seen /\ Here.at \in DOMAIN file.pages
        /\ seen' = seen \union {Here.at} /\ opened' = Append(opened, Here.at)
        /\ todo' = [i \in DOMAIN file.pages[h].ents |->
                      At(file.pages[h].ents[i], Here.depth + 1)] \o Tail(todo)
    BY <1>3, <1>11 DEF Branch, Fresh, ReadsAs
  <2>2. Opened' = Opened \union {h}
    BY <1>1, <1>3, <2>1, TakenOnce
  <2>3. PICK es : es = file.pages[h].ents
    OBVIOUS
  <2>4. PICK d : d = Here.depth + 1
    OBVIOUS
  <2>5. es \in Seq(Refs) /\ d \in Nat /\ todo \in Seq(Pending)
        /\ DOMAIN es = 1 .. Len(es) /\ \A i \in DOMAIN es : es[i] \in Refs
    BY <1>2, <2>1, <2>3, <2>4, FileTyped DEF WalkInv, WalkTyped
  <2>6. todo' = [i \in DOMAIN es |-> At(es[i], d)] \o Tail(todo)
    BY <2>1, <2>3, <2>4
  <2>7. ChildrenFirst(es, d, todo, todo')
    BY <1>1, <2>5, <2>6, PutFirst
  <2>8. \A j \in 1 .. Len(todo') :
          \/ \E k \in 2 .. Len(todo) : todo'[j] = todo[k]
          \/ /\ h \in DOMAIN file.pages /\ ~ file.pages[h].leaf
             /\ \E i \in DOMAIN file.pages[h].ents :
                  todo'[j] = At(file.pages[h].ents[i], Here.depth + 1)
    BY <2>1, <2>3, <2>4, <2>5, <2>7 DEF ChildrenFirst
  <2>9. \A k \in 2 .. Len(todo) : \E j \in 1 .. Len(todo') : todo'[j] = todo[k]
    BY <2>7 DEF ChildrenFirst
  <2>10. \A i \in DOMAIN es : \E j \in 1 .. Len(todo') : todo'[j].at = es[i].at
    <3> TAKE i \in DOMAIN es
    <3>1. i \in 1 .. Len(todo') /\ todo'[i] = At(es[i], d)
      BY <2>5, <2>7 DEF ChildrenFirst
    <3>2. es[i] \in Refs /\ d \in Nat
      BY <2>5
    <3>3. At(es[i], d).at = es[i].at
      BY <3>2, AtTyped
    <3> QED BY <3>1, <3>3
  <2>11. h \in Opened' /\ h \notin Opened /\ ~ file.pages[h].leaf =>
           \A i \in DOMAIN file.pages[h].ents :
             \E j \in 1 .. Len(todo') : todo'[j].at = file.pages[h].ents[i].at
    BY <2>3, <2>10
  <2>12. h \in Opened' /\ Opened \subseteq Opened' /\ Opened' \subseteq Opened \union {h}
         /\ seen' \subseteq seen \union {h}
    BY <2>1, <2>2
  <2>13. Replaced(h)
    BY <2>8, <2>9, <2>11 DEF Replaced
  <2> QED BY <1>1, <1>3, <2>12, <2>13, HealthStep
<1> QED BY <1>6, <1>7, <1>8, <1>9, <1>10, <1>11 DEF Visit

\* At the root nothing is taken, and all healthy pages hang on what follows.
AtRoot == todo = <<At(Root(want), 0)>> /\ seen = {} /\ opened = <<>>

\* At the root all that is healthy is still to come.
LEMMA HealthAtRoot == WalkInv /\ AtRoot => HealthInv
<1> SUFFICES ASSUME WalkInv, AtRoot, want # "none", NEW L, Graded(L)
             PROVE  /\ \A k \in 1 .. Len(todo), d \in 0 .. MAX_DEPTH :
                         todo[k].at \in L[d] => todo[k].depth = d /\ ReadsAs(todo[k])
                    /\ \A d \in 0 .. MAX_DEPTH : \A x \in L[d] : x \in seen => x \in Opened
                    /\ \A d \in 0 .. MAX_DEPTH : \A x \in L[d] :
                         \/ x \in Opened
                         \/ \E k \in 1 .. Len(todo) : todo[k].at = x
                         \/ d # 0 /\ \E p \in L[d - 1] :
                              /\ p \notin Opened /\ ~ file.pages[p].leaf
                              /\ \E i \in DOMAIN file.pages[p].ents :
                                   file.pages[p].ents[i].at = x
  BY DEF HealthInv
<1>1. /\ file \in FILES /\ want \in {"NBT", "BBT"}
      /\ seen = {} /\ Opened = {}
  BY DEF WalkInv, WalkTyped, AtRoot, Opened, ToSet
<1>2. PICK r : r = Root(want)
  OBVIOUS
<1>3. PICK t : t = At(r, 0)
  OBVIOUS
<1>4. r \in Refs /\ t.at = r.at /\ t.id = r.id /\ t.depth = 0
  BY <1>1, <1>2, <1>3, FileTyped, AtTyped
<1>5. Len(todo) = 1 /\ todo[1] = t
  BY <1>2, <1>3 DEF AtRoot
<1>6. ASSUME NEW d \in 0 .. MAX_DEPTH, t.at \in L[d]
      PROVE  t.depth = d /\ ReadsAs(t)
  <2>1. d = 0 /\ ReadsAs(Root(want))
    BY <1>1, <1>2, <1>4, <1>6, GradedRoot
  <2>2. ReadsAs(t)
    BY <1>2, <1>4, <2>1 DEF ReadsAs
  <2> QED BY <1>4, <2>1, <2>2
<1>7. ASSUME NEW d \in 0 .. MAX_DEPTH, NEW x \in L[d]
      PROVE  \/ \E k \in 1 .. Len(todo) : todo[k].at = x
             \/ d # 0 /\ \E p \in L[d - 1] :
                  /\ p \notin Opened /\ ~ file.pages[p].leaf
                  /\ \E i \in DOMAIN file.pages[p].ents : file.pages[p].ents[i].at = x
  <2>1. PICK q : q.at = x /\ LeadsTo(L, d, q)
    BY DEF Graded
  <2>2. CASE d = 0
    BY <1>2, <1>4, <1>5, <2>1, <2>2 DEF LeadsTo
  <2>3. CASE d # 0
    <3>1. PICK p \in L[d - 1] : /\ ~ file.pages[p].leaf
                                /\ \E i \in DOMAIN file.pages[p].ents :
                                     q = file.pages[p].ents[i]
      BY <2>1, <2>3 DEF LeadsTo
    <3> QED BY <1>1, <2>1, <2>3, <3>1
  <2> QED BY <2>2, <2>3
<1>8. \A k \in 1 .. Len(todo), d \in 0 .. MAX_DEPTH :
        todo[k].at \in L[d] => todo[k].depth = d /\ ReadsAs(todo[k])
  BY <1>5, <1>6
<1> QED BY <1>1, <1>7, <1>8

\* A walk that begins has everything before it.
LEMMA HealthBegins ==
  ASSUME NEW kind \in {"NBT", "BBT"}, BeginWalk(kind), UNCHANGED file, WalkInv'
  PROVE  HealthInv'
<1>1. AtRoot'
  <2>1. want' = kind /\ todo' = <<At(Root(kind), 0)>> /\ seen' = {} /\ opened' = <<>>
    BY DEF BeginWalk
  <2>2. Root(want)' = Root(kind)
    BY <2>1 DEF Root
  <2> QED BY <2>1, <2>2 DEF AtRoot
<1> QED BY <1>1, HealthAtRoot, PTL

\* What a step leaves alone stays healthy.
LEMMA HealthRests ==
  ASSUME HealthInv, UNCHANGED <<file, walk>>
  PROVE  HealthInv'
<1>1. UNCHANGED <<file, want, todo, seen, opened>> /\ Opened' = Opened
  BY DEF walk, Opened
<1>2. \A L : Graded(L)' <=> Graded(L)
  BY <1>1, SameHealth
<1>3. \A k : ReadsAs(todo[k])' <=> ReadsAs(todo[k])
  BY <1>1 DEF ReadsAs
<1> QED BY <1>1, <1>2, <1>3 DEF HealthInv

-----------------------------------------------------------------------------
\* The depths up to n, each from the one above.
GradedTo(L, n) ==
  L = [d \in 0 .. n |-> {r.at : r \in {r \in IF d = 0 THEN {Root(want)}
                                             ELSE UNION {Children(p) : p \in L[d - 1]} :
                                         Healthy(r)}}]

\* The recursion has a value: were there depths it does not reach, there would
\* be a first one.
LEMMA GradesExist ==
  ASSUME NEW n \in Nat
  PROVE  \E L : GradedTo(L, n)
<1> DEFINE Below(S) == {r.at : r \in {r \in UNION {Children(p) : p \in S} : Healthy(r)}}
           Top == {r.at : r \in {r \in {Root(want)} : Healthy(r)}}
           Missed == {m \in Nat : ~ \E L : GradedTo(L, m)}
<1>1. ASSUME NEW L, NEW m \in Nat
      PROVE  GradedTo(L, m) <=>
               L = [d \in 0 .. m |-> IF d = 0 THEN Top ELSE Below(L[d - 1])]
  BY DEF GradedTo
<1> HIDE DEF Below, Top
<1>2. ASSUME Missed # {}
      PROVE  FALSE
  <2>1. PICK m \in Missed : \A k \in Missed : m <= k
    BY <1>2, Least
  <2>2. CASE m = 0
    <3>1. PICK L : L = [d \in 0 .. 0 |-> Top]
      OBVIOUS
    <3>2. L = [d \in 0 .. 0 |-> IF d = 0 THEN Top ELSE Below(L[d - 1])]
      BY <3>1
    <3> QED BY <1>1, <2>1, <2>2, <3>2
  <2>3. CASE m # 0
    <3>1. m - 1 \in Nat /\ m - 1 \notin Missed /\ m \in Nat
      BY <2>1, <2>3
    <3>2. PICK K : K = [d \in 0 .. m - 1 |-> IF d = 0 THEN Top ELSE Below(K[d - 1])]
      BY <1>1, <3>1
    <3>3. PICK L : L = [d \in 0 .. m |-> IF d = 0 THEN Top ELSE Below(K[d - 1])]
      OBVIOUS
    <3>4. \A d \in 0 .. m - 1 : L[d] = K[d]
      BY <3>1, <3>2, <3>3
    <3>5. \A d \in 0 .. m : d # 0 => L[d - 1] = K[d - 1]
      BY <3>1, <3>4
    <3>6. L = [d \in 0 .. m |-> IF d = 0 THEN Top ELSE Below(L[d - 1])]
      BY <3>3, <3>5
    <3> QED BY <1>1, <2>1, <3>1, <3>6
  <2> QED BY <2>2, <2>3
<1> QED BY <1>2

\* The healthy pages by depth, each level from the one above.
LEMMA GradesAre == HealthyAt = [d \in 0 .. MAX_DEPTH |->
                     {r.at : r \in {r \in IF d = 0 THEN {Root(want)}
                                          ELSE UNION {Children(p) : p \in HealthyAt[d - 1]} :
                                      Healthy(r)}}]
<1>1. \E L : GradedTo(L, MAX_DEPTH)
  BY GradesExist, WalkAssumption
<1> DEFINE P(L) == GradedTo(L, MAX_DEPTH)
<1>2. P(CHOOSE L : P(L))
  <2> HIDE DEF P
  <2>1. \E L : P(L)
    BY <1>1 DEF P
  <2> QED BY <2>1
<1>3. HealthyAt = CHOOSE L : P(L)
  BY DEF HealthyAt, GradedTo
<1>4. P(HealthyAt)
  BY <1>2, <1>3
<1> QED BY <1>4 DEF GradedTo

\* The healthy pages by depth are graded.
LEMMA GradedHealthy ==
  ASSUME WalkInv
  PROVE  Graded(HealthyAt)
<1> DEFINE L == HealthyAt
           Set(d) == IF d = 0 THEN {Root(want)} ELSE UNION {Children(p) : p \in L[d - 1]}
<1>1. \A d \in 0 .. MAX_DEPTH : L[d] = {r.at : r \in {r \in Set(d) : Healthy(r)}}
  BY GradesAre
<1>2. file \in FILES
  BY DEF WalkInv, WalkTyped
<1> HIDE DEF L
<1>3. ASSUME NEW d \in 0 .. MAX_DEPTH, NEW r,
             \A p \in (IF d = 0 THEN {} ELSE L[d - 1]) : p \in DOMAIN file.pages
      PROVE  r \in Set(d) <=> LeadsTo(L, d, r)
  <2>1. CASE d = 0
    BY <2>1 DEF LeadsTo
  <2>2. CASE d # 0
    <3>1. \A p \in L[d - 1] : file.pages[p].leaf \in BOOLEAN
      BY <1>2, <1>3, <2>2, FileTyped
    <3>2. \A p \in L[d - 1] :
            r \in Children(p) <=> /\ ~ file.pages[p].leaf
                                  /\ \E i \in DOMAIN file.pages[p].ents :
                                       r = file.pages[p].ents[i]
      BY <3>1 DEF Children, ToSet
    <3> QED BY <2>2, <3>2 DEF LeadsTo
  <2> QED BY <2>1, <2>2
<1>4. ASSUME NEW d \in 0 .. MAX_DEPTH, d # 0
      PROVE  \A p \in L[d - 1] : p \in DOMAIN file.pages
  <2>1. d - 1 \in 0 .. MAX_DEPTH
    BY <1>4, WalkAssumption
  <2> QED BY <1>1, <2>1 DEF Healthy, ReadsAs
<1>5. ASSUME NEW d \in 0 .. MAX_DEPTH, NEW x
      PROVE  x \in L[d] <=> \E r : r.at = x /\ LeadsTo(L, d, r) /\ Healthy(r)
  <2>1. \A r : r \in Set(d) <=> LeadsTo(L, d, r)
    BY <1>3, <1>4
  <2> QED BY <1>1, <2>1
<1>6. Graded(L)
  BY <1>5 DEF Graded
<1> QED BY <1>6 DEF L

\* When nothing is left to follow, the first depth with a page left out would
\* need one above it.
LEMMA HealthRead ==
  ASSUME WalkInv, HealthInv
  PROVE  HealthyPathsRead
<1> SUFFICES ASSUME want # "none", todo = <<>>
             PROVE  \A d \in 0 .. MAX_DEPTH : HealthyAt[d] \subseteq Opened
  BY DEF HealthyPathsRead
<1> DEFINE L == HealthyAt
           Missed == {d \in 0 .. MAX_DEPTH : ~ (L[d] \subseteq Opened)}
<1>1. Graded(L)
  BY GradedHealthy
<1>2. Len(todo) = 0 /\ MAX_DEPTH \in Nat
  BY WalkAssumption
<1> HIDE DEF L
<1>3. \A d \in 0 .. MAX_DEPTH : \A x \in L[d] :
        \/ x \in Opened
        \/ d # 0 /\ \E p \in L[d - 1] : p \notin Opened
  BY <1>1, <1>2 DEF HealthInv
<1>4. ASSUME Missed # {}
      PROVE  FALSE
  <2>1. Missed \subseteq Nat
    OBVIOUS
  <2>2. PICK d \in Missed : \A e \in Missed : d <= e
    BY <1>4, <2>1, Least
  <2>3. PICK x \in L[d] : x \notin Opened
    BY <2>2
  <2>4. d # 0 /\ \E p \in L[d - 1] : p \notin Opened
    BY <1>3, <2>2, <2>3
  <2>5. d - 1 \in Missed
    BY <1>2, <2>2, <2>4
  <2> QED BY <2>2, <2>5
<1>5. \A d \in 0 .. MAX_DEPTH : L[d] \subseteq Opened
  BY <1>4
<1> QED BY <1>5 DEF L

-----------------------------------------------------------------------------
\* A walk has no choice: what it has done, told as a state of its own, and the
\* next one after it.
State == [todo |-> todo, seen |-> seen, opened |-> opened]

StartOf(f, kind) ==
  [todo |-> <<At(IF kind = "NBT" THEN f.nbt ELSE f.bbt, 0)>>, seen |-> {}, opened |-> <<>>]

Usable(f, kind, r) ==
  /\ r.at \in DOMAIN f.pages /\ f.pages[r.at].same /\ f.pages[r.at].id = r.id
  /\ f.pages[r.at].kind = kind /\ f.pages[r.at].fits

Turn(f, kind, x) ==
  LET r == Head(x.todo) IN
  IF r.depth > MAX_DEPTH \/ r.at \in x.seen
  THEN [todo |-> Tail(x.todo), seen |-> x.seen, opened |-> x.opened]
  ELSE [todo |-> IF Usable(f, kind, r) /\ ~ f.pages[r.at].leaf
                 THEN [i \in DOMAIN f.pages[r.at].ents |->
                         At(f.pages[r.at].ents[i], r.depth + 1)] \o Tail(x.todo)
                 ELSE Tail(x.todo),
        seen |-> x.seen \union {r.at},
        opened |-> IF Usable(f, kind, r) THEN Append(x.opened, r.at) ELSE x.opened]

\* t lists the states of a walk, from the first to the n-th after it.
Walks(t, n, f, kind) ==
  /\ t[0] = StartOf(f, kind)
  /\ \A i \in 0 .. n - 1 : t[i].todo # <<>> /\ t[i + 1] = Turn(f, kind, t[i])

\* What a walk that went to its end has opened.
Finished(f, kind, o) ==
  \E n \in Nat : \E t : Walks(t, n, f, kind) /\ t[n].todo = <<>> /\ t[n].opened = o

\* Two walks of one tree agree, as long as both go on.
LEMMA WalksAgree ==
  ASSUME NEW f, NEW kind, NEW n \in Nat, NEW t, Walks(t, n, f, kind),
         NEW m \in Nat, NEW s, Walks(s, m, f, kind), n <= m
  PROVE  \A i \in 0 .. n : t[i] = s[i]
<1> DEFINE Differ == {i \in 0 .. n : t[i] # s[i]}
<1>1. ASSUME Differ # {}
      PROVE  FALSE
  <2>1. Differ \subseteq Nat
    OBVIOUS
  <2>2. PICK i \in Differ : \A j \in Differ : i <= j
    BY <1>1, <2>1, Least
  <2>3. i # 0
    BY <2>2 DEF Walks
  <2>4. i - 1 \in 0 .. n - 1 /\ i - 1 \in 0 .. m - 1 /\ i - 1 \notin Differ /\ (i - 1) + 1 = i
    BY <2>2, <2>3
  <2>5. t[i - 1] = s[i - 1]
    BY <2>4
  <2>6. t[i] = Turn(f, kind, t[i - 1]) /\ s[i] = Turn(f, kind, s[i - 1])
    BY <2>4 DEF Walks
  <2> QED BY <2>2, <2>5, <2>6
<1> QED BY <1>1

\* A file and a kind of tree have one outcome of the walk.
LEMMA FinishedOnce ==
  ASSUME NEW f, NEW kind, NEW o, Finished(f, kind, o), NEW p, Finished(f, kind, p)
  PROVE  o = p
<1>1. PICK n \in Nat : \E t : Walks(t, n, f, kind) /\ t[n].todo = <<>> /\ t[n].opened = o
  BY DEF Finished
<1>2. PICK t : Walks(t, n, f, kind) /\ t[n].todo = <<>> /\ t[n].opened = o
  BY <1>1
<1>3. PICK m \in Nat : \E s : Walks(s, m, f, kind) /\ s[m].todo = <<>> /\ s[m].opened = p
  BY DEF Finished
<1>4. PICK s : Walks(s, m, f, kind) /\ s[m].todo = <<>> /\ s[m].opened = p
  BY <1>3
<1>5. CASE n <= m
  <2>1. t[n] = s[n]
    <3>1. \A i \in 0 .. n : t[i] = s[i]
      BY <1>2, <1>4, <1>5, WalksAgree
    <3> QED BY <3>1
  <2>2. ~ (n \in 0 .. m - 1)
    BY <1>2, <1>4, <2>1 DEF Walks
  <2>3. n = m
    BY <1>5, <2>2
  <2> QED BY <1>2, <1>4, <2>1, <2>3
<1>6. CASE m <= n
  <2>1. s[m] = t[m]
    BY <1>2, <1>4, <1>6, WalksAgree
  <2>2. ~ (m \in 0 .. n - 1)
    BY <1>2, <1>4, <2>1 DEF Walks
  <2>3. n = m
    BY <1>6, <2>2
  <2> QED BY <1>2, <1>4, <2>1, <2>3
<1> QED BY <1>5, <1>6

\* The walk of the tree that is wanted is under way.
UnderWay == want # "none" =>
  \E n \in Nat : \E t : Walks(t, n, file, want) /\ t[n] = State

\* A visit is the next turn.
LEMMA VisitTurns ==
  ASSUME WalkInv, Visit
  PROVE  todo # <<>> /\ State' = Turn(file, want, State)
<1>1. todo # <<>> /\ Here = Head(todo) /\ Here.depth \in Nat /\ MAX_DEPTH \in Nat
  <2>1. todo # <<>>
    BY DEF Visit, TooDeep, LoopsBack, Unreadable, Unusable, Leaf, Branch, Fresh, Visiting
  <2> QED BY <2>1, HeadTyped, WalkAssumption DEF Here, WalkInv, WalkTyped
<1>2. PICK r : r = Here
  OBVIOUS
<1>3. State.todo = todo /\ State.seen = seen /\ State.opened = opened
  BY DEF State
<1>4. State' = [todo |-> todo', seen |-> seen', opened |-> opened']
  BY DEF State
<1>5. Usable(file, want, r) <=> ReadsAs(Here) /\ Fits(Here.at)
  BY <1>2 DEF Usable, ReadsAs, Fits
<1>6. Turn(file, want, State) =
        IF r.depth > MAX_DEPTH \/ r.at \in seen
        THEN [todo |-> Tail(todo), seen |-> seen, opened |-> opened]
        ELSE [todo |-> IF Usable(file, want, r) /\ ~ file.pages[r.at].leaf
                       THEN [i \in DOMAIN file.pages[r.at].ents |->
                               At(file.pages[r.at].ents[i], r.depth + 1)] \o Tail(todo)
                       ELSE Tail(todo),
              seen |-> seen \union {r.at},
              opened |-> IF Usable(file, want, r) THEN Append(opened, r.at) ELSE opened]
  BY <1>1, <1>2, <1>3 DEF Turn
<1>7. CASE TooDeep
  BY <1>1, <1>2, <1>4, <1>6, <1>7 DEF TooDeep, Skip
<1>8. CASE LoopsBack
  BY <1>1, <1>2, <1>4, <1>6, <1>8 DEF LoopsBack, Skip
<1>9. ASSUME Fresh
      PROVE  ~ (r.depth > MAX_DEPTH \/ r.at \in seen) /\ seen' = seen \union {r.at}
  BY <1>1, <1>2, <1>9 DEF Fresh
<1>10. CASE Unreadable
  BY <1>1, <1>2, <1>4, <1>5, <1>6, <1>9, <1>10 DEF Unreadable, Skip
<1>11. CASE Unusable
  BY <1>1, <1>2, <1>4, <1>5, <1>6, <1>9, <1>11 DEF Unusable, Skip
<1>12. CASE Leaf
  BY <1>1, <1>2, <1>4, <1>5, <1>6, <1>9, <1>12 DEF Leaf, Skip
<1>13. CASE Branch
  BY <1>1, <1>2, <1>4, <1>5, <1>6, <1>9, <1>13 DEF Branch
<1> QED BY <1>7, <1>8, <1>10, <1>11, <1>12, <1>13 DEF Visit

\* A visit is one more step of the same walk.
LEMMA VisitGoesOn ==
  ASSUME WalkInv, UnderWay, Visit
  PROVE  UnderWay'
<1>1. UNCHANGED <<file, want>>
  BY DEF Visit, TooDeep, LoopsBack, Unreadable, Unusable, Leaf, Branch, Fresh
<1>2. SUFFICES ASSUME want # "none"
               PROVE  \E n \in Nat : \E t : Walks(t, n, file, want) /\ t[n] = State'
  BY <1>1 DEF UnderWay
<1>3. PICK n \in Nat : \E t : Walks(t, n, file, want) /\ t[n] = State
  BY <1>2 DEF UnderWay
<1>4. PICK t : Walks(t, n, file, want) /\ t[n] = State
  BY <1>3
<1>5. todo # <<>> /\ State' = Turn(file, want, State) /\ State.todo = todo
  BY VisitTurns DEF State
<1>6. PICK x : x = State'
  OBVIOUS
<1>7. PICK s : s = [i \in 0 .. n + 1 |-> IF i = n + 1 THEN x ELSE t[i]]
  OBVIOUS
<1>8. \A i \in 0 .. n : s[i] = t[i]
  BY <1>7
<1>9. s[n + 1] = x
  BY <1>7
<1>10. ASSUME NEW i \in 0 .. (n + 1) - 1
       PROVE  s[i].todo # <<>> /\ s[i + 1] = Turn(file, want, s[i])
  <2>1. CASE i = n
    BY <1>4, <1>5, <1>6, <1>8, <1>9, <2>1
  <2>2. CASE i # n
    <3>1. i \in 0 .. n - 1 /\ i + 1 \in 0 .. n
      BY <2>2
    <3>2. t[i].todo # <<>> /\ t[i + 1] = Turn(file, want, t[i])
      BY <1>4, <3>1 DEF Walks
    <3>3. s[i] = t[i] /\ s[i + 1] = t[i + 1]
      BY <1>8, <3>1
    <3> QED BY <3>2, <3>3
  <2> QED BY <2>1, <2>2
<1>11. s[0] = t[0]
  BY <1>8
<1>12. Walks(s, n + 1, file, want)
  BY <1>4, <1>10, <1>11 DEF Walks
<1> QED BY <1>6, <1>9, <1>12

\* A walk at its root is under way.
LEMMA UnderWayAtRoot == WalkInv /\ AtRoot => UnderWay
<1> SUFFICES ASSUME WalkInv, AtRoot, want # "none"
             PROVE  \E n \in Nat : \E t : Walks(t, n, file, want) /\ t[n] = State
  BY DEF UnderWay
<1>1. want \in {"NBT", "BBT"}
  BY DEF WalkInv, WalkTyped
<1>2. State = StartOf(file, want)
  BY <1>1 DEF State, StartOf, AtRoot, Root
<1>3. PICK t : t = [i \in 0 .. 0 |-> State]
  OBVIOUS
<1>4. t[0] = State
  BY <1>3
<1>5. Walks(t, 0, file, want)
  BY <1>2, <1>4 DEF Walks
<1> QED BY <1>4, <1>5

-----------------------------------------------------------------------------
DeliveredOf(f, o) ==
  LET upTo[n \in 0 .. Len(o)] ==
        IF n = 0 THEN <<>>
        ELSE IF f.pages[o[n]].leaf THEN upTo[n - 1] \o f.pages[o[n]].ents
        ELSE upTo[n - 1]
  IN  upTo[Len(o)]

\* What a walk delivered depends on the file and the walk alone.
LEMMA DeliveredIs == Delivered = DeliveredOf(file, opened)
  BY DEF Delivered, DeliveredOf

\* The blocks listed are those of the header's own tree.
FromTree == \E o : Finished(file, "BBT", o) /\ blocks = DeliveredOf(file, o)

Recovers == role \in {"verify", "salvage"}

\* Where a command line run has its index from.
Lookups ==
  /\ pc = "open" => want = "none" /\ todo = <<>> /\ opened = <<>>
  /\ pc \in {"blocks", "cache"} => want = "BBT"
  /\ \A m, n \in cache : m = n
  /\ Recovers /\ pc \in {"open", "nodes", "blocks"} => cache = {} /\ blocks = <<>>
  /\ Recovers /\ pc = "recover" => cache = {} /\ (blocks = <<>> \/ FromTree)
  /\ Recovers /\ pc \in {"use", "check", "read", "tables"} =>
       cache = {MapOf(blocks)} \/ (cache = {} /\ FromTree)
  /\ Recovers /\ pc = "cache" => cache = {} /\ FromTree

IndexInv == WalkInv /\ HealthInv /\ UnderWay /\ Lookups

\* A read of a block records what it found and takes nothing off the list.
LEMMA BlockLogged ==
  ASSUME WalkInv, Lookups, NEW bid
  PROVE  /\ LogOfBlock(bid) \in [listed : Seq(Problems), count : Nat]
         /\ Grown(log, LogOfBlock(bid))
<1>1. log \in [listed : Seq(Problems), count : Nat] /\ Grown(log, log)
  BY DEF WalkInv, WalkTyped, Grown
<1>2. CASE ~ Lies(bid)
  BY <1>1, <1>2 DEF LogOfBlock
<1>3. CASE Lies(bid)
  <2>1. PICK m \in cache : m[bid] \in DOMAIN file.disk
    BY <1>3 DEF Lies
  <2>2. (CHOOSE n \in cache : TRUE) \in cache
    BY <2>1
  <2>3. (CHOOSE n \in cache : TRUE) = m
    BY <2>1, <2>2 DEF Lookups
  <2>4. Place(bid) \in Nat
    BY <2>1, <2>3, IndexAssumption DEF Place, WalkInv, WalkTyped
  <2>5. PICK at : at = Place(bid)
    OBVIOUS
  <2>6. Problem("checksum", at) \in Problems /\ Problem("length", at) \in Problems
    BY <2>4, <2>5, ProblemTyped
  <2>7. PICK p, q : p = Problem("checksum", at) /\ q = Problem("length", at)
    OBVIOUS
  <2>8. PICK l : l = IF file.disk[at].sound THEN log ELSE Warned(log, p)
    OBVIOUS
  <2>9. l \in [listed : Seq(Problems), count : Nat] /\ Grown(log, l)
    BY <1>1, <2>6, <2>7, <2>8, LogGrows
  <2>10. Pushed(l, q) \in [listed : Seq(Problems), count : Nat] /\ Grown(l, Pushed(l, q))
    BY <2>6, <2>7, <2>9, LogGrows
  <2>11. Grown(log, Pushed(l, q))
    BY <2>9, <2>10, GrownTwice
  <2>12. LogOfBlock(bid) = IF file.disk[at].decodes = "short" THEN Pushed(l, q) ELSE l
    BY <1>3, <2>5, <2>7, <2>8 DEF LogOfBlock
  <2> QED BY <2>9, <2>10, <2>11, <2>12
<1> QED BY <1>2, <1>3

\* A step goes on with the walk, begins one, or leaves it alone.
LEMMA StepKinds ==
  ASSUME WalkInv, Lookups, [Next]_vars
  PROVE  /\ UNCHANGED file
         /\ \/ Visit
            \/ /\ log' \in [listed : Seq(Problems), count : Nat]
               /\ \/ \E kind \in {"NBT", "BBT"} : BeginWalk(kind)
                  \/ UNCHANGED walk /\ Grown(log, log')
                  \/ UNCHANGED walk /\ want = "none" /\ todo = <<>> /\ opened = <<>>
<1>1. /\ file \in FILES
      /\ log \in [listed : Seq(Problems), count : Nat] /\ Grown(log, log)
  BY DEF WalkInv, WalkTyped, Grown
<1>2. CASE UNCHANGED vars
  BY <1>1, <1>2 DEF vars
<1>3. CASE Open
  <2>1. [listed |-> file.troubles, count |-> Len(file.troubles)]
          \in [listed : Seq(Problems), count : Nat]
    BY <1>1, FileTyped
  <2>2. UNCHANGED file /\ log' \in [listed : Seq(Problems), count : Nat]
        /\ pc = "open" /\ (UNCHANGED walk \/ BeginWalk("NBT"))
    BY <1>3, <2>1 DEF Open
  <2> QED BY <2>2 DEF Lookups
<1>4. CASE Visited
  BY <1>4 DEF Visited, Visit, TooDeep, LoopsBack, Unreadable, Unusable, Leaf, Branch, Fresh
<1>5. CASE NodesWalked
  BY <1>1, <1>5 DEF NodesWalked
<1>6. CASE BlocksWalked
  BY <1>1, <1>6 DEF BlocksWalked
<1>7. CASE Recover
  BY <1>1, <1>7 DEF Recover
<1>8. CASE Load
  BY <1>1, <1>8 DEF Load
<1>9. CASE FillCache
  BY <1>1, <1>9 DEF FillCache
<1>10. CASE CacheFilled
  BY <1>1, <1>10 DEF CacheFilled
<1>11. CASE ReadBlock
  BY <1>1, <1>11, BlockLogged DEF ReadBlock
<1>12. CASE BeginVerify
  BY <1>1, <1>12 DEF BeginVerify
<1>13. CASE BlocksChecked
  BY <1>1, <1>13 DEF BlocksChecked
<1>14. CASE CompareTable
  BY <1>1, <1>14, BlockLogged DEF CompareTable
<1>15. CASE Report
  BY <1>1, <1>15 DEF Report
<1>16. CASE BeginExport
  BY <1>1, <1>16 DEF BeginExport
<1>17. CASE ExportEnds
  BY <1>1, <1>17 DEF ExportEnds
<1>18. CASE BeginRebuild
  BY <1>1, <1>18 DEF BeginRebuild
<1>19. CASE IndexBlocks
  BY <1>1, <1>19 DEF IndexBlocks
<1> QED BY <1>2, <1>3, <1>4, <1>5, <1>6, <1>7, <1>8, <1>9, <1>10, <1>11, <1>12, <1>13,
           <1>14, <1>15, <1>16, <1>17, <1>18, <1>19 DEF Next

\* A walk that begins is at the root.
LEMMA BeginsAtRoot ==
  ASSUME NEW kind \in {"NBT", "BBT"}, BeginWalk(kind), UNCHANGED file
  PROVE  AtRoot'
<1>1. want' = kind /\ todo' = <<At(Root(kind), 0)>> /\ seen' = {} /\ opened' = <<>>
  BY DEF BeginWalk
<1>2. Root(want)' = Root(kind)
  BY <1>1 DEF Root
<1> QED BY <1>1, <1>2 DEF AtRoot

\* Every step keeps what is said of the walk.
LEMMA WalkSteps ==
  ASSUME WalkInv, HealthInv, UnderWay, Lookups, [Next]_vars
  PROVE  WalkInv' /\ HealthInv' /\ UnderWay'
<1>1. /\ UNCHANGED file
      /\ \/ Visit
         \/ /\ log' \in [listed : Seq(Problems), count : Nat]
            /\ \/ \E kind \in {"NBT", "BBT"} : BeginWalk(kind)
               \/ UNCHANGED walk /\ Grown(log, log')
               \/ UNCHANGED walk /\ want = "none" /\ todo = <<>> /\ opened = <<>>
  BY StepKinds
<1>2. CASE Visit
  BY <1>2, VisitKeeps, HealthVisit, VisitGoesOn
<1>3. ASSUME log' \in [listed : Seq(Problems), count : Nat],
             NEW kind \in {"NBT", "BBT"}, BeginWalk(kind)
      PROVE  WalkInv' /\ HealthInv' /\ UnderWay'
  <2>1. file \in FILES
    BY DEF WalkInv, WalkTyped
  <2>2. WalkInv'
    BY <1>1, <1>3, <2>1, BeginKeeps
  <2>3. AtRoot'
    BY <1>1, <1>3, BeginsAtRoot
  <2>4. HealthInv'
    BY <2>2, <2>3, HealthAtRoot, PTL
  <2>5. UnderWay'
    BY <2>2, <2>3, UnderWayAtRoot, PTL
  <2> QED BY <2>2, <2>4, <2>5
<1>4. ASSUME UNCHANGED walk
      PROVE  UnderWay'
  <2>1. State' = State /\ want' = want
    BY <1>4 DEF State, walk
  <2> QED BY <1>1, <2>1 DEF UnderWay
<1>5. CASE /\ log' \in [listed : Seq(Problems), count : Nat]
           /\ UNCHANGED walk /\ Grown(log, log')
  <2>1. WalkInv'
    BY <1>1, <1>5, RestKeeps
  <2>2. HealthInv'
    BY <1>1, <1>5, HealthRests
  <2> QED BY <1>4, <1>5, <2>1, <2>2
<1>6. CASE /\ log' \in [listed : Seq(Problems), count : Nat]
           /\ UNCHANGED walk /\ want = "none" /\ todo = <<>> /\ opened = <<>>
  <2>1. /\ want' = "none" /\ todo' = <<>> /\ opened' = <<>> /\ seen' = seen
        /\ Opened' = {}
    BY <1>6 DEF walk, Opened, ToSet
  <2>2. WalkTyped'
    BY <1>1, <1>6, <2>1 DEF WalkInv, WalkTyped
  <2>3. OnceEach' /\ NoneLost' /\ HealthInv'
    BY <2>1 DEF OnceEach, NoneLost, HealthInv
  <2> QED BY <1>4, <1>6, <2>2, <2>3 DEF WalkInv
<1> QED BY <1>1, <1>2, <1>3, <1>5, <1>6

\* A walk of the block tree that is over has been the whole walk of that tree.
LEMMA WholeWalk ==
  ASSUME UnderWay, want = "BBT", todo = <<>>
  PROVE  Finished(file, "BBT", opened)
<1>1. PICK n \in Nat : \E t : Walks(t, n, file, want) /\ t[n] = State
  BY DEF UnderWay
<1>2. PICK t : Walks(t, n, file, want) /\ t[n] = State
  BY <1>1
<1>3. State.todo = <<>> /\ State.opened = opened
  BY DEF State
<1> QED BY <1>2, <1>3 DEF Finished

\* Every step keeps what is said of the lookups.
LEMMA LookupSteps ==
  ASSUME WalkInv, UnderWay, Lookups, [Next]_vars
  PROVE  Lookups'
<1>1. UNCHANGED file
  BY StepKinds
<1>2. ASSUME UNCHANGED blocks PROVE FromTree' <=> FromTree
  BY <1>1, <1>2 DEF FromTree
<1>3. ASSUME UNCHANGED role PROVE Recovers' <=> Recovers
  BY <1>3 DEF Recovers
<1>4. ASSUME UNCHANGED blocks PROVE MapOf(blocks)' = MapOf(blocks)
  BY <1>4
<1> USE DEF Lookups
<1>5. CASE UNCHANGED vars
  BY <1>2, <1>3, <1>4, <1>5 DEF vars, walk, index
<1>6. CASE Open
  BY <1>2, <1>3, <1>6 DEF Open, BeginWalk, walk
<1>7. CASE Visited
  <2>1. UNCHANGED index /\ UNCHANGED want /\ pc # "open"
    BY <1>7 DEF Visited, Visit, TooDeep, LoopsBack, Unreadable, Unusable, Leaf, Branch, Fresh
  <2> QED BY <1>2, <1>3, <1>4, <2>1 DEF index
<1>8. CASE NodesWalked
  BY <1>3, <1>8 DEF NodesWalked, Walked, BeginWalk, Recovers
<1>9. CASE BlocksWalked
  <2>1. /\ want = "BBT" /\ todo = <<>> /\ UNCHANGED <<opened, role, cache, want>>
        /\ blocks' = DeliveredOf(file, opened) /\ pc = "blocks" /\ pc' \in {"recover", "use"}
    BY <1>9, DeliveredIs DEF BlocksWalked, Walked, walk
  <2>2. Finished(file, "BBT", opened)
    BY <2>1, WholeWalk
  <2>3. FromTree'
    BY <1>1, <2>1, <2>2 DEF FromTree
  <2> QED BY <1>3, <2>1, <2>3
<1>10. CASE Recover
  <2>1. /\ UNCHANGED role /\ pc = "recover" /\ pc' = "use" /\ Recovers
        /\ \/ blocks # <<>> /\ UNCHANGED <<blocks, cache>>
           \/ blocks = <<>> /\ cache' = {MapOf(blocks')}
    BY <1>10 DEF Recover, Recovers
  <2>2. CASE blocks # <<>> /\ UNCHANGED <<blocks, cache>>
    BY <1>2, <1>3, <2>1, <2>2
  <2>3. CASE blocks = <<>> /\ cache' = {MapOf(blocks')}
    <3>1. cache' = {MapOf(blocks)'}
      BY <2>3
    <3> QED BY <1>3, <2>1, <2>3, <3>1
  <2> QED BY <2>1, <2>2, <2>3
<1>11. CASE Load
  <2>1. /\ UNCHANGED role /\ ~ Recovers /\ pc' = "use"
        /\ \E m : cache' = {m}
    BY <1>11 DEF Load, Recovers
  <2> QED BY <1>3, <2>1
<1>12. CASE FillCache
  BY <1>2, <1>3, <1>12 DEF FillCache, BeginWalk
<1>13. CASE CacheFilled
  <2>1. /\ want = "BBT" /\ todo = <<>> /\ UNCHANGED <<role, blocks, want>>
        /\ cache' = {MapOf(Delivered)} /\ pc = "cache" /\ pc' \in {"read", "tables", "check"}
    BY <1>13 DEF CacheFilled, Walked, walk
  <2>2. ASSUME Recovers PROVE cache' = {MapOf(blocks)}
    <3>1. PICK o : Finished(file, "BBT", o) /\ blocks = DeliveredOf(file, o)
      BY <2>1, <2>2 DEF FromTree
    <3>2. Finished(file, "BBT", opened)
      BY <2>1, WholeWalk
    <3>3. o = opened
      BY <3>1, <3>2, FinishedOnce
    <3>4. Delivered = blocks
      BY <3>1, <3>3, DeliveredIs
    <3> QED BY <2>1, <3>4
  <2>3. \E m : cache' = {m}
    BY <2>1
  <2> QED BY <1>3, <1>4, <2>1, <2>2, <2>3
<1>14. CASE ReadBlock
  BY <1>2, <1>3, <1>4, <1>14 DEF ReadBlock, walk
<1>15. CASE BeginVerify
  BY <1>2, <1>3, <1>4, <1>15 DEF BeginVerify, walk
<1>16. CASE BlocksChecked
  BY <1>2, <1>3, <1>4, <1>16 DEF BlocksChecked, walk
<1>17. CASE CompareTable
  BY <1>2, <1>3, <1>4, <1>17 DEF CompareTable, walk
<1>18. CASE Report
  BY <1>2, <1>3, <1>4, <1>18 DEF Report, walk
<1>19. CASE BeginExport
  BY <1>2, <1>3, <1>4, <1>19 DEF BeginExport, walk
<1>20. CASE ExportEnds
  BY <1>2, <1>3, <1>4, <1>20 DEF ExportEnds, walk
<1>21. CASE BeginRebuild
  BY <1>2, <1>3, <1>4, <1>21 DEF BeginRebuild, BeginWalk
<1>22. CASE IndexBlocks
  BY <1>3, <1>22 DEF IndexBlocks, walk
<1> QED BY <1>5, <1>6, <1>7, <1>8, <1>9, <1>10, <1>11, <1>12, <1>13, <1>14, <1>15, <1>16,
           <1>17, <1>18, <1>19, <1>20, <1>21, <1>22 DEF Next

-----------------------------------------------------------------------------
\* Nothing is walked or looked up before the file is opened.
LEMMA IndexInit == Init => IndexInv
<1> SUFFICES ASSUME Init PROVE IndexInv
  OBVIOUS
<1>1. file.troubles \in Seq(Problems) /\ file \in FILES
  BY FileTyped DEF Init
<1>2. /\ log = [listed |-> <<>>, count |-> 0]
      /\ want = "none" /\ todo = <<>> /\ seen = {} /\ opened = <<>>
      /\ pc = "open" /\ blocks = <<>> /\ cache = {}
  BY DEF Init
<1>3. Opened = {}
  BY <1>2 DEF Opened, ToSet
<1>4. WalkTyped
  BY <1>1, <1>2, <1>3 DEF WalkTyped
<1>5. OnceEach /\ NoneLost
  BY <1>2, <1>3 DEF OnceEach, NoneLost
<1>6. HealthInv /\ UnderWay
  BY <1>2 DEF HealthInv, UnderWay
<1>7. Lookups
  BY <1>2 DEF Lookups
<1> QED BY <1>4, <1>5, <1>6, <1>7 DEF IndexInv, WalkInv

\* The walks, what they lead to, how far they are, and where the lookups go:
\* one invariant of every command, from the opening of the file on.
THEOREM IndexInvariant == Spec => []IndexInv
<1>1. Init => IndexInv
  BY IndexInit
<1>2. IndexInv /\ [Next]_vars => IndexInv'
  <2> SUFFICES ASSUME IndexInv, [Next]_vars PROVE IndexInv'
    OBVIOUS
  <2>1. WalkInv /\ HealthInv /\ UnderWay /\ Lookups
    BY DEF IndexInv
  <2>2. WalkInv' /\ HealthInv' /\ UnderWay'
    BY <2>1, WalkSteps
  <2>3. Lookups'
    BY <2>1, LookupSteps
  <2> QED BY <2>2, <2>3 DEF IndexInv
<1> QED BY <1>1, <1>2, PTL DEF Spec

-----------------------------------------------------------------------------
BlockEntries == [bid : Nat, ib : Nat]

\* A set laid out as a sequence: its elements and no others, each somewhere.
ListOf(es, S) == es \in Seq(S) /\ \A e \in S : \E k \in 1 .. Len(es) : es[k] = e

\* A finite set can be laid out.
LEMMA SetListed ==
  ASSUME NEW S, IsFiniteSet(S)
  PROVE  ListOf(SetToSeq(S), S)
<1> DEFINE n == Cardinality(S)
           D == 1 .. n
           s == SetToSeq(S)
<1>1. n \in Nat /\ ExistsBijection(D, S)
  BY FS_CardinalityType
<1>2. PICK f : f \in Bijection(D, S)
  BY <1>1 DEF ExistsBijection
<1>3. f \in [D -> S] /\ IsInjective(f)
  BY <1>2 DEF Bijection, Injection, IsInjective
<1>4. s \in [D -> S] /\ IsInjective(s)
  BY <1>3 DEF SetToSeq
<1>5. IsFiniteSet(D) /\ Cardinality(D) = n
  BY <1>1, FS_Interval
<1> HIDE DEF s, D
<1>6. s \in Injection(D, S)
  BY <1>4 DEF Injection
<1>7. s \in Surjection(D, S)
  BY <1>5, <1>6, FS_Injection
<1>8. s \in Seq(S) /\ Len(s) = n
  BY <1>1, <1>4 DEF D
<1>9. \A e \in S : \E k \in D : s[k] = e
  BY <1>7 DEF Surjection
<1> QED BY <1>8, <1>9 DEF D, s, ListOf

\* Entries laid out in the order of their ids.
LEMMA SortedListed ==
  ASSUME NEW S, IsFiniteSet(S), S \subseteq BlockEntries
  PROVE  ListOf(Sorted(S), S)
<1> DEFINE s == SetToSeq(S)
           keys == [k \in DOMAIN s |-> s[k].bid]
<1>1. s \in Seq(S) /\ \A e \in S : \E k \in 1 .. Len(s) : s[k] = e
  BY SetListed DEF ListOf
<1>2. DOMAIN s = 1 .. Len(s) /\ \A k \in 1 .. Len(s) : s[k] \in BlockEntries
  BY <1>1
<1>3. keys \in [1 .. Len(s) -> Int]
  BY <1>2 DEF BlockEntries
<1>4. Sorted(S) = InOrder(s, keys)
  BY DEF Sorted
<1> HIDE DEF s, keys
<1>5. PICK f : SortedFrom(InOrder(s, keys), s, keys, f)
  BY <1>1, <1>3, SortedIs
<1>6. InOrder(s, keys) \in Seq(S)
  BY <1>1, <1>3, SortedIs
<1>7. ASSUME NEW e \in S
      PROVE  \E k \in 1 .. Len(InOrder(s, keys)) : InOrder(s, keys)[k] = e
  <2>1. PICK j \in 1 .. Len(s) : s[j] = e
    BY <1>1
  <2>2. PICK k \in 1 .. Len(s) : f[k] = j
    BY <1>5 DEF SortedFrom
  <2> QED BY <1>5, <2>1, <2>2 DEF SortedFrom
<1> QED BY <1>4, <1>6, <1>7 DEF ListOf

\* A map gives every id a place that some entry gives it.
PlacesFrom(m, S) == \A bid \in DOMAIN m : \E e \in S : e.bid = bid /\ m[bid] = e.ib

\* The map a list of entries makes has an entry for each of their ids, and no
\* place that none of them gives it.
LEMMA MapIs ==
  ASSUME NEW S, NEW es, ListOf(es, S)
  PROVE  /\ DOMAIN MapOf(es) = {e.bid : e \in S}
         /\ PlacesFrom(MapOf(es), S)
<1> DEFINE I(bid) == {k \in DOMAIN es : es[k].bid = bid}
           last(bid) == CHOOSE k \in DOMAIN es :
             es[k].bid = bid /\ \A j \in DOMAIN es : es[j].bid = bid => j <= k
<1>1. /\ es \in Seq(S) /\ DOMAIN es = 1 .. Len(es) /\ Len(es) \in Nat
      /\ \A k \in DOMAIN es : es[k] \in S
      /\ \A e \in S : \E k \in DOMAIN es : es[k] = e
  BY DEF ListOf
<1>2. MapOf(es) = [bid \in {es[k].bid : k \in DOMAIN es} |-> es[last(bid)].ib]
  BY DEF MapOf
<1>3. {es[k].bid : k \in DOMAIN es} = {e.bid : e \in S}
  BY <1>1
<1>4. ASSUME NEW bid \in {es[k].bid : k \in DOMAIN es}
      PROVE  last(bid) \in DOMAIN es /\ es[last(bid)].bid = bid
  <2>1. I(bid) \subseteq Nat /\ I(bid) # {} /\ \A k \in I(bid) : k <= Len(es)
    BY <1>1, <1>4
  <2>2. PICK k \in I(bid) : \A j \in I(bid) : j <= k
    <3> HIDE DEF I
    <3> QED BY <1>1, <2>1, Greatest
  <2>3. k \in DOMAIN es /\ es[k].bid = bid /\ \A j \in DOMAIN es : es[j].bid = bid => j <= k
    BY <2>2
  <2> QED BY <2>3
<1> HIDE DEF last
<1>5. DOMAIN MapOf(es) = {es[k].bid : k \in DOMAIN es}
  BY <1>2
<1>6. ASSUME NEW bid \in DOMAIN MapOf(es)
      PROVE  \E e \in S : e.bid = bid /\ MapOf(es)[bid] = e.ib
  <2>1. MapOf(es)[bid] = es[last(bid)].ib
    BY <1>2, <1>5
  <2>2. last(bid) \in DOMAIN es /\ es[last(bid)].bid = bid
    BY <1>4, <1>5
  <2> QED BY <1>1, <2>1, <2>2
<1> QED BY <1>3, <1>5, <1>6 DEF PlacesFrom

\* Finitely many naturals have a bound.
LEMMA FiniteBound ==
  ASSUME NEW K, K \subseteq Nat, IsFiniteSet(K)
  PROVE  \E b \in Nat : \A m \in K : m <= b
<1>1. PICK n \in Nat : ExistsBijection(1 .. n, K)
  BY FS_NatBijection
<1>2. PICK f : f \in Bijection(1 .. n, K)
  BY <1>1 DEF ExistsBijection
<1>3. f \in [1 .. n -> K] /\ \A m \in K : \E j \in 1 .. n : f[j] = m
  BY <1>2 DEF Bijection, Injection, Surjection
<1> DEFINE P == {k \in Nat : k <= n => \E b \in Nat : \A j \in 1 .. k : f[j] <= b}
<1>4. 0 \in P
  OBVIOUS
<1>5. ASSUME NEW k \in Nat, k \in P, k + 1 <= n
      PROVE  k + 1 \in P
  <2>1. PICK b \in Nat : \A j \in 1 .. k : f[j] <= b
    BY <1>5
  <2> HIDE DEF P
  <2>0. ASSUME NEW j \in 1 .. k + 1 PROVE f[j] \in Nat
    <3>1. j \in 1 .. n
      BY <1>5
    <3>2. f[j] \in K
      BY <1>3, <3>1
    <3> QED BY <3>2
  <2>2. PICK a \in Nat : a = f[k + 1]
    BY <1>5, <2>0
  <2>3. \A j \in 1 .. k + 1 : f[j] <= a + b
    <3> SUFFICES ASSUME NEW j \in 1 .. k + 1 PROVE f[j] <= a + b
      OBVIOUS
    <3>1. CASE j = k + 1
      BY <2>2, <3>1
    <3>2. CASE j \in 1 .. k
      <4>1. PICK x \in Nat : x = f[j]
        BY <2>0
      <4> QED BY <2>1, <3>2, <4>1
    <3> QED BY <3>1, <3>2
  <2>4. a + b \in Nat /\ k + 1 \in Nat
    OBVIOUS
  <2> QED BY <2>3, <2>4 DEF P
<1>6. n \in P
  <2>1. \A k \in Nat : k \in P => k + 1 \in P
    <3> SUFFICES ASSUME NEW k \in Nat, k \in P PROVE k + 1 \in P
      OBVIOUS
    <3>1. CASE k + 1 <= n
      <4> HIDE DEF P
      <4> QED BY <1>5, <3>1
    <3>2. CASE ~ (k + 1 <= n)
      BY <3>2
    <3> QED BY <3>1, <3>2
  <2> HIDE DEF P
  <2> QED BY <1>4, <2>1, Induct
<1>7. PICK b \in Nat : \A j \in 1 .. n : f[j] <= b
  BY <1>6
<1> QED BY <1>3, <1>7

\* What carving finds: whole blocks where they lie, and of every id with a whole
\* block before the cut one.
LEMMA CarvedAre ==
  ASSUME file \in FILES, NEW c
  PROVE  /\ Carved(c) \subseteq BlockEntries /\ IsFiniteSet(Carved(c))
         /\ \A e \in Carved(c) : BlockIntact(e)
         /\ \A ib \in DOMAIN file.disk :
              SoundAt(ib) /\ ib < c => \E e \in Carved(c) : e.bid = file.disk[ib].id
<1> DEFINE J == {ib \in DOMAIN file.disk :
                   /\ ib < c /\ SoundAt(ib)
                   /\ \A jb \in DOMAIN file.disk :
                        jb > ib /\ jb < c /\ SoundAt(jb) => file.disk[jb].id # file.disk[ib].id}
           entry(ib) == [bid |-> file.disk[ib].id, ib |-> ib]
           T == {entry(ib) : ib \in J}
           f == [ib \in J |-> entry(ib)]
<1>1. /\ DOMAIN file.disk \subseteq Nat /\ IsFiniteSet(DOMAIN file.disk)
      /\ \A ib \in DOMAIN file.disk : file.disk[ib].id \in Nat
  BY IndexAssumption
<1>2. Carved(c) = T /\ J \subseteq DOMAIN file.disk
  BY DEF Carved
<1>3. IsFiniteSet(T)
  <2>1. f \in Surjection(J, T)
    <3> HIDE DEF J
    <3> QED BY DEF Surjection
  <2>2. IsFiniteSet(J)
    <3> HIDE DEF J
    <3> QED BY <1>1, <1>2, FS_Subset
  <2> HIDE DEF J, T, f
  <2> QED BY <2>1, <2>2, FS_Surjection
<1>4. ASSUME NEW e \in T
      PROVE  e \in BlockEntries /\ BlockIntact(e)
  <2>1. PICK ib \in J : e = entry(ib)
    OBVIOUS
  <2>2. ib \in Nat /\ file.disk[ib].id \in Nat /\ SoundAt(ib)
    BY <1>1, <1>2
  <2>3. e.ib = ib /\ e.bid = file.disk[ib].id
    BY <2>1
  <2>4. BlockIntact(e)
    BY <2>2, <2>3 DEF BlockIntact
  <2>5. e \in BlockEntries
    BY <2>1, <2>2 DEF BlockEntries
  <2> QED BY <2>4, <2>5
<1>5. ASSUME NEW ib \in DOMAIN file.disk, SoundAt(ib), ib < c
      PROVE  \E e \in T : e.bid = file.disk[ib].id
  <2> DEFINE K == {jb \in DOMAIN file.disk :
                     jb < c /\ SoundAt(jb) /\ file.disk[jb].id = file.disk[ib].id}
  <2>1. K \subseteq Nat /\ IsFiniteSet(K) /\ ib \in K
    <3>1. K \subseteq DOMAIN file.disk /\ ib \in K
      BY <1>5
    <3> HIDE DEF K
    <3> QED BY <1>1, <3>1, FS_Subset
  <2>2. PICK jb \in K : \A kb \in K : kb <= jb
    <3> HIDE DEF K
    <3>1. PICK b \in Nat : \A m \in K : m <= b
      BY <2>1, FiniteBound
    <3> QED BY <2>1, <3>1, Greatest
  <2>3. jb \in J
    <3>1. jb \in DOMAIN file.disk /\ jb < c /\ SoundAt(jb)
      BY <2>2
    <3>2. ASSUME NEW kb \in DOMAIN file.disk, kb > jb, kb < c, SoundAt(kb),
                 file.disk[kb].id = file.disk[jb].id
          PROVE  FALSE
      <4>1. kb \in K
        BY <2>2, <3>2
      <4>2. kb <= jb /\ kb \in Nat /\ jb \in Nat
        BY <2>2, <4>1, <1>1, <3>1
      <4> QED BY <3>2, <4>2
    <3> QED BY <3>1, <3>2
  <2>4. file.disk[jb].id = file.disk[ib].id
    BY <2>2
  <2>5. entry(jb) \in T /\ entry(jb).bid = file.disk[ib].id
    BY <2>3, <2>4
  <2> QED BY <2>5
<1> QED BY <1>2, <1>3, <1>4, <1>5

\* The swept leaves of the block tree hold finitely many entries of blocks.
LEMMA SweptAre ==
  ASSUME file \in FILES, NEW c
  PROVE  Entries("BBT", c) \subseteq BlockEntries /\ IsFiniteSet(Entries("BBT", c))
<1> DEFINE L == {p \in Leaves("BBT") : p < c}
           entries(p) == ToSet(file.pages[p].ents)
           T == {entries(p) : p \in L}
           f == [p \in L |-> entries(p)]
<1>1. L \subseteq DOMAIN file.pages /\ IsFiniteSet(DOMAIN file.pages)
  BY FileTyped DEF Leaves
<1>2. IsFiniteSet(L)
  <2> HIDE DEF L
  <2> QED BY <1>1, FS_Subset
<1>3. IsFiniteSet(T)
  <2>1. f \in Surjection(L, T)
    <3> HIDE DEF L, entries
    <3> QED BY DEF Surjection
  <2> HIDE DEF L, T, f
  <2> QED BY <1>2, <2>1, FS_Surjection
<1>4. ASSUME NEW p \in L
      PROVE  entries(p) \subseteq BlockEntries /\ IsFiniteSet(entries(p))
  <2>1. file.pages[p].ents \in Seq([bid : Nat, ib : Nat])
    BY IndexAssumption DEF Leaves
  <2>2. PICK s : s = file.pages[p].ents
    OBVIOUS
  <2>3. DOMAIN s = 1 .. Len(s) /\ Len(s) \in Nat /\ \A k \in DOMAIN s : s[k] \in BlockEntries
    <3>1. s \in Seq(BlockEntries)
      BY <2>1, <2>2 DEF BlockEntries
    <3> QED BY <3>1
  <2>4. ToSet(s) \subseteq BlockEntries
    BY <2>3 DEF ToSet
  <2> DEFINE D == DOMAIN s
             U == ToSet(s)
             g == [k \in D |-> s[k]]
  <2>5. g \in Surjection(D, U)
    BY DEF Surjection, ToSet
  <2>6. IsFiniteSet(D)
    BY <2>3, FS_Interval
  <2>7. IsFiniteSet(U)
    <3> HIDE DEF D, U, g
    <3> QED BY <2>5, <2>6, FS_Surjection
  <2> QED BY <2>2, <2>4, <2>7
<1>5. Entries("BBT", c) = UNION T
  BY DEF Entries
<1>6. IsFiniteSet(UNION T)
  <2>1. \A s \in T : IsFiniteSet(s)
    BY <1>4
  <2> HIDE DEF T
  <2> QED BY <1>3, <2>1, FS_UNION
<1>7. UNION T \subseteq BlockEntries
  BY <1>4
<1> QED BY <1>5, <1>6, <1>7

\* The map over entries that are whole has no ghosts.
LEMMA MapWhole ==
  ASSUME NEW S, \A e \in S : BlockIntact(e), NEW es, ListOf(es, S),
         NEW bid \in DOMAIN MapOf(es)
  PROVE  BlockIntact([bid |-> bid, ib |-> MapOf(es)[bid]])
<1>1. PICK e \in S : e.bid = bid /\ MapOf(es)[bid] = e.ib
  <2>1. PlacesFrom(MapOf(es), S)
    BY MapIs
  <2> QED BY <2>1 DEF PlacesFrom
<1>2. BlockIntact(e)
  BY <1>1
<1>3. PICK x : x = [bid |-> bid, ib |-> MapOf(es)[bid]]
  OBVIOUS
<1>4. x.bid = e.bid /\ x.ib = e.ib
  BY <1>1, <1>3
<1> QED BY <1>2, <1>3, <1>4 DEF BlockIntact

\* Before anything is recovered nothing is adopted.
Adopted ==
  /\ pc \in {"open", "nodes", "blocks", "recover"} => cache = {}
  /\ NoGhosts

\* What the command line recovers has no ghosts and no gaps.
LEMMA RecoversAll ==
  ASSUME file \in FILES, Adopted, Recover
  PROVE  NoGhosts'
<1>1. /\ cache = {} /\ UNCHANGED <<file, role>> /\ role \in {"verify", "salvage"}
  BY DEF Adopted, Recover
<1>2. CASE cache' = cache
  BY <1>1, <1>2 DEF NoGhosts
<1>3. CASE cache' # cache
  <2>1. PICK bs \in OnePer(Entries("BBT", cut'.pages), "bid") :
          /\ blocks' = Sorted(Merge(Carved(cut'.blocks), bs))
          /\ cache' = {MapOf(blocks')}
    BY <1>3 DEF Recover
  <2>2. PICK c, d : c = cut'.blocks /\ d = cut'.pages
    OBVIOUS
  <2>3. PICK S : S = Merge(Carved(c), bs)
    OBVIOUS
  <2>4. /\ bs \subseteq Entries("BBT", d)
        /\ \A e \in Entries("BBT", d) : \E x \in bs : x.bid = e.bid
    BY <2>2 DEF OnePer
  <2>5. /\ Entries("BBT", d) \subseteq BlockEntries /\ IsFiniteSet(Entries("BBT", d))
        /\ Carved(c) \subseteq BlockEntries /\ IsFiniteSet(Carved(c))
        /\ \A e \in Carved(c) : BlockIntact(e)
        /\ \A ib \in DOMAIN file.disk :
             SoundAt(ib) /\ ib < c => \E e \in Carved(c) : e.bid = file.disk[ib].id
    BY SweptAre, CarvedAre
  <2>6. /\ S \subseteq Carved(c) \union bs /\ Carved(c) \subseteq S
        /\ \A e \in S : BlockIntact(e)
        /\ \A e \in bs : BlockIntact(e) => \E x \in S : x.bid = e.bid
    BY <2>3, <2>5 DEF Merge
  <2>7. S \subseteq BlockEntries /\ IsFiniteSet(S)
    <3>1. IsFiniteSet(bs)
      BY <2>4, <2>5, FS_Subset
    <3>2. IsFiniteSet(Carved(c) \union bs)
      BY <2>5, <3>1, FS_Union
    <3>3. IsFiniteSet(S)
      BY <2>6, <3>2, FS_Subset
    <3> QED BY <2>4, <2>5, <2>6, <3>3
  <2>8. PICK es : es = Sorted(S)
    OBVIOUS
  <2>9. ListOf(es, S)
    BY <2>7, <2>8, SortedListed
  <2>10. PICK m : m = MapOf(es)
    OBVIOUS
  <2>11. cache' = {m}
    BY <2>1, <2>2, <2>3, <2>8, <2>10
  <2>12. DOMAIN m = {e.bid : e \in S}
    BY <2>9, <2>10, MapIs
  <2>13. \A bid \in DOMAIN m : BlockIntact([bid |-> bid, ib |-> m[bid]])
    BY <2>6, <2>9, <2>10, MapWhole
  <2>14. ASSUME NEW ib \in DOMAIN file.disk, SoundAt(ib), ib < c
         PROVE  file.disk[ib].id \in DOMAIN m
    BY <2>5, <2>6, <2>12, <2>14
  <2>15. ASSUME NEW ib \in DOMAIN file.disk, SoundAt(ib),
                {e \in Entries("BBT", d) : e.bid = file.disk[ib].id}
                  = {[bid |-> file.disk[ib].id, ib |-> ib]}
         PROVE  file.disk[ib].id \in DOMAIN m
    <3>1. PICK e : e = [bid |-> file.disk[ib].id, ib |-> ib]
      OBVIOUS
    <3>2. e \in Entries("BBT", d) /\ e.bid = file.disk[ib].id /\ e.ib = ib
      BY <2>15, <3>1
    <3>3. PICK x \in bs : x.bid = e.bid
      BY <2>4, <3>2
    <3>4. x = e
      BY <2>4, <2>15, <3>1, <3>2, <3>3
    <3>5. BlockIntact(x)
      BY <2>15, <3>2, <3>4 DEF BlockIntact
    <3> QED BY <2>6, <2>12, <3>2, <3>4, <3>5
  <2>16. /\ \A e : BlockIntact(e)' <=> BlockIntact(e)
         /\ \A ib : SoundAt(ib)' <=> SoundAt(ib)
         /\ \A p : Entries("BBT", p)' = Entries("BBT", p)
    BY <1>1 DEF BlockIntact, SoundAt, Entries, Leaves
  <2> QED BY <1>1, <2>2, <2>11, <2>13, <2>14, <2>15, <2>16 DEF NoGhosts
<1> QED BY <1>2, <1>3

\* What the window carves and adopts has no ghosts, and no gaps before the cut.
LEMMA LoadsAll ==
  ASSUME file \in FILES, Load
  PROVE  NoGhosts'
<1>1. /\ UNCHANGED <<file, role>> /\ role \in {"export", "rebuild"}
      /\ cache' = {MapOf(SetToSeq(Carved(cut'.blocks)))}
  BY DEF Load
<1>2. PICK c : c = cut'.blocks
  OBVIOUS
<1>3. PICK S : S = Carved(c)
  OBVIOUS
<1>4. /\ IsFiniteSet(S) /\ \A e \in S : BlockIntact(e)
      /\ \A ib \in DOMAIN file.disk :
           SoundAt(ib) /\ ib < c => \E e \in S : e.bid = file.disk[ib].id
  BY <1>3, CarvedAre
<1>5. PICK es : es = SetToSeq(S)
  OBVIOUS
<1>6. ListOf(es, S)
  BY <1>4, <1>5, SetListed
<1>7. PICK m : m = MapOf(es)
  OBVIOUS
<1>8. cache' = {m}
  BY <1>1, <1>2, <1>3, <1>5, <1>7
<1>9. DOMAIN m = {e.bid : e \in S}
  BY <1>6, <1>7, MapIs
<1>10. \A bid \in DOMAIN m : BlockIntact([bid |-> bid, ib |-> m[bid]])
  BY <1>4, <1>6, <1>7, MapWhole
<1>11. ASSUME NEW ib \in DOMAIN file.disk, SoundAt(ib), ib < c
       PROVE  file.disk[ib].id \in DOMAIN m
  BY <1>4, <1>9, <1>11
<1>12. role' \notin {"verify", "salvage"}
  BY <1>1
<1>13. /\ \A e : BlockIntact(e)' <=> BlockIntact(e)
       /\ \A ib : SoundAt(ib)' <=> SoundAt(ib)
  BY <1>1 DEF BlockIntact, SoundAt
<1> QED BY <1>1, <1>2, <1>8, <1>10, <1>11, <1>12, <1>13 DEF NoGhosts

\* Every step keeps what is said of adopted indexes.
LEMMA AdoptedSteps ==
  ASSUME WalkInv, Adopted, [Next]_vars
  PROVE  Adopted'
<1>1. file \in FILES
  BY DEF WalkInv, WalkTyped
<1>2. ASSUME pc' # "use", pc' \in {"open", "nodes", "blocks", "recover"} => cache' = {}
      PROVE  Adopted'
  BY <1>2 DEF Adopted, NoGhosts
<1>3. CASE UNCHANGED vars
  <2>1. UNCHANGED <<file, role, pc, cache, cut>>
    BY <1>3 DEF vars, index
  <2> QED BY <2>1 DEF Adopted, NoGhosts, BlockIntact, SoundAt, Entries, Leaves
<1>4. CASE Open
  BY <1>2, <1>4 DEF Open, Adopted
<1>5. CASE Visited
  BY <1>2, <1>5 DEF Visited, index, Adopted
<1>6. CASE NodesWalked
  BY <1>2, <1>6 DEF NodesWalked, Walked, Adopted
<1>7. CASE BlocksWalked
  <2>1. cache' = {}
    BY <1>7 DEF BlocksWalked, Walked, Adopted
  <2> QED BY <2>1 DEF Adopted, NoGhosts
<1>8. CASE Recover
  <2>1. pc' = "use"
    BY <1>8 DEF Recover
  <2> QED BY <1>1, <1>8, <2>1, RecoversAll DEF Adopted
<1>9. CASE Load
  <2>1. pc' = "use"
    BY <1>9 DEF Load
  <2> QED BY <1>1, <1>9, <2>1, LoadsAll DEF Adopted
<1>10. CASE FillCache \/ CacheFilled
  BY <1>2, <1>10 DEF FillCache, CacheFilled
<1>11. CASE ReadBlock \/ BeginVerify \/ BlocksChecked \/ CompareTable \/ Report
  BY <1>2, <1>11 DEF ReadBlock, BeginVerify, BlocksChecked, CompareTable, Report
<1>12. CASE BeginExport \/ ExportEnds \/ BeginRebuild \/ IndexBlocks
  BY <1>2, <1>12 DEF BeginExport, ExportEnds, BeginRebuild, IndexBlocks
<1> QED BY <1>3, <1>4, <1>5, <1>6, <1>7, <1>8, <1>9, <1>10, <1>11, <1>12 DEF Next

-----------------------------------------------------------------------------
\* What is wrong with the header or with a page that was opened is on the list.
Noticed ==
  /\ pc # "open" /\ log.listed = <<>> => file.troubles = <<>>
  /\ \A p \in Opened : ~ file.pages[p].sound => log.listed # <<>>

\* How far a command line run is, and what it has counted.
Phases == Recovers =>
  /\ pc \notin {"read", "copy"}
  /\ pc \in {"recover", "use", "check", "tables", "done"} => todo = <<>>
  /\ pc = "check" => "rotten" \notin DOMAIN report
  /\ pc = "tables" => "rotten" \in DOMAIN report
  /\ pc \in {"check", "tables", "cache"} => "clean" \notin DOMAIN report
  /\ pc = "done" /\ ~ file.refused => report.clean = (log.listed = <<>>)

\* A block that was looked up: if it fails its checksum the list says so.
Dealt(bid) ==
  /\ cache # {}
  /\ log.listed = <<>> /\ Lies(bid) => file.disk[Place(bid)].sound

Checking == pc = "check" \/ (pc = "cache" /\ "rotten" \notin DOMAIN report)
Through ==
  \/ pc = "tables"
  \/ pc = "cache" /\ "rotten" \in DOMAIN report
  \/ pc = "done" /\ ~ file.refused

\* Every block of the index is dealt with, or waits for its turn.
InTurn == Recovers =>
  /\ Checking => \A k \in DOMAIN blocks :
                   blocks[k].bid \in ToSet(left) \/ Dealt(blocks[k].bid)
  /\ Through => \A k \in DOMAIN blocks : Dealt(blocks[k].bid)

\* A list that had something on it has it still.
LEMMA StaysFull ==
  ASSUME NEW l \in [listed : Seq(Problems), count : Nat],
         NEW m \in [listed : Seq(Problems), count : Nat],
         Grown(l, m), l.listed # <<>>
  PROVE  m.listed # <<>>
<1>1. l.listed \in Seq(Problems) /\ m.listed \in Seq(Problems)
  OBVIOUS
<1>2. 1 \in 1 .. Len(l.listed)
  BY <1>1
<1>3. 1 \in 1 .. Len(m.listed)
  BY <1>2 DEF Grown
<1> QED BY <1>1, <1>3

\* A visit takes nothing off the list, and notes a page it opens that is not sound.
LEMMA VisitLogged ==
  ASSUME WalkInv, Visit
  PROVE  /\ log.listed # <<>> => log'.listed # <<>>
         /\ UNCHANGED file
         /\ \A p \in Opened' : p \in Opened \/ (~ file.pages[p].sound => log'.listed # <<>>)
<1>1. /\ log \in [listed : Seq(Problems), count : Nat] /\ Grown(log, log)
      /\ opened \in Seq(Nat)
  BY DEF WalkInv, WalkTyped, Grown
<1>2. todo # <<>> /\ UNCHANGED file
  BY DEF Visit, TooDeep, LoopsBack, Unreadable, Unusable, Leaf, Branch, Fresh, Visiting
<1>3. PICK at \in Nat : at = Here.at
  BY <1>2, HeadTyped DEF WalkInv, WalkTyped
<1>4. PICK l : l = LogOfPage(at)
  OBVIOUS
<1>5. /\ l \in [listed : Seq(Problems), count : Nat] /\ Grown(log, l)
      /\ ~ file.pages[at].sound => Len(l.listed) > 0
  BY <1>1, <1>4, PageLogged
<1>6. /\ log.listed # <<>> => l.listed # <<>>
      /\ ~ file.pages[at].sound => l.listed # <<>>
  <2>1. log.listed # <<>> => l.listed # <<>>
    BY <1>1, <1>5, StaysFull
  <2>2. Len(l.listed) > 0 => l.listed # <<>>
    OBVIOUS
  <2> QED BY <1>5, <2>1, <2>2
<1>7. ASSUME NEW k \in [listed : Seq(Problems), count : Nat], NEW q
      PROVE  Pushed(k, q).listed # <<>>
  <2>1. k.listed \in Seq(Problems)
    OBVIOUS
  <2>2. Pushed(k, q).listed = Append(k.listed, q)
    BY DEF Pushed
  <2> QED BY <2>1, <2>2
<1>8. CASE Leaf \/ Branch
  <2>1. opened' = Append(opened, at) /\ log' = l
    BY <1>3, <1>4, <1>8 DEF Leaf, Branch
  <2>2. Opened' = Opened \union {at}
    <3>1. /\ Len(opened) \in Nat /\ DOMAIN opened = 1 .. Len(opened)
          /\ DOMAIN opened' = 1 .. Len(opened) + 1
          /\ opened'[Len(opened) + 1] = at
          /\ \A k \in 1 .. Len(opened) : opened'[k] = opened[k]
      BY <1>1, <2>1
    <3> QED BY <3>1 DEF Opened, ToSet
  <2> QED BY <1>2, <1>6, <2>1, <2>2
<1>9. ASSUME UNCHANGED opened, log'.listed # <<>>
      PROVE  /\ log.listed # <<>> => log'.listed # <<>>
             /\ UNCHANGED file
             /\ \A p \in Opened' : p \in Opened \/ (~ file.pages[p].sound => log'.listed # <<>>)
  BY <1>2, <1>9 DEF Opened
<1>10. CASE TooDeep
  BY <1>1, <1>7, <1>9, <1>10 DEF TooDeep
<1>11. CASE LoopsBack
  BY <1>1, <1>7, <1>9, <1>11 DEF LoopsBack
<1>12. CASE Unreadable
  BY <1>1, <1>7, <1>9, <1>12 DEF Unreadable
<1>13. CASE Unusable
  <2>1. log' = Pushed(l, Problem("unusable", at))
    BY <1>3, <1>4, <1>13 DEF Unusable
  <2>2. log'.listed # <<>>
    BY <1>5, <1>7, <2>1
  <2> QED BY <1>9, <1>13, <2>2 DEF Unusable
<1> QED BY <1>8, <1>10, <1>11, <1>12, <1>13 DEF Visit

\* A look at a block takes nothing off the list, and notes one that fails its checksum.
LEMMA LookLogged ==
  ASSUME WalkInv, Lookups, NEW bid
  PROVE  /\ log.listed # <<>> => LogOfBlock(bid).listed # <<>>
         /\ Lies(bid) /\ ~ file.disk[Place(bid)].sound => LogOfBlock(bid).listed # <<>>
<1>1. log \in [listed : Seq(Problems), count : Nat]
  BY DEF WalkInv, WalkTyped
<1>2. /\ LogOfBlock(bid) \in [listed : Seq(Problems), count : Nat]
      /\ Grown(log, LogOfBlock(bid))
  BY BlockLogged
<1>3. log.listed # <<>> => LogOfBlock(bid).listed # <<>>
  BY <1>1, <1>2, StaysFull
<1>4. ASSUME Lies(bid), ~ file.disk[Place(bid)].sound
      PROVE  LogOfBlock(bid).listed # <<>>
  <2>1. PICK m \in cache : bid \in DOMAIN m /\ m[bid] \in DOMAIN file.disk
    BY <1>4 DEF Lies
  <2>2. (CHOOSE n \in cache : TRUE) = m
    BY <2>1 DEF Lookups
  <2>3. PICK at \in Nat : at = Place(bid)
    BY <2>1, <2>2, IndexAssumption DEF Place, WalkInv, WalkTyped
  <2>4. PICK p, q : p = Problem("checksum", at) /\ q = Problem("length", at)
    OBVIOUS
  <2>5. p \in Problems /\ q \in Problems
    BY <2>3, <2>4, ProblemTyped
  <2>6. PICK l : l = Warned(log, p)
    OBVIOUS
  <2>7. l \in [listed : Seq(Problems), count : Nat] /\ Len(l.listed) > 0
    BY <1>1, <2>5, <2>6, LogGrows
  <2>8. l.listed # <<>>
    BY <2>7
  <2>9. Pushed(l, q) \in [listed : Seq(Problems), count : Nat] /\ Grown(l, Pushed(l, q))
    BY <2>5, <2>7, LogGrows
  <2>10. Pushed(l, q).listed # <<>>
    BY <2>7, <2>8, <2>9, StaysFull
  <2>11. LogOfBlock(bid) = IF file.disk[at].decodes = "short" THEN Pushed(l, q) ELSE l
    BY <1>4, <2>3, <2>4, <2>6 DEF LogOfBlock
  <2> QED BY <2>8, <2>10, <2>11
<1> QED BY <1>3, <1>4

\* Once the file is open, no step takes the last problem off the list.
LEMMA ListStays ==
  ASSUME WalkInv, Lookups, [Next]_vars, pc # "open"
  PROVE  log.listed # <<>> => log'.listed # <<>>
<1>1. CASE Visited
  BY <1>1, VisitLogged DEF Visited
<1>2. CASE ReadBlock
  BY <1>2, LookLogged DEF ReadBlock
<1>3. CASE CompareTable
  BY <1>3, LookLogged DEF CompareTable
<1>4. CASE Open
  BY <1>4 DEF Open
<1>5. CASE UNCHANGED vars
  BY <1>5 DEF vars
<1>6. CASE NodesWalked \/ BlocksWalked \/ Recover \/ Load \/ FillCache \/ CacheFilled
  BY <1>6 DEF NodesWalked, BlocksWalked, Recover, Load, FillCache, CacheFilled
<1>7. CASE BeginVerify \/ BlocksChecked \/ Report
  BY <1>7 DEF BeginVerify, BlocksChecked, Report
<1>8. CASE BeginExport \/ ExportEnds \/ BeginRebuild \/ IndexBlocks
  BY <1>8 DEF BeginExport, ExportEnds, BeginRebuild, IndexBlocks
<1> QED BY <1>1, <1>2, <1>3, <1>4, <1>5, <1>6, <1>7, <1>8 DEF Next

\* Every step keeps what was noticed on the list.
LEMMA NoticedSteps ==
  ASSUME WalkInv, Lookups, Noticed, [Next]_vars
  PROVE  Noticed'
<1>1. UNCHANGED file
  BY StepKinds
<1>2. pc = "open" => opened = <<>>
  BY DEF Lookups
<1>3. pc' # "open" /\ log'.listed = <<>> => file'.troubles = <<>>
  <2>1. CASE pc = "open"
    <3>1. CASE UNCHANGED vars
      BY <2>1, <3>1 DEF vars, index
    <3>2. CASE Open
      BY <3>2 DEF Open
    <3> QED BY <2>1, <3>1, <3>2
        DEF Next, Visited, NodesWalked, BlocksWalked, Walked, Recover, Load, FillCache,
            CacheFilled, ReadBlock, BeginVerify, BlocksChecked, CompareTable, Report,
            BeginExport, ExportEnds, BeginRebuild, IndexBlocks
  <2>2. CASE pc # "open"
    BY <1>1, <2>2, ListStays DEF Noticed
  <2> QED BY <2>1, <2>2
<1>4. ASSUME NEW p \in Opened', ~ file'.pages[p].sound
      PROVE  log'.listed # <<>>
  <2>1. CASE Visit
    <3>1. p \in Opened \/ log'.listed # <<>>
      BY <1>1, <1>4, <2>1, VisitLogged
    <3>2. p \in Opened => log.listed # <<>>
      BY <1>1, <1>4 DEF Noticed
    <3> QED BY <2>1, <3>1, <3>2, VisitLogged
  <2>2. CASE UNCHANGED walk
    <3>1. p \in Opened /\ opened # <<>>
      BY <1>4, <2>2 DEF walk, Opened, ToSet
    <3>2. log.listed # <<>> /\ pc # "open"
      BY <1>1, <1>2, <1>4, <3>1 DEF Noticed
    <3> QED BY <3>2, ListStays
  <2>3. CASE opened' = <<>>
    BY <1>4, <2>3 DEF Opened, ToSet
  <2>4. ASSUME NEW kind, BeginWalk(kind)
        PROVE  opened' = <<>>
    BY <2>4 DEF BeginWalk
  <2> QED BY <2>1, <2>2, <2>3, <2>4, StepKinds
<1> QED BY <1>3, <1>4 DEF Noticed

-----------------------------------------------------------------------------
\* All that leaves hold, and what blocks can be entered as.
Held == BlockEntries \union
        UNION {ToSet(file.pages[p].ents) : p \in {p \in DOMAIN file.pages : file.pages[p].leaf}}

\* What a walk delivers are entries that leaves hold.
LEMMA DeliveredTyped ==
  ASSUME WalkInv
  PROVE  Delivered \in Seq(Held)
<1> DEFINE N == Len(opened)
           V == Seq(Held)
           leaf(n) == file.pages[opened[n]].leaf
           ents(n) == file.pages[opened[n]].ents
           step == [n \in 1 .. N |-> [s \in V |-> IF leaf(n) THEN s \o ents(n) ELSE s]]
           Rec(u) == u = [n \in 0 .. N |->
                        IF n = 0 THEN <<>>
                        ELSE IF leaf(n) THEN u[n - 1] \o ents(n) ELSE u[n - 1]]
           upTo == CHOOSE u : Rec(u)
<1>1. /\ file \in FILES /\ opened \in Seq(Nat) /\ N \in Nat
      /\ \A n \in 1 .. N : opened[n] \in DOMAIN file.pages
  <2>1. /\ file \in FILES /\ opened \in Seq(Nat) /\ Opened \subseteq DOMAIN file.pages
    BY DEF WalkInv, WalkTyped
  <2>2. DOMAIN opened = 1 .. N /\ N \in Nat
    BY <2>1
  <2> QED BY <2>1, <2>2 DEF Opened, ToSet
<1>2. ASSUME NEW n \in 1 .. N, leaf(n)
      PROVE  ents(n) \in V
  <2>1. PICK p \in DOMAIN file.pages : p = opened[n]
    BY <1>1
  <2>2. file.pages[p].leaf
    BY <1>2, <2>1
  <2>3. file.pages[p].ents \in Seq(ToSet(file.pages[p].ents))
    BY <1>1, <2>2, WalkAssumption
  <2>4. ToSet(file.pages[p].ents) \subseteq Held
    BY <2>2 DEF Held
  <2>5. file.pages[p].ents \in Seq(Held)
    BY <2>3, <2>4, SeqWider
  <2> QED BY <2>1, <2>5
<1> HIDE DEF leaf, ents
<1>3. \A s \in V, n \in 1 .. N : leaf(n) => s \o ents(n) \in V
  <2> SUFFICES ASSUME NEW s \in V, NEW n \in 1 .. N, leaf(n) PROVE s \o ents(n) \in V
    OBVIOUS
  <2>1. PICK t \in V : t = ents(n)
    BY <1>2
  <2> QED BY <2>1
<1>4. step \in [1 .. N -> [V -> V]]
  <2> HIDE DEF V, N
  <2> QED BY <1>3
<1>5. PICK u : Recurs(u, N, V, <<>>, step)
  <2> HIDE DEF step, N
  <2>1. <<>> \in V
    OBVIOUS
  <2> HIDE DEF V
  <2> QED BY <1>1, <1>4, <2>1, Recursion
<1>6. u \in [0 .. N -> V] /\ u[0] = <<>> /\ \A n \in 1 .. N : u[n] = step[n][u[n - 1]]
  BY <1>5 DEF Recurs
<1>7. ASSUME NEW n \in 1 .. N
      PROVE  u[n] = IF leaf(n) THEN u[n - 1] \o ents(n) ELSE u[n - 1]
  <2>1. u[n - 1] \in V
    <3> HIDE DEF V, N
    <3>1. n - 1 \in 0 .. N
      BY <1>1
    <3> QED BY <1>6, <3>1
  <2> HIDE DEF V, N
  <2> QED BY <1>6, <2>1
<1>8. Rec(u)
  <2> HIDE DEF step, N, V
  <2>1. \A n \in 0 .. N : n = 0 \/ n \in 1 .. N
    BY <1>1
  <2>2. u = [n \in 0 .. N |-> u[n]]
    BY <1>6
  <2> QED BY <1>6, <1>7, <2>1, <2>2
<1>9. Rec(upTo)
  BY <1>8
<1>10. Delivered = upTo[N]
  BY DEF Delivered, leaf, ents
<1> HIDE DEF upTo
<1>11. \A n \in 0 .. N : upTo[n] = IF n = 0 THEN <<>>
                                   ELSE IF leaf(n) THEN upTo[n - 1] \o ents(n) ELSE upTo[n - 1]
  <2> HIDE DEF N
  <2> QED BY <1>9
<1> DEFINE P == {n \in Nat : n <= N => upTo[n] \in V}
<1>12. 0 \in P
  <2>1. upTo[0] = <<>>
    <3>1. 0 \in 0 .. N
      BY <1>1
    <3> HIDE DEF N
    <3> QED BY <1>11, <3>1
  <2>2. <<>> \in V
    OBVIOUS
  <2> QED BY <2>1, <2>2
<1>13. ASSUME NEW n \in Nat, n \in P
       PROVE  n + 1 \in P
  <2>1. SUFFICES ASSUME n + 1 <= N PROVE upTo[n + 1] \in V
    OBVIOUS
  <2>2. upTo[n] \in V /\ n + 1 \in 1 .. N /\ n + 1 \in 0 .. N /\ (n + 1) - 1 = n
    BY <1>1, <1>13, <2>1
  <2> HIDE DEF V, N
  <2> QED BY <1>3, <1>11, <2>2
<1>14. N \in P
  <2> HIDE DEF P
  <2> QED BY <1>1, <1>12, <1>13, Induct
<1> QED BY <1>1, <1>10, <1>14

\* The blocks of a command line run are a list of entries, and what is still to
\* check a list of their ids.
Laid == Recovers =>
  /\ blocks \in Seq(Held)
  /\ Checking => left \in Seq({e.bid : e \in Held})

\* The next block to check is dealt with, and the others wait on.
LEMMA NextInTurn ==
  ASSUME WalkInv, Lookups, Laid, InTurn, Recovers, ReadBlock, pc = "check"
  PROVE  /\ \A k \in DOMAIN blocks' :
              blocks'[k].bid \in ToSet(left)' \/ Dealt(blocks[k].bid)'
         /\ left' \in Seq({e.bid : e \in Held})
<1> DEFINE B == {e.bid : e \in Held}
<1>1. /\ UNCHANGED <<file, blocks, cache>> /\ left # <<>> /\ left' = Tail(left) /\ cache # {}
      /\ log' = LogOfBlock(Head(left))
  BY DEF ReadBlock
<1>2. left \in Seq(B) /\ Checking
  BY DEF Laid, Checking
<1>3. /\ Tail(left) \in Seq(B)
      /\ \A k \in DOMAIN left : left[k] = Head(left) \/ \E j \in DOMAIN Tail(left) : Tail(left)[j] = left[k]
  <2> HIDE DEF B
  <2>1. /\ Len(left) \in Nat \ {0} /\ DOMAIN left = 1 .. Len(left)
        /\ Head(left) = left[1] /\ Tail(left) \in Seq(B) /\ Len(Tail(left)) = Len(left) - 1
        /\ DOMAIN Tail(left) = 1 .. Len(left) - 1
        /\ \A j \in 1 .. Len(left) - 1 : Tail(left)[j] = left[j + 1]
    BY <1>1, <1>2
  <2>2. ASSUME NEW k \in DOMAIN left, k # 1
        PROVE  \E j \in DOMAIN Tail(left) : Tail(left)[j] = left[k]
    <3>1. k - 1 \in 1 .. Len(left) - 1 /\ (k - 1) + 1 = k
      BY <2>1, <2>2
    <3> QED BY <2>1, <3>1
  <2> QED BY <2>1, <2>2
<1>4. \A x \in ToSet(left) : x = Head(left) \/ x \in ToSet(left)'
  BY <1>1, <1>3 DEF ToSet
<1>5. /\ \A bid : Lies(bid)' <=> Lies(bid)
      /\ \A bid : Place(bid)' = Place(bid)
  BY <1>1 DEF Lies, Place
<1>6. PICK h : h = Head(left) /\ Dealt(h)'
  <2>1. PICK h : h = Head(left)
    OBVIOUS
  <2>2. Lies(h) /\ ~ file.disk[Place(h)].sound => LogOfBlock(h).listed # <<>>
    BY LookLogged
  <2>3. Dealt(h)'
    BY <1>1, <1>5, <2>1, <2>2 DEF Dealt
  <2> QED BY <2>1, <2>3
<1>7. log.listed # <<>> => log'.listed # <<>>
  BY <1>1, LookLogged
<1>8. ASSUME NEW bid, Dealt(bid)
      PROVE  Dealt(bid)'
  BY <1>1, <1>5, <1>7, <1>8 DEF Dealt
<1>9. ASSUME NEW k \in DOMAIN blocks
      PROVE  blocks[k].bid \in ToSet(left)' \/ Dealt(blocks[k].bid)'
  <2>1. PICK bid : bid = blocks[k].bid
    OBVIOUS
  <2>2. bid \in ToSet(left) \/ Dealt(bid)
    BY <1>2, <2>1 DEF InTurn
  <2>3. bid \in ToSet(left)' \/ Dealt(bid)'
    <3>1. CASE Dealt(bid)
      BY <1>8, <3>1
    <3>2. CASE bid \in ToSet(left)
      <4>1. CASE bid = h
        BY <1>6, <4>1 DEF Dealt, Lies, Place
      <4>2. CASE bid \in ToSet(left)'
        BY <4>2
      <4> QED BY <1>4, <1>6, <3>2, <4>1, <4>2
    <3> QED BY <2>2, <3>1, <3>2
  <2>4. blocks'[k].bid = bid
    BY <1>1, <2>1
  <2> QED BY <2>1, <2>3, <2>4, <1>1 DEF Dealt, Lies, Place
<1> QED BY <1>1, <1>3, <1>9

\* Every step keeps what is said of the phases of a command line run.
LEMMA PhaseSteps ==
  ASSUME WalkInv, Lookups, Phases, [Next]_vars
  PROVE  Phases'
<1>1. UNCHANGED file
  BY StepKinds
<1>2. SUFFICES ASSUME Recovers'
               PROVE  /\ pc' \notin {"read", "copy"}
                      /\ pc' \in {"recover", "use", "check", "tables", "done"} => todo' = <<>>
                      /\ pc' = "check" => "rotten" \notin DOMAIN report'
                      /\ pc' = "tables" => "rotten" \in DOMAIN report'
                      /\ pc' \in {"check", "tables", "cache"} => "clean" \notin DOMAIN report'
                      /\ pc' = "done" /\ ~ file.refused => report'.clean = (log'.listed = <<>>)
  BY <1>1 DEF Phases
<1>3. role' = role /\ Recovers
  BY <1>2 DEF Next, Open, Visited, NodesWalked, BlocksWalked, Recover, Load, FillCache,
              CacheFilled, ReadBlock, BeginVerify, BlocksChecked, CompareTable, Report,
              BeginExport, ExportEnds, BeginRebuild, IndexBlocks, vars, index, Recovers
<1>4. /\ pc \notin {"read", "copy"}
      /\ pc \in {"recover", "use", "check", "tables", "done"} => todo = <<>>
      /\ pc = "check" => "rotten" \notin DOMAIN report
      /\ pc = "tables" => "rotten" \in DOMAIN report
      /\ pc \in {"check", "tables", "cache"} => "clean" \notin DOMAIN report
      /\ pc = "done" /\ ~ file.refused => report.clean = (log.listed = <<>>)
  BY <1>3 DEF Phases
<1>5. CASE UNCHANGED vars
  BY <1>4, <1>5 DEF vars, walk, index
<1>6. CASE Open
  BY <1>6 DEF Open, BeginWalk, walk, Lookups
<1>7. CASE Visited
  BY <1>4, <1>7 DEF Visited, index
<1>8. CASE NodesWalked
  BY <1>3, <1>8 DEF NodesWalked, Recovers
<1>9. CASE BlocksWalked
  BY <1>9 DEF BlocksWalked, Walked, walk
<1>10. CASE Recover
  BY <1>4, <1>10 DEF Recover, walk
<1>11. CASE Load
  BY <1>3, <1>11 DEF Load, Recovers
<1>12. CASE FillCache
  BY <1>4, <1>12 DEF FillCache
<1>13. CASE CacheFilled
  BY <1>3, <1>4, <1>13 DEF CacheFilled, Walked, walk, Recovers
<1>14. CASE ReadBlock
  BY <1>4, <1>14 DEF ReadBlock, walk
<1>15. CASE BeginVerify
  BY <1>4, <1>15 DEF BeginVerify, walk
<1>16. CASE BlocksChecked
  <2>1. /\ "rotten" \in DOMAIN report' /\ "clean" \notin DOMAIN report'
        /\ pc = "check" /\ pc' = "tables" /\ UNCHANGED walk
    BY <1>16 DEF BlocksChecked
  <2> QED BY <1>4, <2>1 DEF walk
<1>17. CASE CompareTable
  BY <1>4, <1>17 DEF CompareTable, walk
<1>18. CASE Report
  <2>1. /\ report'.clean = (log.listed = <<>>)
        /\ pc = "tables" /\ pc' = "done" /\ UNCHANGED <<walk, log>>
    BY <1>18 DEF Report
  <2> QED BY <1>4, <2>1 DEF walk
<1>19. CASE BeginExport \/ ExportEnds \/ BeginRebuild \/ IndexBlocks
  BY <1>3, <1>4, <1>19 DEF BeginExport, ExportEnds, BeginRebuild, IndexBlocks, Walked, Recovers
<1> QED BY <1>5, <1>6, <1>7, <1>8, <1>9, <1>10, <1>11, <1>12, <1>13, <1>14, <1>15, <1>16,
           <1>17, <1>18, <1>19 DEF Next

\* The blocks listed stay entries, and those to check their ids.
LEMMA LaidSteps ==
  ASSUME WalkInv, Lookups, Phases, Laid, InTurn, [Next]_vars
  PROVE  Laid'
<1>1. UNCHANGED file /\ Held' = Held
  BY StepKinds DEF Held
<1> DEFINE B == {e.bid : e \in Held}
<1>2. SUFFICES ASSUME Recovers'
               PROVE  /\ blocks' \in Seq(Held)
                      /\ Checking' => left' \in Seq(B)
  BY <1>1 DEF Laid
<1>3. role' = role /\ Recovers
  BY <1>2 DEF Next, Open, Visited, NodesWalked, BlocksWalked, Recover, Load, FillCache,
              CacheFilled, ReadBlock, BeginVerify, BlocksChecked, CompareTable, Report,
              BeginExport, ExportEnds, BeginRebuild, IndexBlocks, vars, index, Recovers
<1>4. /\ blocks \in Seq(Held) /\ (Checking => left \in Seq(B))
      /\ pc \notin {"read", "copy"}
      /\ pc = "tables" => "rotten" \in DOMAIN report
  BY <1>3 DEF Laid, Phases
<1> HIDE DEF B
<1>5. CASE UNCHANGED vars
  BY <1>4, <1>5 DEF vars, index, Checking
<1>6. CASE Open
  BY <1>4, <1>6 DEF Open, Checking
<1>7. CASE Visited
  BY <1>4, <1>7 DEF Visited, index, Checking
<1>8. CASE NodesWalked
  BY <1>3, <1>4, <1>8 DEF NodesWalked, Checking
<1>9. CASE BlocksWalked
  BY <1>9, DeliveredTyped DEF BlocksWalked, Checking
<1>10. CASE Recover
  <2>1. pc' = "use"
    BY <1>10 DEF Recover
  <2>2. blocks' \in Seq(Held)
    <3>1. CASE blocks' = blocks
      BY <1>4, <3>1
    <3>2. CASE blocks' # blocks
      <4>1. PICK bs \in OnePer(Entries("BBT", cut'.pages), "bid") :
              blocks' = Sorted(Merge(Carved(cut'.blocks), bs))
        BY <1>10, <3>2 DEF Recover
      <4>2. PICK S : S = Merge(Carved(cut'.blocks), bs)
        OBVIOUS
      <4>3. PICK c, d : c = cut'.blocks /\ d = cut'.pages
        OBVIOUS
      <4>4. /\ Entries("BBT", d) \subseteq BlockEntries /\ IsFiniteSet(Entries("BBT", d))
            /\ Carved(c) \subseteq BlockEntries /\ IsFiniteSet(Carved(c))
        BY SweptAre, CarvedAre DEF WalkInv, WalkTyped
      <4>5. bs \subseteq Entries("BBT", d) /\ S \subseteq Carved(c) \union bs
        BY <4>2, <4>3 DEF OnePer, Merge
      <4>6. IsFiniteSet(Carved(c) \union bs)
        <5>1. IsFiniteSet(bs)
          BY <4>4, <4>5, FS_Subset
        <5> QED BY <4>4, <5>1, FS_Union
      <4>7. S \subseteq BlockEntries /\ IsFiniteSet(S)
        BY <4>4, <4>5, <4>6, FS_Subset
      <4>8. ListOf(Sorted(S), S)
        BY <4>7, SortedListed
      <4>9. PICK s : s = Sorted(S) /\ blocks' = s
        BY <4>1, <4>2
      <4>10. s \in Seq(S)
        BY <4>8, <4>9 DEF ListOf
      <4>11. S \subseteq Held
        <5>1. \A e \in BlockEntries : e \in Held
          BY DEF Held
        <5> QED BY <4>7, <5>1
      <4> QED BY <4>9, <4>10, <4>11, SeqWider
    <3> QED BY <3>1, <3>2
  <2> QED BY <2>1, <2>2 DEF Checking
<1>11. CASE Load
  BY <1>3, <1>11 DEF Load, Recovers
<1>12. CASE FillCache
  BY <1>4, <1>12 DEF FillCache, Checking
<1>13. CASE CacheFilled
  <2>1. UNCHANGED <<blocks, left, report>> /\ pc = "cache"
        /\ (pc' = "check" => "rotten" \notin DOMAIN report) /\ pc' # "cache"
    BY <1>13 DEF CacheFilled, Walked
  <2> QED BY <1>4, <2>1 DEF Checking
<1>14. CASE ReadBlock
  <2>1. pc = "check" /\ pc' = pc /\ UNCHANGED blocks
    BY <1>4, <1>14 DEF ReadBlock
  <2>2. left' \in Seq(B)
    BY <1>3, <1>14, <2>1, NextInTurn DEF B
  <2> QED BY <1>4, <2>1, <2>2
<1>15. CASE BeginVerify
  <2>1. UNCHANGED blocks /\ left' = [k \in DOMAIN blocks |-> blocks[k].bid]
    BY <1>15 DEF BeginVerify
  <2>2. DOMAIN blocks = 1 .. Len(blocks) /\ Len(blocks) \in Nat
        /\ \A k \in DOMAIN blocks : blocks[k] \in Held
    BY <1>4
  <2>3. \A k \in DOMAIN blocks : blocks[k].bid \in B
    BY <2>2 DEF B
  <2>4. left' \in [1 .. Len(blocks) -> B]
    BY <2>1, <2>2, <2>3
  <2>5. left' \in Seq(B)
    BY <2>2, <2>4
  <2> QED BY <1>4, <2>1, <2>5
<1>16. CASE BlocksChecked \/ CompareTable \/ Report
  <2>1. UNCHANGED blocks /\ pc' \notin {"check", "cache"}
    BY <1>16 DEF BlocksChecked, CompareTable, Report
  <2> QED BY <1>4, <2>1 DEF Checking
<1>17. CASE BeginExport \/ ExportEnds \/ BeginRebuild \/ IndexBlocks
  BY <1>3, <1>4, <1>17 DEF BeginExport, ExportEnds, BeginRebuild, IndexBlocks, Walked, Recovers
<1> QED BY <1>5, <1>6, <1>7, <1>8, <1>9, <1>10, <1>11, <1>12, <1>13, <1>14, <1>15, <1>16,
           <1>17 DEF Next

\* Every step keeps the blocks of the index in turn.
LEMMA InTurnSteps ==
  ASSUME WalkInv, Lookups, Phases, Laid, InTurn, [Next]_vars
  PROVE  InTurn'
<1>1. UNCHANGED file
  BY StepKinds
<1>2. SUFFICES ASSUME Recovers'
               PROVE  /\ Checking' => \A k \in DOMAIN blocks' :
                                        blocks'[k].bid \in ToSet(left') \/ Dealt(blocks[k].bid)'
                      /\ Through' => \A k \in DOMAIN blocks' : Dealt(blocks[k].bid)'
  BY DEF InTurn
<1>3. role' = role /\ Recovers
  BY <1>2 DEF Next, Open, Visited, NodesWalked, BlocksWalked, Recover, Load, FillCache,
              CacheFilled, ReadBlock, BeginVerify, BlocksChecked, CompareTable, Report,
              BeginExport, ExportEnds, BeginRebuild, IndexBlocks, vars, index, Recovers
<1>4. /\ Checking => \A k \in DOMAIN blocks :
                       blocks[k].bid \in ToSet(left) \/ Dealt(blocks[k].bid)
      /\ Through => \A k \in DOMAIN blocks : Dealt(blocks[k].bid)
      /\ pc \notin {"read", "copy"}
      /\ pc = "check" => "rotten" \notin DOMAIN report
      /\ pc = "tables" => "rotten" \in DOMAIN report
  BY <1>3 DEF InTurn, Phases
<1>5. ASSUME UNCHANGED <<blocks, cache>>, pc # "open",
             NEW k \in DOMAIN blocks, Dealt(blocks[k].bid)
      PROVE  Dealt(blocks[k].bid)'
  <2>1. log.listed # <<>> => log'.listed # <<>>
    BY <1>5, ListStays
  <2> QED BY <1>1, <1>5, <2>1 DEF Dealt, Lies, Place
<1>6. ASSUME UNCHANGED <<blocks, cache>>, pc # "open", Through
      PROVE  \A k \in DOMAIN blocks' : Dealt(blocks[k].bid)'
  BY <1>4, <1>5, <1>6
<1>7. ASSUME UNCHANGED <<blocks, cache, left>>, pc # "open", Checking
      PROVE  \A k \in DOMAIN blocks' : blocks'[k].bid \in ToSet(left') \/ Dealt(blocks[k].bid)'
  BY <1>4, <1>5, <1>7
<1>8. CASE UNCHANGED vars
  <2>1. UNCHANGED <<pc, report, blocks, cache, left>>
    BY <1>8 DEF vars, index
  <2> QED BY <1>1, <1>6, <1>7, <2>1 DEF Checking, Through
<1>9. CASE Open
  BY <1>1, <1>9 DEF Open, Checking, Through
<1>10. CASE Visited
  <2>1. UNCHANGED <<pc, report, blocks, cache, left>>
    BY <1>10 DEF Visited, index
  <2> QED BY <1>1, <1>6, <1>7, <2>1 DEF Checking, Through
<1>11. CASE NodesWalked \/ BlocksWalked \/ Recover \/ Load
  BY <1>11 DEF NodesWalked, BlocksWalked, Recover, Load, Checking, Through
<1>12. CASE FillCache
  <2>1. UNCHANGED <<report, blocks, cache, left>> /\ pc \in {"check", "tables"} /\ pc' = "cache"
    BY <1>4, <1>12 DEF FillCache
  <2> QED BY <1>4, <1>6, <1>7, <2>1 DEF Checking, Through
<1>13. CASE CacheFilled
  <2>1. /\ UNCHANGED <<report, blocks, left>> /\ pc = "cache" /\ cache = {}
        /\ pc' = IF "rotten" \in DOMAIN report THEN "tables" ELSE "check"
    BY <1>3, <1>13 DEF CacheFilled, Walked, Lookups, Recovers
  <2>2. \A bid : ~ Dealt(bid)
    BY <2>1 DEF Dealt
  <2> QED BY <1>4, <2>1, <2>2 DEF Checking, Through
<1>14. CASE ReadBlock
  <2>1. pc = "check" /\ pc' = pc
    BY <1>4, <1>14 DEF ReadBlock
  <2>2. \A k \in DOMAIN blocks' : blocks'[k].bid \in ToSet(left') \/ Dealt(blocks[k].bid)'
    BY <1>3, <1>14, <2>1, NextInTurn
  <2> QED BY <2>1, <2>2 DEF Through
<1>15. CASE BeginVerify
  <2>1. /\ UNCHANGED blocks /\ pc' = "check"
        /\ left' = [k \in DOMAIN blocks |-> blocks[k].bid]
    BY <1>15 DEF BeginVerify
  <2>2. \A k \in DOMAIN blocks : left'[k] = blocks[k].bid /\ k \in DOMAIN left'
    BY <2>1
  <2> QED BY <2>1, <2>2 DEF Through, ToSet
<1>16. CASE BlocksChecked
  <2>1. UNCHANGED <<blocks, cache>> /\ pc = "check" /\ pc' = "tables" /\ left = <<>>
    BY <1>16 DEF BlocksChecked
  <2>2. ToSet(left) = {}
    BY <2>1 DEF ToSet
  <2> QED BY <1>4, <1>5, <2>1, <2>2 DEF Checking
<1>17. CASE CompareTable \/ Report
  <2>1. UNCHANGED <<blocks, cache>> /\ pc = "tables" /\ pc' \in {"tables", "done"}
    BY <1>17 DEF CompareTable, Report
  <2> QED BY <1>6, <2>1 DEF Checking, Through
<1>18. CASE BeginExport \/ ExportEnds \/ BeginRebuild \/ IndexBlocks
  BY <1>3, <1>4, <1>18 DEF BeginExport, ExportEnds, BeginRebuild, IndexBlocks, Walked, Recovers
<1> QED BY <1>8, <1>9, <1>10, <1>11, <1>12, <1>13, <1>14, <1>15, <1>16, <1>17, <1>18 DEF Next

\* What holds of a run from its start, for what it says in the end.
Saying == Noticed /\ Phases /\ Laid /\ InTurn

\* Before the file is opened nothing is adopted, and nothing is to be said.
LEMMA SayingInit == Init => Adopted /\ Saying
<1> SUFFICES ASSUME Init PROVE Adopted /\ Saying
  OBVIOUS
<1>1. pc = "open" /\ opened = <<>> /\ blocks = <<>> /\ cache = {}
  BY DEF Init
<1>2. Opened = {}
  BY <1>1 DEF Opened, ToSet
<1>3. Adopted /\ Noticed /\ Phases /\ InTurn
  BY <1>1, <1>2 DEF Adopted, NoGhosts, Noticed, Phases, InTurn, Checking, Through
<1>4. Laid
  BY <1>1 DEF Laid, Checking
<1> QED BY <1>3, <1>4 DEF Saying

\* With no problem listed and no page to go to, every page named has been opened.
LEMMA SayingIs ==
  ASSUME WalkInv, Lookups, Saying
  PROVE  NothingUnsaid
<1> SUFFICES ASSUME pc = "done", Recovers, ~ file.refused, report.clean
             PROVE  /\ file.troubles = <<>>
                    /\ \A p \in Opened : /\ file.pages[p].sound
                                         /\ {r.at : r \in Children(p)} \subseteq Opened
                    /\ \A b \in ToSet(blocks) : Lies(b.bid) => file.disk[Place(b.bid)].sound
  BY DEF NothingUnsaid, Recovers
<1>1. log.listed = <<>> /\ todo = <<>> /\ \A k \in DOMAIN blocks : Dealt(blocks[k].bid)
  BY DEF Saying, Phases, InTurn, Through
<1>2. file.troubles = <<>> /\ \A p \in Opened : file.pages[p].sound
  <2>1. /\ file \in FILES
        /\ Opened \subseteq DOMAIN file.pages
    BY DEF WalkInv, WalkTyped
  <2> QED BY <1>1 DEF Saying, Noticed
<1>3. ASSUME NEW p \in Opened, NEW r \in Children(p)
      PROVE  r.at \in Opened
  <2>1. /\ file \in FILES /\ Opened \subseteq DOMAIN file.pages
        /\ ~ file.pages[p].leaf
    BY <1>3 DEF WalkInv, WalkTyped, Children
  <2>2. file.pages[p].ents \in Seq(Refs)
    BY <2>1, FileTyped
  <2>3. PICK i \in 1 .. Len(file.pages[p].ents) : r = file.pages[p].ents[i]
    BY <1>3, <2>1, <2>2 DEF Children, ToSet
  <2>4. Told(r.at)
    BY <2>1, <2>3 DEF WalkInv, NoneLost
  <2>5. Len(todo) = 0 /\ Len(log.listed) = 0
    BY <1>1
  <2> QED BY <2>4, <2>5 DEF Told
<1>4. \A b \in ToSet(blocks) : Dealt(b.bid)
  BY <1>1 DEF ToSet
<1> QED BY <1>1, <1>2, <1>3, <1>4 DEF Dealt

\* A page that could not be used has a problem recorded at its place.
LEMMA LossesAre ==
  ASSUME WalkInv
  PROVE  LossRecorded
<1> SUFFICES ASSUME want # "none"
             PROVE  /\ IsInjective(opened)
                    /\ \A r \in {Root(want)} \union UNION {Children(p) : p \in Opened} :
                         \/ r.at \in Opened
                         \/ \E t \in ToSet(todo) : t.at = r.at
                         \/ \E l \in ToSet(log.listed) : l.at = r.at
  BY DEF LossRecorded
<1>1. /\ file \in FILES /\ todo \in Seq(Pending) /\ opened \in Seq(Nat)
      /\ log.listed \in Seq(Problems) /\ Opened \subseteq DOMAIN file.pages
  BY DEF WalkInv, WalkTyped
<1>2. IsInjective(opened)
  <2>1. DOMAIN opened = 1 .. Len(opened)
    BY <1>1
  <2> QED BY <2>1 DEF WalkInv, OnceEach, IsInjective
<1>3. ASSUME NEW x, Told(x)
      PROVE  \/ x \in Opened
             \/ \E t \in ToSet(todo) : t.at = x
             \/ \E l \in ToSet(log.listed) : l.at = x
  <2>1. DOMAIN todo = 1 .. Len(todo) /\ DOMAIN log.listed = 1 .. Len(log.listed)
    BY <1>1
  <2> QED BY <1>3, <2>1 DEF Told, ToSet
<1>4. Told(Root(want).at)
  BY DEF WalkInv, NoneLost
<1>5. ASSUME NEW p \in Opened, NEW r \in Children(p)
      PROVE  Told(r.at)
  <2>1. ~ file.pages[p].leaf
    BY <1>5 DEF Children
  <2>2. file.pages[p].ents \in Seq(Refs)
    BY <1>1, <2>1, FileTyped
  <2>3. PICK i \in 1 .. Len(file.pages[p].ents) : r = file.pages[p].ents[i]
    BY <2>1, <2>2 DEF Children, ToSet
  <2> QED BY <2>1, <2>3 DEF WalkInv, NoneLost
<1> QED BY <1>2, <1>3, <1>4, <1>5

\* Whatever the file holds, trees that loop and references that lie included,
\* Pst::walk loses no page without a problem that names its offset, and takes
\* no page's entries twice.
THEOREM WalkRecordsLosses == Spec => []LossRecorded
<1>1. IndexInv => LossRecorded
  BY LossesAre DEF IndexInv
<1> QED BY <1>1, IndexInvariant, PTL

\* A walk goes on beside a page it cannot use: every page that sound pages
\* lead to, and nothing else does, has given its entries when Pst::walk ends.
THEOREM WalkReadsHealthy == Spec => []HealthyPathsRead
<1>1. IndexInv => HealthyPathsRead
  BY HealthRead DEF IndexInv
<1> QED BY <1>1, IndexInvariant, PTL

\* The command line's --verify looks blocks up in the very index it prints the
\* size of: the one recovered and adopted, or the header's tree, which a second
\* walk reads as the first did.
THEOREM LookupsUseOwnIndex == Spec => []OneIndex
<1>1. IndexInv => OneIndex
  BY DEF IndexInv, Lookups, OneIndex, Recovers
<1> QED BY <1>1, IndexInvariant, PTL

\* Whatever is recovered, on the command line or in the window, and wherever read
\* errors stop the sweep and the carving: the map the lookups use names for an id
\* only bytes that are that block, whole, and finds every whole block that lies
\* before the carving's stop or, on the command line, that all the entries agree on
\* which the sweep came to before its own.
THEOREM RecoveredIsWhole == Spec => []NoGhosts
<1> DEFINE Inv == IndexInv /\ Adopted
<1>1. Init => Inv
  BY IndexInit, SayingInit
<1>2. Inv /\ [Next]_vars => Inv'
  BY WalkSteps, LookupSteps, AdoptedSteps DEF IndexInv
<1>3. Inv => NoGhosts
  BY DEF Adopted
<1> QED BY <1>1, <1>2, <1>3, PTL DEF Spec

\* --verify prints "No damage found." only of a file whose header had no trouble,
\* whose pages on the way to the blocks were all opened and sound, and whose
\* every block that the lookups find matches its checksum.
THEOREM NothingGoesUnsaid == Spec => []NothingUnsaid
<1> DEFINE Inv == IndexInv /\ Saying
<1>1. Init => Inv
  BY IndexInit, SayingInit
<1>2. Inv /\ [Next]_vars => Inv'
  <2> SUFFICES ASSUME Inv, [Next]_vars PROVE Inv'
    OBVIOUS
  <2>1. WalkInv /\ HealthInv /\ UnderWay /\ Lookups /\ Noticed /\ Phases /\ Laid /\ InTurn
    BY DEF IndexInv, Saying
  <2>2. IndexInv'
    BY <2>1, WalkSteps, LookupSteps DEF IndexInv
  <2>3. Saying'
    BY <2>1, NoticedSteps, PhaseSteps, LaidSteps, InTurnSteps DEF Saying
  <2> QED BY <2>2, <2>3
<1>3. Inv => NothingUnsaid
  BY SayingIs DEF IndexInv
<1> QED BY <1>1, <1>2, <1>3, PTL DEF Spec

=============================================================================
