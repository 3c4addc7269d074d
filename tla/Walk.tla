-------------------------------- MODULE Walk ---------------------------------
(***************************************************************************)
(* A store as Pst reads it: the header, the pages of the two B-trees, the  *)
(* blocks, and the walk from a root down to the leaves, which records what *)
(* it cannot follow and goes on.                                           *)
(*                                                                         *)
(* Ids are without their low bit, which every comparison masks.  A         *)
(* reference is [at, id].  A page is [same, id, sound, kind, fits, leaf,   *)
(* ents]: same, whether its type bytes agree; fits, whether entries of the *)
(* size it claims hold what they must and lie inside it; ents, the         *)
(* references of a branch or the entries of a leaf.  What is not in the    *)
(* domain of pages lies outside the file.                                  *)
(***************************************************************************)
EXTENDS Naturals, Sequences, FiniteSets, SequencesExt

CONSTANTS
  FILES,        \* the files: [refused, troubles, nbt, bbt, pages, disk]
  MAX_DEPTH,    \* MAX_BTREE_DEPTH in the code
  MAX_WARNINGS  \* how many problems are listed

Refs == [at : Nat, id : Nat]
Problems ==
  [what : {"header", "checksum", "deep", "loop", "unreadable", "unusable", "length", "more"},
   at : Nat]

\* Offsets and ids are numbers; a leaf holds entries and a branch references, as
\* often as it likes.
ASSUME WalkAssumption ==
  /\ MAX_DEPTH \in Nat /\ MAX_WARNINGS \in Nat
  /\ \A f \in FILES :
       /\ f.nbt \in Refs /\ f.bbt \in Refs
       /\ f.troubles \in Seq(Problems)
       /\ IsFiniteSet(DOMAIN f.pages)
       /\ \A p \in DOMAIN f.pages :
            /\ f.pages[p].leaf \in BOOLEAN
            /\ f.pages[p].leaf => f.pages[p].ents \in Seq(ToSet(f.pages[p].ents))
            /\ ~ f.pages[p].leaf => f.pages[p].ents \in Seq(Refs)

VARIABLES
  file,
  log,    \* [listed, count]: the problems; count lacks those that are pushed
  want,   \* the kind of tree that is walked
  todo,   \* the references still to follow, the next one first
  seen,   \* the offsets reached in this walk
  opened  \* the pages whose entries were taken, in that order

walk == <<want, todo, seen, opened>>

Problem(what, at) == [what |-> what, at |-> at]

\* Pst::warn: counted, and listed as long as the list is short.
Warned(l, p) ==
  [listed |-> IF Len(l.listed) < MAX_WARNINGS THEN Append(l.listed, p)
              ELSE IF Len(l.listed) = MAX_WARNINGS THEN Append(l.listed, Problem("more", 0))
              ELSE l.listed,
   count |-> l.count + 1]

\* warnings.push: listed, whatever the list's length, and not counted.
Pushed(l, p) == [l EXCEPT !.listed = Append(@, p)]

\* Pst::problem_count
ProblemCount(l) == IF l.count > Len(l.listed) THEN l.count ELSE Len(l.listed)

Root(kind) == IF kind = "NBT" THEN file.nbt ELSE file.bbt

\* A reference on the way down: the depth it is followed at.
At(r, depth) == [at |-> r.at, id |-> r.id, depth |-> depth]

\* What a walk that is over has delivered.
Delivered ==
  LET upTo[n \in 0 .. Len(opened)] ==
        IF n = 0 THEN <<>>
        ELSE IF file.pages[opened[n]].leaf THEN upTo[n - 1] \o file.pages[opened[n]].ents
        ELSE upTo[n - 1]
  IN  upTo[Len(opened)]

BeginWalk(kind) ==
  /\ want' = kind
  /\ todo' = <<At(Root(kind), 0)>>
  /\ seen' = {} /\ opened' = <<>>

-----------------------------------------------------------------------------
ReadsAs(r) ==
  /\ r.at \in DOMAIN file.pages
  /\ file.pages[r.at].same
  /\ file.pages[r.at].id = r.id

Fits(p) == file.pages[p].kind = want /\ file.pages[p].fits

\* read_page warns of a checksum that does not match and hands the page on.
LogOfPage(p) ==
  IF file.pages[p].sound THEN log ELSE Warned(log, Problem("checksum", p))

Visiting == todo # <<>>
Here == Head(todo)
Skip == todo' = Tail(todo)

TooDeep ==
  /\ Visiting /\ Here.depth > MAX_DEPTH
  /\ Skip
  /\ log' = Pushed(log, Problem("deep", Here.at))
  /\ UNCHANGED <<file, want, seen, opened>>

LoopsBack ==
  /\ Visiting /\ Here.depth <= MAX_DEPTH
  /\ Here.at \in seen
  /\ Skip
  /\ log' = Pushed(log, Problem("loop", Here.at))
  /\ UNCHANGED <<file, want, seen, opened>>

Fresh ==
  /\ Visiting /\ Here.depth <= MAX_DEPTH
  /\ Here.at \notin seen
  /\ seen' = seen \union {Here.at}
  /\ UNCHANGED <<file, want>>

\* Slip: a page that cannot be read is passed over in silence.
UnreadableQuietly ==
  /\ Fresh
  /\ ~ ReadsAs(Here)
  /\ Skip
  /\ UNCHANGED <<log, opened>>

Unreadable ==
  /\ Fresh
  /\ ~ ReadsAs(Here)
  /\ Skip
  /\ log' = Pushed(log, Problem("unreadable", Here.at))
  /\ UNCHANGED opened

\* Slip: the first bad page ends the walk.
UnusableStops ==
  /\ Fresh
  /\ ReadsAs(Here) /\ ~ Fits(Here.at)
  /\ todo' = <<>>
  /\ log' = Pushed(LogOfPage(Here.at), Problem("unusable", Here.at))
  /\ UNCHANGED opened

Unusable ==
  /\ Fresh
  /\ ReadsAs(Here) /\ ~ Fits(Here.at)
  /\ Skip
  /\ log' = Pushed(LogOfPage(Here.at), Problem("unusable", Here.at))
  /\ UNCHANGED opened

Leaf ==
  /\ Fresh
  /\ ReadsAs(Here) /\ Fits(Here.at) /\ file.pages[Here.at].leaf
  /\ Skip
  /\ opened' = Append(opened, Here.at)
  /\ log' = LogOfPage(Here.at)

\* Each child with all below it before the next.
Branch ==
  /\ Fresh
  /\ ReadsAs(Here) /\ Fits(Here.at) /\ ~ file.pages[Here.at].leaf
  /\ todo' = [i \in DOMAIN file.pages[Here.at].ents |->
                At(file.pages[Here.at].ents[i], Here.depth + 1)] \o Tail(todo)
  /\ opened' = Append(opened, Here.at)
  /\ log' = LogOfPage(Here.at)

Visit == TooDeep \/ LoopsBack \/ Unreadable \/ Unusable \/ Leaf \/ Branch

-----------------------------------------------------------------------------
Opened == ToSet(opened)

Children(p) == IF file.pages[p].leaf THEN {} ELSE ToSet(file.pages[p].ents)

(* Nothing is lost without a word, and nothing delivered twice: of every page
   a page that was read refers to, and of the root, the entries are taken
   once, or are still to be taken, or a problem names the offset.  This is so
   for pages a damaged reference reached first, and for trees that loop. *)
LossRecorded ==
  want # "none" =>
    /\ IsInjective(opened)
    /\ \A r \in {Root(want)} \union UNION {Children(p) : p \in Opened} :
         \/ r.at \in Opened
         \/ \E t \in ToSet(todo) : t.at = r.at
         \/ \E l \in ToSet(log.listed) : l.at = r.at

\* The pages at each depth that references lead to whose own pages read well
\* and whose offsets nothing else in the file names.
Named(at) ==
  Cardinality(UNION {{<<p, i>> : i \in {i \in DOMAIN file.pages[p].ents :
                                           file.pages[p].ents[i].at = at}} :
                     p \in {p \in DOMAIN file.pages : ~ file.pages[p].leaf}})
  + Cardinality({k \in {"NBT", "BBT"} : Root(k).at = at})

Healthy(r) == ReadsAs(r) /\ Fits(r.at) /\ Named(r.at) = 1

HealthyAt[d \in 0 .. MAX_DEPTH] ==
  {r.at : r \in {r \in IF d = 0 THEN {Root(want)}
                       ELSE UNION {Children(p) : p \in HealthyAt[d - 1]} : Healthy(r)}}

(* Damage costs what it hits: a walk that is over has taken the entries of
   every page that readable pages lead to, whatever lies beside them. *)
HealthyPathsRead == want # "none" /\ todo = <<>> =>
  \A d \in 0 .. MAX_DEPTH : HealthyAt[d] \subseteq Opened

=============================================================================
