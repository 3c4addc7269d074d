---------------------------- MODULE RebuildProofs ----------------------------
(***************************************************************************)
(* Placement is correct for every page size, every block size and every    *)
(* length of file.  Every file that rebuild writes keeps clear of the      *)
(* allocation maps, gives its pages fresh ids and holds exactly what       *)
(* survived, whatever index it was handed and whatever was lost.           *)
(***************************************************************************)
EXTENDS Rebuild, Placement, LayoutLemmas

-----------------------------------------------------------------------------
(* Placing turn by turn.                                                     *)

\* What a caller may ask for has a length and one of the two alignments.
LEMMA JobType ==
  ASSUME NEW j \in Jobs
  PROVE  /\ j.len \in Nat \ {0} /\ j.align \in Nat \ {0}
         /\ j.align \in {BLOCK_ALIGN, PAGE} /\ j # Idle
<1>1. BLOCK_ALIGN \in Nat \ {0} /\ PAGE \in Nat \ {0} /\ TRAILER \in Nat \ {0}
  BY LayoutAssumption
<1>2. ASSUME NEW cb \in SIZES, j = BlockJob(cb)
      PROVE  j.len \in Nat \ {0} /\ j.align = BLOCK_ALIGN
  <2>1. cb + TRAILER \in Nat /\ cb + TRAILER > 0
    BY <1>1, SizesAssumption
  <2>2. BlockSpan(cb) \in Nat /\ cb + TRAILER <= BlockSpan(cb)
    BY <1>1, <2>1, AlignUpIsLeast DEF BlockSpan
  <2>3. BlockSpan(cb) \in Nat \ {0}
    BY <2>1, <2>2
  <2> QED BY <1>2, <2>3 DEF BlockJob
<1>3. CASE j = PageJob
  BY <1>1, <1>3 DEF PageJob, Idle
<1>4. CASE j \in {BlockJob(cb) : cb \in SIZES}
  BY <1>1, <1>2, <1>4 DEF Idle
<1> QED BY <1>3, <1>4 DEF Jobs

\* Nothing is placed before the first piece.
LEMMA PlaceStart == PlaceInit => PlaceInv
<1> SUFFICES ASSUME PlaceInit PROVE PlaceInv
  OBVIOUS
<1>1. FirstFree \in Nat
  BY LayoutAssumption, MulMono DEF FirstFree
<1> QED BY <1>1 DEF PlaceInit, PlaceInv, PlaceTypeOK, Candidate, ClearOfMaps,
                    ForwardAndDisjoint, NoHoleLeft, Aligned

\* Asking sets the candidate to the first aligned offset at or after the cursor.
LEMMA PlaceAsks ==
  ASSUME PlaceInv, NEW j \in Jobs, Ask(j)
  PROVE  PlaceInv'
<1>1. j.len \in Nat \ {0} /\ j.align \in Nat \ {0} /\ j # Idle
  BY JobType
<1>2. cursor \in Nat /\ cursor' = cursor /\ handed' = handed /\ asked' = j
      /\ spot' = AlignUp(cursor, j.align)
  BY DEF Ask, PlaceInv, PlaceTypeOK
<1>3. /\ spot' \in Nat /\ cursor <= spot' /\ spot' % j.align = 0
      /\ \A y \in Nat : cursor <= y /\ y % j.align = 0 => spot' <= y
  BY <1>1, <1>2, AlignUpIsLeast
<1>4. PlaceTypeOK'
  BY <1>2, <1>3 DEF PlaceInv, PlaceTypeOK
<1>5. Candidate'
  BY <1>2, <1>3 DEF Candidate
<1>6. ClearOfMaps' /\ ForwardAndDisjoint' /\ Aligned'
  BY <1>2 DEF PlaceInv, ClearOfMaps, ForwardAndDisjoint, Aligned, MapByte
<1>7. NoHoleLeft'
  <2> SUFFICES ASSUME NEW x \in cursor .. spot' - 1, x % j.align = 0
               PROVE  FALSE
    BY <1>2 DEF NoHoleLeft
  <2>1. x \in Nat /\ cursor <= x /\ x < spot'
    BY <1>2, <1>3
  <2> QED BY <1>3, <2>1
<1> QED BY <1>4, <1>5, <1>6, <1>7 DEF PlaceInv

\* A skip passes only over offsets whose span runs through the page it met.
LEMMA PlaceSkips ==
  ASSUME PlaceInv, Skip
  PROVE  PlaceInv'
<1>1. asked \in Jobs /\ asked # Idle
  BY DEF Skip, PlaceInv, PlaceTypeOK
<1>2. asked.len \in Nat \ {0} /\ asked.align \in Nat \ {0}
  BY <1>1, JobType
<1>3. cursor \in Nat /\ spot \in Nat /\ cursor <= spot /\ spot % asked.align = 0
      /\ cursor' = cursor /\ asked' = asked /\ handed' = handed
  BY <1>1 DEF Skip, PlaceInv, PlaceTypeOK, Candidate
<1>4. PICK p \in Clashes(spot, asked.len) : spot' = AlignUp(p + PAGE, asked.align)
  BY DEF Skip
<1>5. PAGE \in Nat \ {0} /\ p \in Nat /\ spot < p + PAGE
  <2>1. PAGE \in Nat \ {0}
    BY LayoutAssumption
  <2>2. PICK q \in (spot \div PAGE) .. ((spot + asked.len - 1) \div PAGE) : p = q * PAGE
    BY DEF Clashes
  <2>3. spot \div PAGE \in Nat /\ spot + asked.len - 1 \in Nat
        /\ (spot + asked.len - 1) \div PAGE \in Nat
        /\ (spot \div PAGE) * PAGE \in Nat /\ spot < (spot \div PAGE) * PAGE + PAGE
    BY <1>2, <1>3, PageOf
  <2>4. q \in Nat /\ spot \div PAGE <= q
    BY <2>2, <2>3
  <2>5. q * PAGE \in Nat /\ (spot \div PAGE) * PAGE <= q * PAGE
    BY <2>1, <2>3, <2>4, MulMono
  <2> QED BY <1>3, <2>1, <2>2, <2>3, <2>5
<1>6. /\ spot' \in Nat /\ p + PAGE <= spot' /\ spot' % asked.align = 0
      /\ \A y \in Nat : p + PAGE <= y /\ y % asked.align = 0 => spot' <= y
  <2> DEFINE behind == p + PAGE
  <2>1. behind \in Nat
    BY <1>5
  <2> HIDE DEF behind
  <2>2. /\ AlignUp(behind, asked.align) \in Nat
        /\ behind <= AlignUp(behind, asked.align)
        /\ AlignUp(behind, asked.align) % asked.align = 0
        /\ \A y \in Nat : behind <= y /\ y % asked.align = 0
                           => AlignUp(behind, asked.align) <= y
    BY <1>2, <2>1, AlignUpIsLeast
  <2> QED BY <1>4, <2>2 DEF behind
<1>7. PlaceTypeOK'
  BY <1>3, <1>6 DEF PlaceInv, PlaceTypeOK
<1>8. Candidate'
  BY <1>3, <1>5, <1>6 DEF Candidate
<1>9. ClearOfMaps' /\ ForwardAndDisjoint' /\ Aligned'
  BY <1>3 DEF PlaceInv, ClearOfMaps, ForwardAndDisjoint, Aligned, MapByte
<1>10. ASSUME NEW x \in Nat, cursor <= x, x < spot', x % asked.align = 0
       PROVE  \E y \in x .. x + asked.len - 1 : MapByte(y)
  <2>1. CASE x < spot
    <3>1. x \in cursor .. spot - 1
      BY <1>3, <1>10, <2>1
    <3> QED BY <1>1, <1>10, <3>1 DEF PlaceInv, NoHoleLeft
  <2>2. CASE spot <= x
    <3>1. x < p + PAGE
      BY <1>5, <1>6, <1>10
    <3> QED BY <1>2, <1>3, <1>4, <1>10, <2>2, <3>1, SkippedSpansClash
  <2> QED BY <1>3, <2>1, <2>2
<1>11. NoHoleLeft'
  <2>1. \A x \in cursor .. spot' - 1 : x \in Nat /\ cursor <= x /\ x < spot'
    <3>1. cursor \in Nat
      BY <1>3
    <3>2. spot' \in Nat
      BY <1>6
    <3>3. \A n, m \in Nat : \A x \in n .. m - 1 : x \in Nat /\ n <= x /\ x < m
      OBVIOUS
    <3> QED BY <3>1, <3>2, <3>3
  <2>2. \A x \in cursor .. spot' - 1 :
          x % asked.align = 0 => \E y \in x .. x + asked.len - 1 : MapByte(y)
    BY <1>10, <2>1
  <2> QED BY <1>3, <2>2 DEF NoHoleLeft, MapByte
<1> QED BY <1>7, <1>8, <1>9, <1>11 DEF PlaceInv

\* What is settled clears the maps and starts behind everything before it.
LEMMA PlaceSettles ==
  ASSUME PlaceInv, Settle
  PROVE  PlaceInv'
<1>1. asked \in Jobs /\ asked # Idle
  BY DEF Settle, PlaceInv, PlaceTypeOK
<1>2. asked.len \in Nat \ {0} /\ asked.align \in {BLOCK_ALIGN, PAGE}
  BY <1>1, JobType
<1> DEFINE new == [at |-> spot, len |-> asked.len, align |-> asked.align]
<1>3. cursor \in Nat /\ spot \in Nat /\ cursor <= spot /\ spot % asked.align = 0
      /\ cursor' = spot + asked.len /\ asked' = Idle /\ spot' = spot
      /\ handed' = handed \union {new}
  BY <1>1 DEF Settle, PlaceInv, PlaceTypeOK, Candidate
<1>4. new \in Span /\ new.at = spot /\ new.len = asked.len /\ new.align = asked.align
  BY <1>2, <1>3 DEF Span
<1> HIDE DEF new
<1>5. PlaceTypeOK'
  <2>1. cursor' \in Nat
    BY <1>2, <1>3
  <2> QED BY <1>3, <1>4, <2>1 DEF PlaceInv, PlaceTypeOK
<1>6. Candidate' /\ NoHoleLeft'
  BY <1>3 DEF Candidate, NoHoleLeft
<1>7. ClearOfMaps'
  <2>1. \A y \in spot .. spot + asked.len - 1 : ~ MapByte(y)
    BY <1>2, <1>3, NoClashIffClear DEF Settle
  <2>2. \A s \in handed \union {new} : \A x \in s.at .. s.at + s.len - 1 : ~ MapByte(x)
    BY <1>4, <2>1 DEF PlaceInv, ClearOfMaps
  <2> QED BY <1>3, <2>2 DEF ClearOfMaps, MapByte
<1>8. ForwardAndDisjoint'
  <2>1. \A s \in handed : s.at \in Nat /\ s.len \in Nat /\ s.at + s.len <= cursor
    BY DEF PlaceInv, ForwardAndDisjoint, PlaceTypeOK, Span
  <2>2. \A s \in handed \union {new} : s.at + s.len <= cursor'
    BY <1>2, <1>3, <1>4, <2>1
  <2>3. \A s \in handed : s.at + s.len <= new.at
    BY <1>3, <1>4, <2>1
  <2>4. \A s, t \in handed \union {new} :
          s # t => s.at + s.len <= t.at \/ t.at + t.len <= s.at
    BY <2>3 DEF PlaceInv, ForwardAndDisjoint
  <2> QED BY <1>3, <2>2, <2>4 DEF ForwardAndDisjoint
<1>9. Aligned'
  BY <1>3, <1>4 DEF PlaceInv, Aligned
<1> QED BY <1>5, <1>6, <1>7, <1>8, <1>9 DEF PlaceInv

\* A step that changes nothing keeps the invariant.
LEMMA PlaceStutters ==
  ASSUME PlaceInv, UNCHANGED placing
  PROVE  PlaceInv'
BY DEF placing, PlaceInv, PlaceTypeOK, Candidate, ClearOfMaps, ForwardAndDisjoint,
       NoHoleLeft, Aligned, MapByte

\* The loop and its callers keep the inductive invariant.
THEOREM PlacementInvariant == PlaceSpec => []PlaceInv
<1>1. PlaceInv /\ [PlaceNext]_placing => PlaceInv'
  <2> SUFFICES ASSUME PlaceInv, [PlaceNext]_placing PROVE PlaceInv'
    OBVIOUS
  <2>1. ASSUME NEW j \in Jobs, Ask(j) PROVE PlaceInv'
    BY <2>1, PlaceAsks
  <2>2. CASE Skip
    BY <2>2, PlaceSkips
  <2>3. CASE Settle
    BY <2>3, PlaceSettles
  <2>4. CASE UNCHANGED placing
    BY <2>4, PlaceStutters
  <2> QED BY <2>1, <2>2, <2>3, <2>4 DEF PlaceNext
<1> QED BY <1>1, PlaceStart, PTL DEF PlaceSpec

(* Type correctness of the cursor, the candidate and the spans handed out. *)
THEOREM PlacementType == PlaceSpec => []PlaceTypeOK
<1>1. PlaceInv => PlaceTypeOK
  BY DEF PlaceInv
<1> QED BY <1>1, PlacementInvariant, PTL

(* Nothing a rebuild or a conversion places, however long the file, lies on a
   byte that Outlook will write an allocation map over. *)
THEOREM PlacementClearOfMaps == PlaceSpec => []ClearOfMaps
<1>1. PlaceInv => ClearOfMaps
  BY DEF PlaceInv
<1> QED BY <1>1, PlacementInvariant, PTL

(* No two things placed overlap and the cursor never moves back: one forward
   pass writes them all. *)
THEOREM PlacementForward == PlaceSpec => []ForwardAndDisjoint
<1>1. PlaceInv => ForwardAndDisjoint
  BY DEF PlaceInv
<1> QED BY <1>1, PlacementInvariant, PTL

(* The loop never passes over an offset that would have done. *)
THEOREM PlacementNoHole == PlaceSpec => []NoHoleLeft
<1>1. PlaceInv => NoHoleLeft
  BY DEF PlaceInv
<1> QED BY <1>1, PlacementInvariant, PTL

(* Everything is placed on the boundary its kind asks for. *)
THEOREM PlacementAligned == PlaceSpec => []Aligned
<1>1. PlaceInv => Aligned
  BY DEF PlaceInv
<1> QED BY <1>1, PlacementInvariant, PTL

-----------------------------------------------------------------------------
(* Rebuilding.                                                              *)
\* What the indexes hold; a block is short enough for the room between two maps.
Block == [bid : Nat, cb : Nat, cref : Nat, kids : SUBSET Nat]
Node == [nid : Nat, data : Nat, sub : Nat, parent : Nat]
Copied == {b \in Block : Fits(BlockSpan(b.cb))}

\* What the callers pass is of these types.
LEMMA InputsTyped ==
  /\ BLOCK_LISTS \subseteq Seq(Copied)
  /\ NODE_LISTS \subseteq Seq(Node)
<1>1. ASSUME NEW c \in Nat PROVE BlockSpan(c) \in Nat \ {0}
  <2>1. c + TRAILER \in Nat /\ c + TRAILER >= 1 /\ BLOCK_ALIGN \in Nat \ {0}
    BY LayoutAssumption
  <2>2. AlignUp(c + TRAILER, BLOCK_ALIGN) \in Nat
        /\ c + TRAILER <= AlignUp(c + TRAILER, BLOCK_ALIGN)
    BY <2>1, AlignUpIsLeast
  <2>3. AlignUp(c + TRAILER, BLOCK_ALIGN) >= 1
    <3>1. PICK x, y : x = c + TRAILER /\ y = AlignUp(c + TRAILER, BLOCK_ALIGN)
      OBVIOUS
    <3>2. x \in Nat /\ x >= 1 /\ y \in Nat /\ x <= y
      BY <2>1, <2>2, <3>1
    <3>3. y >= 1
      BY <3>2
    <3> QED BY <3>1, <3>3
  <2> QED BY <2>2, <2>3 DEF BlockSpan
<1>2. ASSUME NEW bs \in BLOCK_LISTS PROVE bs \in Seq(Copied)
  <2>1. bs \in Seq(Block)
    BY RebuildAssumption DEF Block
  <2>2. ASSUME NEW k \in 1 .. Len(bs) PROVE bs[k] \in Copied
    <3>1. bs[k] \in Block /\ k \in DOMAIN bs
      BY <2>1
    <3>2. bs[k].cb \in Nat
      BY <3>1 DEF Block
    <3>3. BlockSpan(bs[k].cb) <= Room
      BY <3>1, RebuildAssumption DEF Room
    <3> QED BY <1>1, <3>1, <3>2, <3>3 DEF Copied, Fits
  <2> QED BY <2>1, <2>2
<1> QED BY <1>2, RebuildAssumption DEF Node

\* A block and its place.
Home == [b : Copied, at : Nat]
Past(p) == p.at + BlockSpan(p.b.cb)

\* Blocks between x and y, clear of the maps and of each other.
HomesLaid(ps, x, y) ==
  /\ x <= y
  /\ \A k \in 1 .. Len(ps) :
       /\ x <= ps[k].at /\ Past(ps[k]) <= y
       /\ Clashes(ps[k].at, BlockSpan(ps[k].b.cb)) = {}
  /\ \A j, k \in 1 .. Len(ps) : j < k => Past(ps[j]) <= ps[k].at

\* Every block gets a place, and no other does.
LEMMA HomesAre ==
  ASSUME NEW bs \in Seq(Copied), bs # <<>>
  PROVE  /\ PlaceBlocks(bs) \in Seq(Home) /\ Len(PlaceBlocks(bs)) = Len(bs)
         /\ HomesLaid(PlaceBlocks(bs), FirstFree, Past(Last(PlaceBlocks(bs))))
         /\ {p.b : p \in ToSet(PlaceBlocks(bs))} = ToSet(bs)
<1> DEFINE n == Len(bs)
           keys == [k \in DOMAIN bs |-> Bare(bs[k].bid)]
           q == ByBid(bs)
           lens == [k \in 1 .. Len(q) |-> BlockSpan(q[k].cb)]
           at == PlaceAll(FirstFree, lens, BLOCK_ALIGN)
           ps == PlaceBlocks(bs)
<1>1. n \in Nat /\ n >= 1 /\ DOMAIN bs = 1 .. n
  OBVIOUS
<1>2. keys \in [1 .. Len(bs) -> Int]
  <2>1. ASSUME NEW k \in 1 .. n PROVE Bare(bs[k].bid) \in Int
    <3>1. bs[k].bid \in Nat
      BY <1>1 DEF Copied, Block
    <3> QED BY <3>1 DEF Bare
  <2> QED BY <1>1, <2>1
<1>3. q \in Seq(Copied) /\ \E f : SortedFrom(q, bs, keys, f)
  <2> HIDE DEF keys
  <2>1. InOrder(bs, keys) \in Seq(Copied) /\ \E f : SortedFrom(InOrder(bs, keys), bs, keys, f)
    BY <1>2, SortedIs
  <2> QED BY <2>1 DEF ByBid, keys
<1>4. PICK f : SortedFrom(q, bs, keys, f)
  BY <1>3
<1> HIDE DEF keys, q
<1>5. Len(q) = n /\ f \in [1 .. n -> 1 .. n] /\ (\A k \in 1 .. n : q[k] = bs[f[k]])
      /\ \A h \in 1 .. n : \E k \in 1 .. n : f[k] = h
  BY <1>4 DEF SortedFrom
<1>6. ASSUME NEW k \in 1 .. n PROVE q[k] \in Copied /\ Fits(BlockSpan(q[k].cb))
  <2>1. q[k] \in Copied
    BY <1>3, <1>5
  <2> QED BY <2>1 DEF Copied
<1>7. lens \in Seq(Nat) /\ Len(lens) = n
      /\ \A k \in 1 .. n : lens[k] = BlockSpan(q[k].cb) /\ Fits(lens[k])
  <2>1. \A k \in 1 .. n : BlockSpan(q[k].cb) \in Nat
    BY <1>6 DEF Fits
  <2> QED BY <1>1, <1>5, <1>6, <2>1
<1>8. FirstFree \in Nat
  <2>1. AMAP_FIRST \in Nat /\ MAP_SLOTS * PAGE \in Nat
    BY LayoutAssumption, MulMono
  <2> QED BY <2>1 DEF FirstFree
<1>9. ps = [k \in 1 .. n |-> [b |-> q[k], at |-> at[k]]]
  BY <1>5 DEF PlaceBlocks, q
<1>10. Laid(at, lens, FirstFree)
  <2> HIDE DEF lens
  <2> QED BY <1>7, <1>8, Alignments, PlaceAllIs
<1> HIDE DEF lens, at, ps, n
<1>11. ASSUME NEW k \in 1 .. n
       PROVE  /\ ps[k] = [b |-> q[k], at |-> at[k]]
              /\ ps[k].b = q[k] /\ ps[k].at = at[k] /\ at[k] \in Nat /\ ps[k] \in Home
              /\ Past(ps[k]) = at[k] + lens[k] /\ lens[k] \in Nat
              /\ BlockSpan(ps[k].b.cb) = lens[k]
  <2>1. ps[k] = [b |-> q[k], at |-> at[k]]
    BY <1>9
  <2>2. ps[k].b = q[k] /\ ps[k].at = at[k]
    BY <2>1
  <2>3. at[k] \in Nat
    BY <1>7, <1>10 DEF Laid
  <2>4. ps[k] \in Home
    BY <1>6, <2>1, <2>3 DEF Home
  <2>5. lens[k] = BlockSpan(q[k].cb) /\ lens[k] \in Nat
    BY <1>7 DEF Fits
  <2>6. BlockSpan(ps[k].b.cb) = lens[k]
    BY <2>2, <2>5
  <2> QED BY <2>1, <2>2, <2>3, <2>4, <2>5, <2>6 DEF Past
<1>12. ps \in Seq(Home) /\ Len(ps) = n
  BY <1>1, <1>9, <1>11
<1>13. /\ \A k \in 1 .. n : FirstFree <= at[k] /\ Clashes(at[k], lens[k]) = {}
       /\ \A j, k \in 1 .. n : j < k => at[j] + lens[j] <= at[k]
  BY <1>7, <1>10 DEF Laid
<1>14. Last(ps) = ps[n] /\ n \in 1 .. n
  BY <1>1, <1>12 DEF Last
<1>15. Past(Last(ps)) = at[n] + lens[n] /\ at[n] \in Nat /\ lens[n] \in Nat
  BY <1>11, <1>14
<1>16. ASSUME NEW k \in 1 .. n PROVE at[k] + lens[k] <= at[n] + lens[n]
  <2>1. CASE k = n
    BY <1>15, <2>1
  <2>2. CASE k # n
    <3>1. k < n
      BY <1>1, <2>2
    <3>2. at[k] + lens[k] <= at[n]
      BY <1>13, <1>14, <3>1
    <3>3. at[k] \in Nat /\ lens[k] \in Nat
      BY <1>11
    <3> QED BY <1>15, <3>2, <3>3
  <2> QED BY <2>1, <2>2
<1>17. HomesLaid(ps, FirstFree, Past(Last(ps)))
  <2>1. FirstFree <= Past(Last(ps))
    <3>1. FirstFree <= at[n]
      BY <1>13, <1>14
    <3> QED BY <1>8, <1>15, <3>1
  <2>2. ASSUME NEW k \in 1 .. n
        PROVE  /\ FirstFree <= ps[k].at /\ Past(ps[k]) <= Past(Last(ps))
               /\ Clashes(ps[k].at, BlockSpan(ps[k].b.cb)) = {}
    BY <1>11, <1>13, <1>15, <1>16
  <2>3. ASSUME NEW j \in 1 .. n, NEW k \in 1 .. n, j < k PROVE Past(ps[j]) <= ps[k].at
    BY <1>11, <1>13, <2>3
  <2> QED BY <1>12, <2>1, <2>2, <2>3 DEF HomesLaid
<1>18. {p.b : p \in ToSet(ps)} = ToSet(bs)
  <2>1. DOMAIN ps = 1 .. n /\ DOMAIN bs = 1 .. n
    BY <1>1, <1>12
  <2>2. ASSUME NEW p \in ToSet(ps) PROVE p.b \in ToSet(bs)
    <3>1. PICK k \in 1 .. n : p = ps[k]
      BY <2>1 DEF ToSet
    <3>2. p.b = bs[f[k]] /\ f[k] \in 1 .. n
      BY <1>5, <1>11, <3>1
    <3> QED BY <2>1, <3>2 DEF ToSet
  <2>3. ASSUME NEW b \in ToSet(bs) PROVE \E p \in ToSet(ps) : p.b = b
    <3>1. PICK h \in 1 .. n : b = bs[h]
      BY <2>1 DEF ToSet
    <3>2. PICK k \in 1 .. n : f[k] = h
      BY <1>5
    <3>3. ps[k].b = b
      BY <1>5, <1>11, <3>1, <3>2
    <3> QED BY <2>1, <3>3 DEF ToSet
  <2> QED BY <2>2, <2>3
<1> QED BY <1>12, <1>17, <1>18 DEF ps, n

\* Among the ids of some blocks one is the greatest.
LEMMA TopBid ==
  ASSUME NEW ps \in Seq(Home), ps # <<>>
  PROVE  LET m == Max({p.b.bid : p \in ToSet(ps)})
         IN  m \in Nat /\ \A k \in 1 .. Len(ps) : ps[k].b.bid <= m
<1> DEFINE n == Len(ps)
           T == {p.b.bid : p \in ToSet(ps)}
           P == {m \in Nat : m <= n => \E top \in Nat : \A k \in 1 .. m : ps[k].b.bid <= top}
<1>1. n \in Nat /\ n >= 1 /\ DOMAIN ps = 1 .. n
  OBVIOUS
<1>2. ASSUME NEW k \in 1 .. n PROVE ps[k].b.bid \in Nat
  <2>1. ps[k] \in Home
    BY <1>1
  <2> QED BY <2>1 DEF Home, Copied, Block
<1> HIDE DEF n
<1>3. 0 \in P
  OBVIOUS
<1>4. ASSUME NEW m \in Nat, m \in P PROVE m + 1 \in P
  <2> SUFFICES ASSUME m + 1 <= n
               PROVE \E top \in Nat : \A k \in 1 .. m + 1 : ps[k].b.bid <= top
    OBVIOUS
  <2>1. PICK top \in Nat : \A k \in 1 .. m : ps[k].b.bid <= top
    BY <1>1, <1>4
  <2>2. ps[m + 1].b.bid \in Nat
    BY <1>1, <1>2
  <2>3. \A k \in 1 .. m + 1 : ps[k].b.bid <= top + ps[m + 1].b.bid
    <3>1. ASSUME NEW k \in 1 .. m + 1 PROVE ps[k].b.bid <= top + ps[m + 1].b.bid
      <4>1. CASE k = m + 1
        BY <2>2, <4>1
      <4>2. CASE k \in 1 .. m
        <5>1. ps[k].b.bid <= top /\ ps[k].b.bid \in Nat
          BY <1>1, <1>2, <2>1, <4>2
        <5> QED BY <2>2, <5>1
      <4> QED BY <4>1, <4>2
    <3> QED BY <3>1
  <2>4. top + ps[m + 1].b.bid \in Nat
    BY <2>2
  <2> QED BY <2>3, <2>4
<1>5. PICK top \in Nat : \A k \in 1 .. n : ps[k].b.bid <= top
  <2> HIDE DEF P
  <2>1. n \in P
    BY <1>1, <1>3, <1>4, Induct
  <2> QED BY <1>1, <2>1 DEF P
<1>6. \A x \in T : \E k \in 1 .. n : x = ps[k].b.bid
  BY <1>1 DEF ToSet
<1>7. \A k \in 1 .. n : ps[k].b.bid \in T
  BY <1>1 DEF ToSet
<1> HIDE DEF T
<1>8. T \subseteq Nat /\ T # {} /\ \A x \in T : x <= top
  BY <1>1, <1>2, <1>5, <1>6, <1>7
<1>9. \E x \in T : \A y \in T : y <= x
  BY <1>8, Greatest
<1>10. \E x \in T : \A y \in T : x >= y
  BY <1>8, <1>9
<1>11. Max(T) \in T /\ \A y \in T : Max(T) >= y
  BY <1>10 DEF Max
<1>12. Max(T) \in Nat /\ \A k \in 1 .. n : ps[k].b.bid <= Max(T)
  BY <1>2, <1>7, <1>8, <1>11
<1> QED BY <1>12 DEF T, n

-----------------------------------------------------------------------------
\* The entries of the leaves of both trees.
Leaf == [key : Nat, at : Nat, cb : Nat, cref : Nat]
        \union [key : Nat, data : Nat, sub : Nat, parent : Nat]
Root == [at : Nat, bid : Nat]

\* Blocks, behind them the pages with ids of their own, and the counter past both.
InPlan(p, y, z, top) ==
  /\ HomesLaid(p.placed, FirstFree, y)
  /\ PagesLaid(p.pages, y, z, top + 4)
  /\ \A k \in 1 .. Len(p.placed) : p.placed[k].b.bid <= top
  /\ p.bidNext = top + 4 + 4 * Len(p.pages)

SoundPlan(p) ==
  /\ p.placed \in Seq(Home) /\ p.pages \in Seq(PageOver(Leaf))
  /\ p.roots \in [NBT : Root, BBT : Root] /\ p.eof \in Nat /\ p.bidNext \in Nat
  /\ \E y, z, top \in Nat : InPlan(p, y, z, top)

\* LayoutOf makes a sound plan.
LEMMA LayoutIs ==
  ASSUME NEW bs \in Seq(Copied), bs # <<>>, NEW keep \in Seq(Node), keep # <<>>
  PROVE  /\ SoundPlan(LayoutOf(PlaceBlocks(bs), keep))
         /\ LayoutOf(PlaceBlocks(bs), keep).placed = PlaceBlocks(bs)
<1> DEFINE Ids(ps) == {p.b.bid : p \in ToSet(ps)}
<1>1. PICK ps : ps = PlaceBlocks(bs)
  OBVIOUS
<1>2. ps \in Seq(Home) /\ ps # <<>> /\ HomesLaid(ps, FirstFree, Past(Last(ps)))
  BY <1>1, HomesAre
<1>3. Last(ps) \in Home
  BY <1>2 DEF Last
<1>4. PICK y : y = Last(ps).at + BlockSpan(Last(ps).b.cb)
  OBVIOUS
<1>5. y \in Nat /\ y = Past(Last(ps))
  <2>1. Last(ps).at \in Nat /\ BlockSpan(Last(ps).b.cb) \in Nat
    BY <1>3 DEF Home, Copied, Fits
  <2> QED BY <1>4, <2>1 DEF Past
<1>6. PICK top : top = Max(Ids(ps))
  OBVIOUS
<1>7. top \in Nat /\ \A k \in 1 .. Len(ps) : ps[k].b.bid <= top
  BY <1>2, <1>6, TopBid
<1>8. PICK cur : cur = [next |-> y, bid |-> top + 4]
  OBVIOUS
<1>9. cur \in Cursors /\ cur.next = y /\ cur.bid = top + 4
  BY <1>5, <1>7, <1>8 DEF Cursors
<1>10. PICK ns : ns = [k \in 1 .. Len(keep) |-> NbtLeaf(keep[k])]
  OBVIOUS
<1>11. PICK ls : ls = [k \in 1 .. Len(ps) |-> BbtLeaf(ps[k])]
  OBVIOUS
<1>12. ns \in Seq(Leaf) /\ ns # <<>>
  <2>1. ASSUME NEW k \in 1 .. Len(keep) PROVE NbtLeaf(keep[k]) \in Leaf
    <3>1. keep[k] \in Node
      OBVIOUS
    <3> QED BY <3>1 DEF NbtLeaf, Node, Leaf
  <2>2. Len(keep) \in Nat /\ Len(keep) >= 1
    OBVIOUS
  <2> QED BY <1>10, <2>1, <2>2
<1>13. ls \in Seq(Leaf) /\ ls # <<>>
  <2>1. ASSUME NEW k \in 1 .. Len(ps) PROVE BbtLeaf(ps[k]) \in Leaf
    <3>1. ps[k] \in Home
      BY <1>2
    <3>2. ps[k].at \in Nat /\ ps[k].b.bid \in Nat /\ ps[k].b.cb \in Nat /\ ps[k].b.cref \in Nat
      BY <3>1 DEF Home, Copied, Block
    <3> QED BY <3>2 DEF BbtLeaf, Leaf
  <2>2. Len(ps) \in Nat /\ Len(ps) >= 1
    BY <1>2
  <2> QED BY <1>11, <2>1, <2>2
<1>14. Keyed(Leaf)
  BY DEF Keyed, Leaf
<1>15. PICK nbt : nbt = BuildTree(ns, "NBT", cur)
  OBVIOUS
<1>16. /\ nbt.pages \in Seq(PageOver(Leaf)) /\ nbt.cur \in Cursors
       /\ PagesLaid(nbt.pages, y, nbt.cur.next, top + 4)
       /\ nbt.cur.bid = (top + 4) + 4 * Len(nbt.pages)
       /\ nbt.root \in PageOver(Leaf)
  <2>1. /\ nbt.pages \in Seq(PageOver(Leaf)) /\ nbt.cur \in Cursors
        /\ PagesLaid(nbt.pages, cur.next, nbt.cur.next, cur.bid)
        /\ nbt.cur.bid = cur.bid + 4 * Len(nbt.pages)
        /\ nbt.root \in PageOver(Leaf)
    BY <1>9, <1>12, <1>14, <1>15, TreeLaid
  <2> QED BY <1>9, <2>1
<1>17. PICK bbt : bbt = BuildTree(ls, "BBT", nbt.cur)
  OBVIOUS
<1>18. /\ bbt.pages \in Seq(PageOver(Leaf)) /\ bbt.cur \in Cursors
       /\ PagesLaid(bbt.pages, nbt.cur.next, bbt.cur.next, nbt.cur.bid)
       /\ bbt.cur.bid = nbt.cur.bid + 4 * Len(bbt.pages)
       /\ bbt.root \in PageOver(Leaf)
  BY <1>13, <1>14, <1>16, <1>17, TreeLaid
<1>19. LayoutOf(ps, keep) =
         [placed |-> ps, pages |-> nbt.pages \o bbt.pages,
          roots |-> [NBT |-> [at |-> nbt.root.at, bid |-> nbt.root.bid],
                     BBT |-> [at |-> bbt.root.at, bid |-> bbt.root.bid]],
          eof |-> AlignUp(bbt.cur.next, BLOCK_ALIGN), bidNext |-> bbt.cur.bid]
  BY <1>4, <1>6, <1>8, <1>10, <1>11, <1>15, <1>17 DEF LayoutOf
<1>20. PICK p, q, z, w : /\ p = nbt.pages /\ q = bbt.pages
                         /\ w = nbt.cur.next /\ z = bbt.cur.next
  OBVIOUS
<1>21. p \in Seq(PageOver(Leaf)) /\ q \in Seq(PageOver(Leaf)) /\ w \in Nat /\ z \in Nat
  BY <1>16, <1>18, <1>20 DEF Cursors
<1>22. PagesLaid(p, y, w, top + 4) /\ PagesLaid(q, w, z, (top + 4) + 4 * Len(p))
  BY <1>16, <1>18, <1>20
<1>23. PICK r : r = p \o q
  OBVIOUS
<1>24. PagesLaid(r, y, z, top + 4)
  <2>1. top + 4 \in Nat
    BY <1>7
  <2> QED BY <1>5, <1>21, <1>22, <1>23, <2>1, LaidJoin
<1>25. r \in Seq(PageOver(Leaf)) /\ Len(r) = Len(p) + Len(q)
       /\ Len(p) \in Nat /\ Len(q) \in Nat
  BY <1>21, <1>23
<1>26. PICK last : last = bbt.cur.bid
  OBVIOUS
<1>27. last = (top + 4) + 4 * Len(r) /\ last \in Nat
  <2>1. last = ((top + 4) + 4 * Len(p)) + 4 * Len(q)
    BY <1>16, <1>18, <1>20, <1>26
  <2>2. PICK a, b, c \in Nat : a = Len(p) /\ b = Len(q) /\ c = Len(r)
    BY <1>25
  <2>3. c = a + b
    BY <1>25, <2>2
  <2>4. last = ((top + 4) + 4 * a) + 4 * b
    BY <2>1, <2>2
  <2>5. last = (top + 4) + 4 * c /\ last \in Nat
    BY <1>7, <2>3, <2>4
  <2> QED BY <2>2, <2>5
<1>28. PICK end, roots : /\ end = AlignUp(z, BLOCK_ALIGN)
                         /\ roots = [NBT |-> [at |-> nbt.root.at, bid |-> nbt.root.bid],
                                     BBT |-> [at |-> bbt.root.at, bid |-> bbt.root.bid]]
  OBVIOUS
<1>29. end \in Nat
  BY <1>21, <1>28, AlignUpIsLeast, LayoutAssumption
<1>30. roots \in [NBT : Root, BBT : Root]
  <2>1. nbt.root.at \in Nat /\ nbt.root.bid \in Nat /\ bbt.root.at \in Nat /\ bbt.root.bid \in Nat
    BY <1>16, <1>18 DEF PageOver
  <2> QED BY <1>28, <2>1 DEF Root
<1>31. PICK l : l = LayoutOf(ps, keep)
  OBVIOUS
<1>32. l = [placed |-> ps, pages |-> r, roots |-> roots, eof |-> end, bidNext |-> last]
  BY <1>19, <1>20, <1>23, <1>26, <1>28, <1>31, Zenon
<1>33. l.placed = ps /\ l.pages = r /\ l.roots = roots /\ l.eof = end /\ l.bidNext = last
  BY <1>32
<1>34. InPlan(l, y, z, top)
  <2>1. HomesLaid(l.placed, FirstFree, y)
    BY <1>2, <1>5, <1>33
  <2>2. PagesLaid(l.pages, y, z, top + 4)
    BY <1>24, <1>33
  <2>3. \A k \in 1 .. Len(l.placed) : l.placed[k].b.bid <= top
    BY <1>7, <1>33
  <2>4. l.bidNext = top + 4 + 4 * Len(l.pages)
    BY <1>27, <1>33
  <2> QED BY <2>1, <2>2, <2>3, <2>4 DEF InPlan
<1>35. SoundPlan(l)
  BY <1>2, <1>5, <1>7, <1>21, <1>25, <1>27, <1>29, <1>30, <1>33, <1>34 DEF SoundPlan
<1> QED BY <1>1, <1>31, <1>33, <1>35, Zenon

-----------------------------------------------------------------------------
\* What goes behind the header, in the order it is written: blocks, then pages.
Count(p) == Len(p.placed) + Len(p.pages)
Off(p, k) == IF k <= Len(p.placed) THEN p.placed[k].at ELSE p.pages[k - Len(p.placed)].at
Size(p, k) == IF k <= Len(p.placed) THEN BlockSpan(p.placed[k].b.cb) ELSE PAGE

\* The pieces of a plan lie apart, off the maps, in the order they are written.
LEMMA PiecesLaid ==
  ASSUME NEW p, SoundPlan(p)
  PROVE  /\ Count(p) \in Nat /\ Len(p.placed) \in Nat /\ Len(p.pages) \in Nat
         /\ \A k \in 1 .. Count(p) :
              /\ Off(p, k) \in Nat /\ Size(p, k) \in Nat \ {0}
              /\ FirstFree <= Off(p, k) /\ Clashes(Off(p, k), Size(p, k)) = {}
         /\ \A j, k \in 1 .. Count(p) : j < k => Off(p, j) + Size(p, j) <= Off(p, k)
<1>1. PICK ps, gs : ps = p.placed /\ gs = p.pages
  OBVIOUS
<1>2. PICK n, m : n = Len(ps) /\ m = Len(gs)
  OBVIOUS
<1>3. ps \in Seq(Home) /\ gs \in Seq(PageOver(Leaf)) /\ n \in Nat /\ m \in Nat
  BY <1>1, <1>2 DEF SoundPlan
<1>4. PICK y, z, top \in Nat : HomesLaid(ps, FirstFree, y) /\ PagesLaid(gs, y, z, top + 4)
  BY <1>1 DEF SoundPlan, InPlan
<1>5. ASSUME NEW k \in 1 .. n
      PROVE  ps[k].at \in Nat /\ BlockSpan(ps[k].b.cb) \in Nat \ {0}
  <2>1. ps[k] \in Home
    BY <1>2, <1>3
  <2> QED BY <2>1 DEF Home, Copied, Fits
<1>6. ASSUME NEW k \in 1 .. m PROVE gs[k].at \in Nat
  <2>1. gs[k] \in PageOver(Leaf)
    BY <1>2, <1>3
  <2> QED BY <2>1 DEF PageOver
<1>7. /\ FirstFree <= y
      /\ \A k \in 1 .. n :
           /\ FirstFree <= ps[k].at /\ ps[k].at + BlockSpan(ps[k].b.cb) <= y
           /\ Clashes(ps[k].at, BlockSpan(ps[k].b.cb)) = {}
      /\ \A j, k \in 1 .. n : j < k => ps[j].at + BlockSpan(ps[j].b.cb) <= ps[k].at
  BY <1>2, <1>4 DEF HomesLaid, Past
<1>8. /\ \A k \in 1 .. m : y <= gs[k].at /\ Clashes(gs[k].at, PAGE) = {}
      /\ \A j, k \in 1 .. m : j < k => gs[j].at + PAGE <= gs[k].at
  BY <1>2, <1>4 DEF PagesLaid
<1>9. FirstFree \in Nat /\ PAGE \in Nat \ {0}
  <2>1. AMAP_FIRST \in Nat /\ MAP_SLOTS * PAGE \in Nat
    BY LayoutAssumption, MulMono
  <2> QED BY <2>1, LayoutAssumption DEF FirstFree
<1>10. Count(p) = n + m
  BY <1>1, <1>2 DEF Count
<1>11. ASSUME NEW k \in 1 .. n
       PROVE  Off(p, k) = ps[k].at /\ Size(p, k) = BlockSpan(ps[k].b.cb)
  <2>1. k <= n
    BY <1>3
  <2> QED BY <1>1, <1>2, <2>1 DEF Off, Size
<1>12. ASSUME NEW k \in n + 1 .. n + m
       PROVE  k - n \in 1 .. m /\ Off(p, k) = gs[k - n].at /\ Size(p, k) = PAGE
  <2>1. ~ (k <= n) /\ k - n \in 1 .. m
    BY <1>3
  <2> QED BY <1>1, <1>2, <2>1 DEF Off, Size
<1>13. \A k \in 1 .. n + m : k \in 1 .. n \/ k \in n + 1 .. n + m
  BY <1>3
<1>14. ASSUME NEW k \in 1 .. n + m
       PROVE  /\ Off(p, k) \in Nat /\ Size(p, k) \in Nat \ {0}
              /\ FirstFree <= Off(p, k) /\ Clashes(Off(p, k), Size(p, k)) = {}
  <2>1. CASE k \in 1 .. n
    BY <1>5, <1>7, <1>11, <2>1
  <2>2. CASE k \in n + 1 .. n + m
    <3>1. PICK h \in 1 .. m : Off(p, k) = gs[h].at /\ Size(p, k) = PAGE
      BY <1>12, <2>2
    <3>2. gs[h].at \in Nat /\ y <= gs[h].at /\ Clashes(gs[h].at, PAGE) = {}
      BY <1>6, <1>8
    <3>3. FirstFree <= gs[h].at
      BY <1>7, <1>9, <3>2
    <3> QED BY <1>9, <3>1, <3>2, <3>3
  <2> QED BY <1>13, <2>1, <2>2
<1>15. ASSUME NEW j \in 1 .. n + m, NEW k \in 1 .. n + m, j < k
       PROVE  Off(p, j) + Size(p, j) <= Off(p, k)
  <2>1. CASE k \in 1 .. n
    <3>1. j \in 1 .. n
      BY <1>3, <1>15, <2>1
    <3> QED BY <1>7, <1>11, <1>15, <2>1, <3>1
  <2>2. CASE j \in 1 .. n /\ k \in n + 1 .. n + m
    <3>1. PICK h \in 1 .. m : Off(p, k) = gs[h].at
      BY <1>12, <2>2
    <3>2. PICK a, b, c : a = ps[j].at /\ b = BlockSpan(ps[j].b.cb) /\ c = gs[h].at
      OBVIOUS
    <3>3. a \in Nat /\ b \in Nat /\ c \in Nat /\ a + b <= y /\ y <= c
      BY <1>5, <1>6, <1>7, <1>8, <2>2, <3>2
    <3>4. a + b <= c
      BY <3>3
    <3> QED BY <1>11, <2>2, <3>1, <3>2, <3>4
  <2>3. CASE j \in n + 1 .. n + m
    <3>1. k \in n + 1 .. n + m
      BY <1>3, <1>15, <2>3
    <3>2. PICK g, h \in 1 .. m : g = j - n /\ h = k - n
      BY <1>12, <2>3, <3>1
    <3>3. g < h
      BY <1>3, <1>15, <3>2
    <3>4. Off(p, j) = gs[g].at /\ Size(p, j) = PAGE /\ Off(p, k) = gs[h].at
      BY <1>12, <2>3, <3>1, <3>2
    <3> QED BY <1>8, <3>3, <3>4
  <2> QED BY <1>13, <2>1, <2>2, <2>3
<1>16. PICK c : c = Count(p)
  OBVIOUS
<1>17. c = n + m /\ c \in Nat
  BY <1>3, <1>10, <1>16
<1>18. /\ \A k \in 1 .. c :
            /\ Off(p, k) \in Nat /\ Size(p, k) \in Nat \ {0}
            /\ FirstFree <= Off(p, k) /\ Clashes(Off(p, k), Size(p, k)) = {}
       /\ \A j, k \in 1 .. c : j < k => Off(p, j) + Size(p, j) <= Off(p, k)
  <2>1. \A k \in 1 .. c : k \in 1 .. n + m
    BY <1>17
  <2> QED BY <1>14, <1>15, <2>1
<1>19. Len(p.placed) \in Nat /\ Len(p.pages) \in Nat
  BY <1>1, <1>2, <1>3, Zenon
<1> QED BY <1>16, <1>17, <1>18, <1>19, Zenon

\* What a file may hold, piece by piece.
Seg == [kind : {"header"}, at : Nat, roots : [NBT : Root, BBT : Root], eof : Nat,
        bidNext : Nat]
       \union [kind : {"block"}, at : Nat, bid : Nat, cb : Nat, sig : Nat, sound : BOOLEAN]
       \union [kind : {"page"}, at : Nat, sig : Nat, page : PageOver(Leaf)]

\* A piece is the k-th of the plan, where the plan has it.
IsPiece(g, p, k) ==
  /\ g.at = Off(p, k) /\ g.sig = Off(p, k)
  /\ k <= Len(p.placed) => /\ g.kind = "block" /\ g.bid = p.placed[k].b.bid
                           /\ g.cb = p.placed[k].b.cb
  /\ k > Len(p.placed) => g.kind = "page" /\ g.page = p.pages[k - Len(p.placed)]

\* Behind the header are the first n pieces, and the write position x is not
\* past the place of any piece to come.
SoFar(segs, p, n, x) ==
  /\ Len(segs) = n + 1 /\ n <= Count(p)
  /\ \A k \in 1 .. n : IsPiece(segs[k + 1], p, k)
  /\ \A k \in 1 .. Count(p) : n < k => x <= Off(p, k)

\* Writing the next piece keeps the file in step with the plan.
LEMMA OneMore ==
  ASSUME NEW p, SoundPlan(p), NEW segs \in Seq(Seg), NEW n \in Nat, n < Count(p),
         NEW x \in Nat, SoFar(segs, p, n, x), NEW g \in Seg, IsPiece(g, p, n + 1)
  PROVE  /\ Append(segs, g) \in Seq(Seg) /\ Append(segs, g)[1] = segs[1]
         /\ SoFar(Append(segs, g), p, n + 1, Off(p, n + 1) + Size(p, n + 1))
<1>1. Count(p) \in Nat /\ n + 1 \in 1 .. Count(p)
  BY PiecesLaid
<1>2. Len(segs) = n + 1 /\ \A k \in 1 .. n : IsPiece(segs[k + 1], p, k)
  BY DEF SoFar
<1>3. PICK new : new = Append(segs, g)
  OBVIOUS
<1>4. /\ new \in Seq(Seg) /\ Len(new) = n + 2 /\ new[n + 2] = g
      /\ \A k \in 1 .. n + 1 : new[k] = segs[k]
  <2>1. Len(segs) + 1 = n + 2
    BY <1>2
  <2> QED BY <1>2, <1>3, <2>1
<1>5. ASSUME NEW k \in 1 .. n + 1 PROVE IsPiece(new[k + 1], p, k)
  <2>1. CASE k = n + 1
    <3>1. k + 1 = n + 2
      BY <2>1
    <3> QED BY <1>4, <2>1, <3>1
  <2>2. CASE k \in 1 .. n
    <3>1. k + 1 \in 1 .. n + 1
      BY <2>2
    <3> QED BY <1>2, <1>4, <2>2, <3>1
  <2> QED BY <2>1, <2>2
<1>6. ASSUME NEW k \in 1 .. Count(p), n + 1 < k
      PROVE  Off(p, n + 1) + Size(p, n + 1) <= Off(p, k)
  BY <1>1, <1>6, PiecesLaid
<1>7. Len(new) = (n + 1) + 1 /\ n + 1 <= Count(p)
  BY <1>1, <1>4
<1>8. SoFar(new, p, n + 1, Off(p, n + 1) + Size(p, n + 1))
  BY <1>5, <1>6, <1>7 DEF SoFar
<1>9. new[1] = segs[1]
  BY <1>4
<1> QED BY <1>3, <1>4, <1>8, <1>9

\* What Padded comes to.
LEMMA Later ==
  ASSUME NEW x \in Nat, NEW y \in Nat
  PROVE  Max({x, y}) \in Nat /\ x <= Max({x, y}) /\ (x <= y => Max({x, y}) = y)
  BY DEF Max

-----------------------------------------------------------------------------
\* The nodes that a layout keeps.
Keeping ==
  LET known == {Bare(p.b.bid) : p \in ToSet(PlaceBlocks(kept))}
  IN  ByNid(Picked(nodes, {n \in ToSet(nodes) : NodeSurvives(n, known)}))

\* What a path holds, and what the caller is told.
Held == [what : {"absent", "original", "older", "written"}, segs : Seq(Seg)]
Told == [result : {"none", "ok", "error"}, droppedBlocks : Nat, droppedNodes : Nat,
         missing : SUBSET ESSENTIAL]

Typed ==
  /\ pc \in {"check", "create", "blocks", "done", "failed"}
  /\ blocks \in BLOCK_LISTS /\ nodes \in NODE_LISTS /\ target \in TARGETS
  /\ disk \in [{"src", "out"} -> Held]
  /\ i \in Nat /\ step \in Nat /\ pos \in Nat
  /\ kept \in Seq(ToSet(blocks))
  /\ report \in Told

\* Neither pass deals with more than the index has.
Counts ==
  /\ Len(kept) <= Len(blocks) /\ step <= Steps
  /\ report.droppedBlocks <= Len(blocks) /\ report.droppedNodes <= Len(nodes)
  /\ pc = "check" => /\ i <= Len(blocks) /\ step = i
                     /\ Len(kept) <= i /\ report.droppedBlocks <= i
  /\ pc = "create" => i = 0 /\ step = Len(blocks)
  /\ pc = "blocks" => step <= Len(blocks) + i /\ step <= Len(blocks) + Len(kept)

\* The layout is that of what survived the first pass.
Planned ==
  pc \in {"create", "blocks", "done"} =>
    kept # <<>> /\ Keeping # <<>> /\ plan = LayoutOf(PlaceBlocks(kept), Keeping)

\* The target holds nothing of the run, or the header and the pieces up to i.
OnDisk ==
  /\ pc \in {"check", "create", "failed"} => disk[target].segs = <<>>
  /\ pc \in {"blocks", "done"} => /\ disk[target].segs[1] = HeaderSeg
                                  /\ SoFar(disk[target].segs, plan, i, pos)
  /\ pc = "done" => i = Count(plan)

RebuildInv == Typed /\ Counts /\ Planned /\ OnDisk

\* The types of what survived.
LEMMA Surviving ==
  ASSUME RebuildInv
  PROVE  /\ kept \in Seq(Copied) /\ blocks \in Seq(Copied) /\ nodes \in Seq(Node)
         /\ Keeping \in Seq(Node) /\ Len(Keeping) <= Len(nodes)
<1>1. blocks \in Seq(Copied) /\ nodes \in Seq(Node)
  BY InputsTyped DEF RebuildInv, Typed
<1>2. ToSet(blocks) \subseteq Copied
  BY <1>1 DEF ToSet
<1>3. kept \in Seq(Copied)
  <2>1. kept \in Seq(ToSet(blocks))
    BY DEF RebuildInv, Typed
  <2> QED BY <1>2, <2>1, SeqWider
<1>4. PICK keep : keep = {n \in ToSet(nodes) :
                    NodeSurvives(n, {Bare(p.b.bid) : p \in ToSet(PlaceBlocks(kept))})}
  OBVIOUS
<1>5. PICK ns : ns = Picked(nodes, keep)
  OBVIOUS
<1>6. ns \in Seq(Node) /\ Len(ns) <= Len(nodes)
  BY <1>1, <1>5, PickedIs
<1>7. PICK keys : keys = [k \in DOMAIN ns |-> ns[k].nid]
  OBVIOUS
<1>8. keys \in [1 .. Len(ns) -> Int]
  <2>1. DOMAIN ns = 1 .. Len(ns)
    BY <1>6
  <2>2. ASSUME NEW k \in 1 .. Len(ns) PROVE ns[k].nid \in Int
    <3>1. ns[k] \in Node
      BY <1>6
    <3> QED BY <3>1 DEF Node
  <2> QED BY <1>7, <2>1, <2>2
<1>9. Keeping = InOrder(ns, keys)
  BY <1>4, <1>5, <1>7 DEF Keeping, ByNid
<1>10. InOrder(ns, keys) \in Seq(Node) /\ \E f : SortedFrom(InOrder(ns, keys), ns, keys, f)
  BY <1>6, <1>8, SortedIs
<1>11. Len(InOrder(ns, keys)) = Len(ns)
  BY <1>10 DEF SortedFrom
<1>12. Len(Keeping) <= Len(nodes)
  BY <1>6, <1>9, <1>11
<1> QED BY <1>1, <1>3, <1>9, <1>10, <1>12

\* The plan of the second pass is sound.
LEMMA PlanIs ==
  ASSUME RebuildInv, pc \in {"create", "blocks", "done"}
  PROVE  /\ SoundPlan(plan) /\ plan.placed = PlaceBlocks(kept)
         /\ Len(plan.placed) = Len(kept)
<1>1. kept # <<>> /\ Keeping # <<>> /\ plan = LayoutOf(PlaceBlocks(kept), Keeping)
  BY DEF RebuildInv, Planned
<1>2. SoundPlan(plan) /\ plan.placed = PlaceBlocks(kept)
  BY <1>1, Surviving, LayoutIs
<1>3. Len(PlaceBlocks(kept)) = Len(kept)
  BY <1>1, Surviving, HomesAre
<1> QED BY <1>2, <1>3

\* The start of a run.
LEMMA RebuildInit == Init => RebuildInv
<1> SUFFICES ASSUME Init PROVE RebuildInv
  OBVIOUS
<1>1. blocks \in Seq(Copied) /\ nodes \in Seq(Node) /\ Len(blocks) \in Nat /\ Len(nodes) \in Nat
  BY InputsTyped DEF Init
<1>2. PICK f \in {Absent, Older} : disk = [src |-> Original, out |-> f]
  BY DEF Init
<1>3. Original \in Held /\ f \in Held /\ Original.segs = <<>> /\ f.segs = <<>>
  <2>0. PICK none : none = <<>>
    OBVIOUS
  <2>1. none \in Seq(Seg)
    BY <2>0
  <2>2. \A w \in {"absent", "original", "older", "written"} :
          [what |-> w, segs |-> none] \in Held /\ [what |-> w, segs |-> none].segs = none
    BY <2>1 DEF Held
  <2>3. /\ Original = [what |-> "original", segs |-> none]
        /\ Absent = [what |-> "absent", segs |-> none]
        /\ Older = [what |-> "older", segs |-> none]
    BY <2>0 DEF Original, Absent, Older
  <2> QED BY <2>0, <2>2, <2>3
<1>4. /\ disk \in [{"src", "out"} -> Held]
      /\ disk["src"] = Original /\ disk["out"] = f
  BY <1>2, <1>3
<1>5. target \in {"src", "out"}
  BY RebuildAssumption DEF Init
<1>6. kept = <<>> /\ kept \in Seq(ToSet(blocks)) /\ Len(kept) = 0
  BY DEF Init
<1>7. report \in Told /\ report.droppedBlocks = 0 /\ report.droppedNodes = 0
  BY DEF Init, NoReport, Told
<1>8. Typed
  BY <1>4, <1>6, <1>7 DEF Init, Typed
<1>9. Counts
  BY <1>1, <1>6, <1>7 DEF Init, Counts, Steps
<1>10. Planned
  BY DEF Init, Planned
<1>11. OnDisk
  <2>1. disk[target].segs = <<>>
    BY <1>3, <1>4, <1>5
  <2> QED BY <2>1 DEF Init, OnDisk
<1> QED BY <1>8, <1>9, <1>10, <1>11 DEF RebuildInv

\* A run that ends here, whatever it leaves in the target that is no file of its own.
LEMMA RebuildFails ==
  ASSUME RebuildInv, pc' = "failed", report' = [report EXCEPT !.result = "error"],
         UNCHANGED <<blocks, nodes, target, kept>>,
         disk' \in [{"src", "out"} -> Held], disk'[target].segs = <<>>,
         i' \in Nat, step' \in Nat, step' <= Steps, pos' \in Nat
  PROVE  RebuildInv'
<1>1. Typed /\ Counts
  BY DEF RebuildInv
<1>2. report' \in Told /\ report'.droppedBlocks = report.droppedBlocks
      /\ report'.droppedNodes = report.droppedNodes
  BY <1>1 DEF Typed, Told
<1>3. Typed'
  BY <1>1, <1>2 DEF Typed
<1>4. Counts'
  BY <1>1, <1>2 DEF Counts, Steps
<1>5. Planned'
  BY DEF Planned
<1>6. OnDisk'
  BY DEF OnDisk
<1> QED BY <1>3, <1>4, <1>5, <1>6 DEF RebuildInv

\* The first pass.
LEMMA RebuildChecks ==
  ASSUME RebuildInv, Check
  PROVE  RebuildInv'
<1>1. Typed /\ Counts /\ Planned /\ OnDisk
  BY DEF RebuildInv
<1>2. PICK b : b = blocks[i + 1]
  OBVIOUS
<1>3. blocks \in Seq(Copied) /\ Len(blocks) \in Nat /\ i + 1 \in 1 .. Len(blocks)
  BY <1>1, Surviving DEF Typed, Check
<1>4. b \in ToSet(blocks)
  BY <1>2, <1>3 DEF ToSet
<1>5. report.droppedBlocks \in Nat /\ report.droppedNodes \in Nat
  BY <1>1 DEF Typed, Told
<1>6. /\ pc = "check" /\ i' = i + 1 /\ step' = step + 1
      /\ UNCHANGED <<blocks, nodes, target, pc, disk, plan, pos>>
  BY DEF Check, input
<1>7. \/ report' = [report EXCEPT !.droppedBlocks = @ + 1] /\ kept' = kept
      \/ kept' = Append(kept, b) /\ report' = report
  BY <1>2 DEF Check
<1>8. /\ kept' \in Seq(ToSet(blocks)) /\ Len(kept') <= Len(kept) + 1
      /\ Len(kept) \in Nat /\ Len(kept') \in Nat
  <2>1. kept \in Seq(ToSet(blocks))
    BY <1>1 DEF Typed
  <2> QED BY <1>4, <1>7, <2>1
<1>9. /\ report' \in Told /\ report'.droppedNodes = report.droppedNodes
      /\ report'.droppedBlocks <= report.droppedBlocks + 1 /\ report'.droppedBlocks \in Nat
  <2>1. report \in Told
    BY <1>1 DEF Typed
  <2>2. CASE report' = report
    BY <1>5, <2>1, <2>2
  <2>3. CASE report' = [report EXCEPT !.droppedBlocks = @ + 1]
    BY <1>5, <2>1, <2>3 DEF Told
  <2> QED BY <1>7, <2>2, <2>3
<1>10. Typed'
  <2>1. i' \in Nat /\ step' \in Nat
    BY <1>1, <1>6 DEF Typed
  <2> QED BY <1>1, <1>6, <1>8, <1>9, <2>1 DEF Typed
<1>11. Counts'
  <2>1. i \in Nat /\ step = i /\ Len(kept) <= i /\ report.droppedBlocks <= i
        /\ report.droppedNodes <= Len(nodes) /\ i + 1 <= Len(blocks)
    BY <1>1, <1>3, <1>6 DEF Counts, Typed
  <2>2. Len(kept') <= i' /\ report'.droppedBlocks <= i' /\ i' <= Len(blocks) /\ step' = i'
    BY <1>3, <1>5, <1>6, <1>8, <1>9, <2>1
  <2>3. Len(kept') <= Len(blocks) /\ report'.droppedBlocks <= Len(blocks)
        /\ step' <= 2 * Len(blocks)
    BY <1>3, <1>6, <1>8, <1>9, <2>1, <2>2
  <2> QED BY <1>6, <1>9, <2>1, <2>2, <2>3 DEF Counts, Steps
<1>12. Planned'
  BY <1>6 DEF Planned
<1>13. OnDisk'
  BY <1>1, <1>6 DEF OnDisk
<1> QED BY <1>10, <1>11, <1>12, <1>13 DEF RebuildInv

\* The layout.
LEMMA RebuildLaysOut ==
  ASSUME RebuildInv, LayOut
  PROVE  RebuildInv'
<1>1. Typed /\ Counts /\ Planned /\ OnDisk
  BY DEF RebuildInv
<1>2. pc = "check" /\ i = Len(blocks)
  BY DEF LayOut
<1>3. CASE GiveUp
  <2>1. disk[target].segs = <<>>
    BY <1>1, <1>2 DEF OnDisk
  <2>2. step <= Steps /\ step \in Nat /\ i \in Nat /\ pos \in Nat
        /\ disk \in [{"src", "out"} -> Held]
    BY <1>1 DEF Counts, Typed
  <2> QED BY <1>3, <2>1, <2>2, RebuildFails DEF GiveUp, input
<1>4. CASE ~ GiveUp
  <2>1. /\ kept # <<>> /\ Keeping # <<>>
        /\ plan' = LayoutOf(PlaceBlocks(kept), Keeping)
        /\ report' = [report EXCEPT !.droppedNodes = Len(nodes) - Len(Keeping),
                                    !.missing = Missing(Keeping)]
        /\ pc' = "create" /\ i' = 0
        /\ UNCHANGED <<blocks, nodes, target, disk, step, kept, pos>>
    BY <1>4 DEF LayOut, Keeping, input
  <2>2. Len(nodes) - Len(Keeping) \in Nat /\ Len(nodes) - Len(Keeping) <= Len(nodes)
    <3>1. Len(nodes) \in Nat /\ Len(Keeping) \in Nat /\ Len(Keeping) <= Len(nodes)
      BY Surviving
    <3> QED BY <3>1
  <2>3. /\ report' \in Told /\ report'.droppedBlocks = report.droppedBlocks
        /\ report'.droppedNodes <= Len(nodes)
    <3>1. report \in Told
      BY <1>1 DEF Typed
    <3>2. Missing(Keeping) \in SUBSET ESSENTIAL
      BY DEF Missing
    <3>3. PICK d, m : d = Len(nodes) - Len(Keeping) /\ m = Missing(Keeping)
      OBVIOUS
    <3>4. report' = [report EXCEPT !.droppedNodes = d, !.missing = m]
      BY <2>1, <3>3
    <3> QED BY <2>2, <3>1, <3>2, <3>3, <3>4 DEF Told
  <2>4. Typed'
    BY <1>1, <2>1, <2>3 DEF Typed
  <2>5. Counts'
    BY <1>1, <1>2, <2>1, <2>3 DEF Counts, Steps
  <2>6. Planned'
    BY <2>1 DEF Planned, Keeping
  <2>7. OnDisk'
    BY <1>1, <1>2, <2>1 DEF OnDisk
  <2> QED BY <2>4, <2>5, <2>6, <2>7 DEF RebuildInv
<1> QED BY <1>3, <1>4

\* A file that was removed, and one of the run's own.
LEMMA HeldAre ==
  /\ Absent \in Held /\ Absent.segs = <<>>
  /\ \A segs \in Seq(Seg) : Written(segs) \in Held /\ Written(segs).segs = segs
<1>0. PICK none : none = <<>>
  OBVIOUS
<1>1. none \in Seq(Seg)
  BY <1>0
<1>2. [what |-> "absent", segs |-> none] \in Held
      /\ [what |-> "absent", segs |-> none].segs = none
  BY <1>1 DEF Held
<1>3. Absent = [what |-> "absent", segs |-> none]
  BY <1>0 DEF Absent
<1>4. ASSUME NEW segs \in Seq(Seg)
      PROVE  Written(segs) \in Held /\ Written(segs).segs = segs
  BY DEF Written, Held
<1> QED BY <1>0, <1>2, <1>3, <1>4

\* A failed write.
LEMMA RebuildRemoves ==
  ASSUME RebuildInv, RemoveAndFail
  PROVE  RebuildInv'
<1>1. Typed /\ Counts
  BY DEF RebuildInv
<1>2. disk \in [{"src", "out"} -> Held] /\ target \in {"src", "out"}
  BY <1>1, RebuildAssumption DEF Typed
<1>3. /\ disk' = [disk EXCEPT ![target] = Absent]
      /\ UNCHANGED <<blocks, nodes, target, i, step, kept, pos>>
      /\ pc' = "failed" /\ report' = [report EXCEPT !.result = "error"]
  BY DEF RemoveAndFail, input
<1>4. disk' \in [{"src", "out"} -> Held] /\ disk'[target] = Absent
  BY <1>2, <1>3, HeldAre
<1>5. disk'[target].segs = <<>>
  BY <1>4, HeldAre
<1>6. i' \in Nat /\ step' \in Nat /\ step' <= Steps /\ pos' \in Nat
  BY <1>1, <1>3 DEF Typed, Counts
<1> QED BY <1>3, <1>4, <1>5, <1>6, RebuildFails

\* The header.
LEMMA RebuildCreates ==
  ASSUME RebuildInv, Create
  PROVE  RebuildInv'
<1>1. Typed /\ Counts /\ Planned /\ OnDisk
  BY DEF RebuildInv
<1>2. pc = "create"
  BY DEF Create
<1>3. CASE RemoveAndFail
  BY <1>3, RebuildRemoves
<1>4. CASE GiveUp
  <2>1. disk[target].segs = <<>>
    BY <1>1, <1>2 DEF OnDisk
  <2>2. step <= Steps /\ step \in Nat /\ i \in Nat /\ pos \in Nat
        /\ disk \in [{"src", "out"} -> Held]
    BY <1>1 DEF Counts, Typed
  <2> QED BY <1>4, <2>1, <2>2, RebuildFails DEF GiveUp, input
<1>5. CASE ~ RemoveAndFail /\ ~ GiveUp
  <2>1. /\ disk' = [disk EXCEPT ![target] = Written(<<HeaderSeg>>)]
        /\ pos' = HEADER /\ pc' = "blocks"
        /\ UNCHANGED <<blocks, nodes, target, i, step, kept, plan, report>>
    BY <1>5 DEF Create, input
  <2>2. SoundPlan(plan) /\ Len(plan.placed) = Len(kept)
    BY <1>2, PlanIs
  <2>3. disk \in [{"src", "out"} -> Held] /\ target \in {"src", "out"}
    BY <1>1, RebuildAssumption DEF Typed
  <2>4. HeaderSeg \in Seg
    <3>1. plan.roots \in [NBT : Root, BBT : Root] /\ plan.eof \in Nat /\ plan.bidNext \in Nat
      BY <2>2 DEF SoundPlan
    <3> QED BY <3>1 DEF HeaderSeg, Seg
  <2>5. PICK segs : segs = <<HeaderSeg>>
    OBVIOUS
  <2>6. segs \in Seq(Seg) /\ Len(segs) = 1 /\ segs[1] = HeaderSeg
    BY <2>4, <2>5
  <2>7. disk' \in [{"src", "out"} -> Held] /\ disk'[target].segs = segs
    <3>1. Written(segs) \in Held /\ Written(segs).segs = segs
      BY <2>6, HeldAre
    <3>2. disk' \in [{"src", "out"} -> Held] /\ disk'[target] = Written(segs)
      BY <2>1, <2>3, <2>5, <3>1
    <3> QED BY <3>1, <3>2
  <2>8. SoFar(segs, plan, 0, HEADER)
    <3>1. Len(segs) = 0 + 1 /\ 0 <= Count(plan)
      BY <2>2, <2>6, PiecesLaid
    <3>2. ASSUME NEW k \in 1 .. Count(plan) PROVE HEADER <= Off(plan, k)
      <4>1. FirstFree <= Off(plan, k) /\ Off(plan, k) \in Nat
        BY <2>2, PiecesLaid
      <4>2. HEADER \in Nat /\ HEADER <= FirstFree /\ FirstFree \in Nat
        <5>1. AMAP_FIRST \in Nat /\ MAP_SLOTS * PAGE \in Nat
          BY LayoutAssumption, MulMono
        <5> QED BY <5>1, RebuildAssumption DEF FirstFree
      <4> QED BY <4>1, <4>2
    <3> QED BY <3>1, <3>2 DEF SoFar
  <2>9. Typed'
    BY <1>1, <2>1, <2>7, RebuildAssumption DEF Typed
  <2>10. Counts'
    <3>1. i = 0 /\ step = Len(blocks) /\ Len(kept) \in Nat /\ Len(blocks) \in Nat
      <4>1. Len(kept) \in Nat /\ Len(blocks) \in Nat
        BY Surviving
      <4> QED BY <1>1, <1>2, <4>1 DEF Counts
    <3> QED BY <1>1, <2>1, <3>1 DEF Counts, Steps
  <2>11. Planned'
    BY <1>1, <1>2, <2>1 DEF Planned, Keeping
  <2>12. OnDisk'
    <3>1. i = 0
      BY <1>1, <1>2 DEF Counts
    <3>2. disk'[target'].segs = segs /\ plan' = plan /\ i' = 0 /\ pos' = HEADER
      BY <2>1, <2>7, <3>1
    <3>3. HeaderSeg' = HeaderSeg
      BY <2>1 DEF HeaderSeg
    <3>4. disk'[target'].segs[1] = HeaderSeg' /\ SoFar(disk'[target'].segs, plan', i', pos')
      BY <2>6, <2>8, <3>2, <3>3
    <3> QED BY <2>1, <3>4 DEF OnDisk
  <2> QED BY <2>9, <2>10, <2>11, <2>12 DEF RebuildInv
<1> QED BY <1>3, <1>4, <1>5

\* The next piece lands where the plan has it.
LEMMA RebuildPuts ==
  ASSUME RebuildInv, pc = "blocks", i < Count(plan),
         NEW g \in Seg, IsPiece(g, plan, i + 1), Put(g),
         pos' = Off(plan, i + 1) + Size(plan, i + 1), i' = i + 1,
         UNCHANGED <<pc, blocks, nodes, target, kept, plan, report>>,
         step' \in Nat, step' <= Len(blocks) + i + 1, step' <= Len(blocks) + Len(kept)
  PROVE  RebuildInv'
<1>1. Typed /\ Counts /\ Planned /\ OnDisk
  BY DEF RebuildInv
<1>2. SoundPlan(plan)
  BY PlanIs
<1>3. disk \in [{"src", "out"} -> Held] /\ target \in {"src", "out"}
  BY <1>1, RebuildAssumption DEF Typed
<1>4. PICK segs : segs = disk[target].segs
  OBVIOUS
<1>5. segs \in Seq(Seg) /\ SoFar(segs, plan, i, pos) /\ segs[1] = HeaderSeg
  BY <1>1, <1>3, <1>4 DEF OnDisk, Held
<1>6. PICK new : new = Append(segs, g)
  OBVIOUS
<1>7. /\ new \in Seq(Seg) /\ new[1] = HeaderSeg
      /\ SoFar(new, plan, i + 1, Off(plan, i + 1) + Size(plan, i + 1))
  BY <1>1, <1>2, <1>5, <1>6, OneMore DEF Typed
<1>8. disk' \in [{"src", "out"} -> Held] /\ disk'[target].segs = new
  <2>1. Written(new) \in Held /\ Written(new).segs = new
    BY <1>7, HeldAre
  <2>2. disk' = [disk EXCEPT ![target] = Written(new)]
    BY <1>3, <1>4, <1>6 DEF Put
  <2>3. disk' \in [{"src", "out"} -> Held] /\ disk'[target] = Written(new)
    BY <1>3, <2>1, <2>2
  <2> QED BY <2>1, <2>3
<1>9. i + 1 \in 1 .. Count(plan) /\ Off(plan, i + 1) \in Nat /\ Size(plan, i + 1) \in Nat
  <2>1. i + 1 \in 1 .. Count(plan)
    BY <1>1, <1>2, PiecesLaid DEF Typed
  <2> QED BY <1>2, <2>1, PiecesLaid
<1>10. Typed'
  <2>1. i' \in Nat /\ pos' \in Nat
    BY <1>1, <1>9 DEF Typed
  <2> QED BY <1>1, <1>8, <2>1 DEF Typed
<1>11. Counts'
  <2>1. Len(kept) \in Nat /\ Len(blocks) \in Nat
    BY Surviving
  <2>2. Len(kept) <= Len(blocks)
    BY <1>1 DEF Counts
  <2>3. step' <= 2 * Len(blocks)
    BY <2>1, <2>2
  <2>4. i \in Nat /\ step' <= Len(blocks) + i'
    BY <1>1, <2>1 DEF Typed
  <2> QED BY <1>1, <2>3, <2>4 DEF Counts, Steps
<1>12. Planned'
  BY <1>1 DEF Planned, Keeping
<1>13. OnDisk'
  <2>1. HeaderSeg' = HeaderSeg
    BY DEF HeaderSeg
  <2>2. disk'[target'].segs = new
    BY <1>8
  <2>3. disk'[target'].segs[1] = HeaderSeg' /\ SoFar(disk'[target'].segs, plan', i', pos')
    BY <1>7, <2>1, <2>2
  <2> QED BY <2>3 DEF OnDisk
<1> QED BY <1>10, <1>11, <1>12, <1>13 DEF RebuildInv

\* The next block.
LEMMA RebuildWritesBlock ==
  ASSUME RebuildInv, WriteBlock
  PROVE  RebuildInv'
<1>1. Typed /\ Counts /\ Planned /\ OnDisk
  BY DEF RebuildInv
<1>2. /\ pc = "blocks" /\ i < Len(plan.placed) /\ step' = step + 1
      /\ UNCHANGED <<blocks, nodes, target, kept, plan>>
  BY DEF WriteBlock, input
<1>3. SoundPlan(plan) /\ Len(plan.placed) = Len(kept)
  BY <1>2, PlanIs
<1>4. /\ i \in Nat /\ pos \in Nat /\ step \in Nat /\ Len(kept) \in Nat /\ Len(blocks) \in Nat
      /\ Len(kept) <= Len(blocks)
      /\ step <= Len(blocks) + i /\ i < Len(kept)
  <2>1. Len(kept) \in Nat /\ Len(blocks) \in Nat
    BY Surviving
  <2>2. i < Len(kept)
    BY <1>2, <1>3
  <2> QED BY <1>1, <1>2, <2>1, <2>2 DEF Typed, Counts
<1>5. /\ step' \in Nat /\ step' <= Len(blocks) + i + 1 /\ step' <= Len(blocks) + Len(kept)
      /\ step' <= 2 * Len(blocks)
  BY <1>2, <1>4
<1>6. disk \in [{"src", "out"} -> Held] /\ target \in {"src", "out"}
  BY <1>1, RebuildAssumption DEF Typed
<1>7. CASE /\ disk' = [disk EXCEPT ![target] = Absent] /\ pc' = "failed"
           /\ report' = [report EXCEPT !.result = "error"] /\ UNCHANGED <<i, pos>>
  <2>1. disk' \in [{"src", "out"} -> Held] /\ disk'[target] = Absent
    BY <1>6, <1>7, HeldAre
  <2>2. disk'[target].segs = <<>>
    BY <2>1, HeldAre
  <2>3. step' <= Steps /\ i' \in Nat /\ pos' \in Nat
    BY <1>4, <1>5, <1>7 DEF Steps
  <2> QED BY <1>2, <1>5, <1>7, <2>1, <2>2, <2>3, RebuildFails
<1>8. CASE /\ LET p == plan.placed[i + 1] IN
                /\ Put([kind |-> "block", at |-> Padded(p.at), bid |-> p.b.bid,
                        cb |-> p.b.cb, sig |-> p.at,
                        sound |-> disk["src"] = Original])
                /\ pos' = Padded(p.at) + BlockSpan(p.b.cb)
           /\ i' = i + 1 /\ UNCHANGED <<pc, report>>
  <2>1. PICK p : p = plan.placed[i + 1]
    OBVIOUS
  <2>2. i + 1 <= Len(plan.placed) /\ i + 1 \in 1 .. Len(plan.placed) /\ i < Count(plan)
        /\ i + 1 \in 1 .. Count(plan)
    <3>1. PICK n, m : n = Len(plan.placed) /\ m = Len(plan.pages)
      OBVIOUS
    <3>2. n \in Nat /\ m \in Nat /\ i < n
      BY <1>2, <1>3, <3>1, PiecesLaid
    <3>3. i + 1 <= n /\ i + 1 \in 1 .. n /\ i < n + m /\ i + 1 \in 1 .. n + m
      BY <1>4, <3>2
    <3> QED BY <3>1, <3>3 DEF Count
  <2>3. p.at = Off(plan, i + 1) /\ BlockSpan(p.b.cb) = Size(plan, i + 1)
    BY <2>1, <2>2 DEF Off, Size
  <2>4. p.at \in Nat /\ p.b.bid \in Nat /\ p.b.cb \in Nat
    <3>1. plan.placed \in Seq(Home)
      BY <1>3 DEF SoundPlan
    <3>2. p \in Home
      BY <2>1, <2>2, <3>1
    <3> QED BY <3>2 DEF Home, Copied, Block
  <2>5. Padded(p.at) = p.at
    <3>1. pos <= p.at
      <4>1. SoFar(disk[target].segs, plan, i, pos)
        BY <1>1, <1>2 DEF OnDisk
      <4>2. i < i + 1
        BY <1>4
      <4> QED BY <2>2, <2>3, <4>1, <4>2 DEF SoFar
    <3> QED BY <1>4, <2>4, <3>1, Later DEF Padded
  <2>6. PICK g : g = [kind |-> "block", at |-> p.at, bid |-> p.b.bid, cb |-> p.b.cb,
                      sig |-> p.at, sound |-> disk["src"] = Original]
    OBVIOUS
  <2>7. g \in Seg
    <3>1. PICK ok : ok = (disk["src"] = Original) /\ ok \in BOOLEAN
      OBVIOUS
    <3> QED BY <2>4, <2>6, <3>1 DEF Seg
  <2>8. IsPiece(g, plan, i + 1)
    <3>1. g.at = p.at /\ g.sig = p.at /\ g.kind = "block" /\ g.bid = p.b.bid /\ g.cb = p.b.cb
      BY <2>6
    <3>2. ~ (i + 1 > Len(plan.placed))
      BY <1>3, <1>4, <2>2
    <3> QED BY <2>1, <2>3, <3>1, <3>2 DEF IsPiece
  <2>9. Put(g) /\ pos' = Off(plan, i + 1) + Size(plan, i + 1)
    <3>1. /\ Put([kind |-> "block", at |-> Padded(p.at), bid |-> p.b.bid,
                  cb |-> p.b.cb, sig |-> p.at, sound |-> disk["src"] = Original])
          /\ pos' = Padded(p.at) + BlockSpan(p.b.cb)
      BY <1>8, <2>1
    <3>2. Put([kind |-> "block", at |-> p.at, bid |-> p.b.bid,
               cb |-> p.b.cb, sig |-> p.at, sound |-> disk["src"] = Original])
      BY <2>5, <3>1
    <3> QED BY <2>3, <2>5, <2>6, <3>1, <3>2
  <2> QED BY <1>2, <1>5, <1>8, <2>2, <2>7, <2>8, <2>9, RebuildPuts
<1> QED BY <1>7, <1>8 DEF WriteBlock

\* The next page.
LEMMA RebuildWritesPage ==
  ASSUME RebuildInv, WritePage
  PROVE  RebuildInv'
<1>1. Typed /\ Counts /\ Planned /\ OnDisk
  BY DEF RebuildInv
<1>2. pc = "blocks" /\ i >= Len(plan.placed) /\ i < Len(plan.placed) + Len(plan.pages)
  BY DEF WritePage
<1>3. SoundPlan(plan) /\ Len(plan.placed) = Len(kept)
  BY <1>2, PlanIs
<1>4. i \in Nat /\ pos \in Nat /\ step \in Nat
      /\ step <= Len(blocks) + i /\ step <= Len(blocks) + Len(kept)
  BY <1>1, <1>2 DEF Typed, Counts
<1>5. CASE RemoveAndFail
  BY <1>5, RebuildRemoves
<1>6. CASE ~ RemoveAndFail
  <2>1. PICK g : g = plan.pages[i + 1 - Len(plan.placed)]
    OBVIOUS
  <2>2. /\ Put([kind |-> "page", at |-> Padded(g.at), sig |-> g.at, page |-> g])
        /\ pos' = Padded(g.at) + PAGE
        /\ i' = i + 1
        /\ UNCHANGED <<blocks, nodes, target, pc, step, kept, plan, report>>
    BY <1>6, <2>1 DEF WritePage, input
  <2>3. PICK n, m : n = Len(plan.placed) /\ m = Len(plan.pages)
    OBVIOUS
  <2>4. n \in Nat /\ m \in Nat /\ i >= n /\ i < n + m /\ Count(plan) = n + m
    BY <1>2, <1>3, <2>3, PiecesLaid DEF Count
  <2>5. i + 1 \in 1 .. n + m /\ ~ (i + 1 <= n) /\ i + 1 - n \in 1 .. m /\ i + 1 > n
        /\ (i + 1) - n = i + 1 - n /\ i < i + 1
    BY <1>4, <2>4
  <2>6. g = plan.pages[(i + 1) - n] /\ g \in PageOver(Leaf)
    <3>1. plan.pages \in Seq(PageOver(Leaf))
      BY <1>3 DEF SoundPlan
    <3>2. g = plan.pages[i + 1 - n]
      BY <2>1, <2>3
    <3> QED BY <2>3, <2>5, <3>1, <3>2
  <2>7. g.at = Off(plan, i + 1) /\ PAGE = Size(plan, i + 1) /\ g.at \in Nat
    <3>1. g.at = Off(plan, i + 1) /\ PAGE = Size(plan, i + 1)
      BY <2>3, <2>5, <2>6 DEF Off, Size
    <3> QED BY <2>6, <3>1 DEF PageOver
  <2>8. Padded(g.at) = g.at
    <3>1. pos <= g.at
      <4>1. SoFar(disk[target].segs, plan, i, pos)
        BY <1>1, <1>2 DEF OnDisk
      <4>2. \A k \in 1 .. n + m : i < k => pos <= Off(plan, k)
        BY <2>4, <4>1 DEF SoFar
      <4> QED BY <2>5, <2>7, <4>2
    <3> QED BY <1>4, <2>7, <3>1, Later DEF Padded
  <2>9. PICK w : w = [kind |-> "page", at |-> g.at, sig |-> g.at, page |-> g]
    OBVIOUS
  <2>10. w \in Seg
    BY <2>6, <2>7, <2>9 DEF Seg
  <2>11. IsPiece(w, plan, i + 1)
    <3>1. w.at = g.at /\ w.sig = g.at /\ w.kind = "page" /\ w.page = g
      BY <2>9
    <3> QED BY <2>3, <2>5, <2>6, <2>7, <3>1 DEF IsPiece
  <2>12. Put(w) /\ pos' = Off(plan, i + 1) + Size(plan, i + 1)
    BY <2>2, <2>7, <2>8, <2>9
  <2>13. step' \in Nat /\ step' <= Len(blocks) + i + 1 /\ step' <= Len(blocks) + Len(kept)
    <3>1. Len(blocks) \in Nat /\ step' = step
      BY <2>2, Surviving
    <3> QED BY <1>4, <3>1
  <2> QED BY <1>2, <2>2, <2>4, <2>10, <2>11, <2>12, <2>13, RebuildPuts
<1> QED BY <1>5, <1>6

\* The end.
LEMMA RebuildFinishes ==
  ASSUME RebuildInv, Finish
  PROVE  RebuildInv'
<1>1. Typed /\ Counts /\ Planned /\ OnDisk
  BY DEF RebuildInv
<1>2. pc = "blocks" /\ i = Len(plan.placed) + Len(plan.pages)
  BY DEF Finish
<1>3. CASE RemoveAndFail
  BY <1>3, RebuildRemoves
<1>4. CASE ~ RemoveAndFail
  <2>1. /\ pos' = Padded(plan.eof) /\ pc' = "done"
        /\ report' = [report EXCEPT !.result = "ok"]
        /\ UNCHANGED <<blocks, nodes, target, disk, i, step, kept, plan>>
    BY <1>4 DEF Finish, input
  <2>2. SoundPlan(plan)
    BY <1>2, PlanIs
  <2>3. pos' \in Nat
    <3>1. plan.eof \in Nat /\ pos \in Nat
      BY <1>1, <2>2 DEF SoundPlan, Typed
    <3> QED BY <2>1, <3>1, Later DEF Padded
  <2>4. report' \in Told /\ report'.droppedBlocks = report.droppedBlocks
        /\ report'.droppedNodes = report.droppedNodes
    BY <1>1, <2>1 DEF Typed, Told
  <2>5. Typed'
    BY <1>1, <2>1, <2>3, <2>4 DEF Typed
  <2>6. Counts'
    BY <1>1, <2>1, <2>4 DEF Counts, Steps
  <2>7. Planned'
    BY <1>1, <1>2, <2>1 DEF Planned, Keeping
  <2>8. OnDisk'
    <3>1. HeaderSeg' = HeaderSeg
      BY <2>1 DEF HeaderSeg
    <3>2. Count(plan) = i /\ i \in Nat
      BY <1>1, <1>2 DEF Count, Typed
    <3>3. disk[target].segs[1] = HeaderSeg /\ SoFar(disk[target].segs, plan, i, pos)
      BY <1>1, <1>2 DEF OnDisk
    <3>4. SoFar(disk[target].segs, plan, i, pos')
      <4>1. ASSUME NEW k \in 1 .. Count(plan), i < k PROVE FALSE
        BY <3>2, <4>1
      <4> QED BY <3>3, <4>1 DEF SoFar
    <3>5. disk'[target'].segs[1] = HeaderSeg' /\ SoFar(disk'[target'].segs, plan', i', pos')
          /\ i' = Count(plan')
      BY <2>1, <3>1, <3>2, <3>3, <3>4
    <3> QED BY <2>1, <3>5 DEF OnDisk
  <2> QED BY <2>5, <2>6, <2>7, <2>8 DEF RebuildInv
<1> QED BY <1>3, <1>4

\* What holds of every state of the run: what was written is the layout, piece by
\* piece, each at the offset the layout gives it.
THEOREM RebuildInvariant == Spec => []RebuildInv
<1>1. ASSUME RebuildInv, [Next]_vars PROVE RebuildInv'
  <2>1. CASE Check
    BY <1>1, <2>1, RebuildChecks
  <2>2. CASE LayOut
    BY <1>1, <2>2, RebuildLaysOut
  <2>3. CASE Create
    BY <1>1, <2>3, RebuildCreates
  <2>4. CASE WriteBlock
    BY <1>1, <2>4, RebuildWritesBlock
  <2>5. CASE WritePage
    BY <1>1, <2>5, RebuildWritesPage
  <2>6. CASE Finish
    BY <1>1, <2>6, RebuildFinishes
  <2>7. CASE UNCHANGED vars
    BY <1>1, <2>7 DEF vars, RebuildInv, Typed, Counts, Steps, Planned, Keeping, OnDisk, HeaderSeg
  <2> QED BY <1>1, <2>1, <2>2, <2>3, <2>4, <2>5, <2>6, <2>7 DEF Next
<1> QED BY <1>1, RebuildInit, PTL DEF Spec

\* The pieces of the file are those of the layout.
LEMMA OnDiskPieces ==
  ASSUME RebuildInv, NEW g \in Pieces("block") \union Pieces("page")
  PROVE  /\ pc \in {"blocks", "done"}
         /\ \E k \in 1 .. Count(plan) : IsPiece(g, plan, k)
<1>1. Typed /\ OnDisk
  BY DEF RebuildInv
<1>2. PICK segs : segs = disk[target].segs
  OBVIOUS
<1>3. disk[target] \in Held
  BY <1>1, RebuildAssumption DEF Typed
<1>4. segs \in Seq(Seg) /\ DOMAIN segs = 1 .. Len(segs) /\ Len(segs) \in Nat
  BY <1>2, <1>3 DEF Held
<1>5. PICK k \in 1 .. Len(segs) : g = segs[k]
  BY <1>2, <1>4 DEF Pieces, ToSet
<1>6. pc \in {"blocks", "done"}
  <2>1. segs # <<>>
    BY <1>4, <1>5
  <2> QED BY <1>1, <1>2, <2>1 DEF OnDisk, Typed
<1>7. segs[1] = HeaderSeg /\ SoFar(segs, plan, i, pos)
  BY <1>1, <1>2, <1>6 DEF OnDisk
<1>8. k # 1
  <2>1. HeaderSeg.kind = "header"
    BY DEF HeaderSeg
  <2>2. g.kind # "header"
    BY DEF Pieces
  <2> QED BY <1>5, <1>7, <2>1, <2>2
<1>9. Count(plan) \in Nat
  BY <1>6, PlanIs, PiecesLaid
<1>10. Len(segs) = i + 1 /\ i <= Count(plan) /\ i \in Nat
       /\ \A h \in 1 .. i : IsPiece(segs[h + 1], plan, h)
  BY <1>1, <1>7 DEF SoFar, Typed
<1>11. k - 1 \in 1 .. i /\ (k - 1) + 1 = k /\ k - 1 \in 1 .. Count(plan)
  BY <1>4, <1>8, <1>9, <1>10
<1>12. IsPiece(g, plan, k - 1)
  BY <1>5, <1>10, <1>11
<1> QED BY <1>6, <1>11, <1>12

\* TypeOK: the phases of rebuild, and the counters within the sizes of the indexes.
THEOREM RebuildTypeOK == Spec => []TypeOK
<1>1. ASSUME RebuildInv PROVE TypeOK
  <2>1. Typed /\ Counts
    BY <1>1 DEF RebuildInv
  <2>2. Len(blocks) \in Nat /\ Len(nodes) \in Nat
    BY <1>1, Surviving
  <2>3. \A p \in DOMAIN disk : disk[p].what \in {"absent", "original", "older", "written"}
    BY <2>1 DEF Typed, Held
  <2>4. ToSet(kept) \subseteq ToSet(blocks)
    <3>1. kept \in Seq(ToSet(blocks))
      BY <2>1 DEF Typed
    <3> QED BY <3>1 DEF ToSet
  <2>5. step \in 0 .. Steps
    BY <2>1, <2>2 DEF Typed, Counts, Steps
  <2>6. /\ report.result \in {"none", "ok", "error"}
        /\ report.droppedBlocks \in 0 .. Len(blocks)
        /\ report.droppedNodes \in 0 .. Len(nodes)
    BY <2>1, <2>2 DEF Typed, Counts, Told
  <2> QED BY <2>1, <2>3, <2>4, <2>5, <2>6 DEF Typed, TypeOK
<1> QED BY <1>1, RebuildInvariant, PTL

\* MapSlotsEmpty: whatever sizes the surviving blocks have and however many pages
\* their trees take, place_aligned steps every one of them over the map pages, and
\* the second pass writes it where the first one placed it.
THEOREM RebuildKeepsOffMaps == Spec => []MapSlotsEmpty
<1>1. ASSUME RebuildInv PROVE MapSlotsEmpty
  <2> SUFFICES ASSUME NEW s \in Pieces("block") \union Pieces("page"),
                      NEW len, len = IF s.kind = "page" THEN PAGE ELSE BlockSpan(s.cb)
               PROVE  \A x \in s.at .. s.at + len - 1 : ~ MapByte(x)
    BY DEF MapSlotsEmpty
  <2>1. PICK k \in 1 .. Count(plan) : IsPiece(s, plan, k)
    BY <1>1, OnDiskPieces
  <2>2. SoundPlan(plan)
    BY <1>1, OnDiskPieces, PlanIs
  <2>3. /\ Off(plan, k) \in Nat /\ Size(plan, k) \in Nat \ {0}
        /\ Clashes(Off(plan, k), Size(plan, k)) = {}
    BY <2>2, PiecesLaid
  <2>4. s.at = Off(plan, k) /\ len = Size(plan, k)
    <3>1. k \in Nat /\ Len(plan.placed) \in Nat
      BY <2>2, PiecesLaid
    <3>2. CASE k <= Len(plan.placed)
      BY <2>1, <3>2 DEF IsPiece, Size
    <3>3. CASE k > Len(plan.placed)
      <4>1. ~ (k <= Len(plan.placed))
        BY <3>1, <3>3
      <4> QED BY <2>1, <3>3, <4>1 DEF IsPiece, Size
    <3> QED BY <3>1, <3>2, <3>3
  <2> QED BY <2>3, <2>4, NoClashIffClear
<1> QED BY <1>1, RebuildInvariant, PTL

\* Ids that are steps of four apart stay apart without their low bit.
LEMMA BareApart ==
  ASSUME NEW top \in Nat
  PROVE  /\ \A k \in Nat : /\ Bare(top + 4 + 4 * k) \in Nat
                           /\ top < Bare(top + 4 + 4 * k)
                           /\ Bare(top + 4 + 4 * k) <= top + 4 + 4 * k
         /\ \A j, k \in Nat : j # k => Bare(top + 4 + 4 * j) # Bare(top + 4 + 4 * k)
         /\ \A x \in Nat : x <= top => Bare(x) <= top /\ Bare(x) \in Nat
  BY DEF Bare

\* What a reader of the file sees: the header, the pages written so far, the blocks.
LEMMA FileIs ==
  ASSUME RebuildInv, pc \in {"blocks", "done"}
  PROVE  /\ FileHeader = HeaderSeg
         /\ FilePages = {plan.pages[g] : g \in {g \in 1 .. Len(plan.pages) :
                                                  Len(plan.placed) + g <= i}}
         /\ \A k \in 1 .. Len(plan.placed) :
              k <= i => \E s \in Pieces("block") : IsPiece(s, plan, k)
<1>1. PICK segs : segs = disk[target].segs
  OBVIOUS
<1>2. Typed /\ OnDisk /\ SoundPlan(plan)
  BY PlanIs DEF RebuildInv
<1>3. disk[target] \in Held
  BY <1>2, RebuildAssumption DEF Typed
<1>4. segs \in Seq(Seg) /\ segs[1] = HeaderSeg /\ SoFar(segs, plan, i, pos)
  BY <1>1, <1>2, <1>3 DEF Held, OnDisk
<1>5. Len(segs) = i + 1 /\ i \in Nat /\ DOMAIN segs = 1 .. i + 1
  BY <1>2, <1>4 DEF SoFar, Typed
<1>6. PICK n, m : n = Len(plan.placed) /\ m = Len(plan.pages)
  OBVIOUS
<1>7. n \in Nat /\ m \in Nat /\ i <= n + m /\ \A k \in 1 .. i : IsPiece(segs[k + 1], plan, k)
  BY <1>2, <1>4, <1>6, PiecesLaid DEF SoFar, Count
<1>8. HeaderSeg.kind = "header"
  BY DEF HeaderSeg
<1>9. \A s : s \in ToSet(segs) <=> s = HeaderSeg \/ \E k \in 1 .. i : s = segs[k + 1]
  <2>1. ToSet(segs) = {segs[k] : k \in 1 .. i + 1}
    BY <1>5 DEF ToSet
  <2>2. ASSUME NEW k \in 1 .. i + 1 PROVE k = 1 \/ (k - 1 \in 1 .. i /\ (k - 1) + 1 = k)
    BY <1>5
  <2>3. 1 \in 1 .. i + 1 /\ \A k \in 1 .. i : k + 1 \in 1 .. i + 1
    BY <1>5
  <2> QED BY <1>4, <2>1, <2>2, <2>3
<1>10. ASSUME NEW k \in 1 .. i
       PROVE  /\ segs[k + 1].at = segs[k + 1].sig
              /\ k <= n => segs[k + 1].kind = "block"
              /\ k > n => segs[k + 1].kind = "page" /\ segs[k + 1].page = plan.pages[k - n]
              /\ k <= n \/ k > n
  <2>1. IsPiece(segs[k + 1], plan, k)
    BY <1>7
  <2>2. k <= n \/ k > n
    BY <1>7
  <2> QED BY <1>6, <2>1, <2>2 DEF IsPiece
<1>11. FileHeader = HeaderSeg
  <2>1. ASSUME NEW s \in Pieces("header") PROVE s = HeaderSeg
    <3>1. s \in ToSet(segs) /\ s.kind = "header"
      BY <1>1 DEF Pieces
    <3> QED BY <1>9, <1>10, <3>1
  <2>2. HeaderSeg \in Pieces("header")
    BY <1>1, <1>8, <1>9 DEF Pieces
  <2> QED BY <2>1, <2>2 DEF FileHeader
<1>12. FilePages = {plan.pages[g] : g \in {g \in 1 .. m : n + g <= i}}
  <2>1. ASSUME NEW x \in FilePages
        PROVE  \E g \in 1 .. m : n + g <= i /\ x = plan.pages[g]
    <3>1. PICK s \in ToSet(segs) : s.kind = "page" /\ x = s.page
      BY <1>1 DEF FilePages, Pieces
    <3>2. PICK k \in 1 .. i : s = segs[k + 1]
      BY <1>8, <1>9, <3>1
    <3>3. k > n /\ x = plan.pages[k - n]
      BY <1>10, <3>1, <3>2
    <3>4. k - n \in 1 .. m /\ n + (k - n) <= i
      BY <1>5, <1>7, <3>3
    <3> QED BY <3>3, <3>4
  <2>2. ASSUME NEW g \in 1 .. m, n + g <= i PROVE plan.pages[g] \in FilePages
    <3>1. PICK k \in 1 .. i : k = n + g
      BY <1>5, <1>7, <2>2
    <3>2. k > n /\ k - n = g
      BY <1>7, <3>1
    <3>3. PICK s : s = segs[k + 1]
      OBVIOUS
    <3>4. s \in ToSet(segs) /\ s.kind = "page" /\ s.at = s.sig /\ s.page = plan.pages[g]
      BY <1>9, <1>10, <3>2, <3>3
    <3> QED BY <1>1, <3>4 DEF FilePages, Pieces
  <2> QED BY <2>1, <2>2
<1>13. ASSUME NEW k \in 1 .. n, k <= i
       PROVE  \E s \in Pieces("block") : IsPiece(s, plan, k)
  <2>1. k \in 1 .. i
    BY <1>5, <1>13
  <2>2. PICK s : s = segs[k + 1]
    OBVIOUS
  <2>3. k <= n
    BY <1>7
  <2>4. s \in ToSet(segs) /\ s.kind = "block" /\ IsPiece(s, plan, k)
    BY <1>7, <1>9, <1>10, <2>1, <2>2, <2>3
  <2> QED BY <1>1, <2>4 DEF Pieces
<1> QED BY <1>6, <1>11, <1>12, <1>13

\* IdsFresh: a page id is never one of a surviving block or of another page, and the
\* header's counter is past them all.
THEOREM RebuildFreshIds == Spec => []IdsFresh
<1>1. ASSUME RebuildInv PROVE IdsFresh
  <2> SUFFICES ASSUME pc = "done" PROVE
        LET ids == {Bare(b.bid) : b \in ToSet(kept)}
            pids == {Bare(g.bid) : g \in ToSet(plan.pages)}
        IN  /\ Cardinality(pids) = Len(plan.pages)
            /\ ids \intersect pids = {}
            /\ \A x \in ids \union pids : x < FileHeader.bidNext
    BY DEF IdsFresh
  <2> DEFINE ids == {Bare(b.bid) : b \in ToSet(kept)}
             pids == {Bare(g.bid) : g \in ToSet(plan.pages)}
  <2>1. SoundPlan(plan) /\ plan.placed = PlaceBlocks(kept) /\ Len(plan.placed) = Len(kept)
    BY <1>1, PlanIs
  <2>2. PICK y, z, top \in Nat : InPlan(plan, y, z, top)
    BY <2>1 DEF SoundPlan
  <2>3. PICK gs, m : gs = plan.pages /\ m = Len(gs)
    OBVIOUS
  <2>4. gs \in Seq(PageOver(Leaf)) /\ m \in Nat /\ DOMAIN gs = 1 .. m
    BY <2>1, <2>3 DEF SoundPlan
  <2>5. plan.bidNext = top + 4 + 4 * m
        /\ \A k \in 1 .. m : gs[k].bid = top + 4 + 4 * (k - 1)
    BY <2>2, <2>3 DEF InPlan, PagesLaid
  <2>6. ASSUME NEW b \in ToSet(kept) PROVE b.bid \in Nat /\ b.bid <= top
    <3>1. kept # <<>> /\ kept \in Seq(Copied)
      BY <1>1, Surviving DEF RebuildInv, Planned
    <3>2. {p.b : p \in ToSet(plan.placed)} = ToSet(kept)
      BY <2>1, <3>1, HomesAre
    <3>3. PICK p \in ToSet(plan.placed) : b = p.b
      BY <3>2
    <3>4. plan.placed \in Seq(Home)
      BY <2>1 DEF SoundPlan
    <3>5. PICK k \in 1 .. Len(plan.placed) : p = plan.placed[k]
      BY <3>4 DEF ToSet
    <3>6. p \in Home
      BY <3>4, <3>5
    <3> QED BY <2>2, <3>3, <3>5, <3>6 DEF InPlan, Home, Copied, Block
  <2>7. PICK f : f = [k \in 1 .. m |-> Bare(top + 4 + 4 * (k - 1))]
    OBVIOUS
  <2>8. ASSUME NEW k \in 1 .. m
        PROVE  /\ f[k] = Bare(gs[k].bid) /\ f[k] \in Nat /\ top < f[k]
               /\ f[k] < top + 4 + 4 * m
    <3>1. k - 1 \in Nat /\ top + 4 + 4 * (k - 1) < top + 4 + 4 * m
      BY <2>4
    <3>2. f[k] = Bare(top + 4 + 4 * (k - 1))
      BY <2>7
    <3>3. f[k] \in Nat /\ top < f[k] /\ f[k] <= top + 4 + 4 * (k - 1)
      <4>1. PICK h \in Nat : h = k - 1
        BY <3>1
      <4>2. /\ Bare(top + 4 + 4 * h) \in Nat /\ top < Bare(top + 4 + 4 * h)
            /\ Bare(top + 4 + 4 * h) <= top + 4 + 4 * h
        BY BareApart
      <4> QED BY <3>2, <4>1, <4>2
    <3>4. f[k] < top + 4 + 4 * m
      BY <2>4, <3>1, <3>3
    <3> QED BY <2>5, <3>2, <3>3, <3>4
  <2>9. pids = {f[k] : k \in 1 .. m}
    <3>1. pids = {Bare(gs[k].bid) : k \in 1 .. m}
      BY <2>3, <2>4 DEF ToSet
    <3> QED BY <2>8, <3>1
  <2>10. Cardinality(pids) = m
    <3>2. ASSUME NEW j \in 1 .. m, NEW k \in 1 .. m, j # k PROVE f[j] # f[k]
      <4>1. j - 1 \in Nat /\ k - 1 \in Nat /\ j - 1 # k - 1
        BY <2>4, <3>2
      <4> QED BY <2>7, <4>1, BareApart
    <3>3. \A x \in pids : \E k \in 1 .. m : x = f[k]
      BY <2>9
    <3>6. \A k \in 1 .. m : f[k] \in pids
      BY <2>9
    <3>4. \A j, k \in 1 .. m : j # k => f[j] # f[k]
      BY <3>2
    <3>5. m \in Nat
      BY <2>4
    <3> HIDE DEF pids
    <3> QED BY <3>3, <3>4, <3>5, <3>6, AllDiffer, SMTT(60)
  <2>11. ASSUME NEW x \in ids PROVE x \in Nat /\ x <= top
    BY <2>6, BareApart
  <2>12. ASSUME NEW x \in pids PROVE x \in Nat /\ top < x /\ x < top + 4 + 4 * m
    BY <2>8, <2>9
  <2>13. FileHeader.bidNext = top + 4 + 4 * m
    <3>1. FileHeader = HeaderSeg
      BY <1>1, FileIs
    <3> QED BY <2>5, <3>1 DEF HeaderSeg
  <2>14. \A x \in ids \union pids : x < FileHeader.bidNext
    <3> HIDE DEF ids, pids
    <3>1. ASSUME NEW x \in ids PROVE x < top + 4 + 4 * m
      <4>1. x \in Nat /\ x <= top
        BY <2>11
      <4> QED BY <2>4, <4>1
    <3> QED BY <2>12, <2>13, <3>1
  <2>15. ids \intersect pids = {}
    <3> HIDE DEF ids, pids
    <3>1. ASSUME NEW x \in ids, x \in pids PROVE FALSE
      <4>1. x \in Nat /\ x <= top /\ top < x
        BY <2>11, <2>12, <3>1
      <4> QED BY <4>1
    <3> QED BY <3>1
  <2> QED BY <2>3, <2>10, <2>14, <2>15
<1> QED BY <1>1, RebuildInvariant, PTL

-----------------------------------------------------------------------------
\* An index without an id that it lists twice: block ids are told apart without
\* their low bit, as everywhere.
Unique ==
  /\ \A j, k \in DOMAIN blocks : j # k => Bare(blocks[j].bid) # Bare(blocks[k].bid)
  /\ \A j, k \in DOMAIN nodes : j # k => nodes[j].nid # nodes[k].nid

\* How many blocks the first pass has dealt with.
Checked == IF pc = "check" THEN i ELSE Len(blocks)

\* The blocks kept are the intact ones of those dealt with, each once, and the
\* others are counted.
Sifting ==
  pc # "failed" =>
    /\ \A b \in ToSet(blocks) : b \in ToSet(kept) <=>
         \E k \in 1 .. Checked : b = blocks[k] /\ Bare(b.bid) \notin damaged
    /\ \A j, k \in 1 .. Len(kept) : j # k => Bare(kept[j].bid) # Bare(kept[k].bid)
    /\ report.droppedBlocks =
         Cardinality({k \in 1 .. Checked : Bare(blocks[k].bid) \in damaged})

\* The caller is told of the nodes that the layout leaves out.
Reporting ==
  pc \in {"create", "blocks", "done"} =>
    /\ report.missing = Missing(Keeping)
    /\ report.droppedNodes = Len(nodes) - Len(Keeping)

\* Success is said at the end and an error of a run that ended early; what is at the
\* target is the run's own from Create on, and not after an error.
Telling ==
  /\ report.result = IF pc = "done" THEN "ok" ELSE IF pc = "failed" THEN "error" ELSE "none"
  /\ IF pc \in {"blocks", "done"} THEN disk[target].what = "written"
     ELSE disk[target].what \in {"original", "older", "absent"}

SiftInv == RebuildInv /\ Unique /\ Sifting /\ Reporting /\ Telling

\* Nothing is sifted or said at the start.
LEMMA SiftInit ==
  ASSUME Init, Unique
  PROVE  SiftInv
<1>1. RebuildInv
  BY RebuildInit
<1>2. pc = "check" /\ i = 0 /\ kept = <<>> /\ report = NoReport /\ target \in {"src", "out"}
  BY RebuildAssumption DEF Init
<1>3. Sifting
  <2>1. Checked = 0 /\ report.droppedBlocks = 0 /\ Len(kept) = 0 /\ ToSet(kept) = {}
    BY <1>2 DEF Checked, NoReport, ToSet
  <2>2. {k \in 1 .. 0 : Bare(blocks[k].bid) \in damaged} = {}
    OBVIOUS
  <2>3. Cardinality({k \in 1 .. 0 : Bare(blocks[k].bid) \in damaged}) = 0
    BY <2>2, FS_EmptySet
  <2> QED BY <2>1, <2>3 DEF Sifting
<1>4. Reporting
  BY <1>2 DEF Reporting
<1>5. Telling
  <2>1. PICK f \in {Absent, Older} : disk = [src |-> Original, out |-> f]
    BY DEF Init
  <2>2. f.what \in {"original", "older", "absent"} /\ Original.what = "original"
    BY <2>1 DEF Absent, Older, Original
  <2>3. disk["src"] = Original /\ disk["out"] = f
    BY <2>1
  <2>4. disk[target].what \in {"original", "older", "absent"}
    BY <1>2, <2>2, <2>3
  <2>5. report.result = "none"
    BY <1>2 DEF NoReport
  <2> QED BY <1>2, <2>4, <2>5 DEF Telling
<1> QED BY <1>1, <1>3, <1>4, <1>5 DEF SiftInv

\* A block that is dealt with is kept or counted.
LEMMA SiftChecks ==
  ASSUME SiftInv, Check
  PROVE  SiftInv'
<1>1. RebuildInv /\ Unique /\ Sifting /\ Reporting /\ Telling
  BY DEF SiftInv
<1>2. RebuildInv'
  BY <1>1, RebuildChecks
<1>3. PICK b : b = blocks[i + 1]
  OBVIOUS
<1>4. /\ i \in Nat /\ blocks \in Seq(Copied) /\ Len(blocks) \in Nat
      /\ i + 1 \in 1 .. Len(blocks) /\ DOMAIN blocks = 1 .. Len(blocks)
  BY <1>1, Surviving DEF RebuildInv, Typed, Check
<1>5. b \in ToSet(blocks)
  BY <1>3, <1>4 DEF ToSet
<1>6. /\ pc = "check" /\ pc' = "check" /\ i' = i + 1
      /\ UNCHANGED <<blocks, nodes, damaged, target, disk>>
  BY DEF Check, input
<1>7. Checked = i /\ Checked' = i + 1
  BY <1>6 DEF Checked
<1>8. /\ \A c \in ToSet(blocks) : c \in ToSet(kept) <=>
           \E k \in 1 .. i : c = blocks[k] /\ Bare(c.bid) \notin damaged
      /\ \A j, k \in 1 .. Len(kept) : j # k => Bare(kept[j].bid) # Bare(kept[k].bid)
      /\ report.droppedBlocks = Cardinality({k \in 1 .. i : Bare(blocks[k].bid) \in damaged})
  BY <1>1, <1>6, <1>7 DEF Sifting
<1>9. kept \in Seq(ToSet(blocks)) /\ Len(kept) \in Nat /\ DOMAIN kept = 1 .. Len(kept)
      /\ report \in Told
  BY <1>1 DEF RebuildInv, Typed
<1>10. PICK S : S = {k \in 1 .. i : Bare(blocks[k].bid) \in damaged}
  OBVIOUS
<1>11. IsFiniteSet(S) /\ i + 1 \notin S
  <2>1. IsFiniteSet(1 .. i)
    BY <1>4, FS_Interval
  <2>2. S \in SUBSET (1 .. i)
    BY <1>10
  <2>3. i + 1 \notin S
    BY <1>4, <1>10
  <2> QED BY <2>1, <2>2, <2>3, FS_Subset
<1>12. Sifting'
  <2>1. CASE Bare(b.bid) \in damaged
    <3>1. report' = [report EXCEPT !.droppedBlocks = @ + 1] /\ kept' = kept
      BY <1>3, <2>1 DEF Check
    <3>2. report'.droppedBlocks = report.droppedBlocks + 1
      BY <1>9, <3>1 DEF Told
    <3>3. {k \in 1 .. i + 1 : Bare(blocks[k].bid) \in damaged} = S \union {i + 1}
      BY <1>3, <1>4, <1>10, <2>1
    <3>4. Cardinality(S \union {i + 1}) = Cardinality(S) + 1
      BY <1>11, FS_AddElement
    <3>5. ASSUME NEW c \in ToSet(blocks)
          PROVE  c \in ToSet(kept) <=>
                   \E k \in 1 .. i + 1 : c = blocks[k] /\ Bare(c.bid) \notin damaged
      <4>1. \A k \in 1 .. i + 1 : k \in 1 .. i \/ k = i + 1
        BY <1>4
      <4>2. \A k \in 1 .. i : k \in 1 .. i + 1
        BY <1>4
      <4> QED BY <1>3, <1>8, <2>1, <4>1, <4>2
    <3> QED BY <1>6, <1>7, <1>8, <1>10, <3>1, <3>2, <3>3, <3>4, <3>5 DEF Sifting
  <2>2. CASE Bare(b.bid) \notin damaged
    <3>1. kept' = Append(kept, b) /\ report' = report
      BY <1>3, <2>2 DEF Check
    <3>2. PICK n, new : n = Len(kept) /\ new = Append(kept, b)
      OBVIOUS
    <3>3. /\ n \in Nat /\ Len(new) = n + 1 /\ new[n + 1] = b
          /\ (\A k \in 1 .. n : new[k] = kept[k]) /\ DOMAIN new = 1 .. n + 1
      BY <1>5, <1>9, <3>2
    <3>4. \A c : c \in ToSet(new) <=> c \in ToSet(kept) \/ c = b
      <4>1. ToSet(new) = {new[k] : k \in 1 .. n + 1} /\ ToSet(kept) = {kept[k] : k \in 1 .. n}
        BY <1>9, <3>2, <3>3 DEF ToSet
      <4>2. \A k \in 1 .. n + 1 : k \in 1 .. n \/ k = n + 1
        BY <3>3
      <4>3. n + 1 \in 1 .. n + 1 /\ \A k \in 1 .. n : k \in 1 .. n + 1
        BY <3>3
      <4> QED BY <3>3, <4>1, <4>2, <4>3
    <3>5. ASSUME NEW k \in 1 .. n PROVE Bare(kept[k].bid) # Bare(b.bid)
      <4>1. kept[k] \in ToSet(kept) /\ kept[k] \in ToSet(blocks)
        BY <1>9, <3>2 DEF ToSet
      <4>2. PICK h \in 1 .. i : kept[k] = blocks[h]
        BY <1>8, <4>1
      <4>3. h # i + 1 /\ h \in 1 .. Len(blocks)
        BY <1>4
      <4> QED BY <1>1, <1>3, <1>4, <4>2, <4>3 DEF Unique
    <3>6. \A j, k \in 1 .. n + 1 : j # k => Bare(new[j].bid) # Bare(new[k].bid)
      <4>1. \A k \in 1 .. n + 1 : k \in 1 .. n \/ k = n + 1
        BY <3>3
      <4>2. \A j, k \in 1 .. n : j # k => Bare(new[j].bid) # Bare(new[k].bid)
        BY <1>8, <3>2, <3>3
      <4>3. \A k \in 1 .. n : Bare(new[k].bid) # Bare(new[n + 1].bid)
        BY <3>3, <3>5
      <4> QED BY <4>1, <4>2, <4>3
    <3>7. {k \in 1 .. i + 1 : Bare(blocks[k].bid) \in damaged} = S
      BY <1>3, <1>4, <1>10, <2>2
    <3>8. ASSUME NEW c \in ToSet(blocks)
          PROVE  c \in ToSet(new) <=>
                   \E k \in 1 .. i + 1 : c = blocks[k] /\ Bare(c.bid) \notin damaged
      <4>1. \A k \in 1 .. i + 1 : k \in 1 .. i \/ k = i + 1
        BY <1>4
      <4>2. i + 1 \in 1 .. i + 1 /\ \A k \in 1 .. i : k \in 1 .. i + 1
        BY <1>4
      <4> QED BY <1>3, <1>8, <2>2, <3>4, <4>1, <4>2
    <3>9. kept' = new /\ Len(kept') = n + 1
      BY <3>1, <3>2, <3>3
    <3> QED BY <1>6, <1>7, <1>8, <1>10, <3>1, <3>6, <3>7, <3>8, <3>9 DEF Sifting
  <2> QED BY <2>1, <2>2
<1>13. Reporting' /\ Unique'
  BY <1>1, <1>6 DEF Reporting, Unique
<1>14. Telling'
  <2>1. report'.result = report.result
    <3>1. \/ report' = [report EXCEPT !.droppedBlocks = @ + 1]
          \/ report' = report
      BY DEF Check
    <3> QED BY <1>9, <3>1 DEF Told
  <2> QED BY <1>1, <1>6, <2>1 DEF Telling
<1> QED BY <1>2, <1>12, <1>13, <1>14 DEF SiftInv

\* A run that ends early, with nothing of its own at the target.
LEMMA SiftFails ==
  ASSUME SiftInv, RebuildInv', pc' = "failed",
         report' = [report EXCEPT !.result = "error"],
         UNCHANGED <<blocks, nodes, target>>,
         disk'[target].what \in {"original", "older", "absent"}
  PROVE  SiftInv'
<1>1. Unique' /\ Sifting' /\ Reporting'
  BY DEF SiftInv, Unique, Sifting, Reporting
<1>2. report \in Told
  BY DEF SiftInv, RebuildInv, Typed
<1>3. report'.result = "error"
  BY <1>2 DEF Told
<1>4. Telling'
  BY <1>3 DEF Telling
<1> QED BY <1>1, <1>4 DEF SiftInv

\* A step after the first pass that neither fails nor changes what was sifted.
LEMMA SiftGoesOn ==
  ASSUME SiftInv, RebuildInv', pc \in {"create", "blocks"}, pc' \in {"create", "blocks", "done"},
         UNCHANGED <<blocks, nodes, damaged, target, kept>>,
         \/ pc' # "done" /\ report' = report
         \/ pc' = "done" /\ report' = [report EXCEPT !.result = "ok"],
         pc' \in {"blocks", "done"} /\ disk'[target].what = "written"
  PROVE  SiftInv'
<1>1. Unique /\ Sifting /\ Reporting /\ Telling
  BY DEF SiftInv
<1>2. Checked = Len(blocks) /\ Checked' = Len(blocks)
  BY DEF Checked
<1>3. report \in Told
  BY DEF SiftInv, RebuildInv, Typed
<1>4. /\ report'.droppedBlocks = report.droppedBlocks
      /\ report'.droppedNodes = report.droppedNodes
      /\ report'.missing = report.missing
      /\ report'.result = IF pc' = "done" THEN "ok" ELSE report.result
  BY <1>3 DEF Told
<1>5. Unique'
  BY <1>1 DEF Unique
<1>6. Sifting'
  BY <1>1, <1>2, <1>4 DEF Sifting
<1>7. Reporting'
  BY <1>1, <1>4 DEF Reporting, Keeping, Missing
<1>8. Telling'
  BY <1>1, <1>4 DEF Telling
<1> QED BY <1>5, <1>6, <1>7, <1>8 DEF SiftInv

\* Between the passes the caller is told of the nodes left out.
LEMMA SiftLaysOut ==
  ASSUME SiftInv, LayOut
  PROVE  SiftInv'
<1>1. RebuildInv /\ Unique /\ Sifting /\ Reporting /\ Telling
  BY DEF SiftInv
<1>2. RebuildInv'
  BY <1>1, RebuildLaysOut
<1>3. pc = "check" /\ i = Len(blocks)
  BY DEF LayOut
<1>4. CASE GiveUp
  <2>1. disk[target].what \in {"original", "older", "absent"}
    BY <1>1, <1>3 DEF Telling
  <2> QED BY <1>2, <1>4, <2>1, SiftFails DEF GiveUp, input
<1>5. CASE ~ GiveUp
  <2>1. /\ report' = [report EXCEPT !.droppedNodes = Len(nodes) - Len(Keeping),
                                    !.missing = Missing(Keeping)]
        /\ pc' = "create" /\ UNCHANGED <<blocks, nodes, damaged, target, disk, kept>>
    BY <1>5 DEF LayOut, Keeping, input
  <2>2. PICK d, m : d = Len(nodes) - Len(Keeping) /\ m = Missing(Keeping)
    OBVIOUS
  <2>3. report \in Told /\ report' = [report EXCEPT !.droppedNodes = d, !.missing = m]
    BY <1>1, <2>1, <2>2 DEF RebuildInv, Typed
  <2>4. /\ report'.droppedBlocks = report.droppedBlocks /\ report'.droppedNodes = d
        /\ report'.missing = m /\ report'.result = report.result
    BY <2>3 DEF Told
  <2>5. Checked = Len(blocks) /\ Checked' = Len(blocks)
    BY <1>3, <2>1 DEF Checked
  <2>6. Keeping' = Keeping
    BY <2>1 DEF Keeping
  <2>7. Missing(Keeping)' = Missing(Keeping)
    BY <2>1, <2>6 DEF Missing
  <2>8. Unique' /\ Sifting'
    BY <1>1, <1>3, <2>1, <2>4, <2>5 DEF Unique, Sifting
  <2>9. Reporting'
    <3>1. report'.missing = Missing(Keeping)'
      BY <2>2, <2>4, <2>7
    <3>2. report'.droppedNodes = Len(nodes') - Len(Keeping')
      BY <2>1, <2>2, <2>4, <2>6
    <3> QED BY <3>1, <3>2 DEF Reporting
  <2>10. Telling'
    BY <1>1, <1>3, <2>1, <2>4 DEF Telling
  <2> QED BY <1>2, <2>8, <2>9, <2>10 DEF SiftInv
<1> QED BY <1>4, <1>5

\* A run that removes what it wrote.
LEMMA SiftRemoves ==
  ASSUME SiftInv, RemoveAndFail
  PROVE  SiftInv'
<1>1. RebuildInv
  BY DEF SiftInv
<1>2. RebuildInv'
  BY <1>1, RebuildRemoves
<1>3. disk \in [{"src", "out"} -> Held] /\ target \in {"src", "out"}
  BY <1>1, RebuildAssumption DEF RebuildInv, Typed
<1>4. disk' = [disk EXCEPT ![target] = Absent]
  BY DEF RemoveAndFail
<1>5. disk'[target] = Absent
  BY <1>3, <1>4
<1>6. Absent.what = "absent"
  BY DEF Absent
<1> QED BY <1>2, <1>5, <1>6, SiftFails DEF RemoveAndFail, input

\* The second pass, from the header to the last page.
LEMMA SiftWrites ==
  ASSUME SiftInv, Create \/ WriteBlock \/ WritePage \/ Finish
  PROVE  SiftInv'
<1>1. RebuildInv /\ Telling
  BY DEF SiftInv
<1>2. RebuildInv'
  BY <1>1, RebuildCreates, RebuildWritesBlock, RebuildWritesPage, RebuildFinishes
<1>3. disk \in [{"src", "out"} -> Held] /\ target \in {"src", "out"}
  BY <1>1, RebuildAssumption DEF RebuildInv, Typed
<1>4. \A segs : Written(segs).what = "written"
  BY DEF Written
<1>5. CASE RemoveAndFail
  BY <1>5, SiftRemoves
<1>6. CASE Create /\ ~ RemoveAndFail
  <2>1. CASE GiveUp
    <3>1. disk[target].what \in {"original", "older", "absent"}
      BY <1>1, <1>6 DEF Telling, Create
    <3> QED BY <1>2, <2>1, <3>1, SiftFails DEF GiveUp, input
  <2>2. CASE ~ GiveUp
    <3>1. /\ disk' = [disk EXCEPT ![target] = Written(<<HeaderSeg>>)]
          /\ pc = "create" /\ pc' = "blocks"
          /\ UNCHANGED <<blocks, nodes, damaged, target, kept, report>>
      BY <1>6, <2>2 DEF Create, input
    <3>2. disk'[target] = Written(<<HeaderSeg>>)
      BY <1>3, <3>1
    <3>3. disk'[target].what = "written"
      BY <1>4, <3>2
    <3> QED BY <1>2, <3>1, <3>3, SiftGoesOn
  <2> QED BY <2>1, <2>2
<1>7. ASSUME NEW seg, Put(seg) PROVE disk'[target].what = "written"
  <2>1. PICK segs : segs = Append(disk[target].segs, seg)
    OBVIOUS
  <2>2. disk' = [disk EXCEPT ![target] = Written(segs)]
    BY <1>3, <1>7, <2>1 DEF Put
  <2>3. disk'[target] = Written(segs)
    BY <1>3, <2>2
  <2> QED BY <1>4, <2>3
<1>8. CASE WriteBlock /\ ~ RemoveAndFail
  <2>1. CASE /\ disk' = [disk EXCEPT ![target] = Absent] /\ pc' = "failed"
             /\ report' = [report EXCEPT !.result = "error"]
    <3>1. disk'[target] = Absent
      BY <1>3, <2>1
    <3>2. disk'[target].what = "absent"
      BY <3>1 DEF Absent
    <3> QED BY <1>2, <1>8, <2>1, <3>2, SiftFails DEF WriteBlock, input
  <2>2. CASE /\ LET p == plan.placed[i + 1] IN
                  Put([kind |-> "block", at |-> Padded(p.at), bid |-> p.b.bid,
                       cb |-> p.b.cb, sig |-> p.at, sound |-> disk["src"] = Original])
             /\ UNCHANGED <<pc, report>>
    <3>1. disk'[target].what = "written"
      BY <1>7, <2>2
    <3>2. pc = "blocks" /\ UNCHANGED <<blocks, nodes, damaged, target, kept>>
      BY <1>8 DEF WriteBlock, input
    <3> QED BY <1>2, <2>2, <3>1, <3>2, SiftGoesOn
  <2> QED BY <1>8, <2>1, <2>2 DEF WriteBlock
<1>9. CASE WritePage /\ ~ RemoveAndFail
  <2>1. PICK g : g = plan.pages[i + 1 - Len(plan.placed)]
    OBVIOUS
  <2>2. Put([kind |-> "page", at |-> Padded(g.at), sig |-> g.at, page |-> g])
    BY <1>9, <2>1 DEF WritePage
  <2>3. disk'[target].what = "written"
    BY <1>7, <2>2
  <2>4. pc = "blocks" /\ UNCHANGED <<blocks, nodes, damaged, target, kept, pc, report>>
    BY <1>9 DEF WritePage, input
  <2> QED BY <1>2, <2>3, <2>4, SiftGoesOn
<1>10. CASE Finish /\ ~ RemoveAndFail
  <2>1. /\ pc = "blocks" /\ pc' = "done" /\ report' = [report EXCEPT !.result = "ok"]
        /\ UNCHANGED <<blocks, nodes, damaged, target, kept, disk>>
    BY <1>10 DEF Finish, input
  <2>2. disk'[target].what = "written"
    BY <1>1, <2>1 DEF Telling
  <2> QED BY <1>2, <2>1, <2>2, SiftGoesOn
<1> QED BY <1>5, <1>6, <1>8, <1>9, <1>10

\* What survived the first pass, and what the caller is told, in every state of the run.
LEMMA SiftSteps ==
  ASSUME SiftInv, [Next]_vars
  PROVE  SiftInv'
<1>1. CASE UNCHANGED vars
  <2>1. RebuildInv /\ Unique /\ Sifting /\ Reporting /\ Telling
    BY DEF SiftInv
  <2>2. RebuildInv'
    BY <1>1, <2>1 DEF vars, RebuildInv, Typed, Counts, Steps, Planned, Keeping, OnDisk, HeaderSeg
  <2>3. Unique'
    BY <1>1, <2>1 DEF vars, Unique
  <2>4. Sifting'
    BY <1>1, <2>1 DEF vars, Sifting, Checked
  <2>5. Reporting'
    BY <1>1, <2>1 DEF vars, Reporting, Keeping, Missing
  <2>6. Telling'
    BY <1>1, <2>1 DEF vars, Telling
  <2> QED BY <2>2, <2>3, <2>4, <2>5, <2>6 DEF SiftInv
<1>2. CASE Check
  BY <1>2, SiftChecks
<1>3. CASE LayOut
  BY <1>3, SiftLaysOut
<1>4. CASE Create \/ WriteBlock \/ WritePage \/ Finish
  BY <1>4, SiftWrites
<1> QED BY <1>1, <1>2, <1>3, <1>4 DEF Next

-----------------------------------------------------------------------------
\* Placed in the order of their ids, blocks that differ in them.
LEMMA HomesAscend ==
  ASSUME NEW bs \in Seq(Copied), bs # <<>>,
         \A j, k \in 1 .. Len(bs) : j # k => Bare(bs[j].bid) # Bare(bs[k].bid)
  PROVE  \A j, k \in 1 .. Len(PlaceBlocks(bs)) :
           j < k => PlaceBlocks(bs)[j].b.bid < PlaceBlocks(bs)[k].b.bid
<1> DEFINE n == Len(bs)
           keys == [k \in DOMAIN bs |-> Bare(bs[k].bid)]
           q == ByBid(bs)
<1>1. n \in Nat /\ n >= 1 /\ DOMAIN bs = 1 .. n
  OBVIOUS
<1>2. ASSUME NEW k \in 1 .. n PROVE bs[k].bid \in Nat
  BY <1>1 DEF Copied, Block
<1>3. keys \in [1 .. Len(bs) -> Int]
  <2>1. ASSUME NEW k \in 1 .. n PROVE Bare(bs[k].bid) \in Int
    BY <1>2 DEF Bare
  <2> QED BY <1>1, <2>1
<1>4. q \in Seq(Copied) /\ \E f : SortedFrom(q, bs, keys, f)
  <2> HIDE DEF keys
  <2>1. InOrder(bs, keys) \in Seq(Copied) /\ \E f : SortedFrom(InOrder(bs, keys), bs, keys, f)
    BY <1>3, SortedIs
  <2> QED BY <2>1 DEF ByBid, keys
<1>5. PICK f : SortedFrom(q, bs, keys, f)
  BY <1>4
<1> HIDE DEF q
<1>6. /\ Len(q) = n /\ f \in [1 .. n -> 1 .. n] /\ (\A k \in 1 .. n : q[k] = bs[f[k]])
      /\ \A j, k \in 1 .. n : j < k => keys[f[j]] <= keys[f[k]] /\ f[j] # f[k]
  BY <1>5 DEF SortedFrom
<1>7. PICK ps : ps = PlaceBlocks(bs)
  OBVIOUS
<1>8. Len(ps) = n /\ \A k \in 1 .. n : ps[k].b = q[k]
  <2>1. PICK at : at = PlaceAll(FirstFree, [k \in 1 .. Len(q) |-> BlockSpan(q[k].cb)], BLOCK_ALIGN)
    OBVIOUS
  <2>2. ps = [k \in 1 .. n |-> [b |-> q[k], at |-> at[k]]]
    BY <1>6, <1>7, <2>1 DEF PlaceBlocks, q
  <2> QED BY <1>1, <2>2
<1>9. ASSUME NEW j \in 1 .. n, NEW k \in 1 .. n, j < k PROVE q[j].bid < q[k].bid
  <2>1. PICK g, h \in 1 .. n : g = f[j] /\ h = f[k]
    BY <1>6
  <2>2. g # h /\ keys[g] <= keys[h] /\ q[j] = bs[g] /\ q[k] = bs[h]
    BY <1>6, <1>9, <2>1
  <2>3. Bare(bs[g].bid) <= Bare(bs[h].bid) /\ Bare(bs[g].bid) # Bare(bs[h].bid)
    BY <1>1, <2>2
  <2>4. PICK a, c \in Nat : a = bs[g].bid /\ c = bs[h].bid
    BY <1>2
  <2>5. \A x, y \in Nat : Bare(x) <= Bare(y) /\ Bare(x) # Bare(y) => x < y
    <3>1. ASSUME NEW x \in Nat, NEW y \in Nat, Bare(x) <= Bare(y), Bare(x) # Bare(y), y <= x
          PROVE  FALSE
      <4>1. PICK r, s \in {0, 1} : r = x % 2 /\ s = y % 2
        OBVIOUS
      <4>2. x - r < y - s
        BY <3>1, <4>1 DEF Bare
      <4>3. x = y \/ y + 1 <= x
        BY <3>1
      <4> QED BY <4>1, <4>2, <4>3
    <3> QED BY <3>1
  <2>6. a < c
    BY <2>3, <2>4, <2>5
  <2> QED BY <2>2, <2>4, <2>6
<1>10. \A j, k \in 1 .. n : j < k => ps[j].b.bid < ps[k].b.bid
  BY <1>8, <1>9
<1> QED BY <1>7, <1>8, <1>10

\* The nodes of some set, in the order of their ids: all of them that are listed, and
\* each once.
NodesKept(q, ns, keep) ==
  /\ q \in Seq(Node)
  /\ ToSet(q) = ToSet(ns) \intersect keep
  /\ \A j, k \in 1 .. Len(q) : j < k => q[j].nid < q[k].nid
  /\ Len(q) = Cardinality({k \in 1 .. Len(ns) : ns[k] \in keep})

\* Filtering and sorting the node index comes to that.
LEMMA NodesKeptAre ==
  ASSUME NEW ns \in Seq(Node), NEW keep,
         \A j, k \in 1 .. Len(ns) : j # k => ns[j].nid # ns[k].nid
  PROVE  NodesKept(ByNid(Picked(ns, keep)), ns, keep)
<1>1. PICK p : p = Picked(ns, keep)
  OBVIOUS
<1>2. p \in Seq(Node) /\ \E f : PickedFrom(p, ns, Len(ns), keep, f)
  BY <1>1, PickedIs
<1>3. PICK f : PickedFrom(p, ns, Len(ns), keep, f)
  BY <1>2
<1>4. PICK n, m : n = Len(ns) /\ m = Len(p)
  OBVIOUS
<1>5. n \in Nat /\ m \in Nat /\ DOMAIN ns = 1 .. n /\ DOMAIN p = 1 .. m
      /\ \A k \in 1 .. n : ns[k] \in Node /\ ns[k].nid \in Nat
  <2>1. \A k \in 1 .. Len(ns) : ns[k] \in Node
    OBVIOUS
  <2> QED BY <1>2, <1>4, <2>1 DEF Node
<1>6. /\ f \in [1 .. m -> 1 .. n]
      /\ \A k \in 1 .. m : p[k] = ns[f[k]] /\ ns[f[k]] \in keep
      /\ \A j, k \in 1 .. m : j < k => f[j] < f[k]
      /\ \A h \in 1 .. n : ns[h] \in keep => \E k \in 1 .. m : f[k] = h
  BY <1>3, <1>4 DEF PickedFrom
<1>7. PICK keys : keys = [k \in DOMAIN p |-> p[k].nid]
  OBVIOUS
<1>8. keys \in [1 .. Len(p) -> Int]
  <2>1. ASSUME NEW k \in 1 .. m PROVE p[k].nid \in Int
    BY <1>5, <1>6
  <2> QED BY <1>4, <1>5, <1>7, <2>1
<1>9. PICK q : q = InOrder(p, keys)
  OBVIOUS
<1>10. q \in Seq(Node) /\ \E g : SortedFrom(q, p, keys, g)
  BY <1>2, <1>8, <1>9, SortedIs
<1>11. PICK g : SortedFrom(q, p, keys, g)
  BY <1>10
<1>12. /\ Len(q) = m /\ g \in [1 .. m -> 1 .. m] /\ (\A k \in 1 .. m : q[k] = p[g[k]])
       /\ \A j, k \in 1 .. m : j < k => keys[g[j]] <= keys[g[k]] /\ g[j] # g[k]
       /\ \A h \in 1 .. m : \E k \in 1 .. m : g[k] = h
  BY <1>4, <1>11 DEF SortedFrom
<1>13. \A j, k \in 1 .. m : j # k => f[j] # f[k]
  <2>1. \A j, k \in 1 .. m : j < k \/ j = k \/ k < j
    BY <1>5
  <2>2. \A j, k \in 1 .. m : j < k => f[j] # f[k]
    <3>1. ASSUME NEW j \in 1 .. m, NEW k \in 1 .. m, j < k PROVE f[j] # f[k]
      <4>1. f[j] \in Nat /\ f[j] < f[k]
        BY <1>5, <1>6, <3>1
      <4> QED BY <4>1
    <3> QED BY <3>1
  <2> QED BY <2>1, <2>2
<1>14. ToSet(q) = ToSet(ns) \intersect keep
  <2>1. ASSUME NEW x \in ToSet(q) PROVE x \in ToSet(ns) /\ x \in keep
    <3>1. PICK k \in 1 .. m : x = q[k]
      BY <1>10, <1>12 DEF ToSet
    <3>2. PICK h \in 1 .. m : h = g[k] /\ x = p[h]
      BY <1>12, <3>1
    <3>3. x = ns[f[h]] /\ f[h] \in 1 .. n /\ x \in keep
      BY <1>6, <3>2
    <3> QED BY <1>5, <3>3 DEF ToSet
  <2>2. ASSUME NEW x \in ToSet(ns), x \in keep PROVE x \in ToSet(q)
    <3>1. PICK h \in 1 .. n : x = ns[h]
      BY <1>5 DEF ToSet
    <3>2. PICK j \in 1 .. m : f[j] = h
      BY <1>6, <2>2, <3>1
    <3>3. PICK k \in 1 .. m : g[k] = j
      BY <1>12
    <3>4. q[k] = x
      <4>1. q[k] = p[j]
        BY <1>12, <3>3
      <4>2. p[j] = ns[h]
        BY <1>6, <3>2
      <4> QED BY <3>1, <4>1, <4>2
    <3>5. DOMAIN q = 1 .. m
      BY <1>10, <1>12
    <3> QED BY <3>4, <3>5 DEF ToSet
  <2> QED BY <2>1, <2>2
<1>15. ASSUME NEW j \in 1 .. m, NEW k \in 1 .. m, j < k PROVE q[j].nid < q[k].nid
  <2>1. PICK a, b \in 1 .. m : a = g[j] /\ b = g[k]
    BY <1>12
  <2>2. a # b /\ keys[a] <= keys[b] /\ q[j] = p[a] /\ q[k] = p[b]
    BY <1>12, <1>15, <2>1
  <2>3. p[a].nid <= p[b].nid
    BY <1>5, <1>7, <2>2
  <2>4. f[a] # f[b] /\ f[a] \in 1 .. n /\ f[b] \in 1 .. n /\ p[a] = ns[f[a]] /\ p[b] = ns[f[b]]
    BY <1>6, <1>13, <2>2
  <2>5. p[a].nid # p[b].nid /\ p[a].nid \in Nat /\ p[b].nid \in Nat
    BY <1>4, <1>5, <2>4
  <2>6. p[a].nid < p[b].nid
    BY <2>3, <2>5
  <2> QED BY <2>2, <2>6
<1>16. PICK S : S = {k \in 1 .. n : ns[k] \in keep}
  OBVIOUS
<1>17. Cardinality(S) = m
  <2>1. \A x \in S : \E k \in 1 .. m : x = f[k]
    BY <1>6, <1>16
  <2>2. \A k \in 1 .. m : f[k] \in S
    BY <1>6, <1>16
  <2> QED BY <1>5, <1>13, <2>1, <2>2, AllDiffer
<1>18. NodesKept(q, ns, keep)
  BY <1>4, <1>10, <1>12, <1>14, <1>15, <1>16, <1>17 DEF NodesKept
<1>19. ByNid(Picked(ns, keep)) = q
  BY <1>1, <1>7, <1>9 DEF ByNid
<1> QED BY <1>18, <1>19

\* The entries of the leaves of both trees, for a layout of these blocks and nodes.
NodeLeaves(keep) == [k \in 1 .. Len(keep) |-> NbtLeaf(keep[k])]
BlockLeaves(ps) == [k \in 1 .. Len(ps) |-> BbtLeaf(ps[k])]

\* The leaves of the node tree are in order, one for every node kept.
LEMMA NodeLeavesAre ==
  ASSUME NEW keep \in Seq(Node), keep # <<>>,
         \A j, k \in 1 .. Len(keep) : j < k => keep[j].nid < keep[k].nid
  PROVE  /\ NodeLeaves(keep) \in Seq(Leaf) /\ NodeLeaves(keep) # <<>>
         /\ Ascending(NodeLeaves(keep))
         /\ \A key : Hits(NodeLeaves(keep), key) =
              {NbtLeaf(n) : n \in {n \in ToSet(keep) : n.nid = key}}
<1>1. PICK ls, m : ls = NodeLeaves(keep) /\ m = Len(keep)
  OBVIOUS
<1>2. m \in Nat /\ m >= 1 /\ DOMAIN keep = 1 .. m
  BY <1>1
<1>3. ASSUME NEW k \in 1 .. m
      PROVE  keep[k] \in Node /\ NbtLeaf(keep[k]) \in Leaf
             /\ NbtLeaf(keep[k]).key = keep[k].nid
  <2>1. keep[k] \in Node
    BY <1>2
  <2> QED BY <2>1 DEF NbtLeaf, Node, Leaf
<1>4. ls = [k \in 1 .. m |-> NbtLeaf(keep[k])]
  BY <1>1 DEF NodeLeaves
<1>5. ls \in Seq(Leaf) /\ ls # <<>> /\ Len(ls) = m /\ DOMAIN ls = 1 .. m
  BY <1>2, <1>3, <1>4
<1>6. Ascending(ls)
  BY <1>1, <1>3, <1>4, <1>5 DEF Ascending
<1>7. ASSUME NEW key
      PROVE  Hits(ls, key) = {NbtLeaf(n) : n \in {n \in ToSet(keep) : n.nid = key}}
  <2>1. ASSUME NEW x \in Hits(ls, key)
        PROVE  \E n \in {n \in ToSet(keep) : n.nid = key} : x = NbtLeaf(n)
    <3>1. PICK k \in 1 .. m : x = ls[k] /\ x.key = key
      BY <1>5, <2>1 DEF Hits, ToSet
    <3>2. x = NbtLeaf(keep[k]) /\ keep[k].nid = key
      BY <1>3, <1>4, <3>1
    <3>3. keep[k] \in ToSet(keep)
      BY <1>2 DEF ToSet
    <3> QED BY <3>2, <3>3
  <2>2. ASSUME NEW n \in ToSet(keep), n.nid = key
        PROVE  NbtLeaf(n) \in Hits(ls, key)
    <3>1. PICK k \in 1 .. m : n = keep[k]
      BY <1>2 DEF ToSet
    <3>2. ls[k] = NbtLeaf(n) /\ NbtLeaf(n).key = key
      BY <1>3, <1>4, <2>2, <3>1
    <3>3. ls[k] \in ToSet(ls)
      BY <1>5 DEF ToSet
    <3> QED BY <3>2, <3>3 DEF Hits
  <2> QED BY <2>1, <2>2
<1> QED BY <1>1, <1>5, <1>6, <1>7

\* The leaves of the block tree are in order, one for every block placed.
LEMMA BlockLeavesAre ==
  ASSUME NEW ps \in Seq(Home), ps # <<>>,
         \A j, k \in 1 .. Len(ps) : j < k => ps[j].b.bid < ps[k].b.bid
  PROVE  /\ BlockLeaves(ps) \in Seq(Leaf) /\ BlockLeaves(ps) # <<>>
         /\ Ascending(BlockLeaves(ps))
         /\ \A key : Hits(BlockLeaves(ps), key) =
              {BbtLeaf(p) : p \in {p \in ToSet(ps) : p.b.bid = key}}
<1>1. PICK ls, m : ls = BlockLeaves(ps) /\ m = Len(ps)
  OBVIOUS
<1>2. m \in Nat /\ m >= 1 /\ DOMAIN ps = 1 .. m
  BY <1>1
<1>3. ASSUME NEW k \in 1 .. m
      PROVE  ps[k] \in Home /\ BbtLeaf(ps[k]) \in Leaf
             /\ BbtLeaf(ps[k]).key = ps[k].b.bid
  <2>1. ps[k] \in Home
    BY <1>2
  <2>2. ps[k].at \in Nat /\ ps[k].b.bid \in Nat /\ ps[k].b.cb \in Nat /\ ps[k].b.cref \in Nat
    BY <2>1 DEF Home, Copied, Block
  <2> QED BY <2>1, <2>2 DEF BbtLeaf, Leaf
<1>4. ls = [k \in 1 .. m |-> BbtLeaf(ps[k])]
  BY <1>1 DEF BlockLeaves
<1>5. ls \in Seq(Leaf) /\ ls # <<>> /\ Len(ls) = m /\ DOMAIN ls = 1 .. m
  <2>1. \A k \in 1 .. m : BbtLeaf(ps[k]) \in Leaf
    BY <1>3
  <2>2. ls \in [1 .. m -> Leaf]
    BY <1>4, <2>1
  <2> QED BY <1>2, <2>2
<1>6. Ascending(ls)
  BY <1>1, <1>3, <1>4, <1>5 DEF Ascending
<1>7. ASSUME NEW key
      PROVE  Hits(ls, key) = {BbtLeaf(p) : p \in {p \in ToSet(ps) : p.b.bid = key}}
  <2>1. ASSUME NEW x \in Hits(ls, key)
        PROVE  \E p \in {p \in ToSet(ps) : p.b.bid = key} : x = BbtLeaf(p)
    <3>1. PICK k \in 1 .. m : x = ls[k] /\ x.key = key
      BY <1>5, <2>1 DEF Hits, ToSet
    <3>2. x = BbtLeaf(ps[k]) /\ ps[k].b.bid = key
      BY <1>3, <1>4, <3>1
    <3>3. ps[k] \in ToSet(ps)
      BY <1>2 DEF ToSet
    <3> QED BY <3>2, <3>3
  <2>2. ASSUME NEW p \in ToSet(ps), p.b.bid = key
        PROVE  BbtLeaf(p) \in Hits(ls, key)
    <3>1. PICK k \in 1 .. m : p = ps[k]
      BY <1>2 DEF ToSet
    <3>2. ls[k] = BbtLeaf(p) /\ BbtLeaf(p).key = key
      BY <1>3, <1>4, <2>2, <3>1
    <3>3. ls[k] \in ToSet(ls)
      BY <1>5 DEF ToSet
    <3> QED BY <3>2, <3>3 DEF Hits
  <2> QED BY <2>1, <2>2
<1> QED BY <1>1, <1>5, <1>6, <1>7

\* The page that a root of the header names.
IsRoot(root, page) == root = [at |-> page.at, bid |-> page.bid]

\* The pages of a layout are those of the node tree and of the block tree; the header
\* names the root of each, and the last page of all is that of the block tree.
TreesOf(p, ns, bs, cur, n, b) ==
  /\ cur \in Cursors /\ n.cur \in Cursors
  /\ n = BuildTree(ns, "NBT", cur) /\ b = BuildTree(bs, "BBT", n.cur)
  /\ n.pages \in Seq(PageOver(Leaf)) /\ b.pages \in Seq(PageOver(Leaf))
  /\ p.pages = n.pages \o b.pages
  /\ IsRoot(p.roots.NBT, n.root) /\ IsRoot(p.roots.BBT, b.root)
  /\ Len(b.pages) >= 1 /\ b.root = Last(b.pages)

\* LayoutOf builds those two trees over those leaves.
LEMMA LayoutTrees ==
  ASSUME NEW bs \in Seq(Copied), bs # <<>>, NEW keep \in Seq(Node), keep # <<>>,
         NodeLeaves(keep) \in Seq(Leaf), NodeLeaves(keep) # <<>>,
         BlockLeaves(PlaceBlocks(bs)) \in Seq(Leaf), BlockLeaves(PlaceBlocks(bs)) # <<>>
  PROVE  \E cur, n, b : TreesOf(LayoutOf(PlaceBlocks(bs), keep), NodeLeaves(keep),
                                BlockLeaves(PlaceBlocks(bs)), cur, n, b)
<1> DEFINE Ids(ps) == {p.b.bid : p \in ToSet(ps)}
<1>1. PICK ps : ps = PlaceBlocks(bs)
  OBVIOUS
<1>2. ps \in Seq(Home) /\ ps # <<>>
  BY <1>1, HomesAre
<1>3. Last(ps) \in Home
  BY <1>2 DEF Last
<1>4. PICK y : y = Last(ps).at + BlockSpan(Last(ps).b.cb)
  OBVIOUS
<1>5. y \in Nat
  <2>1. Last(ps).at \in Nat /\ BlockSpan(Last(ps).b.cb) \in Nat
    BY <1>3 DEF Home, Copied, Fits
  <2> QED BY <1>4, <2>1
<1>6. PICK top : top = Max(Ids(ps))
  OBVIOUS
<1>7. top \in Nat
  BY <1>2, <1>6, TopBid
<1>8. PICK cur : cur = [next |-> y, bid |-> top + 4]
  OBVIOUS
<1>9. cur \in Cursors
  BY <1>5, <1>7, <1>8 DEF Cursors
<1>10. PICK ns, ls : ns = NodeLeaves(keep) /\ ls = BlockLeaves(ps)
  OBVIOUS
<1>11. ns \in Seq(Leaf) /\ ns # <<>> /\ ls \in Seq(Leaf) /\ ls # <<>>
  BY <1>1, <1>10
<1>12. Keyed(Leaf)
  BY DEF Keyed, Leaf
<1>13. PICK n : n = BuildTree(ns, "NBT", cur)
  OBVIOUS
<1>14. n.pages \in Seq(PageOver(Leaf)) /\ n.cur \in Cursors
  BY <1>9, <1>11, <1>12, <1>13, TreeLaid
<1>15. PICK b : b = BuildTree(ls, "BBT", n.cur)
  OBVIOUS
<1>16. b.pages \in Seq(PageOver(Leaf)) /\ Len(b.pages) >= 1 /\ b.root = Last(b.pages)
  BY <1>11, <1>12, <1>14, <1>15, TreeLaid
<1>17. PICK nr, br : nr = [at |-> n.root.at, bid |-> n.root.bid]
                     /\ br = [at |-> b.root.at, bid |-> b.root.bid]
  OBVIOUS
<1>18. PICK r, end, last : /\ r = n.pages \o b.pages
                           /\ end = AlignUp(b.cur.next, BLOCK_ALIGN) /\ last = b.cur.bid
  OBVIOUS
<1>19. PICK l : l = LayoutOf(ps, keep)
  OBVIOUS
<1>20. l = [placed |-> ps, pages |-> r, roots |-> [NBT |-> nr, BBT |-> br],
            eof |-> end, bidNext |-> last]
  BY <1>4, <1>6, <1>8, <1>10, <1>13, <1>15, <1>17, <1>18, <1>19
     DEF LayoutOf, NodeLeaves, BlockLeaves
<1>21. l.pages = r /\ l.roots = [NBT |-> nr, BBT |-> br]
  BY <1>20
<1>22. l.roots.NBT = nr /\ l.roots.BBT = br
  BY <1>21
<1>23. IsRoot(l.roots.NBT, n.root) /\ IsRoot(l.roots.BBT, b.root)
  BY <1>17, <1>22 DEF IsRoot
<1>24. l.pages = n.pages \o b.pages
  BY <1>18, <1>21, Zenon
<1>25. TreesOf(l, ns, ls, cur, n, b)
  BY <1>9, <1>13, <1>14, <1>15, <1>16, <1>23, <1>24, Zenon DEF TreesOf
<1> QED BY <1>1, <1>10, <1>19, <1>25, Zenon

-----------------------------------------------------------------------------
\* What the layout is made of: the intact blocks, and the nodes whose blocks are.
Keepable == {n \in ToSet(nodes) : NodeSurvives(n, Intact)}

\* In the second pass, what is to be written is what is intact.
LEMMA Survived ==
  ASSUME SiftInv, pc \in {"create", "blocks", "done"}
  PROVE  /\ \A b \in ToSet(blocks) : b \in ToSet(kept) <=> Bare(b.bid) \in Intact
         /\ {p.b : p \in ToSet(plan.placed)} = ToSet(kept)
         /\ ToSet(kept) \subseteq ToSet(blocks)
         /\ NodesKept(Keeping, nodes, Keepable)
<1>1. RebuildInv /\ Unique /\ Sifting
  BY DEF SiftInv
<1>2. Checked = Len(blocks)
  BY DEF Checked
<1>3. blocks \in Seq(Copied) /\ kept \in Seq(Copied) /\ nodes \in Seq(Node) /\ kept # <<>>
  BY <1>1, Surviving DEF RebuildInv, Planned
<1>4. kept \in Seq(ToSet(blocks))
  BY <1>1 DEF RebuildInv, Typed
<1>5. ToSet(kept) \subseteq ToSet(blocks)
  BY <1>4 DEF ToSet
<1>6. ASSUME NEW b \in ToSet(blocks)
      PROVE  b \in ToSet(kept) <=> Bare(b.bid) \in Intact
  <2>1. b \in ToSet(kept) <=>
          \E k \in 1 .. Len(blocks) : b = blocks[k] /\ Bare(b.bid) \notin damaged
    BY <1>1, <1>2 DEF Sifting
  <2>2. \E k \in 1 .. Len(blocks) : b = blocks[k]
    BY <1>3 DEF ToSet
  <2>3. Bare(b.bid) \in Intact <=> Bare(b.bid) \notin damaged
    BY DEF Intact
  <2> QED BY <2>1, <2>2, <2>3
<1>7. plan.placed = PlaceBlocks(kept)
  BY <1>1, PlanIs
<1>8. {p.b : p \in ToSet(PlaceBlocks(kept))} = ToSet(kept)
  BY <1>3, HomesAre
<1>9. {Bare(p.b.bid) : p \in ToSet(PlaceBlocks(kept))} = Intact
  <2>1. ASSUME NEW p \in ToSet(PlaceBlocks(kept)) PROVE Bare(p.b.bid) \in Intact
    BY <1>5, <1>6, <1>8
  <2>2. ASSUME NEW x \in Intact
        PROVE  \E p \in ToSet(PlaceBlocks(kept)) : x = Bare(p.b.bid)
    <3>1. PICK b \in ToSet(blocks) : x = Bare(b.bid)
      BY DEF Intact
    <3>2. b \in ToSet(kept)
      BY <1>6, <3>1
    <3>3. PICK p \in ToSet(PlaceBlocks(kept)) : p.b = b
      BY <1>8, <3>2
    <3> QED BY <3>1, <3>3
  <2> QED BY <2>1, <2>2
<1>10. Keeping = ByNid(Picked(nodes, Keepable))
  BY <1>9 DEF Keeping, Keepable
<1>11. \A j, k \in 1 .. Len(nodes) : j # k => nodes[j].nid # nodes[k].nid
  BY <1>1, <1>3 DEF Unique
<1>12. NodesKept(Keeping, nodes, Keepable)
  BY <1>3, <1>10, <1>11, NodesKeptAre
<1> QED BY <1>5, <1>6, <1>7, <1>8, <1>12

\* In the second pass, both trees are there to be written, their leaves in order.
LEMMA PlanTrees ==
  ASSUME SiftInv, pc \in {"create", "blocks", "done"}
  PROVE  /\ NodeLeaves(Keeping) \in Seq(Leaf) /\ NodeLeaves(Keeping) # <<>>
         /\ Ascending(NodeLeaves(Keeping))
         /\ BlockLeaves(plan.placed) \in Seq(Leaf) /\ BlockLeaves(plan.placed) # <<>>
         /\ Ascending(BlockLeaves(plan.placed))
         /\ \A key : Hits(NodeLeaves(Keeping), key) =
              {NbtLeaf(n) : n \in {n \in ToSet(Keeping) : n.nid = key}}
         /\ \A key : Hits(BlockLeaves(plan.placed), key) =
              {BbtLeaf(p) : p \in {p \in ToSet(plan.placed) : p.b.bid = key}}
         /\ \E cur, n, b : TreesOf(plan, NodeLeaves(Keeping), BlockLeaves(plan.placed), cur, n, b)
         /\ \A j, k \in 1 .. Len(plan.placed) :
              j < k => plan.placed[j].b.bid < plan.placed[k].b.bid
<1>1. RebuildInv /\ Sifting /\ NodesKept(Keeping, nodes, Keepable)
  BY Survived DEF SiftInv
<1>2. PICK ps, keep : ps = plan.placed /\ keep = Keeping
  OBVIOUS
<1>3. kept \in Seq(Copied) /\ kept # <<>> /\ keep \in Seq(Node) /\ keep # <<>>
      /\ ps = PlaceBlocks(kept) /\ plan = LayoutOf(PlaceBlocks(kept), keep)
  BY <1>1, <1>2, Surviving, PlanIs DEF RebuildInv, Planned
<1>4. ps \in Seq(Home) /\ ps # <<>>
  BY <1>3, HomesAre
<1>5. \A j, k \in 1 .. Len(ps) : j < k => ps[j].b.bid < ps[k].b.bid
  <2>1. \A j, k \in 1 .. Len(kept) : j # k => Bare(kept[j].bid) # Bare(kept[k].bid)
    BY <1>1 DEF Sifting
  <2> QED BY <1>3, <2>1, HomesAscend
<1>6. \A j, k \in 1 .. Len(keep) : j < k => keep[j].nid < keep[k].nid
  BY <1>1, <1>2 DEF NodesKept
<1>7. /\ NodeLeaves(keep) \in Seq(Leaf) /\ NodeLeaves(keep) # <<>>
      /\ Ascending(NodeLeaves(keep))
      /\ \A key : Hits(NodeLeaves(keep), key) =
           {NbtLeaf(n) : n \in {n \in ToSet(keep) : n.nid = key}}
  BY <1>3, <1>6, NodeLeavesAre
<1>8. /\ BlockLeaves(ps) \in Seq(Leaf) /\ BlockLeaves(ps) # <<>>
      /\ Ascending(BlockLeaves(ps))
      /\ \A key : Hits(BlockLeaves(ps), key) =
           {BbtLeaf(p) : p \in {p \in ToSet(ps) : p.b.bid = key}}
  BY <1>4, <1>5, BlockLeavesAre
<1>9. \E cur, n, b : TreesOf(plan, NodeLeaves(keep), BlockLeaves(ps), cur, n, b)
  BY <1>3, <1>7, <1>8, LayoutTrees
<1> QED BY <1>2, <1>5, <1>7, <1>8, <1>9

\* The pages of a plan lie apart, and each level is a number.
LEMMA PlanPages ==
  ASSUME SoundPlan(plan)
  PROVE  /\ \A j, k \in 1 .. Len(plan.pages) : plan.pages[j].bid = plan.pages[k].bid => j = k
         /\ Apart(ToSet(plan.pages)) /\ ToSet(plan.pages) \subseteq PageOver(Leaf)
         /\ \E N \in Nat : \A p \in ToSet(plan.pages) : p.level <= N
<1>1. PICK gs : gs = plan.pages
  OBVIOUS
<1>2. gs \in Seq(PageOver(Leaf))
  BY <1>1 DEF SoundPlan
<1>3. PICK y, z, top \in Nat : PagesLaid(gs, y, z, top + 4)
  BY <1>1 DEF SoundPlan, InPlan
<1>4. top + 4 \in Nat
  OBVIOUS
<1>5. /\ \A j, k \in 1 .. Len(gs) : gs[j].bid = gs[k].bid => j = k
      /\ Apart(ToSet(gs)) /\ ToSet(gs) \subseteq PageOver(Leaf)
  BY <1>2, <1>3, <1>4, PagesApart
<1>6. PICK N \in Nat : \A j \in 1 .. Len(gs) : gs[j].level <= N
  BY <1>2, Bounded
<1>7. \A p \in ToSet(gs) : p.level <= N
  BY <1>2, <1>6 DEF ToSet
<1> QED BY <1>1, <1>5, <1>7

\* With every page written, a reader finds what the leaves hold and nothing else.
LEMMA Found ==
  ASSUME SiftInv, pc \in {"blocks", "done"}, i = Count(plan), NEW key \in Nat
  PROVE  /\ Find("NBT", key) = {NbtLeaf(n) : n \in {n \in ToSet(Keeping) : n.nid = key}}
         /\ Find("BBT", key) = {BbtLeaf(p) : p \in {p \in ToSet(plan.placed) : p.b.bid = key}}
<1>1. RebuildInv /\ SoundPlan(plan)
  BY PlanIs DEF SiftInv
<1>2. PICK gs : gs = plan.pages
  OBVIOUS
<1>3. gs \in Seq(PageOver(Leaf)) /\ DOMAIN gs = 1 .. Len(gs) /\ Len(gs) \in Nat
      /\ Len(plan.placed) \in Nat
  BY <1>1, <1>2, PiecesLaid DEF SoundPlan
<1>4. FilePages = ToSet(gs)
  <2>1. FilePages = {gs[g] : g \in {g \in 1 .. Len(gs) : Len(plan.placed) + g <= i}}
    BY <1>1, <1>2, FileIs
  <2>2. \A g \in 1 .. Len(gs) : Len(plan.placed) + g <= i
    BY <1>2, <1>3 DEF Count
  <2> QED BY <1>3, <2>1, <2>2 DEF ToSet
<1>5. FileHeader.roots = plan.roots
  BY <1>1, FileIs DEF HeaderSeg
<1>6. PICK ns, ls : ns = NodeLeaves(Keeping) /\ ls = BlockLeaves(plan.placed)
  OBVIOUS
<1>7. /\ ns \in Seq(Leaf) /\ ns # <<>> /\ Ascending(ns)
      /\ ls \in Seq(Leaf) /\ ls # <<>> /\ Ascending(ls)
      /\ Hits(ns, key) = {NbtLeaf(n) : n \in {n \in ToSet(Keeping) : n.nid = key}}
      /\ Hits(ls, key) = {BbtLeaf(p) : p \in {p \in ToSet(plan.placed) : p.b.bid = key}}
      /\ \E cur, n, b : TreesOf(plan, ns, ls, cur, n, b)
  BY <1>6, PlanTrees
<1>8. PICK cur, n, b : TreesOf(plan, ns, ls, cur, n, b)
  BY <1>7
<1>9. /\ cur \in Cursors /\ n.cur \in Cursors
      /\ n = BuildTree(ns, "NBT", cur) /\ b = BuildTree(ls, "BBT", n.cur)
  BY <1>8 DEF TreesOf
<1>10. PICK pages : pages = FilePages
  OBVIOUS
<1>11. pages \subseteq PageOver(Leaf) /\ Apart(pages)
       /\ \E N \in Nat : \A p \in pages : p.level <= N
  BY <1>1, <1>2, <1>4, <1>10, PlanPages
<1>12. PICK N \in Nat : \A p \in pages : p.level <= N
  BY <1>11
<1>13. /\ \A j \in 1 .. Len(n.pages) : n.pages[j] \in pages
       /\ \A j \in 1 .. Len(b.pages) : b.pages[j] \in pages
  <2>1. PICK u, v : u = n.pages /\ v = b.pages
    OBVIOUS
  <2>2. u \in Seq(PageOver(Leaf)) /\ v \in Seq(PageOver(Leaf)) /\ gs = u \o v
    BY <1>2, <1>8, <2>1 DEF TreesOf
  <2>3. Len(u) \in Nat /\ Len(v) \in Nat /\ Len(gs) = Len(u) + Len(v)
    BY <2>2
  <2>4. ASSUME NEW j \in 1 .. Len(u) PROVE u[j] \in pages
    <3>1. j \in 1 .. Len(gs) /\ gs[j] = u[j]
      BY <2>2, <2>3
    <3> QED BY <1>3, <1>4, <1>10, <3>1 DEF ToSet
  <2>5. ASSUME NEW j \in 1 .. Len(v) PROVE v[j] \in pages
    <3>1. Len(u) + j \in 1 .. Len(gs) /\ gs[Len(u) + j] = v[j]
      BY <2>2, <2>3
    <3> QED BY <1>3, <1>4, <1>10, <3>1 DEF ToSet
  <2> QED BY <2>1, <2>4, <2>5
<1>14. Keyed(Leaf)
  BY DEF Keyed, Leaf
<1>15. PICK r, s : r = plan.roots.NBT /\ s = plan.roots.BBT
  OBVIOUS
<1>16. /\ r.at = n.root.at /\ r.bid = n.root.bid
       /\ s.at = b.root.at /\ s.bid = b.root.bid
  BY <1>8, <1>15 DEF TreesOf, IsRoot
<1>17. Search(pages, r, "NBT", key) = Hits(ns, key)
  <2>1. Keyed(Leaf) /\ ns \in Seq(Leaf) /\ ns # <<>> /\ Ascending(ns)
    BY <1>7, <1>14
  <2>2. cur \in Cursors /\ n = BuildTree(ns, "NBT", cur)
    BY <1>9
  <2>3. HoldsTree(pages, Leaf, N, n)
    BY <1>11, <1>12, <1>13 DEF HoldsTree
  <2>4. r.at = n.root.at /\ r.bid = n.root.bid
    BY <1>16
  <2> QED BY <2>1, <2>2, <2>3, <2>4, SearchFinds
<1>18. Search(pages, s, "BBT", key) = Hits(ls, key)
  <2>1. Keyed(Leaf) /\ ls \in Seq(Leaf) /\ ls # <<>> /\ Ascending(ls)
    BY <1>7, <1>14
  <2>2. n.cur \in Cursors /\ b = BuildTree(ls, "BBT", n.cur)
    BY <1>9
  <2>3. HoldsTree(pages, Leaf, N, b)
    BY <1>11, <1>12, <1>13 DEF HoldsTree
  <2>4. s.at = b.root.at /\ s.bid = b.root.bid
    BY <1>16
  <2> QED BY <2>1, <2>2, <2>3, <2>4, SearchFinds
<1>19. Find("NBT", key) = Search(pages, r, "NBT", key)
       /\ Find("BBT", key) = Search(pages, s, "BBT", key)
  BY <1>5, <1>10, <1>15 DEF Find
<1> QED BY <1>7, <1>17, <1>18, <1>19

\* Once the last page is written, the file resolves.
LEMMA WholeResolves ==
  ASSUME SiftInv, pc \in {"blocks", "done"}, i = Count(plan)
  PROVE  Resolves
<1>1. RebuildInv /\ Unique /\ SoundPlan(plan)
  BY PlanIs DEF SiftInv
<1>2. /\ \A b \in ToSet(blocks) : b \in ToSet(kept) <=> Bare(b.bid) \in Intact
      /\ {p.b : p \in ToSet(plan.placed)} = ToSet(kept)
      /\ ToSet(kept) \subseteq ToSet(blocks)
      /\ NodesKept(Keeping, nodes, Keepable)
  BY Survived
<1>3. blocks \in Seq(Copied) /\ nodes \in Seq(Node)
  BY <1>1, Surviving
<1>4. PICK ps, m : ps = plan.placed /\ m = Len(ps)
  OBVIOUS
<1>5. ps \in Seq(Home) /\ DOMAIN ps = 1 .. m /\ m \in Nat /\ Len(plan.pages) \in Nat
  BY <1>1, <1>4, PiecesLaid DEF SoundPlan
<1>6. ASSUME NEW k \in 1 .. m
      PROVE  ps[k] \in Home /\ ps[k].b.bid \in Nat /\ ps[k].b.cref \in Nat
  <2>1. ps[k] \in Home
    BY <1>5
  <2> QED BY <2>1 DEF Home, Copied, Block
<1>7. ASSUME NEW j \in 1 .. m, NEW k \in 1 .. m, ps[j].b.bid = ps[k].b.bid
      PROVE  j = k
  <2>1. \A g, h \in 1 .. m : g < h => ps[g].b.bid < ps[h].b.bid
    BY <1>4, PlanTrees
  <2>2. PICK x, y \in Nat : x = ps[j].b.bid /\ y = ps[k].b.bid
    BY <1>6
  <2>3. ~ (j < k) /\ ~ (k < j)
    BY <1>7, <2>1, <2>2
  <2> QED BY <1>5, <2>3
<1>8. ASSUME NEW k \in 1 .. m PROVE Leads(BbtLeaf(ps[k]))
  <2>1. k <= i /\ k \in 1 .. Len(plan.placed) /\ k <= Len(plan.placed)
    <3>1. PICK c \in Nat : c = Len(plan.pages)
      BY <1>5
    <3>2. i = m + c
      BY <1>4, <3>1 DEF Count
    <3>3. k <= i /\ k \in 1 .. m /\ k <= m
      BY <1>5, <3>2
    <3> QED BY <1>4, <3>3
  <2>2. PICK s \in Pieces("block") : IsPiece(s, plan, k)
    BY <1>1, <2>1, FileIs
  <2>3. s.at = ps[k].at /\ s.sig = ps[k].at /\ s.bid = ps[k].b.bid /\ s.cb = ps[k].b.cb
    BY <1>4, <2>1, <2>2 DEF IsPiece, Off
  <2>4. PICK c : c = IF ps[k].b.cref = 0 THEN 1 ELSE ps[k].b.cref
    OBVIOUS
  <2>5. c > 0
    BY <1>6, <2>4
  <2>6. PICK e : e = BbtLeaf(ps[k])
    OBVIOUS
  <2>7. e.at = ps[k].at /\ e.key = ps[k].b.bid /\ e.cb = ps[k].b.cb /\ e.cref = c
    BY <2>4, <2>6 DEF BbtLeaf
  <2> QED BY <2>3, <2>5, <2>6, <2>7 DEF Leads
<1>9. ASSUME NEW b \in ToSet(blocks)
      PROVE  IF Bare(b.bid) \in Intact
             THEN Cardinality(Find("BBT", b.bid)) = 1 /\ \A x \in Find("BBT", b.bid) : Leads(x)
             ELSE Find("BBT", b.bid) = {}
  <2>1. b.bid \in Nat
    <3>1. b \in Copied
      BY <1>3 DEF ToSet
    <3> QED BY <3>1 DEF Copied, Block
  <2>2. PICK S : S = {p \in ToSet(ps) : p.b.bid = b.bid}
    OBVIOUS
  <2>3. Find("BBT", b.bid) = {BbtLeaf(p) : p \in S}
    BY <1>4, <2>1, <2>2, Found
  <2>4. CASE Bare(b.bid) \in Intact
    <3>1. PICK p \in ToSet(ps) : p.b = b
      BY <1>2, <1>4, <2>4
    <3>2. PICK k \in 1 .. m : p = ps[k]
      BY <1>5 DEF ToSet
    <3>3. ASSUME NEW x \in S PROVE x = p
      <4>1. PICK j \in 1 .. m : x = ps[j]
        BY <1>5, <2>2 DEF ToSet
      <4>2. ps[j].b.bid = ps[k].b.bid
        BY <2>2, <3>1, <3>2, <4>1
      <4> QED BY <1>7, <3>2, <4>1, <4>2
    <3>4. S = {p}
      BY <2>2, <3>1, <3>3
    <3>5. Find("BBT", b.bid) = {BbtLeaf(p)}
      BY <2>3, <3>4
    <3>6. Leads(BbtLeaf(p))
      BY <1>8, <3>2
    <3>7. Cardinality({BbtLeaf(p)}) = 1
      BY FS_Singleton
    <3> QED BY <2>4, <3>5, <3>6, <3>7
  <2>5. CASE Bare(b.bid) \notin Intact
    <3>1. ASSUME NEW p \in S PROVE FALSE
      <4>1. p.b \in ToSet(kept) /\ p.b.bid = b.bid
        BY <1>2, <1>4, <2>2
      <4>2. Bare(p.b.bid) \in Intact
        BY <1>2, <4>1
      <4> QED BY <2>5, <4>1, <4>2
    <3>2. Find("BBT", b.bid) = {}
      BY <2>3, <3>1
    <3> QED BY <2>5, <3>2
  <2> QED BY <2>4, <2>5
<1>10. ASSUME NEW n \in ToSet(nodes)
       PROVE  LET names == {Bare(x) : x \in {n.data, n.sub} \ {0}}
              IN  Find("NBT", n.nid) = IF names \subseteq Intact THEN {NbtLeaf(n)} ELSE {}
  <2>1. n.nid \in Nat
    <3>1. n \in Node
      BY <1>3 DEF ToSet
    <3> QED BY <3>1 DEF Node
  <2>2. PICK S : S = {x \in ToSet(Keeping) : x.nid = n.nid}
    OBVIOUS
  <2>3. Find("NBT", n.nid) = {NbtLeaf(x) : x \in S}
    BY <2>1, <2>2, Found
  <2>4. ToSet(Keeping) = ToSet(nodes) \intersect Keepable
    BY <1>2 DEF NodesKept
  <2>5. ASSUME NEW x \in ToSet(nodes), x.nid = n.nid PROVE x = n
    <3>1. PICK j, k \in DOMAIN nodes : x = nodes[j] /\ n = nodes[k]
      BY DEF ToSet
    <3> QED BY <1>1, <2>5, <3>1 DEF Unique
  <2>6. PICK names : names = {Bare(x) : x \in {n.data, n.sub} \ {0}}
    OBVIOUS
  <2>7. names \subseteq Intact <=> NodeSurvives(n, Intact)
    BY <2>6 DEF NodeSurvives
  <2>8. S = IF names \subseteq Intact THEN {n} ELSE {}
    BY <2>2, <2>4, <2>5, <2>7 DEF Keepable
  <2>9. Find("NBT", n.nid) = IF names \subseteq Intact THEN {NbtLeaf(n)} ELSE {}
    BY <2>3, <2>8
  <2> QED BY <2>6, <2>9
<1> QED BY <1>9, <1>10 DEF Resolves

\* Until then nothing is found at all: the root of the block tree is written last.
LEMMA HalfFindsNothing ==
  ASSUME SiftInv, pc \in {"blocks", "done"}, i < Count(plan)
  PROVE  ~ Resolves
<1>1. RebuildInv /\ SoundPlan(plan) /\ kept # <<>> /\ i \in Nat
  BY PlanIs DEF SiftInv, RebuildInv, Planned, Typed
<1>2. PICK gs, m, n : gs = plan.pages /\ m = Len(gs) /\ n = Len(plan.placed)
  OBVIOUS
<1>3. gs \in Seq(PageOver(Leaf)) /\ DOMAIN gs = 1 .. m /\ m \in Nat /\ n \in Nat
  BY <1>1, <1>2, PiecesLaid DEF SoundPlan
<1>4. PICK pages : pages = FilePages
  OBVIOUS
<1>5. pages = {gs[g] : g \in {g \in 1 .. m : n + g <= i}}
  BY <1>1, <1>2, <1>4, FileIs
<1>6. /\ \A j, k \in 1 .. m : gs[j].bid = gs[k].bid => j = k
      /\ pages \subseteq PageOver(Leaf)
      /\ \E N \in Nat : \A p \in pages : p.level <= N
  <2>1. /\ \A j, k \in 1 .. m : gs[j].bid = gs[k].bid => j = k
        /\ ToSet(gs) \subseteq PageOver(Leaf)
        /\ \E N \in Nat : \A p \in ToSet(gs) : p.level <= N
    BY <1>1, <1>2, PlanPages
  <2>2. pages \subseteq ToSet(gs)
    BY <1>3, <1>5 DEF ToSet
  <2> QED BY <2>1, <2>2
<1>7. PICK ns, ls : ns = NodeLeaves(Keeping) /\ ls = BlockLeaves(plan.placed)
  OBVIOUS
<1>8. \E cur, t, b : TreesOf(plan, ns, ls, cur, t, b)
  BY <1>7, PlanTrees
<1>9. PICK cur, t, b : TreesOf(plan, ns, ls, cur, t, b)
  BY <1>8
<1>10. PICK root : root = plan.roots.BBT
  OBVIOUS
<1>11. m >= 1 /\ root.bid = gs[m].bid
  <2>1. PICK u, v : u = t.pages /\ v = b.pages
    OBVIOUS
  <2>2. /\ u \in Seq(PageOver(Leaf)) /\ v \in Seq(PageOver(Leaf)) /\ gs = u \o v
        /\ Len(v) >= 1 /\ b.root = Last(v) /\ root.bid = b.root.bid
    BY <1>2, <1>9, <1>10, <2>1 DEF TreesOf, IsRoot
  <2>3. Len(u) \in Nat /\ Len(v) \in Nat /\ m = Len(u) + Len(v)
    BY <1>2, <2>2
  <2>4. gs[m] = v[Len(v)]
    BY <2>2, <2>3
  <2>5. Last(v) = v[Len(v)]
    BY DEF Last
  <2> QED BY <2>2, <2>3, <2>4, <2>5
<1>12. ASSUME NEW p \in pages PROVE p.bid # root.bid
  <2>1. PICK g \in 1 .. m : n + g <= i /\ p = gs[g]
    BY <1>5
  <2>2. g # m
    <3>1. i < n + m
      BY <1>2 DEF Count
    <3> QED BY <1>1, <1>3, <2>1, <3>1
  <2>3. m \in 1 .. m
    BY <1>3, <1>11
  <2> QED BY <1>6, <1>11, <2>1, <2>2, <2>3
<1>13. PICK blk \in ToSet(kept) : TRUE
  <2>1. kept \in Seq(Copied)
    BY <1>1, Surviving
  <2>2. 1 \in DOMAIN kept
    BY <1>1, <2>1
  <2> QED BY <2>2 DEF ToSet
<1>14. blk \in ToSet(blocks) /\ Bare(blk.bid) \in Intact /\ blk.bid \in Nat
  <2>1. blk \in ToSet(blocks) /\ Bare(blk.bid) \in Intact
    BY <1>13, Survived
  <2>2. blocks \in Seq(Copied)
    BY <1>1, Surviving
  <2>3. blk \in Copied
    BY <2>1, <2>2 DEF ToSet
  <2> QED BY <2>1, <2>3 DEF Copied, Block
<1>15. PICK N \in Nat : \A p \in pages : p.level <= N
  BY <1>6
<1>16. PICK key \in Nat : key = blk.bid
  BY <1>14
<1>17. Search(pages, root, "BBT", key) = {}
  <2>1. PICK down : \A r : Search(pages, r, "BBT", key) =
             UNION {down[p] : p \in {p \in pages : /\ p.at = r.at /\ p.bid = r.bid
                                                   /\ p.ptype = "BBT"}}
    <3>1. Keyed(Leaf)
      BY DEF Keyed, Leaf
    <3> QED BY <1>6, <1>15, <3>1, SearchIs
  <2>2. {p \in pages : p.at = root.at /\ p.bid = root.bid /\ p.ptype = "BBT"} = {}
    BY <1>12
  <2>3. Search(pages, root, "BBT", key) = UNION {down[p] : p \in {}}
    BY <2>1, <2>2
  <2> QED BY <2>3
<1>18. Find("BBT", blk.bid) = {}
  <2>1. FileHeader.roots = plan.roots
    BY <1>1, FileIs DEF HeaderSeg
  <2> QED BY <1>4, <1>10, <1>16, <1>17, <2>1 DEF Find
<1>19. Cardinality(Find("BBT", blk.bid)) = 0
  BY <1>18, FS_EmptySet
<1> SUFFICES ASSUME Resolves PROVE FALSE
  OBVIOUS
<1>20. Cardinality(Find("BBT", blk.bid)) = 1
  BY <1>14 DEF Resolves
<1> QED BY <1>19, <1>20

\* What survived the first pass is what is written, in every state of a run over
\* indexes that list no id twice.
THEOREM RebuildSifts == Spec /\ Unique => []SiftInv
BY SiftInit, SiftSteps, PTL DEF Spec

\* RebuiltFileResolves: whatever the indexes hold, whichever blocks are damaged and
\* however many levels the trees have, a file that rebuild finished gives back every
\* intact block where its bytes are, and exactly the nodes that lost none of theirs.
THEOREM RebuiltResolves == Spec /\ Unique => []RebuiltFileResolves
<1>1. ASSUME SiftInv PROVE RebuiltFileResolves
  <2> SUFFICES ASSUME pc = "done" PROVE Resolves
    BY DEF RebuiltFileResolves
  <2>1. i = Count(plan)
    BY <1>1 DEF SiftInv, RebuildInv, OnDisk
  <2> QED BY <1>1, <2>1, WholeResolves
<1> QED BY <1>1, RebuildSifts, PTL

\* ReportHonest: what rebuild tells its caller is true of the file it wrote.
THEOREM RebuildTellsTruth == Spec /\ Unique => []ReportHonest
<1>1. ASSUME SiftInv PROVE ReportHonest
  <2> SUFFICES ASSUME pc = "done"
               PROVE /\ report.missing = {nid \in ESSENTIAL : Find("NBT", nid) = {}}
                     /\ report.droppedBlocks =
                          Cardinality({k \in 1 .. Len(blocks) : Bare(blocks[k].bid) \in damaged})
                     /\ report.droppedNodes =
                          Cardinality({k \in 1 .. Len(nodes) : Find("NBT", nodes[k].nid) = {}})
    BY DEF ReportHonest
  <2>1. /\ RebuildInv /\ Unique /\ Sifting /\ Reporting /\ i = Count(plan)
        /\ NodesKept(Keeping, nodes, Keepable)
    BY <1>1, Survived DEF SiftInv, RebuildInv, OnDisk
  <2>2. nodes \in Seq(Node)
    BY <2>1, Surviving
  <2>3. PICK n : n = Len(nodes)
    OBVIOUS
  <2>4. n \in Nat /\ DOMAIN nodes = 1 .. n
    BY <2>2, <2>3
  <2>5. ASSUME NEW nid \in Nat
        PROVE  Find("NBT", nid) = {} <=> ~ \E x \in ToSet(Keeping) : x.nid = nid
    <3>1. Find("NBT", nid) = {NbtLeaf(x) : x \in {x \in ToSet(Keeping) : x.nid = nid}}
      BY <1>1, <2>1, Found
    <3> QED BY <3>1
  <2>6. report.missing = {nid \in ESSENTIAL : Find("NBT", nid) = {}}
    <3>1. report.missing = ESSENTIAL \ {x.nid : x \in ToSet(Keeping)}
      BY <2>1 DEF Reporting, Missing
    <3>2. ESSENTIAL \subseteq Nat
      BY RebuildAssumption
    <3>3. ASSUME NEW nid \in ESSENTIAL
          PROVE  nid \in report.missing <=> Find("NBT", nid) = {}
      <4>1. nid \in report.missing <=> ~ \E x \in ToSet(Keeping) : x.nid = nid
        BY <3>1
      <4> QED BY <2>5, <3>2, <4>1
    <3>4. report.missing \subseteq ESSENTIAL
      BY <3>1
    <3> QED BY <3>3, <3>4
  <2>7. report.droppedBlocks =
          Cardinality({k \in 1 .. Len(blocks) : Bare(blocks[k].bid) \in damaged})
    BY <2>1 DEF Sifting, Checked
  <2>8. ASSUME NEW k \in 1 .. n
        PROVE  Find("NBT", nodes[k].nid) = {} <=> nodes[k] \notin Keepable
    <3>1. nodes[k].nid \in Nat /\ nodes[k] \in ToSet(nodes)
      <4>1. nodes[k] \in Node
        BY <2>2, <2>3
      <4> QED BY <2>4, <4>1 DEF Node, ToSet
    <3>2. ToSet(Keeping) = ToSet(nodes) \intersect Keepable
      BY <2>1 DEF NodesKept
    <3>3. ASSUME NEW x \in ToSet(nodes), x.nid = nodes[k].nid PROVE x = nodes[k]
      <4>1. PICK j \in DOMAIN nodes : x = nodes[j]
        BY DEF ToSet
      <4> QED BY <2>1, <2>4, <3>3, <4>1 DEF Unique
    <3> QED BY <2>5, <3>1, <3>2, <3>3
  <2>9. PICK S, T : S = {k \in 1 .. n : nodes[k] \in Keepable}
                    /\ T = {k \in 1 .. n : Find("NBT", nodes[k].nid) = {}}
    OBVIOUS
  <2>10. Cardinality(T) = n - Cardinality(S)
    <3>1. IsFiniteSet(1 .. n) /\ Cardinality(1 .. n) = n
      BY <2>4, FS_Interval
    <3>2. T = (1 .. n) \ S /\ (1 .. n) \intersect S = S
      BY <2>8, <2>9
    <3>3. Cardinality((1 .. n) \ S) = Cardinality(1 .. n) - Cardinality((1 .. n) \intersect S)
      BY <3>1, FS_Difference
    <3> QED BY <3>1, <3>2, <3>3
  <2>11. Len(Keeping) = Cardinality(S)
    BY <2>1, <2>3, <2>9 DEF NodesKept
  <2>12. report.droppedNodes = n - Len(Keeping)
    BY <2>1, <2>3 DEF Reporting
  <2> QED BY <2>3, <2>6, <2>7, <2>9, <2>10, <2>11, <2>12
<1> QED BY <1>1, RebuildSifts, PTL

\* What a caller may see of the target, state by state.
Seen ==
  /\ report.result = IF pc = "done" THEN "ok" ELSE IF pc = "failed" THEN "error" ELSE "none"
  /\ pc \notin {"blocks", "done"} =>
       /\ OutputAt \in {"older", "absent"}
       /\ OutputAt = IF disk[target].what = "original" THEN "older" ELSE disk[target].what
  /\ pc \in {"blocks", "done"} => OutputAt = IF i = Count(plan) THEN "whole" ELSE "partial"

\* That is what the target looks like in every state of the run.
LEMMA SeenIs ==
  ASSUME SiftInv
  PROVE  Seen
<1>1. Telling /\ RebuildInv
  BY DEF SiftInv
<1>2. CASE pc \notin {"blocks", "done"}
  <2>1. disk[target].what \in {"original", "older", "absent"}
    BY <1>1, <1>2 DEF Telling
  <2> QED BY <1>1, <1>2, <2>1 DEF Telling, OutputAt, Seen
<1>3. CASE pc \in {"blocks", "done"}
  <2>1. disk[target].what = "written"
    BY <1>1, <1>3 DEF Telling
  <2>2. i = Count(plan) => Resolves
    BY <1>3, WholeResolves
  <2>3. i # Count(plan) => ~ Resolves
    <3>1. i \in Nat /\ i <= Count(plan) /\ Count(plan) \in Nat
      BY <1>1, <1>3, PlanIs, PiecesLaid DEF RebuildInv, Typed, OnDisk, SoFar
    <3>2. i # Count(plan) => i < Count(plan)
      BY <3>1
    <3> QED BY <1>3, <3>2, HalfFindsNothing
  <2>4. OutputAt = IF i = Count(plan) THEN "whole" ELSE "partial"
    BY <2>1, <2>2, <2>3 DEF OutputAt
  <2> QED BY <1>1, <1>3, <2>4 DEF Telling, Seen
<1> QED BY <1>2, <1>3

\* A step of rebuild is a step that OutputFile allows, or no step to its eyes.
LEMMA SeenSteps ==
  ASSUME SiftInv, SiftInv', Seen, Seen', [Next]_vars
  PROVE  [Output!Next]_(Output!vars)
<1> USE DEF Output!Next, Output!Start, Output!Complete, Output!Report, Output!Abandon, Output!vars
<1>1. RebuildInv /\ Telling /\ Telling'
  BY DEF SiftInv
<1>2. disk \in [{"src", "out"} -> Held] /\ target \in {"src", "out"}
  BY <1>1, RebuildAssumption DEF RebuildInv, Typed
<1>3. CASE UNCHANGED vars
  BY <1>3 DEF vars, Seen
<1>4. ASSUME pc' = "failed", target' = target, disk'[target] = Absent,
             pc \in {"create", "blocks"}
      PROVE  [Output!Next]_(Output!vars)
  <2>1. OutputAt' = "absent" /\ report.result = "none" /\ report'.result = "error"
    BY <1>4 DEF Seen, Absent
  <2>2. OutputAt \in {"older", "absent"} \/ OutputAt \in {"partial", "whole"}
    BY <1>4 DEF Seen
  <2> QED BY <2>1, <2>2
<1>5. ASSUME pc' = "failed", target' = target, disk' = disk, pc \in {"check", "create"}
      PROVE  [Output!Next]_(Output!vars)
  <2>1. OutputAt' = OutputAt /\ report.result = "none" /\ report'.result = "error"
        /\ OutputAt \in {"older", "absent"}
    BY <1>5 DEF Seen
  <2> QED BY <2>1
<1>6. ASSUME pc = "blocks", pc' = "blocks", i' = i + 1, plan' = plan, i < Count(plan)
      PROVE  [Output!Next]_(Output!vars)
  <2>1. i # Count(plan)
    <3>1. i \in Nat /\ Count(plan) \in Nat
      BY <1>1, <1>6, PlanIs, PiecesLaid DEF RebuildInv, Typed
    <3> QED BY <1>6, <3>1
  <2>2. OutputAt = "partial" /\ report.result = "none" /\ report'.result = "none"
        /\ OutputAt' \in {"partial", "whole"}
    BY <1>6, <2>1 DEF Seen
  <2> QED BY <2>2
<1>7. CASE Check
  <2>1. pc = "check" /\ pc' = "check" /\ UNCHANGED <<disk, target>>
    BY <1>7 DEF Check, input
  <2>2. OutputAt' = OutputAt /\ report.result = "none" /\ report'.result = "none"
    BY <2>1 DEF Seen
  <2> QED BY <2>2
<1>8. CASE LayOut
  <2>1. CASE GiveUp
    BY <1>5, <1>8, <2>1 DEF LayOut, GiveUp, input
  <2>2. CASE ~ GiveUp
    <3>1. pc = "check" /\ pc' = "create" /\ UNCHANGED <<disk, target>>
      BY <1>8, <2>2 DEF LayOut, input
    <3>2. OutputAt' = OutputAt /\ report.result = "none" /\ report'.result = "none"
      BY <3>1 DEF Seen
    <3> QED BY <3>2
  <2> QED BY <2>1, <2>2
<1>9. ASSUME RemoveAndFail, pc \in {"create", "blocks"}
      PROVE  [Output!Next]_(Output!vars)
  <2>1. disk'[target] = Absent
    BY <1>2, <1>9 DEF RemoveAndFail
  <2> QED BY <1>4, <1>9, <2>1 DEF RemoveAndFail, input
<1>10. CASE Create
  <2>1. CASE RemoveAndFail
    BY <1>9, <1>10, <2>1 DEF Create
  <2>2. CASE GiveUp
    BY <1>5, <1>10, <2>2 DEF Create, GiveUp, input
  <2>3. CASE ~ RemoveAndFail /\ ~ GiveUp
    <3>1. pc = "create" /\ pc' = "blocks" /\ i' = i /\ plan' = plan
      BY <1>10, <2>3 DEF Create
    <3>2. i # Count(plan)
      <4>1. i = 0
        BY <1>1, <3>1 DEF RebuildInv, Counts
      <4>2. PICK a, b \in Nat : a = Len(plan.placed) /\ b = Len(plan.pages)
        BY <1>1, <3>1, PlanIs, PiecesLaid
      <4>3. a = Len(kept) /\ kept # <<>> /\ kept \in Seq(Copied)
        BY <1>1, <3>1, <4>2, PlanIs, Surviving DEF RebuildInv, Planned
      <4>4. a # 0
        BY <4>3
      <4>5. Count(plan) = a + b
        BY <4>2 DEF Count
      <4>6. a + b # 0
        <5>1. \A x, y \in Nat : x # 0 => x + y # 0
          OBVIOUS
        <5>2. a \in Nat /\ b \in Nat
          BY <4>2
        <5> QED BY <4>4, <5>1, <5>2
      <4> QED BY <4>1, <4>5, <4>6
    <3>3. OutputAt \in {"older", "absent"} /\ OutputAt' = "partial"
          /\ report.result = "none" /\ report'.result = "none"
      BY <3>1, <3>2 DEF Seen
    <3> QED BY <3>3
  <2> QED BY <2>1, <2>2, <2>3
<1>11. CASE WriteBlock
  <2>1. pc = "blocks" /\ i < Len(plan.placed) /\ target' = target /\ plan' = plan
    BY <1>11 DEF WriteBlock, input
  <2>2. CASE disk' = [disk EXCEPT ![target] = Absent] /\ pc' = "failed"
    <3>1. disk'[target] = Absent
      BY <1>2, <2>2
    <3> QED BY <1>4, <2>1, <2>2, <3>1
  <2>3. CASE i' = i + 1 /\ pc' = pc
    <3>1. PICK a, b \in Nat : a = Len(plan.placed) /\ b = Len(plan.pages)
      BY <1>1, <2>1, PlanIs, PiecesLaid
    <3>2. i \in Nat /\ Count(plan) = a + b /\ i < a
      BY <1>1, <2>1, <3>1 DEF Count, RebuildInv, Typed
    <3>3. i < Count(plan)
      BY <3>2
    <3> QED BY <1>6, <2>1, <2>3, <3>3
  <2> QED BY <1>11, <2>2, <2>3 DEF WriteBlock
<1>12. CASE WritePage
  <2>1. pc = "blocks" /\ i < Count(plan)
    BY <1>12 DEF WritePage, Count
  <2>2. CASE RemoveAndFail
    BY <1>9, <2>1, <2>2
  <2>3. CASE i' = i + 1 /\ pc' = pc /\ plan' = plan
    BY <1>6, <2>1, <2>3
  <2> QED BY <1>12, <2>2, <2>3 DEF WritePage
<1>13. CASE Finish
  <2>1. pc = "blocks" /\ i = Count(plan)
    BY <1>13 DEF Finish, Count
  <2>2. CASE RemoveAndFail
    BY <1>9, <2>1, <2>2
  <2>3. CASE pc' = "done" /\ i' = i /\ plan' = plan
    <3>1. OutputAt = "whole" /\ OutputAt' = "whole" /\ report.result = "none"
          /\ report'.result = "ok"
      BY <2>1, <2>3 DEF Seen
    <3> QED BY <3>1
  <2> QED BY <1>13, <2>2, <2>3 DEF Finish
<1> QED BY <1>3, <1>7, <1>8, <1>10, <1>11, <1>12, <1>13 DEF Next

\* ImplementsOutput, but for its end: every step that rebuild takes is one that
\* OutputFile allows, whichever read or write fails.  After an error nothing half-written
\* is at the target, and success is said of a whole file.
THEOREM RebuildIsOutput == Spec /\ Unique => Output!Safety
<1>1. ASSUME SiftInv, Init PROVE Output!Init
  <2>1. Seen /\ pc = "check"
    BY <1>1, SeenIs DEF Init
  <2> QED BY <2>1 DEF Seen, Output!Init
<1>2. SiftInv => Seen
  BY SeenIs
<1>3. SiftInv /\ SiftInv' /\ Seen /\ Seen' /\ [Next]_vars => [Output!Next]_(Output!vars)
  BY SeenSteps
<1> QED BY <1>1, <1>2, <1>3, RebuildSifts, PTL DEF Spec, Output!Safety

=============================================================================
