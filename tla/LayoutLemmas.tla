---------------------------- MODULE LayoutLemmas -----------------------------
(***************************************************************************)
(* What rebuild and convert rely on when they lay a file out: testing whole*)
(* pages against the maps is testing every byte, place_aligned ends, spans *)
(* and the pages of a tree lie one behind the other clear of the maps, and *)
(* a search in a tree that build_tree made finds what was put in.          *)
(***************************************************************************)
EXTENDS BTree, BasicLemmas

-----------------------------------------------------------------------------
(* Map pages: testing whole pages, as the code does, is testing every byte.  *)

\* The page boundary at or before an offset.
LEMMA PageOf ==
  ASSUME NEW x \in Nat
  PROVE  /\ x \div PAGE \in Nat
         /\ (x \div PAGE) * PAGE \in Nat
         /\ (x \div PAGE) * PAGE <= x
         /\ x < (x \div PAGE) * PAGE + PAGE
<1>1. PAGE \in Nat \ {0}
  BY LayoutAssumption
<1>2. x \div PAGE \in Nat /\ x % PAGE \in 0 .. PAGE - 1
      /\ x = (x \div PAGE) * PAGE + (x % PAGE)
  BY <1>1, DivMod
<1>3. (x \div PAGE) * PAGE \in Nat
  BY <1>1, <1>2, MulMono
<1> QED BY <1>1, <1>2, <1>3

\* The maps start and recur on page boundaries.
LEMMA MapsOnPages ==
  \E f, e \in Nat : AMAP_FIRST = f * PAGE /\ AMAP_EVERY = e * PAGE
<1>1. ASSUME NEW x \in Nat, x % PAGE = 0
      PROVE  \E n \in Nat : x = n * PAGE
  <2>1. PAGE \in Nat \ {0}
    BY LayoutAssumption
  <2>2. x \div PAGE \in Nat /\ x = (x \div PAGE) * PAGE + (x % PAGE)
    BY <2>1, DivMod
  <2>3. (x \div PAGE) * PAGE \in Nat
    BY <2>1, <2>2, MulMono
  <2> QED BY <1>1, <2>2, <2>3
<1> QED BY <1>1, LayoutAssumption

\* A byte of an allocation map is on a reserved page.
LEMMA MapByteOnReservedPage ==
  ASSUME NEW y \in Nat, MapByte(y)
  PROVE  Reserved((y \div PAGE) * PAGE)
<1> DEFINE q == y \div PAGE
<1>1. PAGE \in Nat \ {0} /\ AMAP_EVERY \in Nat \ {0} /\ AMAP_FIRST \in Nat
      /\ MAP_SLOTS \in Nat /\ MAP_SLOTS * PAGE < AMAP_EVERY
  BY LayoutAssumption
<1>2. q \in Nat /\ q * PAGE \in Nat /\ q * PAGE <= y /\ y < q * PAGE + PAGE
  BY PageOf
<1> HIDE DEF q
<1>3. PICK f, e \in Nat : AMAP_FIRST = f * PAGE /\ AMAP_EVERY = e * PAGE
  BY MapsOnPages
<1>4. PICK k \in 0 .. y : /\ AMAP_FIRST + k * AMAP_EVERY <= y
                        /\ y < AMAP_FIRST + k * AMAP_EVERY + MAP_SLOTS * PAGE
  BY DEF MapByte
<1> DEFINE g == f + k * e
<1>5. k \in Nat /\ k * e \in Nat /\ g \in Nat /\ k * AMAP_EVERY \in Nat
      /\ MAP_SLOTS * PAGE \in Nat
  <2>1. k \in Nat
    BY <1>4
  <2> QED BY <2>1, <1>1, <1>3, MulMono
<1>6. g * PAGE = AMAP_FIRST + k * AMAP_EVERY
  <2>1. k * (e * PAGE) = (k * e) * PAGE
    BY <1>1, <1>3, <1>5
  <2>2. (f + k * e) * PAGE = f * PAGE + (k * e) * PAGE
    BY <1>1, <1>3, <1>5
  <2> QED BY <1>3, <2>1, <2>2
<1> HIDE DEF g
<1>7. g <= q
  <2>1. ASSUME q < g PROVE FALSE
    <3>1. (q + 1) * PAGE <= g * PAGE
      BY <1>1, <1>2, <1>5, <2>1, MulMono
    <3>2. (q + 1) * PAGE = q * PAGE + PAGE
      BY <1>1, <1>2
    <3>3. g * PAGE <= y
      BY <1>4, <1>6
    <3> QED BY <1>1, <1>2, <1>5, <1>6, <3>1, <3>2, <3>3
  <2> QED BY <2>1, <1>2, <1>5
<1>8. g * PAGE \in Nat /\ g * PAGE <= q * PAGE
  BY <1>1, <1>2, <1>5, <1>7, MulMono
<1> DEFINE m == q * PAGE - g * PAGE
<1>9. m \in Nat /\ m < MAP_SLOTS * PAGE /\ m \in 0 .. AMAP_EVERY - 1
  BY <1>1, <1>2, <1>4, <1>5, <1>6, <1>8
<1>10. q * PAGE - AMAP_FIRST = k * AMAP_EVERY + m
  BY <1>1, <1>2, <1>5, <1>6, <1>8
<1>11. q * PAGE - AMAP_FIRST \in Nat
  BY <1>5, <1>9, <1>10
<1> HIDE DEF m
<1>12. (q * PAGE - AMAP_FIRST) % AMAP_EVERY = m
  BY <1>1, <1>5, <1>9, <1>10, <1>11, DivUnique
<1>13. q * PAGE >= AMAP_FIRST
  BY <1>1, <1>2, <1>11
<1> QED BY <1>9, <1>12, <1>13 DEF Reserved, q

\* All the bytes of a reserved page are bytes of allocation maps.
LEMMA ReservedPageIsMapBytes ==
  ASSUME NEW y \in Nat, Reserved((y \div PAGE) * PAGE)
  PROVE  MapByte(y)
<1> DEFINE q == y \div PAGE
           k == (q * PAGE - AMAP_FIRST) \div AMAP_EVERY
           m == (q * PAGE - AMAP_FIRST) % AMAP_EVERY
<1>1. PAGE \in Nat \ {0} /\ AMAP_EVERY \in Nat \ {0} /\ AMAP_FIRST \in Nat
      /\ MAP_SLOTS \in Nat
  BY LayoutAssumption
<1>2. q \in Nat /\ q * PAGE \in Nat /\ q * PAGE <= y /\ y < q * PAGE + PAGE
  BY PageOf
<1>3. q * PAGE >= AMAP_FIRST /\ m < MAP_SLOTS * PAGE
  BY DEF Reserved
<1>4. k \in Nat /\ m \in Nat /\ q * PAGE - AMAP_FIRST = k * AMAP_EVERY + m
  <2>1. q * PAGE - AMAP_FIRST \in Nat
    BY <1>1, <1>2, <1>3
  <2>2. k \in Nat /\ m \in 0 .. AMAP_EVERY - 1
        /\ q * PAGE - AMAP_FIRST = k * AMAP_EVERY + m
    BY <1>1, <2>1, DivMod
  <2> QED BY <1>1, <2>2
<1> HIDE DEF q, k, m
<1>5. PICK f, e \in Nat : AMAP_FIRST = f * PAGE /\ AMAP_EVERY = e * PAGE
  BY MapsOnPages
<1> DEFINE g == f + k * e
<1>6. k * e \in Nat /\ g \in Nat /\ g * PAGE = AMAP_FIRST + k * AMAP_EVERY
      /\ k * AMAP_EVERY \in Nat /\ g * PAGE \in Nat
  <2>1. k * e \in Nat /\ k * AMAP_EVERY \in Nat
    BY <1>1, <1>4, <1>5, MulMono
  <2>2. k * (e * PAGE) = (k * e) * PAGE
    BY <1>1, <1>4, <1>5, <2>1
  <2>3. (f + k * e) * PAGE = f * PAGE + (k * e) * PAGE
    BY <1>1, <1>5, <2>1
  <2>4. g \in Nat
    BY <2>1
  <2>5. g * PAGE = AMAP_FIRST + k * AMAP_EVERY
    BY <1>5, <2>2, <2>3
  <2> QED BY <1>1, <2>1, <2>4, <2>5, MulMono
<1> HIDE DEF g
<1>7. q * PAGE = g * PAGE + m
  BY <1>1, <1>2, <1>4, <1>6
\* m is a whole number of pages, so the page it starts ends before the slots do.
<1>8. q * PAGE + PAGE <= g * PAGE + MAP_SLOTS * PAGE
  <2>1. g <= q
    <3>1. ASSUME q < g PROVE FALSE
      <4>1. (q + 1) * PAGE <= g * PAGE
        BY <1>1, <1>2, <1>6, <3>1, MulMono
      <4>2. (q + 1) * PAGE = q * PAGE + PAGE
        BY <1>1, <1>2
      <4> QED BY <1>1, <1>2, <1>4, <1>6, <1>7, <4>1, <4>2
    <3> QED BY <3>1, <1>2, <1>6
  <2>2. PICK h \in Nat : q = g + h
    <3>1. q - g \in Nat /\ q = g + (q - g)
      BY <1>2, <1>6, <2>1
    <3> QED BY <3>1
  <2>3. q * PAGE = g * PAGE + h * PAGE /\ h * PAGE \in Nat
    BY <1>1, <1>6, <2>2, MulMono
  <2>4. h * PAGE = m
    BY <1>4, <1>6, <1>7, <2>3
  <2>5. ASSUME MAP_SLOTS <= h PROVE FALSE
    <3>1. MAP_SLOTS * PAGE <= h * PAGE /\ MAP_SLOTS * PAGE \in Nat
      BY <1>1, <2>5, MulMono
    <3> QED BY <1>3, <1>4, <2>4, <3>1
  <2>6. (h + 1) * PAGE <= MAP_SLOTS * PAGE
    <3>1. h + 1 <= MAP_SLOTS
      BY <1>1, <2>5
    <3> QED BY <1>1, <3>1, MulMono
  <2>7. (h + 1) * PAGE = h * PAGE + PAGE
    BY <1>1
  <2>8. MAP_SLOTS * PAGE \in Nat
    BY <1>1, MulMono
  <2> QED BY <1>1, <1>6, <2>3, <2>6, <2>7, <2>8
<1>9. MAP_SLOTS * PAGE \in Nat
  BY <1>1, MulMono
<1>10. AMAP_FIRST + k * AMAP_EVERY <= y
       /\ y < AMAP_FIRST + k * AMAP_EVERY + MAP_SLOTS * PAGE
  BY <1>1, <1>2, <1>4, <1>6, <1>7, <1>8, <1>9
<1>11. k <= y
  <2>1. k * 1 <= k * AMAP_EVERY
    <3>1. 1 * k <= AMAP_EVERY * k
      BY <1>1, <1>4, MulMono
    <3> QED BY <1>1, <1>4, <3>1
  <2> QED BY <1>1, <1>4, <1>6, <1>10, <2>1
<1> QED BY <1>4, <1>10, <1>11 DEF MapByte

\* A span has no clash exactly when none of its bytes is a map's.
LEMMA NoClashIffClear ==
  ASSUME NEW a \in Nat, NEW len \in Nat \ {0}
  PROVE  Clashes(a, len) = {} <=> \A y \in a .. a + len - 1 : ~ MapByte(y)
<1>1. PAGE \in Nat \ {0} /\ a + len - 1 \in Nat
  BY LayoutAssumption
<1>2. ASSUME Clashes(a, len) = {}, NEW y \in a .. a + len - 1, MapByte(y)
      PROVE  FALSE
  <2>1. y \in Nat /\ a <= y /\ y <= a + len - 1
    BY <1>1, <1>2
  <2>2. Reserved((y \div PAGE) * PAGE)
    BY <1>2, <2>1, MapByteOnReservedPage
  <2>3. a \div PAGE <= y \div PAGE /\ y \div PAGE <= (a + len - 1) \div PAGE
    BY <1>1, <2>1, DivMono
  <2>4. y \div PAGE \in Nat /\ a \div PAGE \in Nat
        /\ (a + len - 1) \div PAGE \in Nat
    BY <1>1, <2>1, PageOf
  <2>5. y \div PAGE \in (a \div PAGE) .. ((a + len - 1) \div PAGE)
    BY <2>3, <2>4
  <2>6. (y \div PAGE) * PAGE \in Clashes(a, len)
    BY <2>2, <2>5 DEF Clashes
  <2> QED BY <1>2, <2>6
<1>3. ASSUME \A y \in a .. a + len - 1 : ~ MapByte(y), NEW p \in Clashes(a, len)
      PROVE  FALSE
  <2>1. PICK q \in (a \div PAGE) .. ((a + len - 1) \div PAGE) :
          p = q * PAGE /\ Reserved(p)
    BY <1>3 DEF Clashes
  <2>2. a \div PAGE \in Nat /\ (a + len - 1) \div PAGE \in Nat
    BY <1>1, PageOf
  <2>3. q \in Nat /\ a \div PAGE <= q /\ q <= (a + len - 1) \div PAGE
    BY <2>1, <2>2
  <2>4. CASE q = a \div PAGE
    <3>1. MapByte(a)
      BY <2>1, <2>4, ReservedPageIsMapBytes
    <3>2. a \in a .. a + len - 1
      BY <1>1
    <3> QED BY <1>3, <3>1, <3>2
  <2>5. CASE q # a \div PAGE
    <3>1. q * PAGE \in Nat /\ (q * PAGE) \div PAGE = q
      BY <1>1, <2>3, MulMono, MultipleOf
    <3>2. MapByte(q * PAGE)
      BY <2>1, <3>1, ReservedPageIsMapBytes
    <3>3. a <= q * PAGE
      <4>1. (a \div PAGE + 1) * PAGE <= q * PAGE
        BY <1>1, <2>2, <2>3, <2>5, MulMono
      <4>2. (a \div PAGE + 1) * PAGE = (a \div PAGE) * PAGE + PAGE
        BY <1>1, <2>2
      <4>3. a < (a \div PAGE) * PAGE + PAGE /\ (a \div PAGE) * PAGE \in Nat
        BY PageOf
      <4> QED BY <1>1, <3>1, <4>1, <4>2, <4>3
    <3>4. q * PAGE <= a + len - 1
      <4> DEFINE l == (a + len - 1) \div PAGE
      <4>1. l \in Nat /\ q <= l /\ l * PAGE \in Nat /\ l * PAGE <= a + len - 1
        BY <1>1, <2>2, <2>3, PageOf
      <4> HIDE DEF l
      <4>2. q * PAGE <= l * PAGE
        BY <1>1, <2>3, <4>1, MulMono
      <4> QED BY <1>1, <3>1, <4>1, <4>2
    <3>5. q * PAGE \in a .. a + len - 1
      BY <1>1, <3>1, <3>3, <3>4
    <3> QED BY <1>3, <3>2, <3>5
  <2> QED BY <2>4, <2>5
<1> QED BY <1>2, <1>3

\* Between a candidate that clashes and the offset the loop restarts from,
\* every span of that length still runs through the same map page.
LEMMA SkippedSpansClash ==
  ASSUME NEW a \in Nat, NEW len \in Nat \ {0}, NEW p \in Clashes(a, len),
         NEW x \in Nat, a <= x, x < p + PAGE
  PROVE  /\ p \in Nat /\ a < p + PAGE
         /\ \E y \in x .. x + len - 1 : MapByte(y)
<1>1. PAGE \in Nat \ {0} /\ a + len - 1 \in Nat
  BY LayoutAssumption
<1>2. PICK q \in (a \div PAGE) .. ((a + len - 1) \div PAGE) :
        p = q * PAGE /\ Reserved(p)
  BY DEF Clashes
<1>3. a \div PAGE \in Nat /\ (a + len - 1) \div PAGE \in Nat
  BY <1>1, PageOf
<1>4. q \in Nat /\ a \div PAGE <= q /\ q <= (a + len - 1) \div PAGE
  BY <1>2, <1>3
<1>5. p \in Nat /\ p \div PAGE = q
  BY <1>1, <1>2, <1>4, MulMono, MultipleOf
<1>6. p <= a + len - 1
  <2> DEFINE l == (a + len - 1) \div PAGE
  <2>1. l \in Nat /\ q <= l /\ l * PAGE \in Nat /\ l * PAGE <= a + len - 1
    BY <1>1, <1>3, <1>4, PageOf
  <2> HIDE DEF l
  <2>2. q * PAGE <= l * PAGE
    BY <1>1, <1>4, <2>1, MulMono
  <2> QED BY <1>1, <1>2, <1>5, <2>1, <2>2
<1>7. ASSUME x <= p PROVE \E y \in x .. x + len - 1 : MapByte(y)
  <2>1. MapByte(p)
    BY <1>2, <1>5, ReservedPageIsMapBytes
  <2>2. p \in x .. x + len - 1
    BY <1>5, <1>6, <1>7
  <2> QED BY <2>1, <2>2
<1>8. ASSUME p < x PROVE \E y \in x .. x + len - 1 : MapByte(y)
  <2>1. x \div PAGE = q
    <3>1. x - p \in 0 .. PAGE - 1 /\ x = q * PAGE + (x - p)
      BY <1>1, <1>2, <1>5, <1>8
    <3> QED BY <1>1, <1>4, <3>1, DivUnique
  <2>2. MapByte(x)
    BY <1>2, <2>1, ReservedPageIsMapBytes
  <2>3. x \in x .. x + len - 1
    OBVIOUS
  <2> QED BY <2>2, <2>3
<1>9. x <= p \/ p < x
  BY <1>5
<1>10. a < p + PAGE
  BY <1>1, <1>5
<1> QED BY <1>5, <1>7, <1>8, <1>9, <1>10

-----------------------------------------------------------------------------
(* Placing.                                                                 *)

Room == AMAP_EVERY - MAP_SLOTS * PAGE

\* An alignment that page boundaries meet.
Aligning(align) == align \in Nat \ {0} /\ PAGE % align = 0

\* Pages and blocks are aligned to what divides a page.
LEMMA Alignments == Aligning(PAGE) /\ Aligning(BLOCK_ALIGN)
<1>1. PAGE \in Nat \ {0} /\ BLOCK_ALIGN \in Nat \ {0} /\ PAGE % BLOCK_ALIGN = 0
  BY LayoutAssumption
<1>2. (1 * PAGE) % PAGE = 0
  BY <1>1, MultipleOf
<1> QED BY <1>1, <1>2 DEF Aligning

\* Moving past a clashing page skips no free place.
LEMMA Skipped ==
  ASSUME NEW a \in Nat, NEW len \in Nat \ {0}, NEW p \in Clashes(a, len),
         NEW x \in Nat, a <= x, x < p + PAGE
  PROVE  Clashes(x, len) # {}
<1>1. \E y \in x .. x + len - 1 : MapByte(y)
  BY SkippedSpansClash
<1> QED BY <1>1, NoClashIffClear

\* The clashes of a span are page offsets behind its start's page.
LEMMA ClashTyped ==
  ASSUME NEW a \in Nat, NEW len \in Nat \ {0}
  PROVE  /\ Clashes(a, len) \subseteq Nat
         /\ \A p \in Clashes(a, len) : a < p + PAGE
<1>2. ASSUME NEW p \in Clashes(a, len) PROVE p \in Nat /\ a < p + PAGE
  <2>1. PAGE \in Nat \ {0} /\ a + len - 1 \in Nat
    BY LayoutAssumption
  <2>2. PICK q \in (a \div PAGE) .. ((a + len - 1) \div PAGE) : p = q * PAGE
    BY DEF Clashes
  <2>3. a \div PAGE \in Nat /\ (a + len - 1) \div PAGE \in Nat
        /\ a = (a \div PAGE) * PAGE + (a % PAGE) /\ a % PAGE \in 0 .. PAGE - 1
    BY <2>1, DivMod
  <2>4. q \in Nat /\ a \div PAGE <= q
    BY <2>2, <2>3
  <2>5. (a \div PAGE) * PAGE \in Nat /\ q * PAGE \in Nat /\ (a \div PAGE) * PAGE <= q * PAGE
    BY <2>1, <2>3, <2>4, MulMono
  <2> QED BY <2>1, <2>2, <2>3, <2>5
<1> QED BY <1>2

-----------------------------------------------------------------------------
\* A span that fits between the maps of a section finds room in every section.
Fits(len) == len \in Nat \ {0} /\ len <= Room

\* The offsets that would do.
Free(x, len, align) == {y \in Nat : x <= y /\ y % align = 0 /\ Clashes(y, len) = {}}

\* Past any map pages there is a free place.
LEMMA RoomAhead ==
  ASSUME NEW x \in Nat, NEW len, Fits(len), NEW align, Aligning(align)
  PROVE  Free(x, len, align) # {}
<1>1. /\ PAGE \in Nat \ {0} /\ AMAP_EVERY \in Nat \ {0} /\ AMAP_FIRST \in Nat
      /\ MAP_SLOTS \in Nat /\ MAP_SLOTS * PAGE \in Nat /\ MAP_SLOTS * PAGE < AMAP_EVERY
  BY LayoutAssumption, MulMono
<1>2. PICK E, M, F, S \in Nat : /\ E = AMAP_EVERY /\ M = MAP_SLOTS * PAGE /\ F = AMAP_FIRST
                                /\ S = x * AMAP_EVERY
  BY <1>1, MulMono
<1>3. x <= S
  <2>1. 1 * x <= E * x
    BY <1>1, <1>2, MulMono
  <2> QED BY <1>1, <1>2, <2>1
<1> DEFINE y == F + S + M
<1>4. y \in Nat /\ x <= y
  BY <1>2, <1>3
<1>5. ASSUME NEW z \in y .. y + len - 1, MapByte(z) PROVE FALSE
  <2>1. PICK k \in 0 .. z : F + k * E <= z /\ z < F + k * E + M
    BY <1>1, <1>2, <1>5 DEF MapByte
  <2>2. k \in Nat /\ k * E \in Nat /\ z \in Int /\ y <= z /\ z <= y + len - 1 /\ len + M <= E
    BY <1>1, <1>2, <1>4, <2>1, MulMono DEF Fits, Room
  <2>3. CASE k <= x
    <3>1. k * E <= x * E
      BY <1>1, <1>2, <2>2, <2>3, MulMono
    <3> QED BY <1>2, <2>1, <2>2, <3>1
  <2>4. CASE x + 1 <= k
    <3>1. (x + 1) * E <= k * E
      BY <1>1, <1>2, <2>2, <2>4, MulMono
    <3>2. (x + 1) * E = S + E
      BY <1>1, <1>2
    <3> QED BY <1>2, <2>1, <2>2, <3>1, <3>2 DEF Fits
  <2> QED BY <2>2, <2>3, <2>4
<1>6. Clashes(y, len) = {}
  <2> HIDE DEF y
  <2> QED BY <1>4, <1>5, NoClashIffClear DEF Fits
<1>7. y % align = 0
  <2>1. PICK f, e \in Nat : AMAP_FIRST = f * PAGE /\ AMAP_EVERY = e * PAGE
    BY LayoutAssumption, MapsOnPages
  <2>2. PICK c \in Nat : PAGE = c * align
    <3>1. PAGE \div align \in Nat /\ PAGE = (PAGE \div align) * align + (PAGE % align)
      BY <1>1, DivMod DEF Aligning
    <3>2. (PAGE \div align) * align \in Nat
      BY <3>1, MulMono DEF Aligning
    <3>3. PAGE % align = 0
      BY DEF Aligning
    <3>4. PAGE = (PAGE \div align) * align
      BY <3>1, <3>2, <3>3
    <3> QED BY <3>1, <3>4
  <2>3. PICK u \in Nat : u = x * e
    BY MulMono
  <2>4. S = u * PAGE
    BY <1>1, <1>2, <2>1, <2>3
  <2>5. y = (f + u + MAP_SLOTS) * PAGE
    BY <1>1, <1>2, <2>1, <2>4
  <2>6. PICK g \in Nat : g = f + u + MAP_SLOTS
    BY <1>1
  <2>7. PICK h \in Nat : h = g * c
    BY MulMono
  <2>8. y = h * align
    BY <2>2, <2>5, <2>6, <2>7 DEF Aligning
  <2> HIDE DEF y
  <2> QED BY <2>8, MultipleOf DEF Aligning
<1>8. y \in Free(x, len, align)
  BY <1>4, <1>6, <1>7 DEF Free
<1> QED BY <1>8

\* Where the loop goes from an offset that does not do.
Onward(a, len, align) ==
  AlignUp((CHOOSE p \in Clashes(a, len) : \A q \in Clashes(a, len) : p <= q) + PAGE, align)

\* One turn of place_aligned's loop.
LEMMA OnwardIs ==
  ASSUME NEW a \in Nat, NEW len \in Nat \ {0}, NEW align \in Nat \ {0}, Clashes(a, len) # {}
  PROVE  /\ Onward(a, len, align) \in Nat /\ a < Onward(a, len, align)
         /\ Onward(a, len, align) % align = 0
         /\ Free(Onward(a, len, align), len, align) = Free(a, len, align)
<1>1. PICK p : p = CHOOSE n \in Clashes(a, len) : \A q \in Clashes(a, len) : n <= q
  OBVIOUS
<1>2. Clashes(a, len) \subseteq Nat
  BY ClashTyped
<1>3. p \in Clashes(a, len)
  <2>1. \E n \in Clashes(a, len) : \A q \in Clashes(a, len) : n <= q
    BY <1>2, Least
  <2> QED BY <1>1, <2>1
<1>4. p \in Nat /\ a < p + PAGE /\ PAGE \in Nat
  BY <1>2, <1>3, ClashTyped, LayoutAssumption
<1>5. PICK b : b = Onward(a, len, align) /\ b = AlignUp(p + PAGE, align)
  BY <1>1 DEF Onward
<1>6. /\ b \in Nat /\ p + PAGE <= b /\ b % align = 0
      /\ \A y \in Nat : p + PAGE <= y /\ y % align = 0 => b <= y
  <2>1. p + PAGE \in Nat
    BY <1>4
  <2> QED BY <1>5, <2>1, AlignUpIsLeast
<1>7. a < b
  BY <1>4, <1>6
<1>8. ASSUME NEW y \in Free(a, len, align) PROVE b <= y
  <2>1. y \in Nat /\ a <= y /\ y % align = 0 /\ Clashes(y, len) = {}
    BY <1>8 DEF Free
  <2>2. ~ (y < p + PAGE)
    BY <1>3, <2>1, Skipped
  <2> QED BY <1>4, <1>6, <2>1, <2>2
<1>9. Free(b, len, align) = Free(a, len, align)
  BY <1>6, <1>7, <1>8 DEF Free
<1> QED BY <1>5, <1>6, <1>7, <1>9

\* The least offset that will do.
Nearest(x, len, align) ==
  CHOOSE y \in Free(x, len, align) : \A z \in Free(x, len, align) : y <= z

\* The nearest free place exists.
LEMMA NearestIs ==
  ASSUME NEW x \in Nat, NEW len, Fits(len), NEW align, Aligning(align)
  PROVE  /\ Nearest(x, len, align) \in Free(x, len, align)
         /\ \A z \in Free(x, len, align) : Nearest(x, len, align) <= z
<1>1. \E n \in Free(x, len, align) : \A z \in Free(x, len, align) : n <= z
  <2>1. Free(x, len, align) \subseteq Nat
    BY DEF Free
  <2> QED BY <2>1, RoomAhead, Least
<1> QED BY <1>1 DEF Nearest

\* place_aligned ends, and at the first offset that will do.
LEMMA PlaceAlignedIs ==
  ASSUME NEW x \in Nat, NEW len, Fits(len), NEW align, Aligning(align)
  PROVE  /\ PlaceAligned(x, len, align) \in Nat
         /\ x <= PlaceAligned(x, len, align)
         /\ Clashes(PlaceAligned(x, len, align), len) = {}
<1> DEFINE Rec(f) == f = [a \in Nat |-> IF Clashes(a, len) = {} THEN a
                                        ELSE f[Onward(a, len, align)]]
           try == CHOOSE f : Rec(f)
           N(a) == Nearest(a, len, align)
           g == [a \in Nat |-> IF Clashes(a, len) = {} THEN a ELSE N(a)]
<1>1. len \in Nat \ {0} /\ align \in Nat \ {0}
  BY DEF Fits, Aligning
<1>2. Rec(g)
  <2>1. ASSUME NEW a \in Nat, Clashes(a, len) # {} PROVE N(a) = g[Onward(a, len, align)]
    <3>1. PICK b : b = Onward(a, len, align)
      OBVIOUS
    <3>2. b \in Nat /\ b % align = 0 /\ Free(b, len, align) = Free(a, len, align)
      BY <1>1, <2>1, <3>1, OnwardIs
    <3>3. N(b) = N(a)
      BY <3>2 DEF Nearest
    <3>4. CASE Clashes(b, len) = {}
      <4>1. b \in Free(b, len, align)
        BY <3>2, <3>4 DEF Free
      <4>2. N(b) <= b /\ N(b) \in Nat /\ b <= N(b)
        BY <3>2, <4>1, NearestIs DEF Free
      <4>3. N(b) = b
        BY <3>2, <4>2
      <4> QED BY <3>1, <3>2, <3>3, <3>4, <4>3
    <3>5. CASE Clashes(b, len) # {}
      BY <3>1, <3>2, <3>3, <3>5
    <3> QED BY <3>4, <3>5
  <2> QED BY <2>1
<1>3. Rec(try)
  BY <1>2
<1>4. PlaceAligned(x, len, align) = try[AlignUp(x, align)]
  BY DEF PlaceAligned, Onward
<1> HIDE DEF try, g
<1> DEFINE P == {n \in Nat : \A a \in Nat : a % align = 0 /\ N(a) - a <= n => try[a] = N(a)}
<1>5. ASSUME NEW a \in Nat, a % align = 0
      PROVE  /\ N(a) \in Nat /\ a <= N(a)
             /\ Clashes(a, len) = {} => N(a) = a /\ try[a] = a
             /\ Clashes(a, len) # {} => /\ Onward(a, len, align) \in Nat
                                        /\ Onward(a, len, align) % align = 0
                                        /\ a < Onward(a, len, align)
                                        /\ N(Onward(a, len, align)) = N(a)
                                        /\ try[a] = try[Onward(a, len, align)]
                                        /\ N(a) # a
  <2>1. N(a) \in Nat /\ a <= N(a) /\ Clashes(N(a), len) = {}
    BY NearestIs DEF Free
  <2>2. ASSUME Clashes(a, len) = {} PROVE N(a) = a /\ try[a] = a
    <3>1. a \in Free(a, len, align)
      BY <1>5, <2>2 DEF Free
    <3>2. N(a) <= a
      BY <3>1, NearestIs
    <3>3. try[a] = a
      BY <1>3, <2>2
    <3> QED BY <2>1, <3>2, <3>3
  <2>3. ASSUME Clashes(a, len) # {}
        PROVE  /\ Onward(a, len, align) \in Nat /\ Onward(a, len, align) % align = 0
               /\ a < Onward(a, len, align)
               /\ N(Onward(a, len, align)) = N(a)
               /\ try[a] = try[Onward(a, len, align)]
               /\ N(a) # a
    <3>1. /\ Onward(a, len, align) \in Nat /\ Onward(a, len, align) % align = 0
          /\ a < Onward(a, len, align)
          /\ Free(Onward(a, len, align), len, align) = Free(a, len, align)
      BY <1>1, <2>3, OnwardIs
    <3>2. N(Onward(a, len, align)) = N(a)
      BY <3>1 DEF Nearest
    <3>3. try[a] = try[Onward(a, len, align)]
      BY <1>3, <2>3
    <3> QED BY <2>1, <2>3, <3>1, <3>2, <3>3
  <2> QED BY <2>1, <2>2, <2>3
<1> HIDE DEF N, Rec
<1>6. 0 \in P
  <2> SUFFICES ASSUME NEW a \in Nat, a % align = 0, N(a) - a <= 0 PROVE try[a] = N(a)
    OBVIOUS
  <2>1. N(a) = a
    BY <1>5
  <2> QED BY <1>5, <2>1
<1>7. ASSUME NEW n \in Nat, n \in P PROVE n + 1 \in P
  <2> SUFFICES ASSUME NEW a \in Nat, a % align = 0, N(a) - a <= n + 1 PROVE try[a] = N(a)
    OBVIOUS
  <2>1. CASE Clashes(a, len) = {}
    BY <1>5, <2>1
  <2>2. CASE Clashes(a, len) # {}
    <3>1. PICK b : b = Onward(a, len, align)
      OBVIOUS
    <3>2. /\ b \in Nat /\ b % align = 0 /\ a < b /\ N(b) = N(a) /\ try[a] = try[b]
          /\ N(a) \in Nat
      BY <1>5, <2>2, <3>1
    <3>3. N(b) - b <= n
      BY <3>2
    <3> QED BY <1>7, <3>2, <3>3
  <2> QED BY <2>1, <2>2
<1>8. Nat \subseteq P
  <2> HIDE DEF P
  <2> QED BY <1>6, <1>7, Induct
<1>9. PICK a : a = AlignUp(x, align)
  OBVIOUS
<1>10. a \in Nat /\ x <= a /\ a % align = 0
  BY <1>1, <1>9, AlignUpIsLeast
<1>11. N(a) \in Nat /\ a <= N(a)
  BY <1>5, <1>10
<1>12. try[a] = N(a)
  <2>1. N(a) - a \in Nat /\ N(a) - a <= N(a) - a
    BY <1>10, <1>11
  <2> QED BY <1>8, <1>10, <2>1
<1>13. Clashes(N(a), len) = {}
  BY <1>10, NearestIs DEF N, Free
<1> QED BY <1>4, <1>9, <1>10, <1>11, <1>12, <1>13

-----------------------------------------------------------------------------
\* Spans at these offsets, from x on: clear of the maps, none reaching into a later one.
Laid(at, lens, x) ==
  /\ at \in [1 .. Len(lens) -> Nat]
  /\ \A k \in 1 .. Len(lens) : x <= at[k] /\ Clashes(at[k], lens[k]) = {}
  /\ \A j, k \in 1 .. Len(lens) : j < k => at[j] + lens[j] <= at[k]

\* PlaceAll lays spans out like that.
LEMMA PlaceAllIs ==
  ASSUME NEW x \in Nat, NEW lens \in Seq(Nat), \A k \in 1 .. Len(lens) : Fits(lens[k]),
         NEW align, Aligning(align)
  PROVE  Laid(PlaceAll(x, lens, align), lens, x)
<1> DEFINE n == Len(lens)
           At(k, c) == PlaceAligned(c, lens[k], align)
           place == [k \in 1 .. n |-> [c \in Nat |-> At(k, c) + lens[k]]]
           Rec(u) == u = [k \in 0 .. n |-> IF k = 0 THEN x ELSE At(k, u[k - 1]) + lens[k]]
           next == CHOOSE u : Rec(u)
           at == PlaceAll(x, lens, align)
<1>1. n \in Nat /\ \A k \in 1 .. n : lens[k] \in Nat
  OBVIOUS
<1>2. ASSUME NEW k \in 1 .. n, NEW c \in Nat
      PROVE  At(k, c) \in Nat /\ c <= At(k, c) /\ Clashes(At(k, c), lens[k]) = {}
  BY PlaceAlignedIs
<1> HIDE DEF At
<1>3. place \in [1 .. n -> [Nat -> Nat]]
  <2>1. ASSUME NEW k \in 1 .. n, NEW c \in Nat PROVE At(k, c) + lens[k] \in Nat
    <3>1. lens[k] \in Nat
      BY <1>1
    <3>2. At(k, c) \in Nat
      BY <1>2
    <3> QED BY <3>1, <3>2
  <2> QED BY <2>1
<1>4. PICK u : Recurs(u, n, Nat, x, place)
  <2> HIDE DEF n, place
  <2> QED BY <1>1, <1>3, Recursion
<1>5. Rec(u)
  <2>1. u \in [0 .. n -> Nat] /\ u[0] = x
    BY <1>4 DEF Recurs
  <2>2. ASSUME NEW k \in 1 .. n PROVE u[k] = At(k, u[k - 1]) + lens[k]
    <3>1. k - 1 \in 0 .. n
      BY <1>1
    <3>2. u[k - 1] \in Nat
      BY <2>1, <3>1
    <3>3. u[k] = place[k][u[k - 1]]
      BY <1>4 DEF Recurs
    <3> QED BY <3>2, <3>3
  <2>3. \A k \in 0 .. n : k = 0 \/ k \in 1 .. n
    BY <1>1
  <2> HIDE DEF n, place
  <2> QED BY <2>1, <2>2, <2>3
<1>6. Rec(next)
  BY <1>5
<1>7. at = [k \in 1 .. n |-> At(k, next[k - 1])]
  BY DEF PlaceAll, At
<1> HIDE DEF next, at
<1> DEFINE P == {k \in Nat : k <= n =>
                   /\ next[k] \in Nat /\ x <= next[k]
                   /\ \A j \in 1 .. n : j <= k => at[j] \in Nat /\ at[j] + lens[j] <= next[k]}
<1>8. 0 \in P
  <2>1. 0 \in 0 .. n
    BY <1>1
  <2>2. next[0] = x
    BY <1>6, <2>1
  <2> QED BY <2>2
<1>9. ASSUME NEW k \in Nat, k \in P PROVE k + 1 \in P
  <2> SUFFICES ASSUME k + 1 <= n
               PROVE  /\ next[k + 1] \in Nat /\ x <= next[k + 1]
                      /\ \A j \in 1 .. n : j <= k + 1 => at[j] \in Nat /\ at[j] + lens[j] <= next[k + 1]
    OBVIOUS
  <2>1. k + 1 \in 0 .. n /\ k + 1 \in 1 .. n /\ k + 1 # 0 /\ (k + 1) - 1 = k
    BY <1>1
  <2>2. /\ next[k] \in Nat /\ x <= next[k]
        /\ \A j \in 1 .. n : j <= k => at[j] \in Nat /\ at[j] + lens[j] <= next[k]
    BY <1>1, <1>9
  <2>3. next[k + 1] = At(k + 1, next[k]) + lens[k + 1]
    BY <1>6, <2>1
  <2>4. at[k + 1] = At(k + 1, next[k])
    BY <1>7, <2>1
  <2>5. at[k + 1] \in Nat /\ next[k] <= at[k + 1] /\ lens[k + 1] \in Nat
    BY <1>1, <1>2, <2>1, <2>2, <2>4
  <2>6. next[k + 1] = at[k + 1] + lens[k + 1]
    BY <2>3, <2>4
  <2>7. ASSUME NEW j \in 1 .. n, j <= k + 1
        PROVE  at[j] \in Nat /\ at[j] + lens[j] <= next[k + 1]
    <3>1. CASE j = k + 1
      BY <2>5, <2>6, <3>1
    <3>2. CASE j <= k
      <4>1. at[j] \in Nat /\ at[j] + lens[j] <= next[k] /\ lens[j] \in Nat
        BY <1>1, <2>2, <3>2
      <4>2. PICK e, v, w, z \in Nat : /\ e = next[k] /\ v = at[k + 1] /\ w = lens[k + 1]
                                     /\ z = next[k + 1]
        <5>1. at[k + 1] + lens[k + 1] \in Nat
          BY <2>5
        <5>2. next[k + 1] \in Nat
          BY <2>6, <5>1
        <5> QED BY <2>2, <2>5, <5>2
      <4>3. e <= v /\ z = v + w
        BY <2>5, <2>6, <4>2
      <4>4. e <= z
        BY <4>2, <4>3
      <4> HIDE DEF n, P
      <4> QED BY <4>1, <4>2, <4>4
    <3>3. j = k + 1 \/ j <= k
      BY <1>1, <2>7
    <3> QED BY <3>1, <3>2, <3>3
  <2> QED BY <2>2, <2>5, <2>6, <2>7
<1>10. Nat \subseteq P
  <2> HIDE DEF P
  <2> QED BY <1>8, <1>9, Induct
<1>11. ASSUME NEW k \in 1 .. n
       PROVE  /\ next[k - 1] \in Nat /\ x <= next[k - 1]
              /\ at[k] \in Nat /\ next[k - 1] <= at[k] /\ Clashes(at[k], lens[k]) = {}
              /\ \A j \in 1 .. n : j < k => at[j] + lens[j] <= next[k - 1]
  <2>1. k - 1 \in Nat /\ k - 1 <= n /\ \A j \in 1 .. n : j < k => j <= k - 1
    BY <1>1
  <2>2. k - 1 \in P
    BY <1>10, <2>1
  <2>3. /\ next[k - 1] \in Nat /\ x <= next[k - 1]
        /\ \A j \in 1 .. n : j < k => at[j] + lens[j] <= next[k - 1]
    BY <2>1, <2>2
  <2>4. at[k] = At(k, next[k - 1])
    BY <1>7
  <2> QED BY <1>2, <2>3, <2>4
<1>12. at \in [1 .. n -> Nat]
  <2>1. \A k \in 1 .. n : at[k] \in Nat
    BY <1>11
  <2>2. at = [k \in 1 .. n |-> at[k]]
    BY <1>7
  <2> QED BY <2>1, <2>2
<1>13. ASSUME NEW k \in 1 .. n PROVE x <= at[k] /\ Clashes(at[k], lens[k]) = {}
  <2>1. /\ next[k - 1] \in Nat /\ x <= next[k - 1] /\ at[k] \in Nat /\ next[k - 1] <= at[k]
        /\ Clashes(at[k], lens[k]) = {}
    BY <1>11
  <2> QED BY <2>1
<1>14. ASSUME NEW j \in 1 .. n, NEW k \in 1 .. n, j < k PROVE at[j] + lens[j] <= at[k]
  <2>1. at[j] \in Nat /\ at[k] \in Nat /\ lens[j] \in Nat /\ next[k - 1] \in Nat
        /\ at[j] + lens[j] <= next[k - 1] /\ next[k - 1] <= at[k]
    BY <1>1, <1>11, <1>14
  <2> QED BY <2>1
<1>15. Laid(at, lens, x)
  BY <1>12, <1>13, <1>14 DEF Laid
<1> QED BY <1>15 DEF at

-----------------------------------------------------------------------------
\* Parts of a sequence, one after the other, each with something in it: where each
\* part begins.
CutUp(parts, s, fan, from) ==
  /\ Len(parts) >= 1
  /\ from \in [1 .. Len(parts) + 1 -> 1 .. Len(s) + 1]
  /\ from[1] = 1 /\ from[Len(parts) + 1] = Len(s) + 1
  /\ \A g \in 1 .. Len(parts) :
       /\ Len(parts[g]) = from[g + 1] - from[g] /\ Len(parts[g]) >= 1 /\ Len(parts[g]) <= fan
       /\ \A j \in 1 .. Len(parts[g]) : parts[g][j] = s[from[g] + j - 1]

\* Chunks cuts a list up like that.
LEMMA ChunksIs ==
  ASSUME NEW E, NEW ents \in Seq(E), ents # <<>>, NEW fan \in Nat \ {0}
  PROVE  /\ Chunks(ents, fan) \in Seq(Seq(E) \ {<<>>})
         /\ \E from : CutUp(Chunks(ents, fan), ents, fan, from)
         /\ Len(Chunks(ents, fan)) <= Len(ents)
         /\ fan # 1 /\ Len(ents) # 1 => Len(Chunks(ents, fan)) < Len(ents)
<1> DEFINE n == Len(ents)
           m == (n + fan - 1) \div fan
           c == Chunks(ents, fan)
           from == [g \in 1 .. m + 1 |-> IF g = m + 1 THEN n + 1 ELSE (g - 1) * fan + 1]
<1>1. n \in Nat \ {0} /\ \A j \in 1 .. n : ents[j] \in E
  OBVIOUS
<1>2. m \in Nat /\ m * fan \in Nat /\ n <= m * fan /\ m * fan <= n + fan - 1
  <2>1. n + fan - 1 \in Nat
    BY <1>1
  <2>2. /\ m \in Nat /\ (n + fan - 1) % fan \in 0 .. fan - 1
        /\ n + fan - 1 = m * fan + ((n + fan - 1) % fan)
    BY <2>1, DivMod
  <2>3. m * fan \in Nat
    BY <2>2, MulMono
  <2> HIDE DEF m, n
  <2> QED BY <1>1, <2>2, <2>3
<1>3. c = [g \in 1 .. m |-> SubSeq(ents, (g - 1) * fan + 1, Min({g * fan, n}))]
  BY DEF Chunks
<1> HIDE DEF m, c, n
<1>4. m >= 1
  <2>1. ASSUME m = 0 PROVE FALSE
    BY <1>1, <1>2, <2>1
  <2> QED BY <1>2, <2>1
<1>5. ASSUME NEW g \in 1 .. m
      PROVE  /\ (g - 1) * fan \in Nat /\ g * fan \in Nat /\ g * fan = (g - 1) * fan + fan
             /\ (g - 1) * fan + 1 <= n
             /\ g < m => g * fan + 1 <= n
  <2>1. g \in Nat /\ g - 1 \in Nat /\ g <= m /\ m \in Nat /\ m - 1 \in Nat
    BY <1>2, <1>4
  <2>2. (g - 1) * fan \in Nat /\ g * fan \in Nat /\ (m - 1) * fan \in Nat
        /\ (g - 1) * fan <= (m - 1) * fan
    <3>0. PICK a, b : a = g - 1 /\ b = m - 1
      OBVIOUS
    <3>1. a \in Nat /\ b \in Nat /\ a <= b
      BY <2>1, <3>0
    <3>2. a * fan \in Nat /\ b * fan \in Nat /\ a * fan <= b * fan /\ g * fan \in Nat
      BY <2>1, <3>1, MulMono
    <3> QED BY <3>0, <3>1, <3>2
  <2>3. g * fan = (g - 1) * fan + fan /\ m * fan = (m - 1) * fan + fan
    BY <1>2, <2>1
  <2>4. (m - 1) * fan <= n - 1
    BY <1>1, <1>2, <2>2, <2>3
  <2>5. ASSUME g < m PROVE g * fan <= (m - 1) * fan
    <3>0. PICK b : b = m - 1
      OBVIOUS
    <3>1. b \in Nat /\ g <= b
      BY <2>1, <2>5, <3>0
    <3>2. g * fan <= b * fan
      BY <2>1, <3>1, MulMono
    <3> QED BY <3>0, <3>2
  <2> QED BY <1>1, <2>2, <2>3, <2>4, <2>5
<1>6. ASSUME NEW g \in 1 .. m
      PROVE  /\ from[g] = (g - 1) * fan + 1 /\ from[g + 1] - 1 = Min({g * fan, n})
             /\ from[g] \in 1 .. n /\ from[g + 1] \in 2 .. n + 1
             /\ from[g] < from[g + 1] /\ from[g + 1] <= from[g] + fan
  <2>1. from[g] = (g - 1) * fan + 1
    BY <1>2
  <2>2. CASE g = m
    <3>1. from[g + 1] = n + 1
      BY <1>2, <2>2
    <3>2. Min({g * fan, n}) = n
      BY <1>1, <1>2, <2>2 DEF Min
    <3>3. from[g + 1] <= from[g] + fan
      <4>1. n <= (g - 1) * fan + fan /\ (g - 1) * fan \in Nat
        BY <1>2, <1>5, <2>2
      <4>2. PICK X \in Nat : X = (g - 1) * fan
        BY <4>1
      <4> HIDE DEF from
      <4>3. m \in Nat /\ g \in Nat /\ n \in Nat
        BY <1>1, <1>2
      <4>4. from[g] = X + 1 /\ from[g + 1] = n + 1 /\ n <= X + fan
        BY <2>1, <3>1, <4>1, <4>2
      <4> QED BY <4>2, <4>3, <4>4
    <3>4. (g - 1) * fan \in Nat /\ (g - 1) * fan + 1 <= n
      BY <1>5
    <3> HIDE DEF from
    <3> QED BY <1>1, <2>1, <3>1, <3>2, <3>3, <3>4
  <2>3. CASE g # m
    <3>1. g < m /\ g + 1 \in 1 .. m /\ (g + 1) - 1 = g
      BY <1>2, <2>3
    <3>2. from[g + 1] = g * fan + 1
      BY <1>2, <3>1
    <3>3. Min({g * fan, n}) = g * fan
      BY <1>1, <1>5, <3>1 DEF Min
    <3>4. PICK X, Y \in Nat : X = (g - 1) * fan /\ Y = g * fan
      BY <1>1, <1>5
    <3>5. Y = X + fan /\ X + 1 <= n /\ Y + 1 <= n
      BY <1>5, <3>1, <3>4
    <3> HIDE DEF from, n, m
    <3>6. from[g] = X + 1 /\ from[g + 1] = Y + 1
      BY <2>1, <3>2, <3>4
    <3>7. from[g + 1] - 1 = Min({g * fan, n})
      BY <3>3, <3>4, <3>6
    <3>8. n \in Nat /\ fan \in Nat \ {0}
      BY <1>1
    <3> QED BY <2>1, <3>5, <3>6, <3>7, <3>8
  <2> QED BY <2>2, <2>3
<1>61. ASSUME NEW g \in 1 .. m
       PROVE  /\ from[g] \in 1 .. n /\ from[g + 1] \in 2 .. n + 1
              /\ from[g] < from[g + 1] /\ from[g + 1] <= from[g] + fan
  BY <1>6
<1>60. from = [g \in 1 .. m + 1 |-> from[g]] /\ from[m + 1] = n + 1
  BY <1>2
<1> HIDE DEF from
<1>7. ASSUME NEW g \in 1 .. m
      PROVE  /\ c[g] \in Seq(E) /\ Len(c[g]) = from[g + 1] - from[g]
             /\ \A j \in 1 .. Len(c[g]) : c[g][j] = ents[from[g] + j - 1]
  <2>1. PICK a, b : a = from[g] /\ b = from[g + 1] - 1
    OBVIOUS
  <2>2. a \in 1 .. n /\ b \in 1 .. n /\ a <= b /\ from[g] \in Int /\ from[g + 1] \in Int
    BY <1>1, <1>61, <2>1
  <2>3. c[g] = SubSeq(ents, a, b)
    BY <1>3, <1>6, <2>1
  <2>4. /\ SubSeq(ents, a, b) \in Seq(E) /\ Len(SubSeq(ents, a, b)) = b - a + 1
        /\ \A j \in 1 .. b - a + 1 : SubSeq(ents, a, b)[j] = ents[a + j - 1]
    BY <1>1, <2>2 DEF n
  <2> QED BY <2>1, <2>2, <2>3, <2>4
<1>8. /\ Len(c) = m /\ c \in Seq(Seq(E) \ {<<>>})
  <2>1. ASSUME NEW g \in 1 .. m PROVE c[g] \in Seq(E) \ {<<>>}
    <3>1. Len(c[g]) # 0
      <4>1. from[g] \in Nat /\ from[g + 1] \in Nat /\ from[g] < from[g + 1]
        BY <1>1, <1>61
      <4> QED BY <1>7, <4>1
    <3> QED BY <1>7, <3>1
  <2>2. c \in [1 .. m -> Seq(E) \ {<<>>}]
    BY <1>3, <2>1
  <2> QED BY <1>2, <2>2
<1>9. from \in [1 .. m + 1 -> 1 .. n + 1]
  <2>1. ASSUME NEW g \in 1 .. m + 1 PROVE from[g] \in 1 .. n + 1
    <3>1. CASE g = m + 1
      BY <1>1, <1>60, <3>1
    <3>2. CASE g \in 1 .. m
      <4>1. from[g] \in 1 .. n
        BY <1>61, <3>2
      <4> QED BY <1>1, <4>1
    <3> QED BY <1>2, <3>1, <3>2
  <2> QED BY <1>60, <2>1
<1>10. from[1] = 1 /\ from[m + 1] = n + 1
  <2>1. 1 \in 1 .. m /\ m + 1 \in 1 .. m + 1 /\ 0 * fan = 0
    BY <1>2, <1>4
  <2>2. from[1] = (1 - 1) * fan + 1
    BY <1>6, <2>1
  <2> QED BY <1>60, <2>1, <2>2
<1>11. CutUp(c, ents, fan, from)
  <2>1. ASSUME NEW g \in 1 .. m
        PROVE  /\ Len(c[g]) = from[g + 1] - from[g] /\ Len(c[g]) >= 1 /\ Len(c[g]) <= fan
               /\ \A j \in 1 .. Len(c[g]) : c[g][j] = ents[from[g] + j - 1]
    <3>1. /\ from[g] \in Nat /\ from[g + 1] \in Nat /\ from[g] < from[g + 1]
          /\ from[g + 1] <= from[g] + fan
      BY <1>1, <1>61
    <3>2. Len(c[g]) >= 1 /\ Len(c[g]) <= fan
      <4>1. Len(c[g]) = from[g + 1] - from[g]
        BY <1>7
      <4> QED BY <3>1, <4>1
    <3> QED BY <1>7, <3>2
  <2> QED BY <1>4, <1>8, <1>9, <1>10, <2>1 DEF CutUp, n
<1>12. m <= n
  <2>1. m - 1 \in Nat /\ (m - 1) * 1 <= (m - 1) * fan
    <3>1. m - 1 \in Nat /\ 1 * (m - 1) <= fan * (m - 1)
      BY <1>2, <1>4, MulMono
    <3> QED BY <3>1
  <2>2. (m - 1) * fan + 1 <= n /\ (m - 1) * fan \in Nat
    BY <1>2, <1>4, <1>5
  <2> QED BY <1>1, <1>2, <2>1, <2>2
<1>13. ASSUME fan # 1, n # 1 PROVE m < n
  <2>1. m - 1 \in Nat /\ 2 * (m - 1) <= (m - 1) * fan
    <3>1. m - 1 \in Nat /\ 2 * (m - 1) <= fan * (m - 1)
      BY <1>2, <1>4, <1>13, MulMono
    <3> QED BY <3>1
  <2>2. (m - 1) * fan + 1 <= n /\ (m - 1) * fan \in Nat
    BY <1>2, <1>4, <1>5
  <2> QED BY <1>1, <1>2, <1>13, <2>1, <2>2
<1> QED BY <1>8, <1>11, <1>12, <1>13 DEF c, n

-----------------------------------------------------------------------------
\* Entries of a tree over leaf entries from L, and pages of it.
Entry(L) == L \union [key : Nat, bid : Nat, at : Nat]
PageOver(L) == [at : Nat, bid : Nat, ptype : {"NBT", "BBT"}, level : Nat,
                ents : Seq(Entry(L)) \ {<<>>}]
Keyed(L) == \A e \in L : e.key \in Nat
Cursors == [next : Nat, bid : Nat]

\* Pages between x and y, clear of the maps and of each other, their ids counted
\* from id.
PagesLaid(pages, x, y, id) ==
  /\ x <= y
  /\ \A k \in 1 .. Len(pages) :
       /\ pages[k].bid = id + 4 * (k - 1)
       /\ x <= pages[k].at /\ pages[k].at + PAGE <= y /\ Clashes(pages[k].at, PAGE) = {}
  /\ \A j, k \in 1 .. Len(pages) : j < k => pages[j].at + PAGE <= pages[k].at

\* A page fits between two maps.
LEMMA PageFits == Fits(PAGE)
<1>1. /\ PAGE \in Nat \ {0} /\ AMAP_EVERY \in Nat /\ MAP_SLOTS \in Nat
      /\ MAP_SLOTS * PAGE < AMAP_EVERY
  BY LayoutAssumption
<1>2. PICK f, e \in Nat : AMAP_FIRST = f * PAGE /\ AMAP_EVERY = e * PAGE
  BY LayoutAssumption, MapsOnPages
<1>3. MAP_SLOTS * PAGE \in Nat
  BY <1>1, MulMono
<1>4. ~ (e <= MAP_SLOTS)
  <2>1. ASSUME e <= MAP_SLOTS PROVE e * PAGE <= MAP_SLOTS * PAGE
    BY <1>1, <2>1, MulMono
  <2> QED BY <1>1, <1>2, <1>3, <2>1
<1>5. (MAP_SLOTS + 1) * PAGE <= e * PAGE
  <2>1. PICK s : s = MAP_SLOTS + 1
    OBVIOUS
  <2>2. s \in Nat /\ s <= e
    BY <1>1, <1>4, <2>1
  <2> QED BY <1>1, <2>1, <2>2, MulMono
<1>6. (MAP_SLOTS + 1) * PAGE = MAP_SLOTS * PAGE + PAGE
  BY <1>1
<1> QED BY <1>1, <1>2, <1>3, <1>5, <1>6 DEF Fits, Room

\* What build_level makes of entries.
LevelMade(l, parts, level, ptype, cur) ==
  /\ Len(l.pages) = Len(parts)
  /\ \A k \in 1 .. Len(parts) :
       l.pages[k].ents = parts[k] /\ l.pages[k].level = level /\ l.pages[k].ptype = ptype
  /\ PagesLaid(l.pages, cur.next, l.cur.next, cur.bid)
  /\ l.cur.bid = cur.bid + 4 * Len(l.pages)

\* BuildLevel makes such a level.
LEMMA LevelIs ==
  ASSUME NEW L, NEW ents \in Seq(Entry(L)), ents # <<>>, NEW fan \in Nat \ {0},
         NEW level \in Nat, NEW ptype \in {"NBT", "BBT"}, NEW cur \in Cursors
  PROVE  /\ BuildLevel(ents, fan, level, ptype, cur).pages \in Seq(PageOver(L))
         /\ BuildLevel(ents, fan, level, ptype, cur).cur \in Cursors
         /\ LevelMade(BuildLevel(ents, fan, level, ptype, cur), Chunks(ents, fan),
                      level, ptype, cur)
<1> DEFINE parts == Chunks(ents, fan)
           m == Len(parts)
           lens == [g \in 1 .. m |-> PAGE]
           at == PlaceAll(cur.next, lens, PAGE)
           ps == LevelPages(ents, fan, level, ptype, cur)
           l == BuildLevel(ents, fan, level, ptype, cur)
<1>1. parts \in Seq(Seq(Entry(L)) \ {<<>>}) /\ m >= 1
  BY ChunksIs DEF CutUp
<1>2. m \in Nat /\ \A k \in 1 .. m : parts[k] \in Seq(Entry(L)) \ {<<>>}
  BY <1>1
<1>3. cur.next \in Nat /\ cur.bid \in Nat /\ PAGE \in Nat \ {0}
  BY LayoutAssumption DEF Cursors
<1>4. ps = [g \in 1 .. m |-> [at |-> at[g], bid |-> cur.bid + 4 * (g - 1), ptype |-> ptype,
                              level |-> level, ents |-> parts[g]]]
  BY DEF LevelPages
<1>5. l = [pages |-> ps, cur |-> [next |-> Last(ps).at + PAGE, bid |-> cur.bid + 4 * Len(ps)]]
  BY DEF BuildLevel, UpTo
<1> HIDE DEF parts, m, ps, l
<1>6. lens \in Seq(Nat) /\ Len(lens) = m /\ \A k \in 1 .. m : lens[k] = PAGE
  BY <1>2, <1>3
<1> HIDE DEF lens
<1>7. Laid(at, lens, cur.next)
  <2>1. \A k \in 1 .. Len(lens) : Fits(lens[k])
    BY <1>6, PageFits
  <2> QED BY <1>3, <1>6, <2>1, Alignments, PlaceAllIs
<1> HIDE DEF at
<1>8. /\ \A k \in 1 .. m : at[k] \in Nat /\ cur.next <= at[k] /\ Clashes(at[k], PAGE) = {}
      /\ \A j, k \in 1 .. m : j < k => at[j] + PAGE <= at[k]
  BY <1>6, <1>7 DEF Laid
<1>9. ASSUME NEW k \in 1 .. m
      PROVE  /\ ps[k].at = at[k] /\ ps[k].bid = cur.bid + 4 * (k - 1)
             /\ ps[k].ptype = ptype /\ ps[k].level = level /\ ps[k].ents = parts[k]
             /\ ps[k] \in PageOver(L)
  <2>1. cur.bid + 4 * (k - 1) \in Nat
    BY <1>2, <1>3
  <2>2. at[k] \in Nat /\ parts[k] \in Seq(Entry(L)) \ {<<>>}
    BY <1>2, <1>8
  <2>3. ps[k] = [at |-> at[k], bid |-> cur.bid + 4 * (k - 1), ptype |-> ptype,
                 level |-> level, ents |-> parts[k]]
    BY <1>4
  <2> QED BY <2>1, <2>2, <2>3 DEF PageOver
<1>10. ps \in Seq(PageOver(L)) /\ Len(ps) = m
  <2>1. ps \in [1 .. m -> PageOver(L)]
    BY <1>4, <1>9
  <2> QED BY <1>2, <2>1
<1>11. Last(ps).at = at[m] /\ at[m] \in Nat /\ \A k \in 1 .. m : at[k] + PAGE <= at[m] + PAGE
  <2>1. m \in 1 .. m
    BY <1>1, <1>2
  <2>2. Last(ps) = ps[m]
    BY <1>10 DEF Last
  <2>3. ASSUME NEW k \in 1 .. m PROVE at[k] + PAGE <= at[m] + PAGE
    <3>1. at[k] \in Nat /\ at[m] \in Nat
      BY <1>8, <2>1
    <3>2. k = m \/ at[k] + PAGE <= at[m]
      BY <1>2, <1>8, <2>1
    <3> QED BY <1>3, <3>1, <3>2
  <2> QED BY <1>8, <1>9, <2>1, <2>2, <2>3
<1>12. l.pages = ps /\ l.cur.next = at[m] + PAGE /\ l.cur.bid = cur.bid + 4 * m
  BY <1>5, <1>10, <1>11
<1>13. l.cur \in Cursors
  <2>1. at[m] + PAGE \in Nat /\ cur.bid + 4 * m \in Nat
    BY <1>2, <1>3, <1>11
  <2>2. l.cur = [next |-> at[m] + PAGE, bid |-> cur.bid + 4 * m]
    BY <1>5, <1>10, <1>11
  <2> QED BY <2>1, <2>2 DEF Cursors
<1>14. PagesLaid(ps, cur.next, at[m] + PAGE, cur.bid)
  <2>1. cur.next <= at[m] + PAGE
    <3>1. m \in 1 .. m
      BY <1>1, <1>2
    <3>2. cur.next <= at[m]
      BY <1>8, <3>1
    <3> QED BY <1>3, <1>11, <3>2
  <2>2. ASSUME NEW k \in 1 .. m
        PROVE  /\ ps[k].bid = cur.bid + 4 * (k - 1) /\ ps[k].at = at[k]
               /\ cur.next <= ps[k].at /\ ps[k].at + PAGE <= at[m] + PAGE
               /\ Clashes(ps[k].at, PAGE) = {}
    BY <1>8, <1>9, <1>11
  <2>3. \A j, k \in 1 .. m : j < k => ps[j].at + PAGE <= ps[k].at
    BY <1>8, <2>2
  <2> QED BY <1>10, <2>1, <2>2, <2>3 DEF PagesLaid
<1>15. LevelMade(l, parts, level, ptype, cur)
  <2>1. \A k \in 1 .. m : ps[k].ents = parts[k] /\ ps[k].level = level /\ ps[k].ptype = ptype
    BY <1>9
  <2> QED BY <1>10, <1>12, <1>14, <2>1 DEF LevelMade, m
<1> QED BY <1>10, <1>12, <1>13, <1>15 DEF l, parts

-----------------------------------------------------------------------------
\* Pages behind pages.
LEMMA LaidJoin ==
  ASSUME NEW L, NEW p \in Seq(PageOver(L)), NEW q \in Seq(PageOver(L)),
         NEW x \in Nat, NEW y \in Nat, NEW z \in Nat, NEW id \in Nat,
         PagesLaid(p, x, y, id), PagesLaid(q, y, z, id + 4 * Len(p))
  PROVE  PagesLaid(p \o q, x, z, id)
<1> DEFINE n == Len(p)
           m == Len(q)
           r == p \o q
<1>1. n \in Nat /\ m \in Nat /\ Len(r) = n + m /\ PAGE \in Nat
      /\ x \in Nat /\ y \in Nat /\ z \in Nat
  BY LayoutAssumption
<1>2. /\ \A k \in 1 .. n : r[k] = p[k] /\ p[k].at \in Nat
      /\ \A k \in n + 1 .. n + m : r[k] = q[k - n] /\ k - n \in 1 .. m
      /\ \A k \in 1 .. m : q[k].at \in Nat
  <2>1. ASSUME NEW k \in 1 .. n PROVE r[k] = p[k] /\ p[k] \in PageOver(L)
    OBVIOUS
  <2>2. ASSUME NEW k \in n + 1 .. n + m PROVE r[k] = q[k - n] /\ k - n \in 1 .. m
    OBVIOUS
  <2>3. ASSUME NEW k \in 1 .. m PROVE q[k] \in PageOver(L)
    OBVIOUS
  <2> QED BY <2>1, <2>2, <2>3 DEF PageOver
<1> HIDE DEF n, m, r
<1>3. /\ x <= y /\ y <= z
      /\ \A k \in 1 .. n : /\ p[k].bid = id + 4 * (k - 1) /\ x <= p[k].at
                           /\ p[k].at + PAGE <= y /\ Clashes(p[k].at, PAGE) = {}
      /\ \A j, k \in 1 .. n : j < k => p[j].at + PAGE <= p[k].at
  BY DEF PagesLaid, n
<1>4. /\ \A k \in 1 .. m : /\ q[k].bid = id + 4 * n + 4 * (k - 1) /\ y <= q[k].at
                           /\ q[k].at + PAGE <= z /\ Clashes(q[k].at, PAGE) = {}
      /\ \A j, k \in 1 .. m : j < k => q[j].at + PAGE <= q[k].at
  BY DEF PagesLaid, n, m
<1>5. ASSUME NEW k \in 1 .. n + m
      PROVE  /\ r[k].bid = id + 4 * (k - 1) /\ x <= r[k].at /\ r[k].at \in Nat
             /\ r[k].at + PAGE <= z /\ Clashes(r[k].at, PAGE) = {}
  <2>1. CASE k \in 1 .. n
    <3>1. r[k] = p[k] /\ p[k].at \in Nat
      BY <1>2, <2>1
    <3>2. p[k].at + PAGE <= z
      <4>1. p[k].at + PAGE <= y
        BY <1>3, <2>1
      <4> QED BY <1>1, <1>3, <3>1, <4>1
    <3> QED BY <1>3, <2>1, <3>1, <3>2
  <2>2. CASE k \in n + 1 .. n + m
    <3>1. PICK h \in 1 .. m : h = k - n
      BY <1>2, <2>2
    <3>2. r[k] = q[h] /\ q[h].at \in Nat
      BY <1>2, <2>2, <3>1
    <3>3. id + 4 * n + 4 * (h - 1) = id + 4 * (k - 1)
      BY <1>1, <3>1
    <3>4. q[h].bid = id + 4 * n + 4 * (h - 1) /\ y <= q[h].at
          /\ q[h].at + PAGE <= z /\ Clashes(q[h].at, PAGE) = {}
      BY <1>4
    <3>5. x <= q[h].at
      BY <1>1, <1>3, <3>2, <3>4
    <3> QED BY <3>2, <3>3, <3>4, <3>5
  <2> QED BY <1>1, <2>1, <2>2
<1>6. ASSUME NEW j \in 1 .. n + m, NEW k \in 1 .. n + m, j < k
      PROVE  r[j].at + PAGE <= r[k].at
  <2>1. CASE k \in 1 .. n
    <3>1. j \in 1 .. n
      BY <1>1, <1>6, <2>1
    <3> QED BY <1>2, <1>3, <1>6, <2>1, <3>1
  <2>2. CASE j \in 1 .. n /\ k \in n + 1 .. n + m
    <3>1. PICK h \in 1 .. m : h = k - n
      BY <1>2, <2>2
    <3>2. r[j] = p[j] /\ r[k] = q[h] /\ p[j].at \in Nat /\ q[h].at \in Nat
      BY <1>2, <2>2, <3>1
    <3>3. p[j].at + PAGE <= y
      BY <1>3, <2>2
    <3>4. y <= q[h].at
      BY <1>4
    <3>5. p[j].at + PAGE <= q[h].at
      <4>1. PICK u, v : u = p[j].at /\ v = q[h].at
        OBVIOUS
      <4>2. u \in Nat /\ v \in Nat /\ u + PAGE <= y /\ y <= v
        BY <3>2, <3>3, <3>4, <4>1
      <4>3. u + PAGE <= v
        BY <1>1, <4>2
      <4> QED BY <4>1, <4>3
    <3> QED BY <3>2, <3>5
  <2>3. CASE j \in n + 1 .. n + m
    <3>1. k \in n + 1 .. n + m
      BY <1>1, <1>6, <2>3
    <3>2. PICK g, h \in 1 .. m : g = j - n /\ h = k - n
      BY <1>2, <2>3, <3>1
    <3>3. g < h
      BY <1>1, <1>6, <3>2
    <3>4. r[j] = q[g] /\ r[k] = q[h]
      BY <1>2, <2>3, <3>1, <3>2
    <3> QED BY <1>4, <3>3, <3>4
  <2> QED BY <1>1, <2>1, <2>2, <2>3
<1>7. x <= z
  BY <1>3
<1> QED BY <1>1, <1>5, <1>6, <1>7 DEF PagesLaid, r

-----------------------------------------------------------------------------
\* A tree that is being built: its pages, and how many are below the top level.
Growing(L) == {s \in [pages : Seq(PageOver(L)), below : Nat, cur : Cursors] :
                 s.below < Len(s.pages)}

TopOf(s) == SubSeq(s.pages, s.below + 1, Len(s.pages))

Ground(leaves, ptype, cur) ==
  LET l == BuildLevel(leaves, LEAF_FAN[ptype], 0, ptype, cur)
  IN  [pages |-> l.pages, below |-> 0, cur |-> l.cur]

Raised(s, d, ptype) ==
  LET l == BuildLevel(Parents(TopOf(s)), INNER_FAN, d, ptype, s.cur)
  IN  IF Len(TopOf(s)) = 1 THEN s
      ELSE [pages |-> s.pages \o l.pages, below |-> Len(s.pages), cur |-> l.cur]

\* The pages of the level that was built last.
LEMMA TopIs ==
  ASSUME NEW L, NEW s \in Growing(L)
  PROVE  /\ TopOf(s) \in Seq(PageOver(L)) /\ Len(TopOf(s)) >= 1
         /\ Len(TopOf(s)) = Len(s.pages) - s.below
         /\ \A j \in 1 .. Len(TopOf(s)) : TopOf(s)[j] = s.pages[s.below + j]
<1>1. PICK p, b : p = s.pages /\ b = s.below
  OBVIOUS
<1>2. p \in Seq(PageOver(L)) /\ b \in Nat /\ b < Len(p)
  BY <1>1 DEF Growing
<1>3. /\ SubSeq(p, b + 1, Len(p)) \in Seq(PageOver(L))
      /\ Len(SubSeq(p, b + 1, Len(p))) = Len(p) - b
      /\ \A j \in 1 .. Len(p) - b : SubSeq(p, b + 1, Len(p))[j] = p[b + j]
  <2>1. b + 1 \in 1 .. Len(p) /\ Len(p) \in Nat
    BY <1>2
  <2>2. ASSUME NEW j \in 1 .. Len(p) - b
        PROVE SubSeq(p, b + 1, Len(p))[j] = p[b + j]
    BY <1>2, <2>1, <2>2
  <2> QED BY <1>2, <2>1, <2>2
<1>4. Len(p) - b >= 1
  BY <1>2
<1> QED BY <1>1, <1>3, <1>4 DEF TopOf

\* The entries above a level, one for each of its pages.
LEMMA ParentsIs ==
  ASSUME NEW L, Keyed(L), NEW top \in Seq(PageOver(L))
  PROVE  /\ Parents(top) \in Seq(Entry(L)) /\ Len(Parents(top)) = Len(top)
         /\ \A j \in 1 .. Len(top) :
              Parents(top)[j] = [key |-> top[j].ents[1].key, bid |-> top[j].bid,
                                 at |-> top[j].at]
<1>1. ASSUME NEW j \in 1 .. Len(top)
      PROVE  /\ Head(top[j].ents) = top[j].ents[1]
             /\ [key |-> top[j].ents[1].key, bid |-> top[j].bid, at |-> top[j].at]
                \in Entry(L)
  <2>1. top[j] \in PageOver(L)
    OBVIOUS
  <2>2. PICK es : es = top[j].ents
    OBVIOUS
  <2>3. es \in Seq(Entry(L)) /\ es # <<>> /\ top[j].bid \in Nat /\ top[j].at \in Nat
    BY <2>1, <2>2 DEF PageOver
  <2>4. es[1] \in Entry(L) /\ Head(es) = es[1]
    BY <2>3
  <2>5. es[1].key \in Nat
    BY <2>4 DEF Entry, Keyed
  <2> QED BY <2>2, <2>3, <2>4, <2>5 DEF Entry
<1>2. Parents(top) = [j \in 1 .. Len(top) |->
        [key |-> top[j].ents[1].key, bid |-> top[j].bid, at |-> top[j].at]]
  BY <1>1 DEF Parents
<1> QED BY <1>1, <1>2

\* One turn of build_tree's loop keeps the tree well made.
LEMMA RaisedIs ==
  ASSUME NEW L, Keyed(L), NEW s \in Growing(L), NEW d \in Nat, NEW ptype \in {"NBT", "BBT"}
  PROVE  /\ Raised(s, d, ptype) \in Growing(L)
         /\ LET l == BuildLevel(Parents(TopOf(s)), INNER_FAN, d, ptype, s.cur)
            IN  /\ l.pages \in Seq(PageOver(L)) /\ l.cur \in Cursors
                /\ LevelMade(l, Chunks(Parents(TopOf(s)), INNER_FAN), d, ptype, s.cur)
<1> DEFINE l == BuildLevel(Parents(TopOf(s)), INNER_FAN, d, ptype, s.cur)
           up == Parents(TopOf(s))
<1>1. up \in Seq(Entry(L)) /\ up # <<>>
  <2>1. up \in Seq(Entry(L)) /\ Len(up) >= 1
    BY TopIs, ParentsIs
  <2> QED BY <2>1
<1>2. s.cur \in Cursors /\ s.pages \in Seq(PageOver(L)) /\ s.below \in Nat
  BY DEF Growing
<1>3. INNER_FAN \in Nat \ {0}
  BY FanAssumption
<1>4. /\ l.pages \in Seq(PageOver(L)) /\ l.cur \in Cursors
      /\ LevelMade(l, Chunks(up, INNER_FAN), d, ptype, s.cur)
  BY <1>1, <1>2, <1>3, LevelIs
<1>5. Len(l.pages) >= 1
  <2>1. \E from : CutUp(Chunks(up, INNER_FAN), up, INNER_FAN, from)
    BY <1>1, <1>3, ChunksIs
  <2>2. Len(Chunks(up, INNER_FAN)) >= 1
    BY <2>1 DEF CutUp
  <2>3. Len(l.pages) = Len(Chunks(up, INNER_FAN))
    BY <1>4 DEF LevelMade
  <2> QED BY <2>2, <2>3
<1> HIDE DEF l
<1>6. [pages |-> s.pages \o l.pages, below |-> Len(s.pages), cur |-> l.cur] \in Growing(L)
  <2>1. PICK p, q : p = s.pages /\ q = l.pages
    OBVIOUS
  <2>2. p \in Seq(PageOver(L)) /\ q \in Seq(PageOver(L)) /\ Len(q) >= 1
    BY <1>2, <1>4, <1>5, <2>1
  <2>3. p \o q \in Seq(PageOver(L)) /\ Len(p) \in Nat /\ Len(p) < Len(p \o q)
    BY <2>2
  <2> QED BY <1>4, <2>1, <2>3 DEF Growing
<1> QED BY <1>4, <1>6 DEF Raised, l

\* How build_tree goes up, level by level.
GoesUp(up, L, leaves, ptype, cur) ==
  /\ up \in [0 .. Len(leaves) -> Growing(L)]
  /\ up[0] = Ground(leaves, ptype, cur)
  /\ \A d \in 1 .. Len(leaves) : up[d] = Raised(up[d - 1], d, ptype)

\* The leaf level is well made.
LEMMA GroundIs ==
  ASSUME NEW L, NEW leaves \in Seq(L), leaves # <<>>,
         NEW ptype \in {"NBT", "BBT"}, NEW cur \in Cursors
  PROVE  /\ Ground(leaves, ptype, cur) \in Growing(L)
         /\ LET l == BuildLevel(leaves, LEAF_FAN[ptype], 0, ptype, cur)
            IN  /\ l.pages \in Seq(PageOver(L)) /\ l.cur \in Cursors
                /\ LevelMade(l, Chunks(leaves, LEAF_FAN[ptype]), 0, ptype, cur)
<1> DEFINE l == BuildLevel(leaves, LEAF_FAN[ptype], 0, ptype, cur)
<1>1. leaves \in Seq(Entry(L))
  BY DEF Entry
<1>2. LEAF_FAN[ptype] \in Nat \ {0}
  BY FanAssumption
<1>3. /\ l.pages \in Seq(PageOver(L)) /\ l.cur \in Cursors
      /\ LevelMade(l, Chunks(leaves, LEAF_FAN[ptype]), 0, ptype, cur)
  BY <1>1, <1>2, LevelIs
<1>4. Len(l.pages) >= 1
  <2>1. \E from : CutUp(Chunks(leaves, LEAF_FAN[ptype]), leaves, LEAF_FAN[ptype], from)
    BY <1>1, <1>2, ChunksIs
  <2>2. Len(Chunks(leaves, LEAF_FAN[ptype])) >= 1
    BY <2>1 DEF CutUp
  <2>3. Len(l.pages) = Len(Chunks(leaves, LEAF_FAN[ptype]))
    BY <1>3 DEF LevelMade
  <2> QED BY <2>2, <2>3
<1> HIDE DEF l
<1>5. [pages |-> l.pages, below |-> 0, cur |-> l.cur] \in Growing(L)
  BY <1>3, <1>4 DEF Growing
<1> QED BY <1>3, <1>5 DEF Ground, l

\* BuildTree is those turns, one after the other.
LEMMA TreeGoesUp ==
  ASSUME NEW L, Keyed(L), NEW leaves \in Seq(L), leaves # <<>>,
         NEW ptype \in {"NBT", "BBT"}, NEW cur \in Cursors
  PROVE  \E up : /\ GoesUp(up, L, leaves, ptype, cur)
                 /\ BuildTree(leaves, ptype, cur) =
                      [pages |-> up[Len(leaves)].pages,
                       root |-> Last(up[Len(leaves)].pages), cur |-> up[Len(leaves)].cur]
<1> DEFINE n == Len(leaves)
           V == Growing(L)
           ground == Ground(leaves, ptype, cur)
           raise == [d \in 1 .. n |-> [s \in V |-> Raised(s, d, ptype)]]
           Rec(u) == u = [d \in 0 .. n |-> IF d = 0 THEN ground ELSE Raised(u[d - 1], d, ptype)]
           up == CHOOSE u : Rec(u)
<1>1. n \in Nat
  OBVIOUS
<1>2. ground \in V
  BY GroundIs
<1>3. raise \in [1 .. n -> [V -> V]]
  <2>1. ASSUME NEW d \in 1 .. n, NEW s \in V PROVE Raised(s, d, ptype) \in V
    <3>1. d \in Nat
      BY <1>1
    <3> QED BY <3>1, RaisedIs
  <2> QED BY <2>1
<1>4. PICK u : Recurs(u, n, V, ground, raise)
  <2> HIDE DEF n, V, ground, raise
  <2> QED BY <1>1, <1>2, <1>3, Recursion
<1>5. ASSUME NEW d \in 1 .. n PROVE d - 1 \in 0 .. n /\ u[d] = Raised(u[d - 1], d, ptype)
  <2>1. d - 1 \in 0 .. n
    BY <1>1
  <2>2. u[d - 1] \in V
    BY <1>4, <2>1 DEF Recurs
  <2>3. u[d] = raise[d][u[d - 1]]
    BY <1>4 DEF Recurs
  <2> HIDE DEF V
  <2> QED BY <2>1, <2>2, <2>3
<1>6. Rec(u)
  <2>1. u \in [0 .. n -> V] /\ u[0] = ground
    BY <1>4 DEF Recurs
  <2>2. \A d \in 0 .. n : d = 0 \/ d \in 1 .. n
    BY <1>1
  <2> HIDE DEF n, V, ground, raise
  <2> QED BY <1>5, <2>1, <2>2
<1>7. Rec(up)
  BY <1>6
<1>8. BuildTree(leaves, ptype, cur) =
        [pages |-> up[n].pages, root |-> Last(up[n].pages), cur |-> up[n].cur]
  BY DEF BuildTree, Ground, Raised, TopOf
<1> HIDE DEF up, ground, n, V
<1> DEFINE P == {d \in Nat : d <= n => up[d] \in V}
<1>9. ASSUME NEW d \in 0 .. n
      PROVE  up[d] = IF d = 0 THEN ground ELSE Raised(up[d - 1], d, ptype)
  BY <1>7
<1>10. 0 \in P
  <2>1. 0 \in 0 .. n
    BY <1>1
  <2> QED BY <1>2, <1>9, <2>1
<1>11. ASSUME NEW d \in Nat, d \in P PROVE d + 1 \in P
  <2> SUFFICES ASSUME d + 1 <= n PROVE up[d + 1] \in V
    OBVIOUS
  <2>1. d + 1 \in 0 .. n /\ d + 1 \in Nat /\ d + 1 # 0 /\ (d + 1) - 1 = d /\ d <= n
    BY <1>1
  <2>2. up[d] \in V
    BY <1>11, <2>1
  <2>3. up[d + 1] = Raised(up[d], d + 1, ptype)
    BY <1>9, <2>1
  <2>4. Raised(up[d], d + 1, ptype) \in V
    BY <2>1, <2>2, RaisedIs DEF V
  <2> QED BY <2>3, <2>4
<1>12. Nat \subseteq P
  <2> HIDE DEF P
  <2> QED BY <1>10, <1>11, Induct
<1>13. up \in [0 .. n -> V]
  <2>1. \A d \in 0 .. n : up[d] \in V
    BY <1>1, <1>12
  <2>2. up = [d \in 0 .. n |-> up[d]]
    BY <1>7
  <2> QED BY <2>1, <2>2
<1>14. up[0] = ground /\ \A d \in 1 .. n : up[d] = Raised(up[d - 1], d, ptype)
  <2>1. 0 \in 0 .. n /\ \A d \in 1 .. n : d \in 0 .. n /\ d # 0
    BY <1>1
  <2> QED BY <1>9, <2>1
<1>15. GoesUp(up, L, leaves, ptype, cur)
  BY <1>13, <1>14 DEF GoesUp, n, V, ground
<1> QED BY <1>8, <1>15 DEF n

\* The whole tree lies between the cursor it was given and the one it hands on.
LEMMA TreeLaid ==
  ASSUME NEW L, Keyed(L), NEW leaves \in Seq(L), leaves # <<>>,
         NEW ptype \in {"NBT", "BBT"}, NEW cur \in Cursors
  PROVE  LET t == BuildTree(leaves, ptype, cur)
         IN  /\ t.pages \in Seq(PageOver(L)) /\ t.cur \in Cursors
             /\ PagesLaid(t.pages, cur.next, t.cur.next, cur.bid)
             /\ t.cur.bid = cur.bid + 4 * Len(t.pages)
             /\ Len(t.pages) >= 1 /\ t.root = Last(t.pages) /\ t.root \in PageOver(L)
<1> DEFINE n == Len(leaves)
           Good(s) == /\ PagesLaid(s.pages, cur.next, s.cur.next, cur.bid)
                      /\ s.cur.bid = cur.bid + 4 * Len(s.pages)
<1>1. PICK up : /\ GoesUp(up, L, leaves, ptype, cur)
                /\ BuildTree(leaves, ptype, cur) =
                      [pages |-> up[n].pages, root |-> Last(up[n].pages), cur |-> up[n].cur]
  BY TreeGoesUp
<1>2. n \in Nat /\ cur.next \in Nat /\ cur.bid \in Nat
  BY DEF Cursors
<1> HIDE DEF n
<1> DEFINE P == {d \in Nat : d <= n => Good(up[d])}
<1>3. 0 \in P
  <2>1. Good(Ground(leaves, ptype, cur))
    <3>1. PICK l : l = BuildLevel(leaves, LEAF_FAN[ptype], 0, ptype, cur)
      OBVIOUS
    <3>2. LevelMade(l, Chunks(leaves, LEAF_FAN[ptype]), 0, ptype, cur)
      BY <3>1, GroundIs
    <3>3. PagesLaid(l.pages, cur.next, l.cur.next, cur.bid)
          /\ l.cur.bid = cur.bid + 4 * Len(l.pages)
      BY <3>2 DEF LevelMade
    <3>4. Ground(leaves, ptype, cur) = [pages |-> l.pages, below |-> 0, cur |-> l.cur]
      BY <3>1 DEF Ground
    <3> QED BY <3>3, <3>4
  <2> QED BY <1>1, <2>1 DEF GoesUp
<1>4. ASSUME NEW d \in Nat, d \in P PROVE d + 1 \in P
  <2> SUFFICES ASSUME d + 1 <= n PROVE Good(up[d + 1])
    OBVIOUS
  <2>1. d \in 0 .. n /\ d + 1 \in 1 .. n /\ (d + 1) - 1 = d /\ d <= n
    BY <1>2
  <2>2. PICK s : s = up[d]
    OBVIOUS
  <2>3. s \in Growing(L) /\ up[d + 1] = Raised(s, d + 1, ptype)
    BY <1>1, <2>1, <2>2 DEF GoesUp, n
  <2>4. Good(s)
    BY <1>4, <2>1, <2>2
  <2>5. CASE Len(TopOf(s)) = 1
    BY <2>3, <2>4, <2>5 DEF Raised
  <2>6. CASE Len(TopOf(s)) # 1
    <3>1. PICK l : l = BuildLevel(Parents(TopOf(s)), INNER_FAN, d + 1, ptype, s.cur)
      OBVIOUS
    <3>2. up[d + 1] = [pages |-> s.pages \o l.pages, below |-> Len(s.pages), cur |-> l.cur]
      BY <2>3, <2>6, <3>1 DEF Raised
    <3>3. /\ l.pages \in Seq(PageOver(L)) /\ l.cur \in Cursors
          /\ PagesLaid(l.pages, s.cur.next, l.cur.next, s.cur.bid)
          /\ l.cur.bid = s.cur.bid + 4 * Len(l.pages)
      <4>1. d + 1 \in Nat
        OBVIOUS
      <4>2. /\ l.pages \in Seq(PageOver(L)) /\ l.cur \in Cursors
            /\ LevelMade(l, Chunks(Parents(TopOf(s)), INNER_FAN), d + 1, ptype, s.cur)
        BY <2>3, <3>1, <4>1, RaisedIs
      <4> QED BY <4>2 DEF LevelMade
    <3>4. PICK p, q : p = s.pages /\ q = l.pages
      OBVIOUS
    <3>5. /\ p \in Seq(PageOver(L)) /\ q \in Seq(PageOver(L))
          /\ s.cur.next \in Nat /\ l.cur.next \in Nat
      BY <2>3, <3>3, <3>4 DEF Growing, Cursors
    <3>6. PagesLaid(p, cur.next, s.cur.next, cur.bid)
          /\ PagesLaid(q, s.cur.next, l.cur.next, cur.bid + 4 * Len(p))
      BY <2>4, <3>3, <3>4
    <3>7. PagesLaid(p \o q, cur.next, l.cur.next, cur.bid)
      BY <1>2, <3>5, <3>6, LaidJoin
    <3>8. l.cur.bid = cur.bid + 4 * Len(p \o q)
      <4>1. Len(p \o q) = Len(p) + Len(q) /\ Len(p) \in Nat /\ Len(q) \in Nat
        BY <3>5
      <4>2. l.cur.bid = (cur.bid + 4 * Len(p)) + 4 * Len(q)
        BY <2>4, <3>3, <3>4
      <4>3. PICK a, b, c \in Nat : a = Len(p) /\ b = Len(q) /\ c = cur.bid
        BY <1>2, <4>1
      <4>4. c + 4 * (a + b) = (c + 4 * a) + 4 * b
        OBVIOUS
      <4>5. PICK w : w = Len(p \o q)
        OBVIOUS
      <4>6. l.cur.bid = (c + 4 * a) + 4 * b
        BY <4>2, <4>3
      <4>7. w = a + b
        BY <4>1, <4>3, <4>5
      <4>8. l.cur.bid = cur.bid + 4 * w
        BY <4>3, <4>4, <4>6, <4>7
      <4> QED BY <4>5, <4>8, Zenon
    <3>9. PICK w : w = up[d + 1]
      OBVIOUS
    <3>10. w.pages = s.pages \o l.pages /\ w.cur = l.cur
      <4>1. PICK r, b, c : r = s.pages \o l.pages /\ b = Len(s.pages) /\ c = l.cur
        OBVIOUS
      <4>2. w = [pages |-> r, below |-> b, cur |-> c]
        BY <3>2, <3>9, <4>1, Zenon
      <4>3. w.pages = r /\ w.cur = c
        BY <4>2
      <4> QED BY <4>1, <4>3, Zenon
    <3>11. w.pages = p \o q
      BY <3>4, <3>10, Zenon
    <3>12. Good(w)
      BY <3>7, <3>8, <3>10, <3>11, Zenon
    <3> QED BY <3>9, <3>12, Zenon
  <2> QED BY <2>5, <2>6
<1>5. Good(up[n])
  <2> HIDE DEF P
  <2>1. n \in P
    BY <1>2, <1>3, <1>4, Induct
  <2> QED BY <1>2, <2>1 DEF P
<1>6. up[n] \in Growing(L)
  BY <1>1, <1>2 DEF GoesUp, n
<1>7. /\ up[n].pages \in Seq(PageOver(L)) /\ up[n].cur \in Cursors
      /\ Len(up[n].pages) >= 1
  <2>1. PICK s : s = up[n]
    OBVIOUS
  <2>2. s.pages \in Seq(PageOver(L)) /\ s.cur \in Cursors
        /\ s.below \in Nat /\ s.below < Len(s.pages)
    BY <1>6, <2>1 DEF Growing
  <2>3. Len(s.pages) >= 1
    BY <2>2
  <2> QED BY <2>1, <2>2, <2>3
<1>8. PICK s : s = up[n]
  OBVIOUS
<1>9. BuildTree(leaves, ptype, cur).pages = s.pages
      /\ BuildTree(leaves, ptype, cur).cur = s.cur
      /\ BuildTree(leaves, ptype, cur).root = Last(s.pages)
  BY <1>1, <1>8
<1>10. Last(s.pages) \in PageOver(L)
  <2>1. PICK p : p = s.pages
    OBVIOUS
  <2>2. p \in Seq(PageOver(L)) /\ Len(p) >= 1
    BY <1>7, <1>8, <2>1
  <2>3. Last(p) \in PageOver(L)
    BY <2>2 DEF Last
  <2> QED BY <2>1, <2>3
<1> QED BY <1>5, <1>7, <1>8, <1>9, <1>10

-----------------------------------------------------------------------------
\* One turn of Search at page p, when down says what its children give.
Turn(down, pages, ptype, k, p) ==
  LET le == {j \in 1 .. Len(p.ents) : p.ents[j].key <= k}
      e == p.ents[Max(le)]
  IN  IF le = {} THEN {}
      ELSE IF p.level = 0 THEN {f \in {e} : f.key = k}
      ELSE UNION {down[c] : c \in {c \in pages : /\ c.at = e.at
                                                 /\ c.bid = e.bid
                                                 /\ c.ptype = ptype
                                                 /\ c.level = p.level - 1}}

Descends(down, pages, ptype, k) ==
  down = [p \in pages |-> Turn(down, pages, ptype, k, p)]

\* The last entry not past a key.
LEMMA Highest ==
  ASSUME NEW n \in Nat, NEW T, T \subseteq 1 .. n, T # {}
  PROVE  Max(T) \in T /\ \A x \in T : x <= Max(T)
<1>1. T \subseteq Nat /\ \A m \in T : m <= n
  OBVIOUS
<1>2. \E m \in T : \A x \in T : x <= m
  BY <1>1, Greatest
<1>3. \E m \in T : \A x \in T : m >= x
  BY <1>1, <1>2
<1>4. Max(T) \in T /\ \A x \in T : Max(T) >= x
  BY <1>3 DEF Max
<1> QED BY <1>1, <1>4

\* A turn gives entries, whatever the pages below give, if those are entries.
LEMMA TurnTyped ==
  ASSUME NEW L, Keyed(L), NEW pages, pages \subseteq PageOver(L), NEW ptype, NEW k \in Nat,
         NEW down \in [pages -> SUBSET Entry(L)], NEW p \in pages
  PROVE  Turn(down, pages, ptype, k, p) \in SUBSET Entry(L)
<1>1. PICK es : es = p.ents
  OBVIOUS
<1>2. es \in Seq(Entry(L)) /\ Len(es) \in Nat /\ \A j \in 1 .. Len(es) : es[j] \in Entry(L)
  BY <1>1 DEF PageOver
<1>3. PICK le : le = {j \in 1 .. Len(es) : es[j].key <= k}
  OBVIOUS
<1>4. CASE le = {}
  BY <1>1, <1>3, <1>4 DEF Turn
<1>5. CASE le # {}
  <2>1. Max(le) \in le
    BY <1>2, <1>3, <1>5, Highest
  <2>2. es[Max(le)] \in Entry(L)
    BY <1>2, <1>3, <2>1
  <2>3. PICK e : e = es[Max(le)]
    OBVIOUS
  <2>4. Turn(down, pages, ptype, k, p) =
          IF p.level = 0 THEN {f \in {e} : f.key = k}
          ELSE UNION {down[c] : c \in {c \in pages : /\ c.at = e.at
                                                     /\ c.bid = e.bid
                                                     /\ c.ptype = ptype
                                                     /\ c.level = p.level - 1}}
    BY <1>1, <1>3, <1>5, <2>3 DEF Turn
  <2>5. {f \in {e} : f.key = k} \subseteq Entry(L)
    BY <2>2, <2>3
  <2>6. UNION {down[c] : c \in {c \in pages : /\ c.at = e.at
                                              /\ c.bid = e.bid
                                              /\ c.ptype = ptype
                                              /\ c.level = p.level - 1}} \subseteq Entry(L)
    OBVIOUS
  <2> QED BY <2>4, <2>5, <2>6
<1> QED BY <1>4, <1>5

\* What a turn gives depends on the pages one level down only.
LEMMA TurnLooksDown ==
  ASSUME NEW pages, NEW ptype, NEW k, NEW p \in pages, NEW f, NEW g,
         \A c \in pages : c.level = p.level - 1 => f[c] = g[c]
  PROVE  Turn(f, pages, ptype, k, p) = Turn(g, pages, ptype, k, p)
<1>1. PICK le : le = {j \in 1 .. Len(p.ents) : p.ents[j].key <= k}
  OBVIOUS
<1>2. PICK e : e = p.ents[Max(le)]
  OBVIOUS
<1>3. PICK C : C = {c \in pages : /\ c.at = e.at
                                  /\ c.bid = e.bid
                                  /\ c.ptype = ptype
                                  /\ c.level = p.level - 1}
  OBVIOUS
<1>4. \A h : Turn(h, pages, ptype, k, p) =
               IF le = {} THEN {}
               ELSE IF p.level = 0 THEN {x \in {e} : x.key = k} ELSE UNION {h[c] : c \in C}
  BY <1>1, <1>2, <1>3 DEF Turn
<1>5. \A c \in C : f[c] = g[c]
  BY <1>3
<1>6. {f[c] : c \in C} = {g[c] : c \in C}
  BY <1>5
<1> QED BY <1>4, <1>6

\* The recursion of Search has a solution: levels go down, and no page is above N.
LEMMA SearchIs ==
  ASSUME NEW L, Keyed(L), NEW pages, pages \subseteq PageOver(L), NEW N \in Nat,
         \A p \in pages : p.level <= N, NEW ptype, NEW k \in Nat
  PROVE  \E down :
           /\ Descends(down, pages, ptype, k)
           /\ \A root : Search(pages, root, ptype, k) =
                UNION {down[p] : p \in {p \in pages : /\ p.at = root.at /\ p.bid = root.bid
                                                      /\ p.ptype = ptype}}
<1> DEFINE V == [pages -> SUBSET Entry(L)]
           start == [p \in pages |-> {}]
           again == [m \in 1 .. N + 2 |->
                       [v \in V |-> [p \in pages |-> Turn(v, pages, ptype, k, p)]]]
           down == CHOOSE d : Descends(d, pages, ptype, k)
<1>1. start \in V
  OBVIOUS
<1>2. ASSUME NEW v \in V PROVE [p \in pages |-> Turn(v, pages, ptype, k, p)] \in V
  <2>1. ASSUME NEW p \in pages PROVE Turn(v, pages, ptype, k, p) \in SUBSET Entry(L)
    BY TurnTyped
  <2> QED BY <2>1
<1>3. again \in [1 .. N + 2 -> [V -> V]]
  <2> HIDE DEF V
  <2> QED BY <1>2
<1>4. PICK f : Recurs(f, N + 2, V, start, again)
  <2> HIDE DEF V, start, again
  <2>1. N + 2 \in Nat
    OBVIOUS
  <2> QED BY <1>1, <1>3, <2>1, Recursion
<1>5. ASSUME NEW m \in 0 .. N + 1
      PROVE  /\ f[m] \in V
             /\ f[m + 1] = [p \in pages |-> Turn(f[m], pages, ptype, k, p)]
  <2>1. m + 1 \in 1 .. N + 2 /\ (m + 1) - 1 = m /\ m \in 0 .. N + 2
    OBVIOUS
  <2>2. f[m] \in V
    BY <1>4, <2>1 DEF Recurs
  <2>3. f[m + 1] = again[m + 1][f[m]]
    BY <1>4, <2>1 DEF Recurs
  <2> HIDE DEF V
  <2> QED BY <2>1, <2>2, <2>3
<1>6. \A p \in pages : p.level \in Nat
  BY DEF PageOver
<1> HIDE DEF V, start, again
<1> DEFINE P == {m \in Nat : m <= N + 1 =>
                   \A p \in pages : p.level < m => f[m + 1][p] = f[m][p]}
<1>7. 0 \in P
  BY <1>6
<1>8. ASSUME NEW m \in Nat, m \in P PROVE m + 1 \in P
  <2> SUFFICES ASSUME m + 1 <= N + 1, NEW p \in pages, p.level < m + 1
               PROVE  f[(m + 1) + 1][p] = f[m + 1][p]
    OBVIOUS
  <2>1. m \in 0 .. N + 1 /\ m + 1 \in 0 .. N + 1 /\ m <= N + 1
    OBVIOUS
  <2>2. f[m + 1][p] = Turn(f[m], pages, ptype, k, p)
    BY <1>5, <2>1
  <2>3. f[(m + 1) + 1][p] = Turn(f[m + 1], pages, ptype, k, p)
    BY <1>5, <2>1
  <2>4. \A c \in pages : c.level = p.level - 1 => f[m + 1][c] = f[m][c]
    <3>1. ASSUME NEW c \in pages, c.level = p.level - 1 PROVE c.level < m
      BY <1>6, <3>1
    <3> QED BY <1>8, <2>1, <3>1
  <2>5. Turn(f[m + 1], pages, ptype, k, p) = Turn(f[m], pages, ptype, k, p)
    BY <2>4, TurnLooksDown
  <2> QED BY <2>2, <2>3, <2>5
<1>9. PICK M \in Nat : M = N + 1
  OBVIOUS
<1>10. M \in 0 .. N + 1 /\ M \in P
  <2> HIDE DEF P
  <2>1. Nat \subseteq P
    BY <1>7, <1>8, Induct
  <2> QED BY <1>9, <2>1
<1>11. \A p \in pages : p.level < M
  BY <1>6, <1>9
<1>12. Descends(f[M], pages, ptype, k)
  <2>1. f[M] \in V /\ f[M + 1] = [p \in pages |-> Turn(f[M], pages, ptype, k, p)]
    BY <1>5, <1>10
  <2>2. \A p \in pages : f[M + 1][p] = f[M][p]
    BY <1>9, <1>10, <1>11
  <2>3. f[M] = [p \in pages |-> f[M][p]]
    BY <2>1 DEF V
  <2>4. f[M + 1] = [p \in pages |-> f[M + 1][p]]
    BY <2>1
  <2>5. f[M] = f[M + 1]
    BY <2>2, <2>3, <2>4
  <2> QED BY <2>1, <2>5 DEF Descends
<1>13. Descends(down, pages, ptype, k)
  BY <1>12
<1>14. \A root : Search(pages, root, ptype, k) =
                UNION {down[p] : p \in {p \in pages : /\ p.at = root.at /\ p.bid = root.bid
                                                      /\ p.ptype = ptype}}
  BY DEF Search, Descends, Turn
<1> HIDE DEF down
<1> QED BY <1>13, <1>14

\* Key k belongs into the j-th part of a sequence whose parts begin with these keys.
Reached(firsts, j, k) == firsts[j] <= k /\ (j < Len(firsts) => k < firsts[j + 1])

Firsts(pages) == [j \in 1 .. Len(pages) |-> pages[j].ents[1].key]

\* The last entry of p not past k is one of s, and the last one there not past k.
Lands(p, s, k) ==
  LET le == {j \in 1 .. Len(p) : p[j].key <= k}
  IN  /\ le # {}
      /\ \E a \in 1 .. Len(s) : /\ p[Max(le)] = s[a]
                                /\ s[a].key <= k
                                /\ a < Len(s) => k < s[a + 1].key

\* In the part a key belongs into, the last entry not past it is also the last one
\* not past it in the whole sequence.
LEMMA Landing ==
  ASSUME NEW s, Len(s) \in Nat, \A a \in 1 .. Len(s) : s[a].key \in Nat,
         NEW parts, Len(parts) \in Nat, NEW fan, NEW from, CutUp(parts, s, fan, from),
         NEW g \in 1 .. Len(parts), Len(parts[g]) \in Nat, NEW k \in Nat,
         parts[g][1].key <= k, g < Len(parts) => k < parts[g + 1][1].key
  PROVE  Lands(parts[g], s, k)
<1>1. PICK p, n : p = parts[g] /\ n = Len(parts[g])
  OBVIOUS
<1>2. PICK le : le = {j \in 1 .. n : p[j].key <= k}
  OBVIOUS
<1>3. /\ from[g] \in 1 .. Len(s) + 1 /\ from[g + 1] \in 1 .. Len(s) + 1
      /\ n = from[g + 1] - from[g] /\ n >= 1 /\ n \in Nat
      /\ \A j \in 1 .. n : p[j] = s[from[g] + j - 1]
  <2>1. g \in 1 .. Len(parts) + 1 /\ g + 1 \in 1 .. Len(parts) + 1
    OBVIOUS
  <2> QED BY <1>1, <2>1 DEF CutUp
<1>4. 1 \in le /\ le \subseteq 1 .. n
  BY <1>1, <1>2, <1>3
<1>5. PICK m : m = Max(le)
  OBVIOUS
<1>6. m \in le /\ \A j \in le : j <= m
  <2>1. le # {}
    BY <1>4
  <2> QED BY <1>3, <1>4, <1>5, <2>1, Highest
<1>7. m \in 1 .. n /\ p[m].key <= k
  BY <1>2, <1>6
<1>15. PICK b, c \in Nat : b = from[g] /\ c = from[g + 1]
  BY <1>3
<1>16. b >= 1 /\ c <= Len(s) + 1 /\ n = c - b /\ \A j \in 1 .. n : p[j] = s[b + j - 1]
  BY <1>3, <1>15
<1>8. PICK a : a = b + m - 1
  OBVIOUS
<1>9. a \in 1 .. Len(s) /\ p[m] = s[a]
  BY <1>7, <1>8, <1>16
<1>10. ASSUME a < Len(s) PROVE k < s[a + 1].key
  <2>1. CASE m < n
    <3>1. m + 1 \in 1 .. n /\ b + (m + 1) - 1 = a + 1
      BY <1>3, <1>7, <1>8, <2>1
    <3>2. p[m + 1] = s[a + 1]
      BY <1>16, <3>1
    <3>3. ~ (m + 1 <= m) /\ m + 1 \notin le
      BY <1>6, <1>7
    <3>4. ~ (p[m + 1].key <= k)
      BY <1>2, <3>1, <3>3
    <3>5. a + 1 \in 1 .. Len(s)
      BY <1>9, <1>10
    <3>6. s[a + 1].key \in Nat
      BY <3>5
    <3> QED BY <3>2, <3>4, <3>6
  <2>2. CASE ~ (m < n)
    <3>1. m = n /\ a + 1 = from[g + 1]
      <4>1. m = n
        BY <1>3, <1>7, <2>2
      <4>2. a + 1 = c
        BY <1>7, <1>8, <1>16, <4>1
      <4> QED BY <1>15, <4>1, <4>2
    <3>2. g < Len(parts)
      <4>1. from[Len(parts) + 1] = Len(s) + 1
        BY DEF CutUp
      <4>2. from[g + 1] # Len(s) + 1
        BY <1>9, <1>10, <3>1
      <4> QED BY <4>1, <4>2
    <3>3. g + 1 \in 1 .. Len(parts)
      BY <3>2
    <3>4. Len(parts[g + 1]) >= 1
          /\ \A j \in 1 .. Len(parts[g + 1]) : parts[g + 1][j] = s[from[g + 1] + j - 1]
      BY <3>3 DEF CutUp
    <3>5. Len(parts[g + 1]) = from[g + 1 + 1] - from[g + 1]
      BY <3>3 DEF CutUp
    <3>6. 1 \in 1 .. Len(parts[g + 1])
      <4>1. g + 1 + 1 \in 1 .. Len(parts) + 1
        BY <3>3
      <4>2. from[g + 1 + 1] \in 1 .. Len(s) + 1
        BY <4>1 DEF CutUp
      <4>3. Len(parts[g + 1]) \in Int
        BY <1>3, <3>5, <4>2
      <4> QED BY <3>4, <4>3
    <3>7. from[g + 1] + 1 - 1 = a + 1
      BY <1>3, <3>1
    <3>8. parts[g + 1][1] = s[a + 1]
      BY <3>4, <3>6, <3>7
    <3> QED BY <3>2, <3>8
  <2> QED BY <2>1, <2>2
<1>11. le # {} /\ \E x \in 1 .. Len(s) : /\ p[Max(le)] = s[x]
                                         /\ s[x].key <= k
                                         /\ x < Len(s) => k < s[x + 1].key
  BY <1>4, <1>5, <1>7, <1>9, <1>10
<1>12. le = {j \in 1 .. Len(p) : p[j].key <= k}
  BY <1>1, <1>2
<1>17. Lands(p, s, k)
  BY <1>11, <1>12 DEF Lands
<1> QED BY <1>1, <1>17

\* Every entry of a part is one of the whole, and the first is the first.
LEMMA FromWhole ==
  ASSUME NEW s, Len(s) \in Nat, NEW parts, Len(parts) \in Nat, NEW fan, NEW from,
         CutUp(parts, s, fan, from)
  PROVE  /\ \A g \in 1 .. Len(parts) : \A m \in 1 .. Len(parts[g]) :
              \E a \in 1 .. Len(s) : parts[g][m] = s[a]
         /\ parts[1][1] = s[1] /\ 1 \in 1 .. Len(parts) /\ 1 \in 1 .. Len(parts[1])
<1>1. ASSUME NEW g \in 1 .. Len(parts)
      PROVE  /\ Len(parts[g]) \in Int /\ Len(parts[g]) >= 1
             /\ \A m \in 1 .. Len(parts[g]) : \E a \in 1 .. Len(s) : parts[g][m] = s[a]
  <2>1. g \in 1 .. Len(parts) + 1 /\ g + 1 \in 1 .. Len(parts) + 1
    OBVIOUS
  <2>2. /\ from[g] \in 1 .. Len(s) + 1 /\ from[g + 1] \in 1 .. Len(s) + 1
        /\ Len(parts[g]) = from[g + 1] - from[g] /\ Len(parts[g]) >= 1
        /\ \A m \in 1 .. Len(parts[g]) : parts[g][m] = s[from[g] + m - 1]
    BY <2>1 DEF CutUp
  <2>3. PICK b, c \in Nat : b = from[g] /\ c = from[g + 1]
    BY <2>2
  <2>4. PICK p, n : p = parts[g] /\ n = Len(parts[g])
    OBVIOUS
  <2>5. b >= 1 /\ c <= Len(s) + 1 /\ n = c - b /\ \A m \in 1 .. n : p[m] = s[b + m - 1]
    BY <2>2, <2>3, <2>4
  <2>6. ASSUME NEW m \in 1 .. n PROVE \E a \in 1 .. Len(s) : p[m] = s[a]
    <3>1. b + m - 1 \in 1 .. Len(s)
      BY <2>5
    <3> QED BY <2>5, <3>1
  <2> QED BY <2>2, <2>4, <2>5, <2>6
<1>2. 1 \in 1 .. Len(parts)
  BY DEF CutUp
<1>3. 1 \in 1 .. Len(parts[1])
  BY <1>1, <1>2
<1>4. from[1] = 1 /\ parts[1][1] = s[from[1] + 1 - 1]
  BY <1>2, <1>3 DEF CutUp
<1>5. parts[1][1] = s[1]
  BY <1>4
<1> QED BY <1>1, <1>2, <1>3, <1>5

\* Keys that go up.
Ascending(s) == \A a, b \in 1 .. Len(s) : a < b => s[a].key < s[b].key

Hits(s, k) == {f \in ToSet(s) : f.key = k}

\* A leaf page that a key belongs into gives the entries of that key.
LEMMA LeavesFind ==
  ASSUME NEW L, Keyed(L), NEW leaves \in Seq(L), leaves # <<>>, Ascending(leaves),
         NEW fan \in Nat \ {0}, NEW ptype, NEW cur, NEW l,
         LevelMade(l, Chunks(leaves, fan), 0, ptype, cur),
         NEW pages, NEW k \in Nat, NEW down, Descends(down, pages, ptype, k),
         \A g \in 1 .. Len(l.pages) : l.pages[g] \in pages
  PROVE  /\ \A g \in 1 .. Len(l.pages) :
              Reached(Firsts(l.pages), g, k) => down[l.pages[g]] = Hits(leaves, k)
         /\ l.pages[1].ents[1] = leaves[1]
         /\ \A g \in 1 .. Len(l.pages) : \A m \in 1 .. Len(l.pages[g].ents) :
              leaves[1].key <= l.pages[g].ents[m].key
<1>1. PICK parts : parts = Chunks(leaves, fan)
  OBVIOUS
<1>2. PICK ps : ps = l.pages
  OBVIOUS
<1>3. parts \in Seq(Seq(L) \ {<<>>}) /\ \E from : CutUp(parts, leaves, fan, from)
  BY <1>1, ChunksIs
<1>4. PICK from : CutUp(parts, leaves, fan, from)
  BY <1>3
<1>5. /\ Len(ps) = Len(parts) /\ Len(parts) \in Nat /\ Len(parts) >= 1
      /\ \A g \in 1 .. Len(parts) : ps[g].ents = parts[g] /\ ps[g].level = 0
  BY <1>1, <1>2, <1>3, <1>4 DEF LevelMade, CutUp
<1>6. Len(leaves) \in Nat /\ \A a \in 1 .. Len(leaves) : leaves[a] \in L /\ leaves[a].key \in Nat
  BY DEF Keyed
<1>7. ASSUME NEW g \in 1 .. Len(parts), Reached(Firsts(ps), g, k)
      PROVE  down[ps[g]] = Hits(leaves, k)
  <2>1. parts[g][1].key <= k /\ (g < Len(parts) => k < parts[g + 1][1].key)
    <3>1. Len(Firsts(ps)) = Len(parts) /\ \A j \in 1 .. Len(parts) : Firsts(ps)[j] = parts[j][1].key
      BY <1>5 DEF Firsts
    <3>2. g < Len(parts) => g + 1 \in 1 .. Len(parts)
      BY <1>5
    <3> QED BY <1>7, <3>1, <3>2 DEF Reached
  <2>2. Len(parts[g]) \in Nat
    BY <1>3
  <2>3. PICK le : le = {j \in 1 .. Len(parts[g]) : parts[g][j].key <= k}
    OBVIOUS
  <2>4. le # {} /\ \E a \in 1 .. Len(leaves) : /\ parts[g][Max(le)] = leaves[a]
                                               /\ leaves[a].key <= k
                                               /\ a < Len(leaves) => k < leaves[a + 1].key
    <3>1. \A b \in 1 .. Len(leaves) : leaves[b].key \in Nat
      BY <1>6
    <3>2. Len(leaves) \in Nat /\ Len(parts) \in Nat
      BY <1>5, <1>6
    <3>3. Lands(parts[g], leaves, k)
      BY <1>4, <2>1, <2>2, <3>1, <3>2, Landing
    <3> QED BY <2>3, <3>3 DEF Lands
  <2>5. PICK a \in 1 .. Len(leaves) : /\ parts[g][Max(le)] = leaves[a]
                                      /\ leaves[a].key <= k
                                      /\ a < Len(leaves) => k < leaves[a + 1].key
    BY <2>4
  <2>6. down[ps[g]] = {f \in {leaves[a]} : f.key = k}
    <3>1. ps[g] \in pages
      BY <1>2, <1>5
    <3>2. down[ps[g]] = Turn(down, pages, ptype, k, ps[g])
      BY <3>1 DEF Descends
    <3>3. PICK p : p = ps[g]
      OBVIOUS
    <3>4. p.ents = parts[g] /\ p.level = 0
      BY <1>5, <3>3
    <3>5. Turn(down, pages, ptype, k, p) = {f \in {leaves[a]} : f.key = k}
      BY <2>3, <2>4, <2>5, <3>4 DEF Turn
    <3> QED BY <3>2, <3>3, <3>5
  <2>7. ASSUME NEW b \in 1 .. Len(leaves), leaves[b].key = k PROVE b = a
    <3>1. CASE b < a
      <4>1. leaves[b].key < leaves[a].key
        BY <3>1 DEF Ascending
      <4> QED BY <1>6, <2>5, <2>7, <4>1
    <3>2. CASE b > a
      <4>1. a + 1 \in 1 .. Len(leaves) /\ a < Len(leaves) /\ (b = a + 1 \/ a + 1 < b)
        BY <1>6, <3>2
      <4>2. k < leaves[a + 1].key
        BY <2>5, <4>1
      <4>3. leaves[a + 1].key <= leaves[b].key
        BY <1>6, <4>1 DEF Ascending
      <4> QED BY <1>6, <2>7, <4>1, <4>2, <4>3
    <3> QED BY <1>6, <3>1, <3>2
  <2>8. Hits(leaves, k) = {f \in {leaves[a]} : f.key = k}
    <3>1. ToSet(leaves) = {leaves[b] : b \in 1 .. Len(leaves)}
      BY DEF ToSet
    <3> QED BY <2>7, <3>1 DEF Hits
  <2> QED BY <2>6, <2>8
<1>8. /\ \A g \in 1 .. Len(parts) : \A m \in 1 .. Len(parts[g]) :
            \E a \in 1 .. Len(leaves) : parts[g][m] = leaves[a]
      /\ parts[1][1] = leaves[1] /\ 1 \in 1 .. Len(parts)
  BY <1>4, <1>5, <1>6, FromWhole
<1>9. ps[1].ents[1] = leaves[1]
  BY <1>5, <1>8
<1>10. ASSUME NEW g \in 1 .. Len(ps), NEW m \in 1 .. Len(ps[g].ents)
       PROVE  leaves[1].key <= ps[g].ents[m].key
  <2>1. g \in 1 .. Len(parts) /\ ps[g].ents = parts[g]
    BY <1>5
  <2>2. PICK a \in 1 .. Len(leaves) : parts[g][m] = leaves[a]
    BY <1>8, <2>1
  <2>3. leaves[1].key <= leaves[a].key
    <3>1. a = 1 \/ 1 < a
      BY <1>6
    <3>2. 1 \in 1 .. Len(leaves) /\ leaves[1].key \in Nat /\ leaves[a].key \in Nat
      BY <1>6
    <3> QED BY <3>1, <3>2 DEF Ascending
  <2> QED BY <2>1, <2>2, <2>3
<1> QED BY <1>2, <1>5, <1>7, <1>9, <1>10

\* Pages that are told apart by their ids.
Apart(pages) == \A p, q \in pages : p.bid = q.bid => p = q

\* Of these pages the one that a key belongs into gives the hits.
Yields(ps, k, down, hits) ==
  \A g \in 1 .. Len(ps) : Reached(Firsts(ps), g, k) => down[ps[g]] = hits

\* The keys in these pages are keys that pages of top begin with, and so is the first.
KeyedBy(ps, top) ==
  /\ ps[1].ents[1].key = top[1].ents[1].key
  /\ \A g \in 1 .. Len(ps) : \A m \in 1 .. Len(ps[g].ents) :
       \E j \in 1 .. Len(top) : ps[g].ents[m].key = top[j].ents[1].key

\* A page above the leaves that a key belongs into gives what the page below gives
\* that the key belongs into.
LEMMA ParentsFind ==
  ASSUME NEW L, Keyed(L), NEW top \in Seq(PageOver(L)), Len(top) >= 1, NEW d \in Nat,
         NEW fan \in Nat \ {0}, NEW ptype, NEW cur, NEW l,
         LevelMade(l, Chunks(Parents(top), fan), d + 1, ptype, cur),
         NEW pages, Apart(pages), NEW k \in Nat, NEW down, Descends(down, pages, ptype, k),
         \A g \in 1 .. Len(l.pages) : l.pages[g] \in pages,
         \A j \in 1 .. Len(top) : /\ top[j] \in pages /\ top[j].level = d
                                  /\ top[j].ptype = ptype,
         NEW hits, Yields(top, k, down, hits)
  PROVE  Yields(l.pages, k, down, hits) /\ KeyedBy(l.pages, top)
<1>1. PICK s : s = Parents(top)
  OBVIOUS
<1>2. PICK ps : ps = l.pages
  OBVIOUS
<1>3. /\ s \in Seq(Entry(L)) /\ Len(s) = Len(top)
      /\ \A j \in 1 .. Len(top) :
           s[j] = [key |-> top[j].ents[1].key, bid |-> top[j].bid, at |-> top[j].at]
  BY <1>1, ParentsIs
<1>4. s # <<>> /\ Len(s) \in Nat
  BY <1>3
<1>5. PICK parts : parts = Chunks(s, fan)
  OBVIOUS
<1>6. parts \in Seq(Seq(Entry(L)) \ {<<>>}) /\ \E from : CutUp(parts, s, fan, from)
  BY <1>3, <1>4, <1>5, ChunksIs
<1>7. PICK from : CutUp(parts, s, fan, from)
  BY <1>6
<1>8. /\ Len(ps) = Len(parts) /\ Len(parts) \in Nat /\ Len(parts) >= 1
      /\ \A g \in 1 .. Len(parts) : ps[g].ents = parts[g] /\ ps[g].level = d + 1
  BY <1>1, <1>2, <1>5, <1>6, <1>7 DEF LevelMade, CutUp
<1>9. ASSUME NEW j \in 1 .. Len(top)
      PROVE  /\ s[j].key = top[j].ents[1].key /\ s[j].bid = top[j].bid
             /\ s[j].at = top[j].at /\ s[j].key \in Nat
  <2>1. s[j] \in Entry(L)
    BY <1>3
  <2>2. s[j].key \in Nat
    BY <2>1 DEF Entry, Keyed
  <2>3. PICK x, y, z : x = top[j].ents[1].key /\ y = top[j].bid /\ z = top[j].at
    OBVIOUS
  <2>4. s[j] = [key |-> x, bid |-> y, at |-> z]
    BY <1>3, <2>3
  <2>5. s[j].key = x /\ s[j].bid = y /\ s[j].at = z
    BY <2>4
  <2> QED BY <2>2, <2>3, <2>5
<1>10. ASSUME NEW g \in 1 .. Len(parts), Reached(Firsts(ps), g, k)
       PROVE  down[ps[g]] = hits
  <2>1. parts[g][1].key <= k /\ (g < Len(parts) => k < parts[g + 1][1].key)
    <3>1. Len(Firsts(ps)) = Len(parts) /\ \A j \in 1 .. Len(parts) : Firsts(ps)[j] = parts[j][1].key
      BY <1>8 DEF Firsts
    <3>2. g < Len(parts) => g + 1 \in 1 .. Len(parts)
      BY <1>8
    <3> QED BY <1>10, <3>1, <3>2 DEF Reached
  <2>2. Len(parts[g]) \in Nat
    BY <1>6
  <2>3. Lands(parts[g], s, k)
    <3>1. \A a \in 1 .. Len(s) : s[a].key \in Nat
      BY <1>3, <1>9
    <3>2. Len(s) \in Nat /\ Len(parts) \in Nat
      BY <1>4, <1>8
    <3> QED BY <1>7, <2>1, <2>2, <3>1, <3>2, Landing
  <2>4. PICK le : le = {j \in 1 .. Len(parts[g]) : parts[g][j].key <= k}
    OBVIOUS
  <2>5. le # {} /\ \E a \in 1 .. Len(s) : /\ parts[g][Max(le)] = s[a]
                                          /\ s[a].key <= k
                                          /\ a < Len(s) => k < s[a + 1].key
    BY <2>3, <2>4 DEF Lands
  <2>6. PICK a \in 1 .. Len(s) : /\ parts[g][Max(le)] = s[a]
                                 /\ s[a].key <= k
                                 /\ a < Len(s) => k < s[a + 1].key
    BY <2>5
  <2>7. Reached(Firsts(top), a, k)
    <3>1. Len(Firsts(top)) = Len(s) /\ \A j \in 1 .. Len(s) : Firsts(top)[j] = s[j].key
      BY <1>3, <1>4, <1>9 DEF Firsts
    <3>2. a < Len(s) => a + 1 \in 1 .. Len(s)
      BY <1>4
    <3> QED BY <2>6, <3>1, <3>2 DEF Reached
  <2>8. PICK p, e : p = ps[g] /\ e = s[a]
    OBVIOUS
  <2>9. PICK C : C = {c \in pages : /\ c.at = e.at
                                    /\ c.bid = e.bid
                                    /\ c.ptype = ptype
                                    /\ c.level = p.level - 1}
    OBVIOUS
  <2>10. down[p] = UNION {down[c] : c \in C}
    <3>1. p \in pages
      BY <1>2, <1>8, <2>8
    <3>2. down[p] = Turn(down, pages, ptype, k, p)
      BY <3>1 DEF Descends
    <3>3. p.ents = parts[g] /\ p.level # 0
      BY <1>8, <2>8
    <3>4. le = {j \in 1 .. Len(p.ents) : p.ents[j].key <= k} /\ e = p.ents[Max(le)]
      BY <2>4, <2>6, <2>8, <3>3
    <3> QED BY <2>5, <2>9, <3>2, <3>3, <3>4 DEF Turn
  <2>11. C = {top[a]}
    <3>1. a \in 1 .. Len(top)
      BY <1>3
    <3>2. /\ top[a] \in pages /\ top[a].level = d /\ top[a].ptype = ptype
          /\ e.at = top[a].at /\ e.bid = top[a].bid
      BY <1>9, <2>8, <3>1
    <3>3. p.level - 1 = d
      <4>1. p.level = d + 1
        BY <1>8, <2>8
      <4>2. (d + 1) - 1 = d
        OBVIOUS
      <4> QED BY <4>1, <4>2
    <3>4. top[a] \in C
      BY <2>9, <3>2, <3>3
    <3>5. \A c \in C : c = top[a]
      BY <2>9, <3>2 DEF Apart
    <3> QED BY <3>4, <3>5
  <2>12. down[p] = down[top[a]]
    BY <2>10, <2>11
  <2>13. down[top[a]] = hits
    BY <1>3, <2>7 DEF Yields
  <2> QED BY <2>8, <2>12, <2>13
<1>11. /\ \A g \in 1 .. Len(parts) : \A m \in 1 .. Len(parts[g]) :
            \E a \in 1 .. Len(s) : parts[g][m] = s[a]
       /\ parts[1][1] = s[1] /\ 1 \in 1 .. Len(parts) /\ 1 \in 1 .. Len(parts[1])
  BY <1>4, <1>7, <1>8, FromWhole
<1>12. ps[1].ents[1].key = top[1].ents[1].key
  <2>1. 1 \in 1 .. Len(top)
    OBVIOUS
  <2> QED BY <1>8, <1>9, <1>11, <2>1
<1>13. ASSUME NEW g \in 1 .. Len(ps), NEW m \in 1 .. Len(ps[g].ents)
       PROVE  \E j \in 1 .. Len(top) : ps[g].ents[m].key = top[j].ents[1].key
  <2>1. g \in 1 .. Len(parts) /\ ps[g].ents = parts[g]
    BY <1>8
  <2>2. m \in 1 .. Len(parts[g])
    BY <2>1
  <2>3. \A x \in 1 .. Len(parts[g]) : \E a \in 1 .. Len(s) : parts[g][x] = s[a]
    BY <1>11, <2>1
  <2>4. PICK a \in 1 .. Len(s) : parts[g][m] = s[a]
    BY <2>2, <2>3
  <2> QED BY <1>3, <1>9, <2>1, <2>4
<1>14. Yields(ps, k, down, hits)
  BY <1>8, <1>10 DEF Yields
<1>15. KeyedBy(ps, top)
  BY <1>12, <1>13 DEF KeyedBy
<1> QED BY <1>2, <1>14, <1>15

\* When pages can be read: from the top level of a tree that is being built each key
\* is found, below the page it belongs into.
Rising(s, d, ptype, leaves, k, pages, down) ==
  (\A j \in 1 .. Len(s.pages) : s.pages[j] \in pages) =>
    /\ \A j \in 1 .. Len(TopOf(s)) :
         /\ TopOf(s)[j].ptype = ptype /\ (Len(TopOf(s)) # 1 => TopOf(s)[j].level = d)
         /\ \A m \in 1 .. Len(TopOf(s)[j].ents) : leaves[1].key <= TopOf(s)[j].ents[m].key
    /\ Len(TopOf(s)) = 1 \/ Len(TopOf(s)) + d <= Len(leaves)
    /\ \A j \in 1 .. Len(TopOf(s)) :
         Reached(Firsts(TopOf(s)), j, k) => down[TopOf(s)[j]] = Hits(leaves, k)
    /\ TopOf(s)[1].ents[1].key = leaves[1].key

\* A search among the leaf pages.
LEMMA GroundRises ==
  ASSUME NEW L, Keyed(L), NEW leaves \in Seq(L), leaves # <<>>, Ascending(leaves),
         NEW ptype \in {"NBT", "BBT"}, NEW cur \in Cursors,
         NEW pages, NEW k \in Nat, NEW down, Descends(down, pages, ptype, k)
  PROVE  Rising(Ground(leaves, ptype, cur), 0, ptype, leaves, k, pages, down)
<1>1. PICK fan \in Nat \ {0} : fan = LEAF_FAN[ptype]
  BY FanAssumption
<1>2. PICK l : l = BuildLevel(leaves, fan, 0, ptype, cur)
  OBVIOUS
<1>3. PICK ps : ps = l.pages
  OBVIOUS
<1>4. /\ ps \in Seq(PageOver(L)) /\ LevelMade(l, Chunks(leaves, fan), 0, ptype, cur)
  BY <1>1, <1>2, <1>3, GroundIs
<1>5. PICK s : s = Ground(leaves, ptype, cur)
  OBVIOUS
<1>6. s = [pages |-> ps, below |-> 0, cur |-> l.cur]
  BY <1>1, <1>2, <1>3, <1>5 DEF Ground
<1>7. s.pages = ps /\ s.below = 0
  BY <1>6
<1>8. TopOf(s) = ps
  <2>1. TopOf(s) = SubSeq(ps, 1, Len(ps))
    BY <1>7 DEF TopOf
  <2> QED BY <1>4, <2>1
<1> SUFFICES ASSUME \A j \in 1 .. Len(ps) : ps[j] \in pages
             PROVE  Rising(s, 0, ptype, leaves, k, pages, down)
  BY <1>5, <1>7 DEF Rising
<1>9. /\ \A g \in 1 .. Len(ps) : Reached(Firsts(ps), g, k) => down[ps[g]] = Hits(leaves, k)
      /\ ps[1].ents[1] = leaves[1]
      /\ \A g \in 1 .. Len(ps) : \A m \in 1 .. Len(ps[g].ents) :
           leaves[1].key <= ps[g].ents[m].key
  <2>1. \A g \in 1 .. Len(l.pages) : l.pages[g] \in pages
    BY <1>3
  <2>2. /\ \A g \in 1 .. Len(l.pages) :
             Reached(Firsts(l.pages), g, k) => down[l.pages[g]] = Hits(leaves, k)
        /\ l.pages[1].ents[1] = leaves[1]
        /\ \A g \in 1 .. Len(l.pages) : \A m \in 1 .. Len(l.pages[g].ents) :
             leaves[1].key <= l.pages[g].ents[m].key
    BY <1>4, <2>1, LeavesFind
  <2> QED BY <1>3, <2>2
<1>10. \A j \in 1 .. Len(ps) : ps[j].ptype = ptype /\ ps[j].level = 0
  BY <1>3, <1>4 DEF LevelMade
<1>11. Len(ps) + 0 <= Len(leaves)
  <2>1. Len(Chunks(leaves, fan)) <= Len(leaves)
    BY ChunksIs
  <2>2. Len(ps) = Len(Chunks(leaves, fan))
    BY <1>3, <1>4 DEF LevelMade
  <2>3. Len(ps) \in Nat
    BY <1>4
  <2> QED BY <2>1, <2>2, <2>3
<1> QED BY <1>8, <1>9, <1>10, <1>11 DEF Rising

\* A search among the pages of one more level.
LEMMA RaisedRises ==
  ASSUME NEW L, Keyed(L), NEW leaves \in Seq(L), NEW s \in Growing(L), NEW d \in Nat,
         NEW ptype \in {"NBT", "BBT"},
         NEW pages, Apart(pages), NEW k \in Nat, NEW down, Descends(down, pages, ptype, k),
         Rising(s, d, ptype, leaves, k, pages, down)
  PROVE  Rising(Raised(s, d + 1, ptype), d + 1, ptype, leaves, k, pages, down)
<1>1. CASE Len(TopOf(s)) = 1
  <2>1. Raised(s, d + 1, ptype) = s
    BY <1>1 DEF Raised
  <2> QED BY <1>1, <2>1 DEF Rising
<1>2. CASE Len(TopOf(s)) # 1
  <2>1. PICK top, up : top = TopOf(s) /\ up = Parents(top)
    OBVIOUS
  <2>2. PICK l : l = BuildLevel(up, INNER_FAN, d + 1, ptype, s.cur)
    OBVIOUS
  <2>3. PICK p, ps : p = s.pages /\ ps = l.pages
    OBVIOUS
  <2>4. /\ ps \in Seq(PageOver(L))
        /\ LevelMade(l, Chunks(up, INNER_FAN), d + 1, ptype, s.cur)
    <3>1. d + 1 \in Nat
      OBVIOUS
    <3> QED BY <2>1, <2>2, <2>3, <3>1, RaisedIs
  <2>5. /\ top \in Seq(PageOver(L)) /\ Len(top) >= 1 /\ Len(top) = Len(p) - s.below
        /\ \A j \in 1 .. Len(top) : top[j] = p[s.below + j]
    BY <2>1, <2>3, TopIs
  <2>6. p \in Seq(PageOver(L)) /\ s.below \in Nat /\ s.below < Len(p)
    BY <2>3 DEF Growing
  <2>7. PICK r : r = p \o ps
    OBVIOUS
  <2>8. /\ r \in Seq(PageOver(L)) /\ Len(r) = Len(p) + Len(ps)
        /\ \A j \in 1 .. Len(p) : r[j] = p[j]
        /\ \A j \in 1 .. Len(ps) : r[Len(p) + j] = ps[j]
    BY <2>4, <2>6, <2>7
  <2>9. PICK w : w = Raised(s, d + 1, ptype)
    OBVIOUS
  <2>10. w.pages = r /\ w.below = Len(p)
    <3>1. PICK b, c : b = Len(p) /\ c = l.cur
      OBVIOUS
    <3>2. w = [pages |-> r, below |-> b, cur |-> c]
      BY <1>2, <2>1, <2>2, <2>3, <2>7, <2>9, <3>1 DEF Raised
    <3>3. w.pages = r /\ w.below = b
      BY <3>2
    <3> QED BY <3>1, <3>3, Zenon
  <2>11. TopOf(w) = ps
    <3>1. TopOf(w) = SubSeq(r, Len(p) + 1, Len(r))
      BY <2>10 DEF TopOf
    <3>2. PICK a, b \in Nat : a = Len(p) /\ b = Len(ps)
      BY <2>4, <2>6
    <3>3. SubSeq(r, a + 1, a + b) = [j \in 1 .. b |-> r[a + j]]
      BY <2>8, <3>2
    <3>4. ps = [j \in 1 .. b |-> ps[j]]
      BY <2>4, <3>2
    <3>5. [j \in 1 .. b |-> r[a + j]] = [j \in 1 .. b |-> ps[j]]
      BY <2>8, <3>2
    <3> QED BY <2>8, <3>1, <3>2, <3>3, <3>4, <3>5
  <2> SUFFICES ASSUME \A j \in 1 .. Len(r) : r[j] \in pages
               PROVE  Rising(w, d + 1, ptype, leaves, k, pages, down)
    BY <2>9, <2>10 DEF Rising
  <2>12. (\A j \in 1 .. Len(p) : p[j] \in pages) /\ (\A j \in 1 .. Len(ps) : ps[j] \in pages)
    <3>1. Len(p) \in Nat /\ Len(ps) \in Nat
      BY <2>4, <2>6
    <3>2. ASSUME NEW j \in 1 .. Len(p) PROVE p[j] \in pages
      <4>1. j \in 1 .. Len(r)
        BY <2>8, <3>1
      <4> QED BY <2>8, <4>1
    <3>3. ASSUME NEW j \in 1 .. Len(ps) PROVE ps[j] \in pages
      <4>1. Len(p) + j \in 1 .. Len(r)
        BY <2>8, <3>1
      <4> QED BY <2>8, <4>1
    <3> QED BY <3>2, <3>3
  <2>13. /\ \A j \in 1 .. Len(top) :
              /\ top[j].ptype = ptype /\ top[j].level = d
              /\ \A m \in 1 .. Len(top[j].ents) : leaves[1].key <= top[j].ents[m].key
         /\ Len(top) + d <= Len(leaves)
         /\ \A j \in 1 .. Len(top) :
              Reached(Firsts(top), j, k) => down[top[j]] = Hits(leaves, k)
         /\ top[1].ents[1].key = leaves[1].key
    BY <1>2, <2>1, <2>3, <2>12 DEF Rising
  <2>14. ASSUME NEW j \in 1 .. Len(top)
         PROVE  top[j] \in pages /\ 1 \in 1 .. Len(top[j].ents)
    <3>1. s.below + j \in 1 .. Len(p)
      BY <2>5, <2>6
    <3>2. top[j] \in pages
      BY <2>5, <2>12, <3>1
    <3>3. PICK es : es = top[j].ents
      OBVIOUS
    <3>6. top[j] \in PageOver(L)
      BY <2>5
    <3>4. es \in Seq(Entry(L)) \ {<<>>}
      BY <3>3, <3>6 DEF PageOver
    <3>5. 1 \in 1 .. Len(es)
      BY <3>4
    <3> QED BY <3>2, <3>3, <3>5
  <2>15. /\ \A g \in 1 .. Len(ps) :
              Reached(Firsts(ps), g, k) => down[ps[g]] = Hits(leaves, k)
         /\ ps[1].ents[1].key = top[1].ents[1].key
         /\ \A g \in 1 .. Len(ps) : \A m \in 1 .. Len(ps[g].ents) :
              \E j \in 1 .. Len(top) : ps[g].ents[m].key = top[j].ents[1].key
    <3>1. INNER_FAN \in Nat \ {0}
      BY FanAssumption
    <3>2. \A j \in 1 .. Len(top) : top[j] \in pages /\ top[j].level = d /\ top[j].ptype = ptype
      BY <2>13, <2>14
    <3>3. \A g \in 1 .. Len(l.pages) : l.pages[g] \in pages
      BY <2>3, <2>12
    <3>4. LevelMade(l, Chunks(Parents(top), INNER_FAN), d + 1, ptype, s.cur)
      BY <2>1, <2>4
    <3>5. Yields(top, k, down, Hits(leaves, k))
      BY <2>13 DEF Yields
    <3>6. top \in Seq(PageOver(L)) /\ Len(top) >= 1
      BY <2>5
    <3>7. Yields(l.pages, k, down, Hits(leaves, k)) /\ KeyedBy(l.pages, top)
      BY <3>1, <3>2, <3>3, <3>4, <3>5, <3>6, ParentsFind
    <3> QED BY <2>3, <3>7 DEF Yields, KeyedBy
  <2>16. \A g \in 1 .. Len(ps) : \A m \in 1 .. Len(ps[g].ents) :
           leaves[1].key <= ps[g].ents[m].key
    <3>1. ASSUME NEW g \in 1 .. Len(ps), NEW m \in 1 .. Len(ps[g].ents)
          PROVE  leaves[1].key <= ps[g].ents[m].key
      <4>1. PICK j \in 1 .. Len(top) : ps[g].ents[m].key = top[j].ents[1].key
        BY <2>15
      <4>2. leaves[1].key <= top[j].ents[1].key
        BY <2>13, <2>14
      <4> QED BY <4>1, <4>2
    <3> QED BY <3>1
  <2>17. \A g \in 1 .. Len(ps) : ps[g].ptype = ptype /\ ps[g].level = d + 1
    BY <2>3, <2>4 DEF LevelMade
  <2>18. Len(ps) + (d + 1) <= Len(leaves)
    <3>1. up \in Seq(Entry(L)) /\ Len(up) = Len(top)
      BY <2>1, <2>5, ParentsIs
    <3>2. up # <<>> /\ Len(up) # 1
      BY <1>2, <2>1, <2>5, <3>1
    <3>3. INNER_FAN \in Nat \ {0} /\ INNER_FAN # 1
      BY FanAssumption
    <3>4. Len(Chunks(up, INNER_FAN)) < Len(up)
      BY <3>1, <3>2, <3>3, ChunksIs
    <3>5. Len(ps) = Len(Chunks(up, INNER_FAN))
      BY <2>3, <2>4 DEF LevelMade
    <3>6. Len(ps) < Len(top) /\ Len(ps) \in Nat /\ Len(top) \in Nat /\ Len(leaves) \in Nat
      BY <2>4, <2>5, <3>1, <3>4, <3>5
    <3> QED BY <2>13, <3>6
  <2>19. ps[1].ents[1].key = leaves[1].key
    BY <2>13, <2>15
  <2> QED BY <2>11, <2>15, <2>16, <2>17, <2>18, <2>19 DEF Rising
<1> QED BY <1>1, <1>2

\* Finitely many pages have a highest level.
LEMMA Bounded ==
  ASSUME NEW L, NEW ps \in Seq(PageOver(L))
  PROVE  \E N \in Nat : \A j \in 1 .. Len(ps) : ps[j].level <= N
<1>1. Len(ps) \in Nat /\ \A j \in 1 .. Len(ps) : ps[j].level \in Nat
  <2>1. ASSUME NEW j \in 1 .. Len(ps) PROVE ps[j].level \in Nat
    <3>1. ps[j] \in PageOver(L)
      OBVIOUS
    <3> QED BY <3>1 DEF PageOver
  <2> QED BY <2>1
<1> DEFINE P == {n \in Nat : n <= Len(ps) =>
                   \E N \in Nat : \A j \in 1 .. n : ps[j].level <= N}
<1>2. 0 \in P
  <2>1. \A j \in 1 .. 0 : ps[j].level <= 0
    OBVIOUS
  <2> QED BY <2>1
<1>3. ASSUME NEW n \in Nat, n \in P PROVE n + 1 \in P
  <2> SUFFICES ASSUME n + 1 <= Len(ps)
               PROVE  \E N \in Nat : \A j \in 1 .. n + 1 : ps[j].level <= N
    OBVIOUS
  <2>1. PICK N \in Nat : \A j \in 1 .. n : ps[j].level <= N
    BY <1>1, <1>3
  <2>2. PICK v \in Nat : v = ps[n + 1].level
    BY <1>1
  <2>3. \A j \in 1 .. n + 1 : j \in 1 .. n \/ j = n + 1
    OBVIOUS
  <2>4. \A j \in 1 .. n + 1 : ps[j].level <= N + v
    <3>1. ASSUME NEW j \in 1 .. n PROVE ps[j].level <= N + v
      <4>1. ps[j].level \in Nat /\ ps[j].level <= N
        BY <1>1, <2>1
      <4> QED BY <4>1
    <3>2. ps[n + 1].level <= N + v
      BY <2>2
    <3> QED BY <2>3, <3>1, <3>2
  <2>5. N + v \in Nat
    OBVIOUS
  <2> QED BY <2>4, <2>5
<1>4. Len(ps) \in P
  <2> HIDE DEF P
  <2> QED BY <1>1, <1>2, <1>3, Induct
<1> QED BY <1>1, <1>4

\* Pages a search can be made in: of no height beyond N, each known by its id, and with
\* a whole tree among them.
HoldsTree(pages, L, N, t) ==
  /\ pages \subseteq PageOver(L) /\ Apart(pages)
  /\ \A p \in pages : p.level <= N
  /\ \A j \in 1 .. Len(t.pages) : t.pages[j] \in pages

\* A reader who starts at the root finds the entries of a key and no others, whatever
\* other pages are in the file.
LEMMA SearchFinds ==
  ASSUME NEW L, Keyed(L), NEW leaves \in Seq(L), leaves # <<>>, Ascending(leaves),
         NEW ptype \in {"NBT", "BBT"}, NEW cur \in Cursors,
         NEW t, t = BuildTree(leaves, ptype, cur),
         NEW pages, NEW N \in Nat, HoldsTree(pages, L, N, t), NEW k \in Nat,
         NEW root, root.at = t.root.at, root.bid = t.root.bid
  PROVE  Search(pages, root, ptype, k) = Hits(leaves, k)
<1> USE DEF HoldsTree
<1>1. PICK n : n = Len(leaves)
  OBVIOUS
<1>2. n \in Nat /\ \A a \in 1 .. n : leaves[a] \in L /\ leaves[a].key \in Nat
  BY <1>1 DEF Keyed
<1>3. PICK up : /\ GoesUp(up, L, leaves, ptype, cur)
                /\ t = [pages |-> up[n].pages, root |-> Last(up[n].pages), cur |-> up[n].cur]
  BY <1>1, TreeGoesUp
<1>4. PICK down :
        /\ Descends(down, pages, ptype, k)
        /\ \A r : Search(pages, r, ptype, k) =
             UNION {down[p] : p \in {p \in pages : /\ p.at = r.at /\ p.bid = r.bid
                                                   /\ p.ptype = ptype}}
  BY SearchIs
<1> DEFINE Rises(d) == Rising(up[d], d, ptype, leaves, k, pages, down)
           P == {d \in Nat : d <= n => Rises(d)}
<1>5. 0 \in P
  <2>1. Rising(Ground(leaves, ptype, cur), 0, ptype, leaves, k, pages, down)
    BY <1>4, GroundRises
  <2>2. up[0] = Ground(leaves, ptype, cur)
    BY <1>3 DEF GoesUp
  <2> QED BY <2>1, <2>2
<1>6. ASSUME NEW d \in Nat, d \in P PROVE d + 1 \in P
  <2> SUFFICES ASSUME d + 1 <= n PROVE Rises(d + 1)
    OBVIOUS
  <2>1. d \in 0 .. n /\ d + 1 \in 1 .. n /\ (d + 1) - 1 = d /\ d <= n
    BY <1>2
  <2>2. PICK s : s = up[d]
    OBVIOUS
  <2>3. s \in Growing(L) /\ up[d + 1] = Raised(s, d + 1, ptype)
    BY <1>1, <1>3, <2>1, <2>2 DEF GoesUp
  <2>4. Rising(s, d, ptype, leaves, k, pages, down)
    BY <1>6, <2>1, <2>2
  <2>5. Rising(Raised(s, d + 1, ptype), d + 1, ptype, leaves, k, pages, down)
    BY <1>4, <2>3, <2>4, RaisedRises
  <2> QED BY <2>3, <2>5
<1>7. Rises(n)
  <2> HIDE DEF P
  <2>1. n \in P
    BY <1>2, <1>5, <1>6, Induct
  <2> QED BY <1>2, <2>1 DEF P
<1>8. PICK s : s = up[n]
  OBVIOUS
<1>9. s \in Growing(L)
  <2>1. n \in 0 .. n
    BY <1>2
  <2> QED BY <1>1, <1>3, <1>8, <2>1 DEF GoesUp
<1>10. PICK top, ps : top = TopOf(s) /\ ps = s.pages
  OBVIOUS
<1>11. t.pages = ps /\ t.root = Last(ps)
  BY <1>3, <1>8, <1>10
<1>12. /\ top \in Seq(PageOver(L)) /\ Len(top) >= 1 /\ Len(top) = Len(ps) - s.below
       /\ \A j \in 1 .. Len(top) : top[j] = ps[s.below + j]
  BY <1>9, <1>10, TopIs
<1>13. ps \in Seq(PageOver(L)) /\ s.below \in Nat /\ s.below < Len(ps)
  BY <1>9, <1>10 DEF Growing
<1>14. /\ \A j \in 1 .. Len(top) :
            /\ top[j].ptype = ptype
            /\ \A m \in 1 .. Len(top[j].ents) : leaves[1].key <= top[j].ents[m].key
       /\ Len(top) = 1 \/ Len(top) + n <= n
       /\ \A j \in 1 .. Len(top) :
            Reached(Firsts(top), j, k) => down[top[j]] = Hits(leaves, k)
       /\ top[1].ents[1].key = leaves[1].key
  <2>1. Rising(s, n, ptype, leaves, k, pages, down)
    BY <1>7, <1>8
  <2>2. \A j \in 1 .. Len(s.pages) : s.pages[j] \in pages
    BY <1>10, <1>11
  <2> QED BY <1>1, <1>10, <2>1, <2>2 DEF Rising
<1>15. Len(top) = 1
  BY <1>2, <1>12, <1>14
<1>16. PICK p : p = top[1]
  OBVIOUS
<1>17. t.root = p /\ p \in pages /\ p \in PageOver(L) /\ p.ptype = ptype
  <2>1. 1 \in 1 .. Len(top) /\ s.below + 1 = Len(ps) /\ Len(ps) \in 1 .. Len(ps)
    <3>1. PICK a, b \in Nat : a = Len(ps) /\ b = s.below
      BY <1>13
    <3>2. 1 = a - b /\ b < a
      BY <1>12, <1>13, <1>15, <3>1
    <3>3. b + 1 = a /\ a \in 1 .. a
      BY <3>2
    <3> QED BY <1>15, <3>1, <3>3
  <2>2. p = ps[Len(ps)]
    BY <1>12, <1>16, <2>1
  <2>3. p \in pages
    BY <1>11, <2>1, <2>2
  <2> QED BY <1>11, <1>14, <1>16, <2>1, <2>2, <2>3 DEF Last
<1>18. Search(pages, root, ptype, k) = down[p]
  <2>1. PICK C : C = {q \in pages : q.at = root.at /\ q.bid = root.bid /\ q.ptype = ptype}
    OBVIOUS
  <2>2. C = {p}
    BY <1>17, <2>1 DEF Apart
  <2>3. Search(pages, root, ptype, k) = UNION {down[q] : q \in C}
    BY <1>4, <2>1
  <2> QED BY <2>2, <2>3
<1>19. down[p] = Hits(leaves, k)
  <2>1. CASE leaves[1].key <= k
    <3>1. Len(Firsts(top)) = 1 /\ Firsts(top)[1] = leaves[1].key
      BY <1>14, <1>15 DEF Firsts
    <3>2. Reached(Firsts(top), 1, k)
      BY <2>1, <3>1 DEF Reached
    <3> QED BY <1>14, <1>15, <1>16, <3>2
  <2>2. CASE ~ (leaves[1].key <= k)
    <3>1. n >= 1 /\ k < leaves[1].key
      <4>1. n # 0
        BY <1>1
      <4>2. n >= 1 /\ leaves[1].key \in Nat
        BY <1>2, <4>1
      <4> QED BY <2>2, <4>2
    <3>2. Hits(leaves, k) = {}
      <4>1. ASSUME NEW a \in 1 .. n PROVE leaves[a].key # k
        <5>1. a = 1 \/ 1 < a
          BY <1>2
        <5>2. leaves[1].key <= leaves[a].key
          <6>1. leaves[1].key \in Nat /\ leaves[a].key \in Nat /\ 1 \in 1 .. n
            BY <1>2, <3>1
          <6>2. 1 < a => leaves[1].key < leaves[a].key
            BY <1>1, <6>1 DEF Ascending
          <6> QED BY <5>1, <6>1, <6>2
        <5> QED BY <1>2, <3>1, <5>2
      <4>2. ToSet(leaves) = {leaves[a] : a \in 1 .. n}
        BY <1>1 DEF ToSet
      <4> QED BY <4>1, <4>2 DEF Hits
    <3>3. PICK es : es = p.ents
      OBVIOUS
    <3>4. PICK le : le = {j \in 1 .. Len(es) : es[j].key <= k}
      OBVIOUS
    <3>5. le = {}
      <4>1. ASSUME NEW j \in 1 .. Len(es) PROVE ~ (es[j].key <= k)
        <5>1. es \in Seq(Entry(L))
          BY <1>17, <3>3 DEF PageOver
        <5>2. es[j] \in Entry(L)
          BY <5>1
        <5>3. es[j].key \in Nat
          BY <5>2 DEF Entry, Keyed
        <5>4. leaves[1].key <= es[j].key
          BY <1>14, <1>15, <1>16, <3>3
        <5>5. leaves[1].key \in Nat
          BY <1>2, <3>1
        <5> QED BY <3>1, <5>3, <5>4, <5>5
      <4> QED BY <3>4, <4>1
    <3>6. down[p] = {}
      <4>1. down[p] = Turn(down, pages, ptype, k, p)
        BY <1>4, <1>17 DEF Descends
      <4> QED BY <3>3, <3>4, <3>5, <4>1 DEF Turn
    <3> QED BY <3>2, <3>6
  <2> QED BY <2>1, <2>2
<1> QED BY <1>18, <1>19

-----------------------------------------------------------------------------
\* Pages with ids counted up from one are told apart by them.
LEMMA PagesApart ==
  ASSUME NEW L, NEW gs \in Seq(PageOver(L)), NEW x, NEW y, NEW id \in Nat,
         PagesLaid(gs, x, y, id)
  PROVE  /\ \A j, k \in 1 .. Len(gs) : gs[j].bid = gs[k].bid => j = k
         /\ Apart(ToSet(gs)) /\ ToSet(gs) \subseteq PageOver(L)
<1>1. Len(gs) \in Nat /\ DOMAIN gs = 1 .. Len(gs)
  OBVIOUS
<1>2. \A k \in 1 .. Len(gs) : gs[k].bid = id + 4 * (k - 1)
  BY DEF PagesLaid
<1>3. ASSUME NEW j \in 1 .. Len(gs), NEW k \in 1 .. Len(gs), gs[j].bid = gs[k].bid
      PROVE  j = k
  <2>1. id + 4 * (j - 1) = id + 4 * (k - 1)
    BY <1>2, <1>3
  <2> QED BY <1>1, <2>1
<1>4. \A p \in ToSet(gs) : \E k \in 1 .. Len(gs) : p = gs[k]
  BY <1>1 DEF ToSet
<1>5. Apart(ToSet(gs))
  BY <1>3, <1>4 DEF Apart
<1> QED BY <1>3, <1>4, <1>5

\* As many values as places, where no two places have the same.
LEMMA AllDiffer ==
  ASSUME NEW n \in Nat, NEW f, \A j, k \in 1 .. n : j # k => f[j] # f[k],
         NEW T, \A x \in T : \E k \in 1 .. n : x = f[k], \A k \in 1 .. n : f[k] \in T
  PROVE  Cardinality(T) = n
<1>1. IsFiniteSet(1 .. n) /\ Cardinality(1 .. n) = n
  BY FS_Interval
<1> DEFINE g == [k \in 1 .. n |-> f[k]]
<1>2. g \in Bijection(1 .. n, T)
  BY DEF Bijection, Injection, Surjection, IsInjective
<1>3. ExistsBijection(1 .. n, T)
  BY <1>2 DEF ExistsBijection
<1> QED BY <1>1, <1>3, FS_Bijection

=============================================================================
