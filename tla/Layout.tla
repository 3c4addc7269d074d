------------------------------- MODULE Layout -------------------------------
(***************************************************************************)
(* Where a rebuilt PST puts things.  A PST keeps fixed slots for its       *)
(* allocation maps: MAP_SLOTS pages at the head of every section of        *)
(* AMAP_EVERY bytes, the first section starting at AMAP_FIRST.  Blocks and *)
(* B-tree pages go anywhere else, one after the other (src/repair.rs).     *)
(***************************************************************************)
EXTENDS Align, Sequences

CONSTANTS
  PAGE,         \* bytes of a page, 512 in the code
  BLOCK_ALIGN,  \* what a block's offset is a multiple of, 64 in the code
  TRAILER,      \* bytes of a block trailer, 16 in the code
  AMAP_FIRST,   \* offset of the first allocation map, 0x4400 in the code
  AMAP_EVERY,   \* bytes of a section, 253952 in the code
  MAP_SLOTS     \* pages kept clear at the head of a section, 4 in the code

(***************************************************************************)
(* What the numbers of the code have in common: the maps start and recur   *)
(* on page boundaries, and a page boundary is a block boundary.            *)
(***************************************************************************)
ASSUME LayoutAssumption ==
  /\ PAGE \in Nat \ {0} /\ BLOCK_ALIGN \in Nat \ {0}
  /\ TRAILER \in Nat \ {0}
  /\ AMAP_FIRST \in Nat /\ AMAP_EVERY \in Nat \ {0} /\ MAP_SLOTS \in Nat
  /\ AMAP_FIRST % PAGE = 0
  /\ AMAP_EVERY % PAGE = 0
  /\ PAGE % BLOCK_ALIGN = 0
  /\ MAP_SLOTS * PAGE < AMAP_EVERY

\* True where a page-sized slot is spoken for by a map page.
Reserved(at) ==
  /\ at >= AMAP_FIRST
  /\ (at - AMAP_FIRST) % AMAP_EVERY < MAP_SLOTS * PAGE

\* A byte of a map page, said section by section: what Reserved has to cover.
MapByte(x) ==
  \E k \in 0 .. x :
    /\ AMAP_FIRST + k * AMAP_EVERY <= x
    /\ x < AMAP_FIRST + k * AMAP_EVERY + MAP_SLOTS * PAGE

\* What a block of cb bytes occupies on disk.
BlockSpan(cb) == AlignUp(cb + TRAILER, BLOCK_ALIGN)

\* Slip: only the page a span starts in is tested.
FirstPageOnly(at, len) == {p \in {(at \div PAGE) * PAGE} : Reserved(p)}

\* Slip: the byte after the span is tested too.
OneByteMore(at, len) ==
  {p \in {q * PAGE : q \in (at \div PAGE) .. ((at + len) \div PAGE)} :
     Reserved(p)}

\* The map pages that a span of len bytes at offset at would cover.
Clashes(at, len) ==
  {p \in {q * PAGE : q \in (at \div PAGE) .. ((at + len - 1) \div PAGE)} :
     Reserved(p)}

\* Where the loop of place_aligned stops; Placement takes it turn by turn.
PlaceAligned(x, len, align) ==
  LET try[at \in Nat] ==
        IF Clashes(at, len) = {} THEN at
        ELSE LET p == CHOOSE p \in Clashes(at, len) :
                        \A q \in Clashes(at, len) : p <= q
             IN  try[AlignUp(p + PAGE, align)]
  IN  try[AlignUp(x, align)]

\* Spans of these lengths, one behind the other from x on: where each begins.
PlaceAll(x, lens, align) ==
  LET next[k \in 0 .. Len(lens)] ==
        IF k = 0 THEN x ELSE PlaceAligned(next[k - 1], lens[k], align) + lens[k]
  IN  [k \in 1 .. Len(lens) |-> PlaceAligned(next[k - 1], lens[k], align)]

\* The first offset a layout uses: past the map pages of the first section.
FirstFree == AMAP_FIRST + MAP_SLOTS * PAGE

=============================================================================
