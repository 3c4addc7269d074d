-------------------------------- MODULE Carve --------------------------------
(***************************************************************************)
(* Pst::carve: the block index rebuilt from the blocks themselves.  Every  *)
(* multiple of ALIGN may be the end of a block; the trailer before it says *)
(* how long the block was.  The file is read a window at a time, and each  *)
(* window reaches back far enough to hold the longest block that ends in   *)
(* it.                                                                     *)
(*                                                                         *)
(* A file is [len, trailers, bad].  trailers maps a boundary to what the   *)
(* bytes before it say as a trailer: [bid, cb, sum], sum telling whether   *)
(* the checksum in them matches the cb bytes where the block would start.  *)
(* bad is the set of offsets that cannot be read.                          *)
(***************************************************************************)
EXTENDS Align, FiniteSets

CONSTANTS
  ALIGN,         \* block alignment: 64, or 512 in a 4K-page file
  BACK,          \* bytes from a trailer to the boundary: 16, 24 or 12 in the code
  LONGEST,       \* the longest block, in units of ALIGN: 128 in the code
  SWEEP_WINDOW,  \* bytes of a window, 1MB in the code
  FILES          \* the files that may be carved

ASSUME CarveAssumption ==
  /\ ALIGN \in Nat \ {0} /\ LONGEST \in Nat \ {0} /\ SWEEP_WINDOW \in Nat \ {0}
  /\ BACK \in 1 .. ALIGN
  /\ \A f \in FILES :
       /\ f.len \in Nat
       /\ \A e \in DOMAIN f.trailers :
            f.trailers[e] \in [bid : Nat, cb : Nat, sum : BOOLEAN]

VARIABLES
  sweeping,  \* "on", "done", or "broken" when a window could not be read
  file,      \* the file being carved
  end,       \* the boundary to test next
  base,      \* where the window in memory starts
  have,      \* how many bytes of it were read
  found      \* the blocks accepted, one for each id

carving == <<sweeping, file, end, base, have, found>>

Bare(bid) == bid - (bid % 2)

CarveInit ==
  /\ sweeping = "on"
  /\ file \in FILES
  /\ end = ALIGN
  /\ base = 0 /\ have = 0
  /\ found = {}

\* How far back a window reaches, and how much it holds.
Carry == ALIGN * LONGEST

\* The longest data a trailer may claim.
MaxCb == Carry - BACK

\* Slip: the window reaches back by the longest data, without the trailer.
ReachShort(e) == IF e >= MaxCb THEN e - MaxCb ELSE 0

\* Where the window that has to serve boundary e starts.
Reach(e) == IF e >= Carry THEN e - Carry ELSE 0

AtMost(a, b) == IF a <= b THEN a ELSE b

\* Slip: the window has no room for what is carried over.
LoadNarrow ==
  /\ sweeping = "on" /\ end <= file.len
  /\ end > base + have
  /\ base' = Reach(end)
  /\ have' = AtMost(SWEEP_WINDOW, file.len - base')
  /\ sweeping' = IF \E x \in file.bad : base' <= x /\ x < base' + have'
           THEN "broken" ELSE sweeping
  /\ UNCHANGED <<file, end, found>>

\* The boundary lies behind the window: read the one that serves it.  A read
\* that fails ends the sweep.
Load ==
  /\ sweeping = "on" /\ end <= file.len
  /\ end > base + have
  /\ base' = Reach(end)
  /\ have' = AtMost(Carry + SWEEP_WINDOW, file.len - base')
  /\ sweeping' = IF \E x \in file.bad : base' <= x /\ x < base' + have'
           THEN "broken" ELSE sweeping
  /\ UNCHANGED <<file, end, found>>

\* The room a block of cb bytes takes up.
Total(cb) == AlignUp(cb + BACK, ALIGN)

\* A trailer that may be one: its checksum is worth computing.
Plausible(f, e) ==
  /\ e \in DOMAIN f.trailers
  /\ f.trailers[e].cb > 0 /\ f.trailers[e].cb <= MaxCb
  /\ f.trailers[e].bid > 0
  /\ Total(f.trailers[e].cb) <= e

Accepted(f, e) == Plausible(f, e) /\ f.trailers[e].sum

BlockAt(f, e) ==
  [bid |-> f.trailers[e].bid, ib |-> e - Total(f.trailers[e].cb),
   cb |-> f.trailers[e].cb]

\* Slip: the copy found first stays.
KeepFirst(b) ==
  IF \E x \in found : Bare(x.bid) = Bare(b.bid) THEN found ELSE found \union {b}

\* Later copies win.
Insert(b) == {x \in found : Bare(x.bid) # Bare(b.bid)} \union {b}

\* Slip: a boundary that is no block's end takes the next one with it.
TestSkipping ==
  /\ sweeping = "on" /\ end <= file.len
  /\ end <= base + have
  /\ found' = IF Accepted(file, end) THEN Insert(BlockAt(file, end)) ELSE found
  /\ end' = IF Accepted(file, end) THEN end + ALIGN ELSE end + 2 * ALIGN
  /\ UNCHANGED <<sweeping, file, base, have>>

\* Test the boundary from the window.
Test ==
  /\ sweeping = "on" /\ end <= file.len
  /\ end <= base + have
  /\ found' = IF Accepted(file, end) THEN Insert(BlockAt(file, end)) ELSE found
  /\ end' = end + ALIGN
  /\ UNCHANGED <<sweeping, file, base, have>>

Stop ==
  /\ sweeping = "on" /\ end > file.len
  /\ sweeping' = "done"
  /\ UNCHANGED <<file, end, base, have, found>>

CarveNext == Load \/ Test \/ Stop

\* One thread runs the loop.
CarveSpec == CarveInit /\ [][CarveNext]_carving /\ WF_carving(CarveNext)

-----------------------------------------------------------------------------
Boundary(e) == e \in Nat \ {0} /\ e % ALIGN = 0

(* Boundaries stay boundaries, the window stays inside the file. *)
CarveTypeOK ==
  /\ sweeping \in {"on", "done", "broken"}
  /\ file \in FILES
  /\ Boundary(end)
  /\ base \in Nat /\ have \in Nat
  /\ base + have <= file.len

(* Every byte that a test looks at, trailer and data, is in the window: the
   slice indices "end - back - base" and "begin - base" neither wrap nor run
   over, whatever length a trailer of garbage claims. *)
InsideWindow ==
  sweeping = "on" /\ end <= base + have =>
    /\ base <= end - BACK
    /\ Plausible(file, end) => base <= end - Total(file.trailers[end].cb)

\* What testing every boundary up to limit in one piece would give: for each
\* id the last block accepted.
LatestUpTo(f, limit) ==
  {BlockAt(f, e) : e \in
    {e \in DOMAIN f.trailers :
       /\ Boundary(e) /\ e <= limit /\ Accepted(f, e)
       /\ \A d \in DOMAIN f.trailers :
            Boundary(d) /\ d <= limit /\ Accepted(f, d) /\ e < d
              => Bare(f.trailers[d].bid) # Bare(f.trailers[e].bid)}}

\* A window that does not start at the file's start reaches back far enough for
\* every boundary still to come.
ReachesBack == base = 0 \/ base + Carry <= end

\* No boundary behind the end of the file is tested.
StaysInside == end <= file.len + ALIGN

(* Windows make no difference: at every moment the sweep has found exactly
   what testing every boundary so far, on the whole file in memory, finds. *)
SameAsUnwindowed == found = LatestUpTo(file, end - ALIGN)

(* A sweep that was not broken off has found all there is. *)
FindsAll == sweeping = "done" => found = LatestUpTo(file, file.len)

\* The inductive invariant.
CarveInv ==
  /\ CarveTypeOK /\ ReachesBack /\ StaysInside
  /\ InsideWindow /\ SameAsUnwindowed /\ FindsAll

(* The sweep comes to an end: a window always serves the boundary it was read
   for, so it is never read again and again. *)
Ends == <>(sweeping # "on")

=============================================================================
