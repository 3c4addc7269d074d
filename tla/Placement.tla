------------------------------ MODULE Placement ------------------------------
(***************************************************************************)
(* The loop of place_aligned and the cursor its callers keep, one step per *)
(* turn of the loop.  rebuild places its blocks and then its tree pages    *)
(* with it, convert places every block as it writes it: each caller asks   *)
(* for the next span, puts it where the loop stops, and moves the cursor   *)
(* to its end.                                                             *)
(***************************************************************************)
EXTENDS Layout

CONSTANTS
  SIZES,   \* the data lengths a block may have, up to 8176 in the code
  LIMIT    \* bound of the model: no request once the cursor has passed it

ASSUME SizesAssumption == SIZES \subseteq Nat /\ LIMIT \in Nat

VARIABLES
  cursor,    \* the cursor: everything placed so far ends at or before it
  asked,     \* the span being placed, or Idle
  spot,      \* the candidate offset of the loop
  handed     \* history: the spans handed out so far

placing == <<cursor, asked, spot, handed>>

Idle == [len |-> 0, align |-> 1]

BlockJob(cb) == [len |-> BlockSpan(cb), align |-> BLOCK_ALIGN]
PageJob == [len |-> PAGE, align |-> PAGE]
Jobs == {BlockJob(cb) : cb \in SIZES} \union {PageJob}

PlaceInit ==
  /\ cursor = FirstFree
  /\ asked = Idle
  /\ spot = 0
  /\ handed = {}

\* A caller asks for the next span: the candidate is the cursor, rounded up.
Ask(j) ==
  /\ asked = Idle
  /\ cursor <= LIMIT
  /\ asked' = j
  /\ spot' = AlignUp(cursor, j.align)
  /\ UNCHANGED <<cursor, handed>>

\* Slip: the loop restarts on the map page it met.
SkipToClash ==
  /\ asked # Idle
  /\ \E p \in Clashes(spot, asked.len) :
       /\ \A q \in Clashes(spot, asked.len) : p <= q
       /\ spot' = AlignUp(p, asked.align)
  /\ UNCHANGED <<cursor, asked, handed>>

\* The span would cover a map page: try again behind the first one it covers.
Skip ==
  /\ asked # Idle
  /\ \E p \in Clashes(spot, asked.len) :
       /\ \A q \in Clashes(spot, asked.len) : p <= q
       /\ spot' = AlignUp(p + PAGE, asked.align)
  /\ UNCHANGED <<cursor, asked, handed>>

\* Slip: the cursor moves by the length alone, as if nothing was skipped.
SettleAtCursor ==
  /\ asked # Idle
  /\ Clashes(spot, asked.len) = {}
  /\ handed' = handed \union {[at |-> spot, len |-> asked.len, align |-> asked.align]}
  /\ cursor' = cursor + asked.len
  /\ asked' = Idle
  /\ UNCHANGED spot

\* The whole span is clear: the caller puts it there and moves on.
Settle ==
  /\ asked # Idle
  /\ Clashes(spot, asked.len) = {}
  /\ handed' = handed \union {[at |-> spot, len |-> asked.len, align |-> asked.align]}
  /\ cursor' = spot + asked.len
  /\ asked' = Idle
  /\ UNCHANGED spot

PlaceNext ==
  \/ \E j \in Jobs : Ask(j)
  \/ Skip
  \/ Settle

\* The loop is straight-line code on one thread: it takes its next turn.
PlaceSpec == PlaceInit /\ [][PlaceNext]_placing /\ WF_placing(Skip \/ Settle)

-----------------------------------------------------------------------------
Span == [at : Nat, len : Nat \ {0}, align : {BLOCK_ALIGN, PAGE}]

(* The cursor and the candidate are offsets, the job is idle or one that a
   caller may ask for, and what was handed out are non-empty spans. *)
PlaceTypeOK ==
  /\ cursor \in Nat
  /\ asked \in Jobs \union {Idle}
  /\ spot \in Nat
  /\ handed \subseteq Span

(* No byte of anything placed lies on a map page of any section, however many
   sections the file spans (repair.rs: "a rebuild must not put a block where
   one goes, or Outlook writes the map straight over it"). *)
ClearOfMaps ==
  \A s \in handed : \A x \in s.at .. s.at + s.len - 1 : ~ MapByte(x)

(* Two spans never share a byte, and none starts behind the cursor: the file
   can be written in one forward pass. *)
ForwardAndDisjoint ==
  /\ \A s \in handed : s.at + s.len <= cursor
  /\ \A s, t \in handed :
       s # t => s.at + s.len <= t.at \/ t.at + t.len <= s.at

(* The loop passes over no offset that would have done: every aligned offset
   between the cursor and the candidate runs through a map page.  A skip that
   went too far would leave holes that grow with the file. *)
NoHoleLeft ==
  asked # Idle =>
    \A x \in cursor .. spot - 1 :
      x % asked.align = 0 => \E y \in x .. x + asked.len - 1 : MapByte(y)

(* Every offset handed out is a multiple of what its caller asked for, though
   the loop restarts from map pages and the cursor from the end of blocks. *)
Aligned == \A s \in handed : s.at % s.align = 0

\* The candidate never lies behind the cursor and is aligned while it moves.
Candidate == asked # Idle => cursor <= spot /\ spot % asked.align = 0

(* The inductive invariant: what makes a settled span safe is where the
   candidate stands before it. *)
PlaceInv ==
  PlaceTypeOK /\ Candidate /\ ClearOfMaps /\ ForwardAndDisjoint /\ NoHoleLeft /\ Aligned

(* Every request is settled: no size of block sends the loop round for ever,
   because the space between two groups of map pages holds the largest. *)
Settles == (asked # Idle) ~> (asked = Idle)

=============================================================================
