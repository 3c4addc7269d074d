------------------------------- MODULE Rebuild -------------------------------
(***************************************************************************)
(* repair::rebuild and write_out: copy every block that survived into a    *)
(* fresh file and build a fresh index over it.                             *)
(*                                                                         *)
(* The run reads the damaged store twice.  The first pass (Check) only     *)
(* learns which blocks match their checksums; LayOut then decides, in      *)
(* memory, where everything goes; the second pass (Create, WriteBlock,     *)
(* WritePage, Finish) writes the file front to back, reading each block    *)
(* again.  Any read or write may fail at any step.                         *)
(*                                                                         *)
(* A block is [bid, cb, cref, kids]: kids are the ids an XBLOCK or a       *)
(* subnode block names.  A node is [nid, data, sub, parent].  The file     *)
(* being written is the sequence of what was written, each piece with the  *)
(* offset it landed on.                                                    *)
(***************************************************************************)
EXTENDS BTree, Lists

CONSTANTS
  BLOCK_LISTS,  \* block indexes a caller may pass: sequences of blocks
  NODE_LISTS,   \* node indexes a caller may pass: sequences of nodes
  ESSENTIAL,    \* the nodes without which no reader opens a store
  HEADER,       \* bytes of the header
  TARGETS       \* what the path to write to may be: subset of {"src", "out"}

\* A block's length has 16 bits, which is less than a section has between its maps.
ASSUME RebuildAssumption ==
  /\ BLOCK_LISTS \subseteq Seq([bid : Nat, cb : Nat, cref : Nat, kids : SUBSET Nat])
  /\ \A bs \in BLOCK_LISTS : \A k \in DOMAIN bs :
       BlockSpan(bs[k].cb) <= AMAP_EVERY - MAP_SLOTS * PAGE
  /\ NODE_LISTS \subseteq Seq([nid : Nat, data : Nat, sub : Nat, parent : Nat])
  /\ ESSENTIAL \subseteq Nat /\ TARGETS \subseteq {"src", "out"}
  /\ HEADER \in Nat /\ HEADER <= FirstFree

VARIABLES
  pc,        \* where the run is
  blocks,    \* the block index passed in
  nodes,     \* the node index passed in
  damaged,   \* ids of the blocks that do not match their own checksum
  target,    \* the path written to
  disk,      \* what each path holds
  i,         \* how many blocks (then pages) the pass has dealt with
  step,      \* what the progress callback was last told
  kept,      \* blocks that survived the first pass
  plan,      \* the layout: offsets, tree pages, header fields
  pos,       \* the write position
  report     \* what the caller is told

vars == <<pc, blocks, nodes, damaged, target, disk, i, step, kept, plan, pos, report>>

input == <<blocks, nodes, damaged, target>>

\* Ids are compared without their low bit everywhere.
Bare(bid) == bid - (bid % 2)

Absent == [what |-> "absent", segs |-> <<>>]
Original == [what |-> "original", segs |-> <<>>]   \* the damaged store
Older == [what |-> "older", segs |-> <<>>]         \* some other file of the user's
Written(segs) == [what |-> "written", segs |-> segs]

NoPlan == [placed |-> <<>>, pages |-> <<>>, roots |-> <<>>, eof |-> 0, bidNext |-> 0]
NoReport == [result |-> "none", droppedBlocks |-> 0, droppedNodes |-> 0,
             missing |-> {}]

Init ==
  /\ pc = "check"
  /\ blocks \in BLOCK_LISTS
  /\ nodes \in NODE_LISTS
  /\ damaged \in SUBSET {Bare(b.bid) : b \in ToSet(blocks)}
  /\ target \in TARGETS
  /\ disk \in {[src |-> Original, out |-> f] : f \in {Absent, Older}}
  /\ i = 0 /\ step = 0 /\ pos = 0
  /\ kept = <<>>
  /\ plan = NoPlan
  /\ report = NoReport

\* Slip: the total is that of one pass.
StepsOnePass == Len(blocks)

\* Both passes count towards one bar.
Steps == 2 * Len(blocks)

-----------------------------------------------------------------------------
\* First pass: the next block is read and held against its trailer.
Check ==
  /\ pc = "check" /\ i < Len(blocks)
  /\ LET b == blocks[i + 1] IN
       IF Bare(b.bid) \in damaged
       THEN /\ report' = [report EXCEPT !.droppedBlocks = @ + 1]
            /\ UNCHANGED kept
       ELSE /\ kept' = Append(kept, b)
            /\ UNCHANGED report
  /\ i' = i + 1
  /\ step' = step + 1
  /\ UNCHANGED <<input, pc, disk, plan, pos>>

ByBid(bs) == InOrder(bs, [k \in DOMAIN bs |-> Bare(bs[k].bid)])
ByNid(ns) == InOrder(ns, [k \in DOMAIN ns |-> ns[k].nid])

\* Where each surviving block goes, in the order of the ids.
PlaceBlocks(bs) ==
  LET s == ByBid(bs)
      at == PlaceAll(FirstFree, [k \in 1 .. Len(s) |-> BlockSpan(s[k].cb)], BLOCK_ALIGN)
  IN  [k \in 1 .. Len(s) |-> [b |-> s[k], at |-> at[k]]]

\* A node is kept when the two blocks its index entry names were kept.
NodeSurvives(n, known) ==
  /\ n.data = 0 \/ Bare(n.data) \in known
  /\ n.sub = 0 \/ Bare(n.sub) \in known

BbtLeaf(p) == [key |-> p.b.bid, at |-> p.at, cb |-> p.b.cb,
               cref |-> IF p.b.cref = 0 THEN 1 ELSE p.b.cref]
NbtLeaf(n) == [key |-> n.nid, data |-> n.data, sub |-> n.sub, parent |-> n.parent]

\* The whole layout: blocks, then the node tree, then the block tree.
LayoutOf(placed, keep) ==
  LET end == Last(placed).at + BlockSpan(Last(placed).b.cb)
      cur == [next |-> end, bid |-> Max({p.b.bid : p \in ToSet(placed)}) + 4]
      nbt == BuildTree([k \in 1 .. Len(keep) |-> NbtLeaf(keep[k])], "NBT", cur)
      bbt == BuildTree([k \in 1 .. Len(placed) |-> BbtLeaf(placed[k])], "BBT", nbt.cur)
  IN  [placed |-> placed,
       pages |-> nbt.pages \o bbt.pages,
       roots |-> [NBT |-> [at |-> nbt.root.at, bid |-> nbt.root.bid],
                  BBT |-> [at |-> bbt.root.at, bid |-> bbt.root.bid]],
       eof |-> AlignUp(bbt.cur.next, BLOCK_ALIGN),
       bidNext |-> bbt.cur.bid]

\* Slip: the essential nodes are looked for in the index passed in.
MissingFromIndex(keep) == ESSENTIAL \ {n.nid : n \in ToSet(nodes)}

\* The essential nodes that the new file will not have.
Missing(keep) == ESSENTIAL \ {n.nid : n \in ToSet(keep)}

\* The run gives up before it has touched the disk.
GiveUp ==
  /\ pc' = "failed"
  /\ report' = [report EXCEPT !.result = "error"]
  /\ UNCHANGED <<input, disk, i, step, kept, plan, pos>>

\* Between the passes: place what survived, keep the nodes whose blocks did,
\* build both trees and read the source's header again, which may fail.
LayOut ==
  /\ pc = "check" /\ i = Len(blocks)
  /\ LET placed == PlaceBlocks(kept)
         known == {Bare(p.b.bid) : p \in ToSet(placed)}
         keep == ByNid(Picked(nodes, {n \in ToSet(nodes) : NodeSurvives(n, known)}))
     IN  \/ GiveUp   \* nothing kept, or the header cannot be read
         \/ /\ kept # <<>> /\ keep # <<>>
            /\ plan' = LayoutOf(placed, keep)
            /\ report' = [report EXCEPT
                 !.droppedNodes = Len(nodes) - Len(keep),
                 !.missing = Missing(keep)]
            /\ pc' = "create"
            /\ i' = 0
            /\ UNCHANGED <<input, disk, step, kept, pos>>

-----------------------------------------------------------------------------
\* Slip: the half-written file is left where it is.
KeepHalf ==
  /\ pc' = "failed"
  /\ report' = [report EXCEPT !.result = "error"]
  /\ UNCHANGED <<input, disk, i, step, kept, plan, pos>>

\* write_out failed: the file at the target is removed and the error returned.
RemoveAndFail ==
  /\ disk' = [disk EXCEPT ![target] = Absent]
  /\ pc' = "failed"
  /\ report' = [report EXCEPT !.result = "error"]
  /\ UNCHANGED <<input, i, step, kept, plan, pos>>

HeaderSeg == [kind |-> "header", at |-> 0, roots |-> plan.roots, eof |-> plan.eof,
              bidNext |-> plan.bidNext]

\* The target is created, or truncated if it exists, and the header written.
\* When it cannot be opened it is removed all the same, if it can be.
Create ==
  /\ pc = "create"
  /\ \/ RemoveAndFail
     \/ GiveUp
     \/ /\ disk' = [disk EXCEPT ![target] = Written(<<HeaderSeg>>)]
        /\ pos' = HEADER
        /\ pc' = "blocks"
        /\ UNCHANGED <<input, i, step, kept, plan, report>>

\* Padding only ever moves forward.
Padded(to) == Max({pos, to})

Put(seg) == disk' = [disk EXCEPT ![target] = Written(Append(@.segs, seg))]

\* Second pass: the next block is read again, its signature made to match its
\* new offset, and written.  Its bytes are only as good as the source is now.
WriteBlock ==
  /\ pc = "blocks" /\ i < Len(plan.placed)
  /\ step' = step + 1
  /\ \/ /\ disk' = [disk EXCEPT ![target] = Absent]
        /\ pc' = "failed"
        /\ report' = [report EXCEPT !.result = "error"]
        /\ UNCHANGED <<i, pos>>
     \/ /\ LET p == plan.placed[i + 1] IN
             /\ Put([kind |-> "block", at |-> Padded(p.at), bid |-> p.b.bid,
                     cb |-> p.b.cb, sig |-> p.at,
                     sound |-> disk["src"] = Original])
             /\ pos' = Padded(p.at) + BlockSpan(p.b.cb)
        /\ i' = i + 1
        /\ UNCHANGED <<pc, report>>
  /\ UNCHANGED <<input, kept, plan>>

\* Then the pages of the node tree and of the block tree.
WritePage ==
  /\ pc = "blocks" /\ i >= Len(plan.placed)
  /\ i < Len(plan.placed) + Len(plan.pages)
  /\ \/ RemoveAndFail
     \/ /\ LET g == plan.pages[i + 1 - Len(plan.placed)] IN
             /\ Put([kind |-> "page", at |-> Padded(g.at), sig |-> g.at, page |-> g])
             /\ pos' = Padded(g.at) + PAGE
        /\ i' = i + 1
        /\ UNCHANGED <<input, pc, step, kept, plan, report>>

\* Pad to the end the header states, flush, report.
Finish ==
  /\ pc = "blocks" /\ i = Len(plan.placed) + Len(plan.pages)
  /\ \/ RemoveAndFail
     \/ /\ pos' = Padded(plan.eof)
        /\ pc' = "done"
        /\ report' = [report EXCEPT !.result = "ok"]
        /\ UNCHANGED <<input, disk, i, step, kept, plan>>

Next == Check \/ LayOut \/ Create \/ WriteBlock \/ WritePage \/ Finish

\* One thread runs it straight through.
Spec == Init /\ [][Next]_vars /\ WF_vars(Next)

-----------------------------------------------------------------------------
\* What survived, said without the run: the ids of the intact blocks.
Intact == {Bare(b.bid) : b \in ToSet(blocks)} \ damaged

Pieces(kind) == {s \in ToSet(disk[target].segs) : s.kind = kind}
FileHeader == CHOOSE s \in Pieces("header") : TRUE
FilePages == {s.page : s \in {s \in Pieces("page") : s.at = s.sig}}
Find(tree, key) == Search(FilePages, FileHeader.roots[tree], tree, key)

\* An entry of the block tree leads to that block, whole and signed in place.
Leads(e) ==
  \E s \in Pieces("block") :
    /\ s.at = e.at /\ s.sig = e.at /\ s.bid = e.key /\ s.cb = e.cb
    /\ e.cref > 0

(* The phases of the run, the counters within the sizes of its inputs. *)
TypeOK ==
  /\ pc \in {"check", "create", "blocks", "done", "failed"}
  /\ blocks \in BLOCK_LISTS /\ nodes \in NODE_LISTS
  /\ target \in TARGETS
  /\ \A p \in DOMAIN disk :
       disk[p].what \in {"absent", "original", "older", "written"}
  /\ i \in Nat /\ step \in 0 .. Steps /\ pos \in Nat
  /\ ToSet(kept) \subseteq ToSet(blocks)
  /\ report.result \in {"none", "ok", "error"}
  /\ report.droppedBlocks \in 0 .. Len(blocks)
  /\ report.droppedNodes \in 0 .. Len(nodes)

\* Searched from the roots its own header names, the file gives back every block
\* that survived, at the offset where its bytes really are, and every node whose
\* blocks survived with the same data, subnodes and parent; it gives back no node
\* that names a lost block.
Resolves ==
  /\ \A b \in ToSet(blocks) :
       LET e == Find("BBT", b.bid)
       IN  IF Bare(b.bid) \in Intact
           THEN Cardinality(e) = 1 /\ \A x \in e : Leads(x)
           ELSE e = {}
  /\ \A n \in ToSet(nodes) :
       LET names == {Bare(x) : x \in {n.data, n.sub} \ {0}}
       IN  Find("NBT", n.nid) = IF names \subseteq Intact THEN {NbtLeaf(n)} ELSE {}

(* A finished file resolves: the round trip asserted by
   a_rebuilt_file_reopens_clean_and_holds_the_same_nodes, for whatever was lost. *)
RebuiltFileResolves == pc = "done" => Resolves

(* Not a byte of the file beyond its header lies on a map page of any section:
   the tree pages, written after the blocks, step over them too. *)
MapSlotsEmpty ==
  \A s \in Pieces("block") \union Pieces("page") :
    LET len == IF s.kind = "page" THEN PAGE ELSE BlockSpan(s.cb)
    IN  \A x \in s.at .. s.at + len - 1 : ~ MapByte(x)

(* No two pages share an id, none has the id of a block, and the counter in
   the header is past them all: what Outlook allocates next is new. *)
IdsFresh ==
  pc = "done" =>
    LET ids == {Bare(b.bid) : b \in ToSet(kept)}
        pids == {Bare(g.bid) : g \in ToSet(plan.pages)}
    IN  /\ Cardinality(pids) = Len(plan.pages)
        /\ ids \intersect pids = {}
        /\ \A x \in ids \union pids : x < FileHeader.bidNext

(* What the caller is told is true of the file: the essential nodes named as
   missing are exactly those a reader will not find, and what was left out is
   counted. *)
ReportHonest ==
  pc = "done" =>
    /\ report.missing = {nid \in ESSENTIAL : Find("NBT", nid) = {}}
    /\ report.droppedBlocks =
         Cardinality({k \in 1 .. Len(blocks) : Bare(blocks[k].bid) \in damaged})
    /\ report.droppedNodes =
         Cardinality({k \in 1 .. Len(nodes) : Find("NBT", nodes[k].nid) = {}})

-----------------------------------------------------------------------------
\* The target as a promise sees it: what was written is whole as soon as all
\* that is to be found in it can be found.
OutputAt ==
  LET what == disk[target].what
  IN  IF what = "written" THEN IF Resolves THEN "whole" ELSE "partial"
      ELSE IF what = "original" THEN "older" ELSE what

Output == INSTANCE OutputFile WITH
            LEAVES_HALF <- FALSE, at <- OutputAt, result <- report.result

(* rebuild implements OutputFile: whichever read or write fails, an error leaves
   nothing half-written at the target; success is said of a whole file only; the
   older file there is touched once, when writing starts; and the run ends. *)
ImplementsOutput == Output!Spec

=============================================================================
