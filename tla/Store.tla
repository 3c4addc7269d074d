-------------------------------- MODULE Store --------------------------------
(***************************************************************************)
(* The file a sweep is let loose on, and the program that wrote it.  The   *)
(* writer is Outlook and not part of this repository; what Pst::scan       *)
(* relies on of it is modelled here: block ids come from a counter that    *)
(* only goes up, a change writes new pages and blocks and then unlinks the *)
(* old ones, and what is unlinked keeps its bytes until it is written over.*)
(* A node's subnode tree is replaced by a newer one and never only taken   *)
(* away, so that the larger of two ids is the later one.                   *)
(*                                                                         *)
(* Ids are without their low bit.  A node entry is [nid, data, sub,        *)
(* parent], a block entry [bid, slot].  Each tree is one leaf page.  0 is  *)
(* no block, no slot and no page.                                          *)
(***************************************************************************)
EXTENDS Naturals, FiniteSets

CONSTANTS
  NIDS,      \* ids a node may have
  FOLDERS,   \* parents a node may have
  PAGES,     \* pages in the file, in the order of their offsets
  SLOTS,     \* places a block can lie, likewise
  KINDS,     \* what the writer may do to a node
  MAX_EDITS  \* bound: how often it does

ASSUME StoreAssumption ==
  /\ NIDS # {} /\ FOLDERS # {}
  /\ PAGES \in Nat /\ PAGES >= 2  \* a leaf of each tree
  /\ SLOTS \in Nat \ {0}

VARIABLES
  pages,  \* what lies in each page: [kind, ok, entries], ok its checksum
  disk,   \* the block whose bytes lie in each slot, 0 for none or a torn one
  nbt,    \* the live node leaf
  bbt,    \* the live block leaf
  next,   \* the block id counter
  edits   \* how many edits were made

store == <<pages, disk, nbt, bbt, next, edits>>

NodeLeaf(entries) == [kind |-> "nbt", ok |-> TRUE, entries |-> entries]
BlockLeaf(entries) == [kind |-> "bbt", ok |-> TRUE, entries |-> entries]
NoLeaf == [kind |-> "none", ok |-> TRUE, entries |-> {}]

LiveNodes == pages[nbt].entries
LiveBlocks == pages[bbt].entries

\* Which node the store starts with makes no difference.
FirstNode == [nid |-> CHOOSE n \in NIDS : TRUE, data |-> 1, sub |-> 0,
              parent |-> CHOOSE f \in FOLDERS : TRUE]

StoreInit ==
  /\ pages = [p \in 1 .. PAGES |->
                IF p = 1 THEN NodeLeaf({FirstNode})
                ELSE IF p = 2 THEN BlockLeaf({[bid |-> 1, slot |-> 1]})
                ELSE NoLeaf]
  /\ disk = [s \in 1 .. SLOTS |-> IF s = 1 THEN 1 ELSE 0]
  /\ nbt = 1 /\ bbt = 2 /\ next = 2 /\ edits = 0

Free == {s \in 1 .. SLOTS : \A b \in LiveBlocks : b.slot # s}

\* New leaves go to pages that are not in use, then the roots change over.
Commit(nodes, blocks) ==
  LET used == {n.data : n \in nodes} \union {n.sub : n \in nodes} IN
  \E p, q \in 1 .. PAGES \ {nbt, bbt} :
    /\ p # q
    /\ pages' = [pages EXCEPT ![p] = NodeLeaf(nodes),
                              ![q] = BlockLeaf({b \in blocks : b.bid \in used})]
    /\ nbt' = p /\ bbt' = q
    /\ edits' = edits + 1

\* A new block holds what changed.
CommitWith(nodes) ==
  \E s \in Free :
    /\ disk' = [disk EXCEPT ![s] = next]
    /\ next' = next + 1
    /\ Commit(nodes, LiveBlocks \union {[bid |-> next, slot |-> s]})

Create ==
  \E nid \in NIDS, f \in FOLDERS :
    /\ \A n \in LiveNodes : n.nid # nid
    /\ CommitWith(LiveNodes \union
         {[nid |-> nid, data |-> next, sub |-> 0, parent |-> f]})

Rewrite(n) == CommitWith((LiveNodes \ {n}) \union {[n EXCEPT !.data = next]})

\* The subnode tree moves and the data does not.
Attach(n) == CommitWith((LiveNodes \ {n}) \union {[n EXCEPT !.sub = next]})

Delete(n) ==
  /\ Cardinality(LiveNodes) > 1
  /\ Commit(LiveNodes \ {n}, LiveBlocks)
  /\ UNCHANGED <<disk, next>>

\* To another folder.
Refile(n) ==
  \E f \in FOLDERS \ {n.parent} :
    /\ Commit((LiveNodes \ {n}) \union {[n EXCEPT !.parent = f]}, LiveBlocks)
    /\ UNCHANGED <<disk, next>>

\* A block moves, its id stays.
Relocate ==
  \E b \in LiveBlocks, s \in Free :
    /\ disk' = [disk EXCEPT ![s] = b.bid]
    /\ Commit(LiveNodes, (LiveBlocks \ {b}) \union {[b EXCEPT !.slot = s]})
    /\ UNCHANGED next

Edit ==
  /\ edits < MAX_EDITS
  /\ \/ "create" \in KINDS /\ Create
     \/ "relocate" \in KINDS /\ Relocate
     \/ \E n \in LiveNodes :
          \/ "rewrite" \in KINDS /\ Rewrite(n)
          \/ "attach" \in KINDS /\ Attach(n)
          \/ "delete" \in KINDS /\ Delete(n)
          \/ "refile" \in KINDS /\ Refile(n)

\* One page or one slot rots, or nothing does.
Rot ==
  /\ \/ UNCHANGED <<pages, disk>>
     \/ \E p \in 1 .. PAGES :
          /\ pages[p].kind # "none"
          /\ pages' = [pages EXCEPT ![p].ok = FALSE]
          /\ UNCHANGED disk
     \/ \E s \in 1 .. SLOTS :
          /\ disk[s] # 0
          /\ disk' = [disk EXCEPT ![s] = 0]
          /\ UNCHANGED pages
  /\ UNCHANGED <<nbt, bbt, next, edits>>

=============================================================================
