---------------------------- MODULE SweepProofs ------------------------------
(***************************************************************************)
(* The two sweeps over a damaged file.  The one for leaf pages gives back  *)
(* the index it replaces, for every file, every size of window and every   *)
(* history of the store; carving in windows is carving the whole file, for *)
(* every alignment, window size and file.                                  *)
(***************************************************************************)
EXTENDS Scan, Carve, BasicLemmas, FiniteSetTheorems

-----------------------------------------------------------------------------
(* What the writer keeps true of its file.                                  *)

NodeEntries == [nid : NIDS, data : Nat, sub : Nat, parent : FOLDERS]
BlockEntries == [bid : Nat, slot : 1 .. SLOTS]

Leaves ==
  [kind : {"nbt", "bbt", "none"}, ok : BOOLEAN,
   entries : SUBSET (NodeEntries \union BlockEntries)]

\* c is a revision of a node no later than n is.
NoLater(c, n) ==
  \/ c.data < n.data
  \/ c.data = n.data /\ c.sub <= n.sub

NamedOnce(nodes) == \A c, d \in nodes : c.nid = d.nid => c = d

LeavesHold ==
  \A p \in 1 .. PAGES :
    /\ IsFiniteSet(pages[p].entries)
    /\ pages[p].kind = "nbt" => pages[p].entries \subseteq NodeEntries
    /\ pages[p].kind = "bbt" => pages[p].entries \subseteq BlockEntries
    /\ pages[p].kind = "none" => pages[p].entries = {}

\* Every node leaf, linked or not, was whole once: it names a node once, and
\* nothing in it is newer than the counter or than the live revision.
NodeLeavesHold ==
  \A p \in 1 .. PAGES : pages[p].kind = "nbt" =>
    /\ NamedOnce(pages[p].entries)
    /\ \A c \in pages[p].entries :
         /\ c.data < next /\ c.sub < next
         /\ \A n \in LiveNodes : c.nid = n.nid => NoLater(c, n)

StoreInv ==
  /\ pages \in [1 .. PAGES -> Leaves]
  /\ nbt \in 1 .. PAGES /\ pages[nbt].kind = "nbt"
  /\ bbt \in 1 .. PAGES /\ pages[bbt].kind = "bbt"
  /\ next \in Nat
  /\ LeavesHold /\ NodeLeavesHold

\* A new store satisfies its invariant.
LEMMA StoreStart == StoreInit => StoreInv
<1> SUFFICES ASSUME StoreInit PROVE StoreInv
  OBVIOUS
<1>1. PAGES \in Nat /\ PAGES >= 2 /\ SLOTS \in Nat \ {0} /\ NIDS # {} /\ FOLDERS # {}
  BY StoreAssumption
<1>2. nbt = 1 /\ bbt = 2 /\ next = 2 /\ 1 \in 1 .. PAGES /\ 2 \in 1 .. PAGES
  BY <1>1 DEF StoreInit
<1>3. FirstNode \in NodeEntries /\ FirstNode.data = 1 /\ FirstNode.sub = 0
  <2>1. (CHOOSE n \in NIDS : TRUE) \in NIDS
    BY <1>1
  <2>2. (CHOOSE f \in FOLDERS : TRUE) \in FOLDERS
    BY <1>1
  <2> QED BY <2>1, <2>2 DEF FirstNode, NodeEntries
<1> DEFINE b == [bid |-> 1, slot |-> 1]
<1>4. b \in BlockEntries
  BY <1>1 DEF BlockEntries
<1> HIDE DEF b
<1>5. /\ NodeLeaf({FirstNode}) \in Leaves /\ BlockLeaf({b}) \in Leaves /\ NoLeaf \in Leaves
      /\ NodeLeaf({FirstNode}).kind = "nbt" /\ NodeLeaf({FirstNode}).entries = {FirstNode}
      /\ BlockLeaf({b}).kind = "bbt" /\ BlockLeaf({b}).entries = {b}
      /\ NoLeaf.kind = "none" /\ NoLeaf.entries = {}
  BY <1>3, <1>4 DEF NodeLeaf, BlockLeaf, NoLeaf, Leaves
<1>6. /\ pages \in [1 .. PAGES -> Leaves]
      /\ pages[1] = NodeLeaf({FirstNode}) /\ pages[2] = BlockLeaf({b})
      /\ \A p \in 1 .. PAGES : p # 1 /\ p # 2 => pages[p] = NoLeaf
  <2>1. pages = [p \in 1 .. PAGES |->
                   IF p = 1 THEN NodeLeaf({FirstNode})
                   ELSE IF p = 2 THEN BlockLeaf({b}) ELSE NoLeaf]
    BY DEF StoreInit, b
  <2> QED BY <1>2, <1>5, <2>1
<1>7. IsFiniteSet({FirstNode}) /\ IsFiniteSet({b}) /\ IsFiniteSet({})
  BY FS_Singleton, FS_EmptySet
<1>8. LeavesHold
  <2> SUFFICES ASSUME NEW p \in 1 .. PAGES
               PROVE  /\ IsFiniteSet(pages[p].entries)
                      /\ pages[p].kind = "nbt" => pages[p].entries \subseteq NodeEntries
                      /\ pages[p].kind = "bbt" => pages[p].entries \subseteq BlockEntries
                      /\ pages[p].kind = "none" => pages[p].entries = {}
    BY DEF LeavesHold
  <2>1. CASE p = 1
    BY <2>1, <1>3, <1>5, <1>6, <1>7
  <2>2. CASE p = 2
    BY <2>2, <1>4, <1>5, <1>6, <1>7
  <2>3. CASE p # 1 /\ p # 2
    BY <2>3, <1>5, <1>6, <1>7
  <2> QED BY <2>1, <2>2, <2>3
<1>9. NodeLeavesHold
  <2> SUFFICES ASSUME NEW p \in 1 .. PAGES, pages[p].kind = "nbt"
               PROVE  /\ NamedOnce(pages[p].entries)
                      /\ \A c \in pages[p].entries :
                           /\ c.data < next /\ c.sub < next
                           /\ \A n \in LiveNodes : c.nid = n.nid => NoLater(c, n)
    BY DEF NodeLeavesHold
  <2>1. p = 1
    BY <1>5, <1>6
  <2>2. pages[p].entries = {FirstNode} /\ LiveNodes = {FirstNode}
    BY <2>1, <1>2, <1>5, <1>6 DEF LiveNodes
  <2>3. NoLater(FirstNode, FirstNode)
    BY <1>3 DEF NoLater
  <2> QED BY <1>2, <1>3, <2>2, <2>3 DEF NamedOnce
<1> QED BY <1>2, <1>5, <1>6, <1>8, <1>9 DEF StoreInv

\* New leaves of newer nodes keep the store in order.
LEMMA CommitKeeps ==
  ASSUME StoreInv, NEW nodes, NEW blocks, Commit(nodes, blocks),
         nodes \subseteq NodeEntries, IsFiniteSet(nodes), NamedOnce(nodes),
         blocks \subseteq BlockEntries, IsFiniteSet(blocks),
         next' \in Nat, next <= next',
         \A n \in nodes :
           /\ n.data < next' /\ n.sub < next'
           /\ \A p \in 1 .. PAGES : pages[p].kind = "nbt" =>
                \A c \in pages[p].entries : c.nid = n.nid => NoLater(c, n)
  PROVE  StoreInv'
<1> DEFINE used == {n.data : n \in nodes} \union {n.sub : n \in nodes}
           kept == {b \in blocks : b.bid \in used}
<1>1. PICK p, q \in 1 .. PAGES :
        /\ p # q
        /\ pages' = [pages EXCEPT ![p] = NodeLeaf(nodes), ![q] = BlockLeaf(kept)]
        /\ nbt' = p /\ bbt' = q
  BY DEF Commit
<1>2. kept \subseteq BlockEntries /\ IsFiniteSet(kept)
  <2>1. kept \subseteq blocks
    OBVIOUS
  <2> QED BY <2>1, FS_Subset
<1> HIDE DEF used, kept
<1>3. /\ NodeLeaf(nodes) \in Leaves /\ BlockLeaf(kept) \in Leaves
      /\ NodeLeaf(nodes).kind = "nbt" /\ NodeLeaf(nodes).entries = nodes
      /\ BlockLeaf(kept).kind = "bbt" /\ BlockLeaf(kept).entries = kept
  BY <1>2 DEF NodeLeaf, BlockLeaf, Leaves
<1>4. /\ pages' \in [1 .. PAGES -> Leaves]
      /\ pages'[p] = NodeLeaf(nodes) /\ pages'[q] = BlockLeaf(kept)
      /\ \A r \in 1 .. PAGES : r # p /\ r # q => pages'[r] = pages[r]
  BY <1>1, <1>3 DEF StoreInv
<1>5. LiveNodes' = nodes
  BY <1>1, <1>3, <1>4 DEF LiveNodes
<1>6. LeavesHold'
  <2> SUFFICES ASSUME NEW r \in 1 .. PAGES
               PROVE  /\ IsFiniteSet(pages'[r].entries)
                      /\ pages'[r].kind = "nbt" => pages'[r].entries \subseteq NodeEntries
                      /\ pages'[r].kind = "bbt" => pages'[r].entries \subseteq BlockEntries
                      /\ pages'[r].kind = "none" => pages'[r].entries = {}
    BY DEF LeavesHold
  <2>1. CASE r = p
    BY <2>1, <1>3, <1>4
  <2>2. CASE r = q
    BY <2>2, <1>2, <1>3, <1>4
  <2>3. CASE r # p /\ r # q
    BY <2>3, <1>4 DEF StoreInv, LeavesHold
  <2> QED BY <2>1, <2>2, <2>3
<1>7. NodeLeavesHold'
  <2> SUFFICES ASSUME NEW r \in 1 .. PAGES, pages'[r].kind = "nbt"
               PROVE  /\ NamedOnce(pages'[r].entries)
                      /\ \A c \in pages'[r].entries :
                           /\ c.data < next' /\ c.sub < next'
                           /\ \A n \in nodes : c.nid = n.nid => NoLater(c, n)
    BY <1>5 DEF NodeLeavesHold
  <2>1. CASE r = p
    <3>1. pages'[r].entries = nodes
      BY <2>1, <1>3, <1>4
    <3>2. ASSUME NEW c \in nodes, NEW n \in nodes, c.nid = n.nid PROVE NoLater(c, n)
      <4>1. c = n /\ c.sub \in Nat
        BY <3>2 DEF NamedOnce, NodeEntries
      <4> QED BY <4>1 DEF NoLater
    <3> QED BY <3>1, <3>2
  <2>2. CASE r = q
    BY <2>2, <1>3, <1>4
  <2>3. CASE r # p /\ r # q
    <3>1. pages'[r] = pages[r] /\ pages[r].kind = "nbt"
      BY <2>3, <1>4
    <3>2. /\ NamedOnce(pages[r].entries) /\ pages[r].entries \subseteq NodeEntries
          /\ \A c \in pages[r].entries : c.data < next /\ c.sub < next
      BY <3>1 DEF StoreInv, NodeLeavesHold, LeavesHold
    <3>3. ASSUME NEW c \in pages[r].entries PROVE c.data < next' /\ c.sub < next'
      <4>1. c.data \in Nat /\ c.sub \in Nat /\ c.data < next /\ c.sub < next
        BY <3>2 DEF NodeEntries
      <4> QED BY <4>1 DEF StoreInv
    <3> QED BY <3>1, <3>2, <3>3
  <2> QED BY <2>1, <2>2, <2>3
<1> QED BY <1>1, <1>3, <1>4, <1>6, <1>7 DEF StoreInv

\* The live leaves: entries of their kinds, one for each id, none older than another copy.
LEMMA LiveLeaves ==
  ASSUME StoreInv
  PROVE  /\ LiveNodes \subseteq NodeEntries /\ IsFiniteSet(LiveNodes)
         /\ NamedOnce(LiveNodes)
         /\ LiveBlocks \subseteq BlockEntries /\ IsFiniteSet(LiveBlocks)
         /\ \A n \in LiveNodes :
              /\ n.data < next /\ n.sub < next
              /\ \A p \in 1 .. PAGES : pages[p].kind = "nbt" =>
                   \A c \in pages[p].entries : c.nid = n.nid => NoLater(c, n)
  BY DEF StoreInv, LeavesHold, NodeLeavesHold, LiveNodes, LiveBlocks

\* No later than a copy that is no later than a third is no later than the third.
LEMMA NoLaterTrans ==
  ASSUME NEW a \in NodeEntries, NEW b \in NodeEntries, NEW c \in NodeEntries,
         NoLater(a, b), NoLater(b, c)
  PROVE  NoLater(a, c)
<1>1. /\ a.data \in Nat /\ b.data \in Nat /\ c.data \in Nat
      /\ a.sub \in Nat /\ b.sub \in Nat /\ c.sub \in Nat
  BY DEF NodeEntries
<1> QED BY <1>1 DEF NoLater

\* A node gives way to a later revision of it.
LEMMA ReplaceKeeps ==
  ASSUME StoreInv, NEW n \in LiveNodes, NEW m \in NodeEntries, NEW blocks,
         Commit((LiveNodes \ {n}) \union {m}, blocks),
         m.nid = n.nid, NoLater(n, m), m.data < next', m.sub < next',
         blocks \subseteq BlockEntries, IsFiniteSet(blocks),
         next' \in Nat, next <= next'
  PROVE  StoreInv'
<1> DEFINE nodes == (LiveNodes \ {n}) \union {m}
<1>1. /\ nodes \subseteq NodeEntries /\ NamedOnce(nodes)
  BY LiveLeaves DEF NamedOnce
<1>2. IsFiniteSet(nodes)
  BY LiveLeaves, FS_RemoveElement, FS_AddElement
<1>3. ASSUME NEW x \in nodes
      PROVE  /\ x.data < next' /\ x.sub < next'
             /\ \A p \in 1 .. PAGES : pages[p].kind = "nbt" =>
                  \A c \in pages[p].entries : c.nid = x.nid => NoLater(c, x)
  <2>1. CASE x \in LiveNodes
    <3>1. /\ x.data < next /\ x.sub < next /\ x.data \in Nat /\ x.sub \in Nat
          /\ \A p \in 1 .. PAGES : pages[p].kind = "nbt" =>
               \A c \in pages[p].entries : c.nid = x.nid => NoLater(c, x)
      BY <2>1, LiveLeaves DEF NodeEntries
    <3> QED BY <3>1 DEF StoreInv
  <2>2. CASE x = m
    <3> SUFFICES ASSUME NEW p \in 1 .. PAGES, pages[p].kind = "nbt",
                        NEW c \in pages[p].entries, c.nid = m.nid
                 PROVE  NoLater(c, m)
      BY <2>2
    <3>1. c \in NodeEntries /\ n \in NodeEntries /\ NoLater(c, n)
      BY LiveLeaves DEF StoreInv, LeavesHold
    <3> QED BY <3>1, NoLaterTrans
  <2> QED BY <2>1, <2>2
<1>4. Commit(nodes, blocks)
  OBVIOUS
<1> HIDE DEF nodes
<1> QED BY <1>1, <1>2, <1>3, <1>4, CommitKeeps

\* A new block, and an entry for it.
LEMMA NewBlock ==
  ASSUME StoreInv, NEW s \in Free
  PROVE  LET blocks == LiveBlocks \union {[bid |-> next, slot |-> s]}
         IN  blocks \subseteq BlockEntries /\ IsFiniteSet(blocks)
<1>1. [bid |-> next, slot |-> s] \in BlockEntries
  BY DEF StoreInv, BlockEntries, Free
<1>2. IsFiniteSet(LiveBlocks \union {[bid |-> next, slot |-> s]})
  BY LiveLeaves, FS_AddElement
<1> QED BY <1>1, <1>2, LiveLeaves

\* A node is created with a fresh block.
LEMMA StoreCreate == StoreInv /\ Create => StoreInv'
<1> SUFFICES ASSUME StoreInv, Create PROVE StoreInv'
  OBVIOUS
<1>1. PICK nid \in NIDS, f \in FOLDERS :
        /\ \A n \in LiveNodes : n.nid # nid
        /\ CommitWith(LiveNodes \union
             {[nid |-> nid, data |-> next, sub |-> 0, parent |-> f]})
  BY DEF Create
<1> DEFINE m == [nid |-> nid, data |-> next, sub |-> 0, parent |-> f]
           nodes == LiveNodes \union {m}
<1>2. next \in Nat /\ m \in NodeEntries /\ m.nid = nid /\ m.data = next /\ m.sub = 0
  BY DEF StoreInv, NodeEntries
<1> HIDE DEF m
<1>3. PICK s \in Free :
        /\ next' = next + 1
        /\ Commit(nodes, LiveBlocks \union {[bid |-> next, slot |-> s]})
  BY <1>1 DEF CommitWith, m
<1>4. nodes \subseteq NodeEntries /\ IsFiniteSet(nodes) /\ NamedOnce(nodes)
  <2>1. IsFiniteSet(nodes)
    BY LiveLeaves, FS_AddElement
  <2>2. NamedOnce(nodes)
    BY <1>1, <1>2, LiveLeaves DEF NamedOnce
  <2> QED BY <1>2, <2>1, <2>2, LiveLeaves
<1>5. ASSUME NEW x \in nodes
      PROVE  /\ x.data < next' /\ x.sub < next'
             /\ \A p \in 1 .. PAGES : pages[p].kind = "nbt" =>
                  \A c \in pages[p].entries : c.nid = x.nid => NoLater(c, x)
  <2>1. CASE x \in LiveNodes
    <3>1. /\ x.data < next /\ x.sub < next /\ x.data \in Nat /\ x.sub \in Nat
          /\ \A p \in 1 .. PAGES : pages[p].kind = "nbt" =>
               \A c \in pages[p].entries : c.nid = x.nid => NoLater(c, x)
      BY <2>1, LiveLeaves DEF NodeEntries
    <3> QED BY <1>2, <1>3, <3>1
  <2>2. CASE x = m
    <3> SUFFICES ASSUME NEW p \in 1 .. PAGES, pages[p].kind = "nbt",
                        NEW c \in pages[p].entries, c.nid = m.nid
                 PROVE  NoLater(c, m)
      BY <1>2, <1>3, <2>2
    <3>1. c.data < next
      BY DEF StoreInv, NodeLeavesHold
    <3> QED BY <1>2, <3>1 DEF NoLater
  <2> QED BY <2>1, <2>2
<1> HIDE DEF nodes
<1> QED BY <1>2, <1>3, <1>4, <1>5, NewBlock, CommitKeeps

\* A node is given new data in a fresh block.
LEMMA StoreRewrite == StoreInv /\ (\E n \in LiveNodes : Rewrite(n)) => StoreInv'
<1> SUFFICES ASSUME StoreInv, NEW n \in LiveNodes, Rewrite(n) PROVE StoreInv'
  OBVIOUS
<1> DEFINE m == [n EXCEPT !.data = next]
<1>1. /\ next \in Nat /\ n \in NodeEntries /\ n.data < next /\ n.sub < next
  BY LiveLeaves DEF StoreInv
<1>2. /\ m \in NodeEntries /\ m.nid = n.nid /\ m.data = next /\ m.sub = n.sub
  BY <1>1 DEF NodeEntries
<1>3. NoLater(n, m)
  BY <1>1, <1>2 DEF NoLater
<1>4. PICK s \in Free :
        /\ next' = next + 1
        /\ Commit((LiveNodes \ {n}) \union {m},
                  LiveBlocks \union {[bid |-> next, slot |-> s]})
  BY DEF Rewrite, CommitWith
<1> HIDE DEF m
<1>5. m.data < next' /\ m.sub < next' /\ next' \in Nat /\ next <= next'
  <2>1. n.sub \in Nat
    BY <1>1 DEF NodeEntries
  <2> QED BY <1>1, <1>2, <1>4, <2>1
<1> QED BY <1>2, <1>3, <1>4, <1>5, NewBlock, ReplaceKeeps

\* A node is given a sub-tree in a fresh block.
LEMMA StoreAttach == StoreInv /\ (\E n \in LiveNodes : Attach(n)) => StoreInv'
<1> SUFFICES ASSUME StoreInv, NEW n \in LiveNodes, Attach(n) PROVE StoreInv'
  OBVIOUS
<1> DEFINE m == [n EXCEPT !.sub = next]
<1>1. /\ next \in Nat /\ n \in NodeEntries /\ n.data < next /\ n.sub < next
      /\ n.data \in Nat /\ n.sub \in Nat
  BY LiveLeaves DEF StoreInv, NodeEntries
<1>2. /\ m \in NodeEntries /\ m.nid = n.nid /\ m.data = n.data /\ m.sub = next
  BY <1>1 DEF NodeEntries
<1>3. NoLater(n, m)
  BY <1>1, <1>2 DEF NoLater
<1>4. PICK s \in Free :
        /\ next' = next + 1
        /\ Commit((LiveNodes \ {n}) \union {m},
                  LiveBlocks \union {[bid |-> next, slot |-> s]})
  BY DEF Attach, CommitWith
<1> HIDE DEF m
<1>5. m.data < next' /\ m.sub < next' /\ next' \in Nat /\ next <= next'
  BY <1>1, <1>2, <1>4
<1> QED BY <1>2, <1>3, <1>4, <1>5, NewBlock, ReplaceKeeps

\* A node is given another parent, and nothing else.
LEMMA StoreRefile == StoreInv /\ (\E n \in LiveNodes : Refile(n)) => StoreInv'
<1> SUFFICES ASSUME StoreInv, NEW n \in LiveNodes, Refile(n) PROVE StoreInv'
  OBVIOUS
<1>1. PICK f \in FOLDERS \ {n.parent} :
        Commit((LiveNodes \ {n}) \union {[n EXCEPT !.parent = f]}, LiveBlocks)
  BY DEF Refile
<1> DEFINE m == [n EXCEPT !.parent = f]
<1>2. /\ next \in Nat /\ n \in NodeEntries /\ n.data < next /\ n.sub < next
      /\ n.data \in Nat /\ n.sub \in Nat /\ next' = next
  BY LiveLeaves DEF StoreInv, NodeEntries, Refile
<1>3. /\ m \in NodeEntries /\ m.nid = n.nid /\ m.data = n.data /\ m.sub = n.sub
  BY <1>2 DEF NodeEntries
<1>4. NoLater(n, m)
  BY <1>2, <1>3 DEF NoLater
<1>5. Commit((LiveNodes \ {n}) \union {m}, LiveBlocks)
  BY <1>1
<1> HIDE DEF m
<1>6. m.data < next' /\ m.sub < next' /\ next' \in Nat /\ next <= next'
  BY <1>2, <1>3
<1> QED BY <1>3, <1>4, <1>5, <1>6, LiveLeaves, ReplaceKeeps

\* Delete and Relocate: no node is new.
LEMMA FewerKeeps ==
  ASSUME StoreInv, NEW nodes, nodes \subseteq LiveNodes, NEW blocks,
         Commit(nodes, blocks), UNCHANGED next,
         blocks \subseteq BlockEntries, IsFiniteSet(blocks)
  PROVE  StoreInv'
<1>1. nodes \subseteq NodeEntries /\ IsFiniteSet(nodes) /\ NamedOnce(nodes)
  BY LiveLeaves, FS_Subset DEF NamedOnce
<1>2. next' \in Nat /\ next <= next'
  BY DEF StoreInv
<1>3. \A n \in nodes :
        /\ n.data < next' /\ n.sub < next'
        /\ \A p \in 1 .. PAGES : pages[p].kind = "nbt" =>
             \A c \in pages[p].entries : c.nid = n.nid => NoLater(c, n)
  BY LiveLeaves
<1> QED BY <1>1, <1>2, <1>3, CommitKeeps

\* A node is taken out of the live leaf.
LEMMA StoreDelete == StoreInv /\ (\E n \in LiveNodes : Delete(n)) => StoreInv'
<1> SUFFICES ASSUME StoreInv, NEW n \in LiveNodes, Delete(n) PROVE StoreInv'
  OBVIOUS
<1>1. Commit(LiveNodes \ {n}, LiveBlocks) /\ UNCHANGED next
  BY DEF Delete
<1> DEFINE nodes == LiveNodes \ {n}
<1>2. nodes \subseteq LiveNodes
  OBVIOUS
<1>3. Commit(nodes, LiveBlocks)
  BY <1>1
<1> HIDE DEF nodes
<1> QED BY <1>1, <1>2, <1>3, LiveLeaves, FewerKeeps

\* A live block is moved to a free slot.
LEMMA StoreRelocate == StoreInv /\ Relocate => StoreInv'
<1> SUFFICES ASSUME StoreInv, Relocate PROVE StoreInv'
  OBVIOUS
<1>1. PICK b \in LiveBlocks, s \in Free :
        Commit(LiveNodes, (LiveBlocks \ {b}) \union {[b EXCEPT !.slot = s]})
  BY DEF Relocate
<1> DEFINE blocks == (LiveBlocks \ {b}) \union {[b EXCEPT !.slot = s]}
<1>2. blocks \subseteq BlockEntries
  <2>1. s \in 1 .. SLOTS /\ b \in BlockEntries
    BY LiveLeaves DEF Free
  <2>2. [b EXCEPT !.slot = s] \in BlockEntries
    BY <2>1 DEF BlockEntries
  <2> QED BY <2>2, LiveLeaves
<1>3. IsFiniteSet(blocks)
  BY LiveLeaves, FS_RemoveElement, FS_AddElement
<1>4. Commit(LiveNodes, blocks) /\ UNCHANGED next
  BY <1>1 DEF Relocate
<1> HIDE DEF blocks
<1> QED BY <1>2, <1>3, <1>4, FewerKeeps

\* Any edit of the store.
LEMMA StoreEdit == StoreInv /\ Edit => StoreInv'
  BY StoreCreate, StoreRewrite, StoreAttach, StoreRefile, StoreDelete, StoreRelocate
     DEF Edit

\* A page or a block goes bad.
LEMMA StoreRot == StoreInv /\ Rot => StoreInv'
<1> SUFFICES ASSUME StoreInv, Rot PROVE StoreInv'
  OBVIOUS
<1>1. UNCHANGED <<nbt, bbt, next>>
  BY DEF Rot
<1>2. CASE UNCHANGED pages
  BY <1>1, <1>2 DEF StoreInv, LeavesHold, NodeLeavesHold, LiveNodes
<1>3. CASE \E p \in 1 .. PAGES : pages' = [pages EXCEPT ![p].ok = FALSE]
  <2>1. PICK p \in 1 .. PAGES : pages' = [pages EXCEPT ![p].ok = FALSE]
    BY <1>3
  <2>2. /\ pages' \in [1 .. PAGES -> Leaves]
        /\ \A r \in 1 .. PAGES :
             pages'[r].kind = pages[r].kind /\ pages'[r].entries = pages[r].entries
    <3>1. pages[p] \in Leaves /\ pages \in [1 .. PAGES -> Leaves]
      BY DEF StoreInv
    <3>2. /\ [pages[p] EXCEPT !.ok = FALSE] \in Leaves
          /\ [pages[p] EXCEPT !.ok = FALSE].kind = pages[p].kind
          /\ [pages[p] EXCEPT !.ok = FALSE].entries = pages[p].entries
      BY <3>1 DEF Leaves
    <3>3. pages' = [pages EXCEPT ![p] = [pages[p] EXCEPT !.ok = FALSE]]
      BY <2>1
    <3> QED BY <3>1, <3>2, <3>3
  <2>3. LiveNodes' = LiveNodes
    BY <1>1, <2>2 DEF StoreInv, LiveNodes
  <2>4. LeavesHold'
    BY <2>2 DEF StoreInv, LeavesHold
  <2>5. NodeLeavesHold'
    BY <1>1, <2>2, <2>3 DEF StoreInv, NodeLeavesHold
  <2> QED BY <1>1, <2>2, <2>4, <2>5 DEF StoreInv
<1> QED BY <1>2, <1>3 DEF Rot

-----------------------------------------------------------------------------
(* What a sweep has found and settled so far.                               *)

\* Of the copies of a block b is one, and an intact one if there is any.
BlockChosen(b) ==
  /\ \E c \in BlockCopies(b.bid) : c.e = b
  /\ (\E c \in BlockCopies(b.bid) : BlockIntact(c.e)) => BlockIntact(b)

\* Of the copies of a node n is the last in the order they are sorted in.
NodeChosen(n) ==
  \E c \in NodeCopies(n.nid) :
    c.e = n /\ \A d \in NodeCopies(n.nid) \ {c} : Below(d, c)

SweepInv ==
  /\ pc \in {"edit", "sweep", "blocks", "nodes", "done"} /\ broken \in BOOLEAN
  /\ at \in Nat \ {0} /\ at <= PAGES + WINDOW
  /\ copies = UNION {Entries(p) : p \in {p \in 1 .. PAGES : p < at}}
  /\ pc = "edit" => at = 1
  /\ pc \in {"blocks", "nodes", "done"} /\ ~ broken => at > PAGES
  /\ pc \in {"edit", "sweep"} => live = {}
  /\ pc \in {"edit", "sweep", "blocks"} => picked = {}
  /\ \A b \in live : BlockChosen(b)
  /\ \A n \in picked : NodeChosen(n)
  /\ pc \in {"nodes", "done"} => {b.bid : b \in live} = SweptBids
  /\ pc = "done" => {n.nid : n \in picked} = SweptNids

\* What the sweep keeps is an entry of a page it could read.
LEMMA CopyIs ==
  ASSUME StoreInv, SweepInv, NEW c \in copies
  PROVE  /\ c.page \in 1 .. PAGES /\ pages[c.page].ok
         /\ c = [page |-> c.page, kind |-> c.kind, e |-> c.e]
         /\ c.kind = pages[c.page].kind /\ c.e \in pages[c.page].entries
         /\ c.kind \in {"nbt", "bbt"}
         /\ c.kind = "nbt" => c.e \in NodeEntries
         /\ c.kind = "bbt" => c.e \in BlockEntries
<1>1. PICK p \in 1 .. PAGES : c \in Entries(p)
  BY DEF SweepInv
<1>2. pages[p].ok /\ \E x \in pages[p].entries :
                       c = [page |-> p, kind |-> pages[p].kind, e |-> x]
  BY <1>1 DEF Entries
<1>3. pages[p].kind \in {"nbt", "bbt", "none"}
  BY DEF StoreInv, Leaves
<1> QED BY <1>2, <1>3 DEF StoreInv, LeavesHold

\* On each page a node or a block has its own copy.
LEMMA CopyOf ==
  ASSUME StoreInv, SweepInv, NEW p \in 1 .. PAGES, pages[p].ok, p < at,
         NEW x \in pages[p].entries
  PROVE  [page |-> p, kind |-> pages[p].kind, e |-> x] \in copies
<1>1. [page |-> p, kind |-> pages[p].kind, e |-> x] \in Entries(p)
  BY DEF Entries
<1> QED BY <1>1 DEF SweepInv

\* Of some copies one is the last.
LEMMA LastFoundIs ==
  ASSUME StoreInv, SweepInv, NEW cs, cs \subseteq copies, cs # {}
  PROVE  LastFound(cs) \in cs /\ \A d \in cs : d.page <= LastFound(cs).page
<1> DEFINE at_ == {c.page : c \in cs}
<1>1. at_ \subseteq Nat /\ at_ # {} /\ \A m \in at_ : m <= PAGES
  BY CopyIs
<1>2. PAGES \in Nat
  BY StoreAssumption
<1>3. PICK n \in at_ : \A m \in at_ : m <= n
  <2> HIDE DEF at_
  <2> QED BY <1>1, <1>2, Greatest
<1>4. PICK c \in cs : n = c.page
  OBVIOUS
<1>5. \A d \in cs : d.page <= c.page
  BY <1>3, <1>4
<1> QED BY <1>5 DEF LastFound

\* Of the copies of a block entry one is chosen, and an intact one where there is one.
LEMMA PickBlockIs ==
  ASSUME StoreInv, SweepInv, IsFiniteSet(copies), NEW bid, BlockCopies(bid) # {}
  PROVE  /\ \E c \in BlockCopies(bid) : PickBlock(BlockCopies(bid)) = c.e
         /\ (\E d \in BlockCopies(bid) : BlockIntact(d.e)) =>
              BlockIntact(PickBlock(BlockCopies(bid)))
<1> DEFINE cs == BlockCopies(bid)
           good == {c \in cs : BlockIntact(c.e)}
<1>1. cs \subseteq copies /\ good \subseteq copies /\ good \subseteq cs /\ cs # {}
  BY DEF BlockCopies
<1>2. /\ PickBlock(cs) = IF Cardinality(cs) = 1 \/ good = {} THEN LastFound(cs).e
                         ELSE LastFound(good).e
      /\ \A c \in cs : c \in good <=> BlockIntact(c.e)
  BY DEF PickBlock
<1>3. IsFiniteSet(cs)
  BY <1>1, FS_Subset
<1> HIDE DEF cs, good
<1>4. CASE Cardinality(cs) = 1
  <2>1. PICK x : cs = {x}
    BY <1>3, <1>4, FS_Singleton
  <2>2. LastFound(cs) \in cs
    BY <1>1, LastFoundIs
  <2>3. PickBlock(cs) = LastFound(cs).e
    BY <1>2, <1>4
  <2> QED BY <2>1, <2>2, <2>3 DEF cs
<1>5. CASE Cardinality(cs) # 1 /\ good = {}
  <2>1. LastFound(cs) \in cs
    BY <1>1, LastFoundIs
  <2> QED BY <1>2, <1>5, <2>1 DEF cs
<1>6. CASE Cardinality(cs) # 1 /\ good # {}
  <2>1. LastFound(good) \in good
    BY <1>1, <1>6, LastFoundIs
  <2> QED BY <1>1, <1>2, <1>6, <2>1 DEF cs
<1> QED BY <1>4, <1>5, <1>6

\* The copies of a node entry, with their fields.
LEMMA NodeCopyIs ==
  ASSUME StoreInv, SweepInv, NEW nid, NEW c \in NodeCopies(nid)
  PROVE  /\ c \in copies /\ c.kind = "nbt" /\ c.e.nid = nid /\ c.e \in NodeEntries
         /\ c.page \in 1 .. PAGES /\ c.page \in Nat
         /\ c.e.data \in Nat /\ c.e.sub \in Nat /\ c.e.data <= next /\ c.e.sub <= next
<1>1. c \in copies /\ c.kind = "nbt" /\ c.e.nid = nid
  BY DEF NodeCopies
<1>2. /\ c.page \in 1 .. PAGES /\ c.e \in NodeEntries
      /\ pages[c.page].kind = "nbt" /\ c.e \in pages[c.page].entries
  BY <1>1, CopyIs
<1>3. c.e.data \in Nat /\ c.e.sub \in Nat /\ c.e.data < next /\ c.e.sub < next
  BY <1>2 DEF NodeEntries, StoreInv, NodeLeavesHold
<1>4. c.e.data <= next /\ c.e.sub <= next
  BY <1>3 DEF StoreInv
<1> QED BY <1>1, <1>2, <1>3, <1>4

\* Two copies of a node from one page are the same.
LEMMA NodeCopyOfPage ==
  ASSUME StoreInv, SweepInv, NEW nid,
         NEW c \in NodeCopies(nid), NEW d \in NodeCopies(nid), c.page = d.page
  PROVE  c = d
<1>1. c \in copies /\ d \in copies /\ c.e.nid = d.e.nid /\ c.kind = "nbt" /\ d.kind = "nbt"
  BY DEF NodeCopies
<1>2. /\ c.page \in 1 .. PAGES /\ pages[c.page].kind = "nbt"
      /\ c.e \in pages[c.page].entries /\ d.e \in pages[c.page].entries
      /\ c = [page |-> c.page, kind |-> c.kind, e |-> c.e]
      /\ d = [page |-> d.page, kind |-> d.kind, e |-> d.e]
  BY <1>1, CopyIs
<1>3. c.e = d.e
  BY <1>1, <1>2 DEF StoreInv, NodeLeavesHold, NamedOnce
<1> QED BY <1>1, <1>2, <1>3

\* The order of the copies has a last one, and that is the one picked.
LEMMA PickNodeIs ==
  ASSUME StoreInv, SweepInv, NEW nid, NodeCopies(nid) # {}
  PROVE  \E c \in NodeCopies(nid) :
           /\ PickNode(NodeCopies(nid)) = c.e
           /\ \A d \in NodeCopies(nid) \ {c} : Below(d, c)
<1> DEFINE cs == NodeCopies(nid)
           listed == {c \in cs : Listed(c.e.data)}
           s1 == IF listed # {} THEN listed ELSE cs
           datas == {c.e.data : c \in s1}
<1>1. next \in Nat /\ PAGES \in Nat
  BY StoreAssumption DEF StoreInv
<1>2. \A c \in cs : /\ c.e.data \in Nat /\ c.e.sub \in Nat /\ c.page \in Nat
                    /\ c.e.data <= next /\ c.e.sub <= next /\ c.page <= PAGES
  BY <1>1, NodeCopyIs
<1>3. \A c, d \in cs : c.page = d.page => c = d
  BY NodeCopyOfPage
<1>4. s1 \subseteq cs /\ s1 # {}
  OBVIOUS
<1>5. \A c \in s1, d \in cs : d \in s1 \/ (Listed(c.e.data) /\ ~ Listed(d.e.data))
  OBVIOUS
<1>6. \A c, d \in s1 : Listed(c.e.data) <=> Listed(d.e.data)
  OBVIOUS
<1> HIDE DEF cs, listed, s1
<1>7. PICK x \in datas : \A y \in datas : y <= x
  <2>1. datas \subseteq Nat /\ datas # {} /\ \A y \in datas : y <= next
    BY <1>2, <1>4
  <2> HIDE DEF datas
  <2> QED BY <1>1, <2>1, Greatest
<1> DEFINE s2 == {c \in s1 : c.e.data = x}
           subs == {c.e.sub : c \in s2}
<1>8. s2 \subseteq cs /\ s2 # {}
  BY <1>4, <1>7
<1>9. PICK z \in subs : \A y \in subs : y <= z
  <2>1. subs \subseteq Nat /\ subs # {} /\ \A y \in subs : y <= next
    BY <1>2, <1>8
  <2> HIDE DEF subs
  <2> QED BY <1>1, <2>1, Greatest
<1> DEFINE s3 == {c \in s2 : c.e.sub = z}
           places == {c.page : c \in s3}
<1>10. s3 \subseteq cs /\ s3 # {}
  BY <1>8, <1>9
<1>11. PICK g \in places : \A y \in places : y <= g
  <2>1. places \subseteq Nat /\ places # {} /\ \A y \in places : y <= PAGES
    BY <1>2, <1>10
  <2> HIDE DEF places
  <2> QED BY <1>1, <2>1, Greatest
<1>12. PICK c \in s3 : c.page = g
  BY <1>11
<1>13. c \in cs /\ c \in s1 /\ c.e.data = x /\ c.e.sub = z
  BY <1>8, <1>10, <1>12
<1>14. ASSUME NEW d \in cs, d # c PROVE Below(d, c)
  <2>1. CASE d \notin s1
    BY <1>5, <1>13, <2>1 DEF Below
  <2>2. CASE d \in s1
    <3>1. Listed(c.e.data) = Listed(d.e.data)
      BY <1>6, <1>13, <2>2 DEF Listed
    <3>2. d.e.data <= c.e.data /\ d.e.data \in Nat /\ c.e.data \in Nat
      BY <1>2, <1>7, <1>13, <1>14, <2>2
    <3>3. d.e.data = c.e.data => d.e.sub <= c.e.sub /\ d.e.sub \in Nat /\ c.e.sub \in Nat
      BY <1>2, <1>9, <1>13, <1>14, <2>2
    <3>4. d.e.data = c.e.data /\ d.e.sub = c.e.sub => d.page < c.page
      <4> SUFFICES ASSUME d.e.data = c.e.data, d.e.sub = c.e.sub PROVE d.page < c.page
        OBVIOUS
      <4>1. d \in s3
        BY <1>13, <2>2
      <4>2. d.page <= c.page /\ d.page # c.page
        BY <1>3, <1>11, <1>12, <1>13, <1>14, <4>1
      <4> QED BY <1>2, <1>13, <1>14, <4>2
    <3>5. d.e.data < c.e.data \/ d.e.data = c.e.data
      BY <3>2
    <3>6. d.e.data = c.e.data => d.e.sub < c.e.sub \/ d.e.sub = c.e.sub
      BY <3>3
    <3> QED BY <3>1, <3>4, <3>5, <3>6 DEF Below
  <2> QED BY <2>1, <2>2
<1> DEFINE w == CHOOSE a \in cs : \A d \in cs \ {a} : Below(d, a)
<1>15. w \in cs /\ \A d \in cs \ {w} : Below(d, w)
  BY <1>13, <1>14
<1>16. PickNode(cs) = w.e
  BY DEF PickNode
<1> QED BY <1>15, <1>16 DEF cs

\* A family of finite sets over a finite set.
LEMMA FiniteUnion ==
  ASSUME NEW f, IsFiniteSet(DOMAIN f), \A x \in DOMAIN f : IsFiniteSet(f[x])
  PROVE  IsFiniteSet(UNION {f[x] : x \in DOMAIN f})
<1> DEFINE T == {f[x] : x \in DOMAIN f}
           g == [x \in DOMAIN f |-> f[x]]
<1>1. g \in Surjection(DOMAIN f, T)
  BY DEF Surjection
<1>2. IsFiniteSet(T)
  <2> HIDE DEF T, g
  <2> QED BY <1>1, FS_Surjection
<1>3. \A t \in T : IsFiniteSet(t)
  OBVIOUS
<1> HIDE DEF T
<1>4. IsFiniteSet(UNION T)
  BY <1>2, <1>3, FS_UNION
<1> QED BY <1>4 DEF T

\* A page has finitely many entries.
LEMMA FiniteEntries ==
  ASSUME StoreInv, NEW p \in 1 .. PAGES
  PROVE  IsFiniteSet(Entries(p))
<1> DEFINE copy(x) == [page |-> p, kind |-> pages[p].kind, e |-> x]
           T == {copy(x) : x \in pages[p].entries}
           g == [x \in pages[p].entries |-> copy(x)]
<1>1. IsFiniteSet(pages[p].entries)
  BY DEF StoreInv, LeavesHold
<1>2. g \in Surjection(pages[p].entries, T)
  BY DEF Surjection
<1>3. IsFiniteSet(T)
  <2> HIDE DEF T, g
  <2> QED BY <1>1, <1>2, FS_Surjection
<1>4. Entries(p) = IF pages[p].ok THEN T ELSE {}
  BY DEF Entries
<1> HIDE DEF T
<1> QED BY <1>3, <1>4, FS_EmptySet

\* The sweep keeps finitely many copies.
LEMMA FiniteCopies ==
  ASSUME StoreInv, SweepInv
  PROVE  IsFiniteSet(copies)
<1> DEFINE P == {p \in 1 .. PAGES : p < at}
           f == [p \in P |-> Entries(p)]
<1>1. IsFiniteSet(P)
  <2>1. IsFiniteSet(1 .. PAGES)
    BY StoreAssumption, FS_Interval
  <2> QED BY <2>1, FS_Subset
<1>2. \A p \in P : IsFiniteSet(Entries(p))
  BY FiniteEntries
<1> HIDE DEF P
<1>3. DOMAIN f = P /\ \A p \in P : f[p] = Entries(p)
  OBVIOUS
<1>4. {f[p] : p \in P} = {Entries(p) : p \in P}
  BY <1>3
<1> HIDE DEF f
<1>5. IsFiniteSet(UNION {f[p] : p \in DOMAIN f})
  BY <1>1, <1>2, <1>3, FiniteUnion
<1>6. IsFiniteSet(UNION {Entries(p) : p \in P})
  BY <1>3, <1>4, <1>5
<1> QED BY <1>6 DEF P, SweepInv

-----------------------------------------------------------------------------
\* Nothing has been swept when the store is handed over.
LEMMA SweepStart == Init => StoreInv /\ SweepInv
<1> SUFFICES ASSUME Init PROVE StoreInv /\ SweepInv
  OBVIOUS
<1>1. StoreInv
  BY StoreStart DEF Init
<1>2. PAGES \in Nat /\ WINDOW \in Nat \ {0}
  BY StoreAssumption, ScanAssumption
<1>3. /\ pc = "edit" /\ broken = FALSE /\ at = 1
      /\ copies = {} /\ live = {} /\ picked = {}
  BY DEF Init
<1>4. copies = UNION {Entries(p) : p \in {p \in 1 .. PAGES : p < at}}
  <2>1. {p \in 1 .. PAGES : p < at} = {}
    BY <1>2, <1>3
  <2> QED BY <1>3, <2>1
<1>5. at \in Nat \ {0} /\ at <= PAGES + WINDOW
  BY <1>2, <1>3
<1>6. SweepInv
  BY <1>3, <1>4, <1>5 DEF SweepInv
<1> QED BY <1>1, <1>6

\* Before the sweep nothing has been read, whatever the pages hold.
LEMMA BeforeSweep ==
  ASSUME StoreInv, SweepInv, pc = "edit", pc' \in {"edit", "sweep"},
         UNCHANGED <<broken, at, copies, live, picked, stale, count>>
  PROVE  SweepInv'
<1>1. at = 1 /\ live = {} /\ picked = {} /\ PAGES \in Nat
  BY StoreAssumption DEF SweepInv
<1>2. {p \in 1 .. PAGES : p < at} = {}
  BY <1>1
<1>3. copies = {}
  BY <1>2 DEF SweepInv
<1>4. copies' = UNION {Entries(p)' : p \in {p \in 1 .. PAGES : p < at'}}
  BY <1>2, <1>3
<1> QED BY <1>1, <1>4 DEF SweepInv

\* A window adds the entries of its readable pages to the copies.
LEMMA StepReadWindow ==
  ASSUME StoreInv, SweepInv, ReadWindow
  PROVE  SweepInv'
<1>1. /\ pc = "sweep" /\ at <= PAGES
      /\ copies' = copies \union UNION {Entries(p) : p \in Window}
      /\ at' = at + WINDOW
      /\ UNCHANGED <<pages, pc, broken, live, picked>>
  BY DEF ReadWindow, store
<1>2. PAGES \in Nat /\ WINDOW \in Nat \ {0} /\ at \in Nat \ {0}
  BY StoreAssumption, ScanAssumption DEF SweepInv
<1>3. Window = {p \in 1 .. PAGES : at <= p /\ p < at + WINDOW}
  <2>1. CASE at + WINDOW - 1 <= PAGES
    <3>1. Window = at .. at + WINDOW - 1
      BY <2>1 DEF Window
    <3> QED BY <1>2, <2>1, <3>1
  <2>2. CASE ~ (at + WINDOW - 1 <= PAGES)
    <3>1. Window = at .. PAGES
      BY <2>2 DEF Window
    <3> QED BY <1>2, <2>2, <3>1
  <2> QED BY <2>1, <2>2
<1>4. \A p \in 1 .. PAGES : p < at + WINDOW <=> p < at \/ p \in Window
  BY <1>2, <1>3
<1>5. copies = UNION {Entries(p) : p \in {p \in 1 .. PAGES : p < at}}
  BY DEF SweepInv
<1>6. copies' = UNION {Entries(p) : p \in {p \in 1 .. PAGES : p < at + WINDOW}}
  BY <1>1, <1>3, <1>4, <1>5
<1>7. \A p : Entries(p)' = Entries(p)
  BY <1>1 DEF Entries
<1>8. copies' = UNION {Entries(p)' : p \in {p \in 1 .. PAGES : p < at'}}
  BY <1>1, <1>6, <1>7
<1>9. at' \in Nat \ {0} /\ at' <= PAGES + WINDOW
  BY <1>1, <1>2
<1>10. live' = {} /\ picked' = {} /\ pc' = "sweep" /\ broken' \in BOOLEAN
  BY <1>1 DEF SweepInv
<1> QED BY <1>8, <1>9, <1>10 DEF SweepInv

\* What has been settled stays settled while copies, disk and live do not change.
LEMMA ChoicesStand ==
  ASSUME UNCHANGED <<copies, disk>>
  PROVE  /\ \A b : BlockChosen(b)' <=> BlockChosen(b)
         /\ UNCHANGED live => \A n : NodeChosen(n)' <=> NodeChosen(n)
         /\ SweptBids' = SweptBids /\ SweptNids' = SweptNids
<1>1. \A bid : BlockCopies(bid)' = BlockCopies(bid)
  BY DEF BlockCopies
<1>2. \A nid : NodeCopies(nid)' = NodeCopies(nid)
  BY DEF NodeCopies
<1>3. \A b : BlockChosen(b)' <=> BlockChosen(b)
  BY <1>1 DEF BlockChosen, BlockIntact
<1>4. UNCHANGED live => \A n : NodeChosen(n)' <=> NodeChosen(n)
  <2> SUFFICES ASSUME UNCHANGED live, NEW n PROVE NodeChosen(n)' <=> NodeChosen(n)
    OBVIOUS
  <2>1. \A c, d : Below(d, c)' <=> Below(d, c)
    BY DEF Below, Listed
  <2> QED BY <1>2, <2>1 DEF NodeChosen
<1>5. SweptBids' = SweptBids /\ SweptNids' = SweptNids
  BY DEF SweptBids, SweptNids
<1> QED BY <1>3, <1>4, <1>5

\* What has been read stays what the pages hold.
LEMMA ReadingStands ==
  ASSUME SweepInv, UNCHANGED <<pages, copies, at>>
  PROVE  copies' = UNION {Entries(p)' : p \in {p \in 1 .. PAGES : p < at'}}
<1>1. \A p : Entries(p)' = Entries(p)
  BY DEF Entries
<1>2. copies = UNION {Entries(p) : p \in {p \in 1 .. PAGES : p < at}}
  BY DEF SweepInv
<1> QED BY <1>1, <1>2

\* ReadFails, EndOfFile, BlocksSettled and Finish.
LEMMA StepPhase ==
  ASSUME StoreInv, SweepInv, ReadFails \/ EndOfFile \/ BlocksSettled \/ Finish
  PROVE  SweepInv'
<1>1. UNCHANGED <<pages, disk, at, copies, live, picked>> /\ broken' \in BOOLEAN
  BY DEF ReadFails, EndOfFile, BlocksSettled, Finish, store, SweepInv
<1>2. copies' = UNION {Entries(p)' : p \in {p \in 1 .. PAGES : p < at'}}
  BY <1>1, ReadingStands
<1>3. /\ \A b \in live' : BlockChosen(b)'
      /\ \A n \in picked' : NodeChosen(n)'
  BY <1>1, ChoicesStand DEF SweepInv
<1>4. /\ pc' \in {"blocks", "nodes", "done"}
      /\ ~ broken' => at' > PAGES
      /\ pc' = "blocks" => picked' = {}
  BY <1>1 DEF ReadFails, EndOfFile, BlocksSettled, Finish, SweepInv
<1>5. /\ pc' \in {"nodes", "done"} => {b.bid : b \in live'} = SweptBids'
      /\ pc' = "done" => {n.nid : n \in picked'} = SweptNids'
  BY <1>1, ChoicesStand DEF ReadFails, EndOfFile, BlocksSettled, Finish, SweepInv
<1>6. at' \in Nat \ {0} /\ at' <= PAGES + WINDOW
  BY <1>1 DEF SweepInv
<1> QED BY <1>1, <1>2, <1>3, <1>4, <1>5, <1>6 DEF SweepInv

\* What is picked for a block id is a chosen entry of that id.
LEMMA BlockPicked ==
  ASSUME StoreInv, SweepInv, NEW bid \in SweptBids
  PROVE  /\ PickBlock(BlockCopies(bid)).bid = bid
         /\ BlockChosen(PickBlock(BlockCopies(bid)))
<1>1. BlockCopies(bid) # {}
  BY DEF SweptBids, BlockCopies
<1>2. /\ \E c \in BlockCopies(bid) : PickBlock(BlockCopies(bid)) = c.e
      /\ (\E d \in BlockCopies(bid) : BlockIntact(d.e)) =>
           BlockIntact(PickBlock(BlockCopies(bid)))
  BY <1>1, FiniteCopies, PickBlockIs
<1>3. PickBlock(BlockCopies(bid)).bid = bid
  BY <1>2 DEF BlockCopies
<1> QED BY <1>2, <1>3 DEF BlockChosen

\* What is picked for a node id is a chosen entry of that id.
LEMMA NodePicked ==
  ASSUME StoreInv, SweepInv, NEW nid \in SweptNids
  PROVE  /\ PickNode(NodeCopies(nid)).nid = nid
         /\ NodeChosen(PickNode(NodeCopies(nid)))
<1>1. NodeCopies(nid) # {}
  BY DEF SweptNids, NodeCopies
<1>2. PICK c \in NodeCopies(nid) :
        /\ PickNode(NodeCopies(nid)) = c.e
        /\ \A d \in NodeCopies(nid) \ {c} : Below(d, c)
  BY <1>1, PickNodeIs
<1>3. c.e.nid = nid
  BY DEF NodeCopies
<1> QED BY <1>2, <1>3 DEF NodeChosen

\* One block id is settled.
LEMMA StepSettleBlock ==
  ASSUME StoreInv, SweepInv, NEW bid \in SweptBids, SettleBlock(bid)
  PROVE  SweepInv'
<1>1. /\ pc = "blocks" /\ live' = live \union {PickBlock(BlockCopies(bid))}
      /\ UNCHANGED <<pages, disk, pc, broken, at, copies, picked>>
  BY DEF SettleBlock, store
<1>2. copies' = UNION {Entries(p)' : p \in {p \in 1 .. PAGES : p < at'}}
  BY <1>1, ReadingStands
<1>3. BlockChosen(PickBlock(BlockCopies(bid)))
  BY BlockPicked
<1>4. \A b \in live' : BlockChosen(b)'
  BY <1>1, <1>3, ChoicesStand DEF SweepInv
<1>5. picked = {}
  BY <1>1 DEF SweepInv
<1> QED BY <1>1, <1>2, <1>4, <1>5 DEF SweepInv

\* One node id is settled.
LEMMA StepSettleNode ==
  ASSUME StoreInv, SweepInv, NEW nid \in SweptNids, SettleNode(nid)
  PROVE  SweepInv'
<1>1. /\ pc = "nodes" /\ picked' = picked \union {PickNode(NodeCopies(nid))}
      /\ UNCHANGED <<pages, disk, pc, broken, at, copies, live>>
  BY DEF SettleNode, store
<1>2. copies' = UNION {Entries(p)' : p \in {p \in 1 .. PAGES : p < at'}}
  BY <1>1, ReadingStands
<1>3. NodeChosen(PickNode(NodeCopies(nid)))
  BY NodePicked
<1>4. /\ \A b \in live' : BlockChosen(b)'
      /\ \A n \in picked' : NodeChosen(n)'
  BY <1>1, <1>3, ChoicesStand DEF SweepInv
<1>5. {b.bid : b \in live'} = SweptBids'
  BY <1>1, ChoicesStand DEF SweepInv
<1> QED BY <1>1, <1>2, <1>4, <1>5 DEF SweepInv

-----------------------------------------------------------------------------
(* What a sweep that is over promises.                                      *)

\* After the last window every entry of every readable page is among the copies.
LEMMA AllRead ==
  ASSUME StoreInv, SweepInv, Swept, NEW p \in 1 .. PAGES, pages[p].ok,
         NEW x \in pages[p].entries
  PROVE  [page |-> p, kind |-> pages[p].kind, e |-> x] \in copies
<1>1. at > PAGES /\ at \in Nat /\ PAGES \in Nat
  BY StoreAssumption DEF SweepInv, Swept
<1>2. p < at
  BY <1>1
<1> QED BY <1>2, CopyOf

\* The invariants give that the sweep agrees with the live index.
LEMMA AgreesHolds == StoreInv /\ SweepInv => SweepAgrees
<1> SUFFICES ASSUME StoreInv, SweepInv, Swept, pages[nbt].ok,
                    NEW n \in LiveNodes, Listed(n.data)
             PROVE  \E m \in picked : m.nid = n.nid /\ m.data = n.data /\ m.sub = n.sub
  BY DEF SweepAgrees
<1> DEFINE c == [page |-> nbt, kind |-> pages[nbt].kind, e |-> n]
<1>1. nbt \in 1 .. PAGES /\ pages[nbt].kind = "nbt" /\ n \in pages[nbt].entries
  BY DEF StoreInv, LiveNodes
<1>2. c \in copies /\ c \in NodeCopies(n.nid) /\ c.e = n
  BY <1>1, AllRead DEF NodeCopies
<1> HIDE DEF c
<1>3. n.nid \in {m.nid : m \in picked}
  BY <1>2 DEF SweepInv, Swept, SweptNids, NodeCopies
<1>4. PICK m \in picked : m.nid = n.nid
  BY <1>3
<1>5. PICK d \in NodeCopies(n.nid) :
        d.e = m /\ \A x \in NodeCopies(n.nid) \ {d} : Below(x, d)
  BY <1>4 DEF SweepInv, NodeChosen
<1>6. NoLater(m, n) /\ m \in NodeEntries /\ n \in NodeEntries
  <2>1. d \in copies /\ d.kind = "nbt"
    BY <1>5 DEF NodeCopies
  <2>2. /\ d.page \in 1 .. PAGES /\ pages[d.page].kind = "nbt"
        /\ m \in pages[d.page].entries /\ m \in NodeEntries
    BY <1>5, <2>1, CopyIs
  <2> QED BY <1>4, <2>2, LiveLeaves
<1>7. CASE d = c
  BY <1>2, <1>4, <1>5, <1>7
<1>8. CASE d # c
  <2>1. Below(c, d)
    BY <1>2, <1>5, <1>8
  <2>2. \/ n.data < m.data
        \/ n.data = m.data /\ n.sub < m.sub
        \/ n.data = m.data /\ n.sub = m.sub
    BY <1>2, <1>5, <2>1 DEF Below
  <2>3. n.data = m.data /\ n.sub = m.sub
    BY <1>6, <2>2 DEF NoLater, NodeEntries
  <2> QED BY <1>4, <2>3
<1> QED BY <1>7, <1>8

\* The invariants give that live blocks resolve.
LEMMA ResolveHolds == StoreInv /\ SweepInv => LiveBlocksResolve
<1> SUFFICES ASSUME StoreInv, SweepInv, Swept, pages[bbt].ok,
                    NEW b \in LiveBlocks, disk[b.slot] = b.bid
             PROVE  \E l \in live : l.bid = b.bid /\ disk[l.slot] = b.bid
  BY DEF LiveBlocksResolve
<1> DEFINE c == [page |-> bbt, kind |-> pages[bbt].kind, e |-> b]
<1>1. bbt \in 1 .. PAGES /\ pages[bbt].kind = "bbt" /\ b \in pages[bbt].entries
  BY DEF StoreInv, LiveBlocks
<1>2. c \in copies /\ c \in BlockCopies(b.bid) /\ c.e = b
  BY <1>1, AllRead DEF BlockCopies
<1> HIDE DEF c
<1>3. b.bid \in {l.bid : l \in live}
  BY <1>2 DEF SweepInv, Swept, SweptBids, BlockCopies
<1>4. PICK l \in live : l.bid = b.bid
  BY <1>3
<1>5. BlockIntact(l)
  BY <1>2, <1>4 DEF SweepInv, BlockChosen, BlockIntact
<1> QED BY <1>4, <1>5 DEF BlockIntact

\* The invariants give that nothing swept is lost.
LEMMA NothingLostHolds == StoreInv /\ SweepInv => NothingSweptIsLost
<1> SUFFICES ASSUME StoreInv, SweepInv, Swept PROVE NothingSweptIsLost
  BY DEF NothingSweptIsLost
<1> DEFINE leaves(kind) == {p \in 1 .. PAGES : pages[p].ok /\ pages[p].kind = kind}
<1>1. {n.nid : n \in picked} = SweptNids /\ {b.bid : b \in live} = SweptBids
  BY DEF SweepInv, Swept
<1>2. \A c \in copies :
        /\ c.page \in 1 .. PAGES /\ pages[c.page].ok
        /\ c.kind = pages[c.page].kind /\ c.e \in pages[c.page].entries
  BY CopyIs
<1>3. \A p \in 1 .. PAGES : \A x \in pages[p].entries :
        pages[p].ok => [page |-> p, kind |-> pages[p].kind, e |-> x] \in copies
  BY AllRead
<1>4. SweptNids = {e.nid : e \in UNION {pages[p].entries : p \in leaves("nbt")}}
  <2>1. ASSUME NEW c \in copies, c.kind = "nbt"
        PROVE  c.e \in UNION {pages[p].entries : p \in leaves("nbt")}
    BY <1>2, <2>1
  <2>2. ASSUME NEW p \in leaves("nbt"), NEW e \in pages[p].entries
        PROVE  \E c \in copies : c.kind = "nbt" /\ c.e = e
    BY <1>3
  <2> QED BY <2>1, <2>2 DEF SweptNids
<1>5. SweptBids = {e.bid : e \in UNION {pages[p].entries : p \in leaves("bbt")}}
  <2>1. ASSUME NEW c \in copies, c.kind = "bbt"
        PROVE  c.e \in UNION {pages[p].entries : p \in leaves("bbt")}
    BY <1>2, <2>1
  <2>2. ASSUME NEW p \in leaves("bbt"), NEW e \in pages[p].entries
        PROVE  \E c \in copies : c.kind = "bbt" /\ c.e = e
    BY <1>3
  <2> QED BY <2>1, <2>2 DEF SweptBids
<1> QED BY <1>1, <1>4, <1>5 DEF NothingSweptIsLost

\* The invariants give that a copy whose block is listed wins.
LEMMA ListedHolds == StoreInv /\ SweepInv => ListedWins
<1> SUFFICES ASSUME SweepInv, NEW n \in picked,
                    NEW c \in NodeCopies(n.nid), Listed(c.e.data)
             PROVE  Listed(n.data)
  BY DEF ListedWins
<1>1. PICK d \in NodeCopies(n.nid) :
        d.e = n /\ \A x \in NodeCopies(n.nid) \ {d} : Below(x, d)
  BY DEF SweepInv, NodeChosen
<1>2. CASE c = d
  BY <1>1, <1>2
<1>3. CASE c # d
  BY <1>1, <1>3 DEF Below
<1> QED BY <1>2, <1>3

-----------------------------------------------------------------------------
(* The counters.                                                            *)

LiveBids == {b.bid : b \in live}
PickedNids == {n.nid : n \in picked}

\* The copies of what has been settled.
BlockShare == {c \in copies : c.kind = "bbt" /\ c.e.bid \in LiveBids}
NodeShare == {c \in copies : c.kind = "nbt" /\ c.e.nid \in PickedNids}

\* The blocks chosen from several copies, in vain.
Failing == {b \in live : ~ BlockIntact(b) /\ Cardinality(BlockCopies(b.bid)) > 1}

Tally ==
  /\ IsFiniteSet(live) /\ IsFiniteSet(LiveBids)
  /\ Cardinality(LiveBids) = Cardinality(live)
  /\ IsFiniteSet(picked) /\ IsFiniteSet(PickedNids)
  /\ Cardinality(PickedNids) = Cardinality(picked)
  /\ count \in [damaged : Nat, superseded : Nat, unresolved : Nat]
  /\ Cardinality(BlockShare) + Cardinality(NodeShare)
       = Cardinality(live) + Cardinality(picked) + count.superseded
  /\ count.unresolved = Cardinality(Failing)

\* Without ids settled the tally is that of nothing.
LEMMA TallyEmpty ==
  ASSUME live = {}, picked = {}, count \in [damaged : Nat, superseded : Nat, unresolved : Nat],
         count.superseded = 0, count.unresolved = 0
  PROVE  Tally
<1>1. LiveBids = {} /\ PickedNids = {} /\ BlockShare = {} /\ NodeShare = {} /\ Failing = {}
  BY DEF LiveBids, PickedNids, BlockShare, NodeShare, Failing
<1>2. IsFiniteSet({}) /\ Cardinality({}) = 0
  BY FS_EmptySet
<1> QED BY <1>1, <1>2 DEF Tally

\* The same, read the other way.
LEMMA TallyZero ==
  ASSUME Tally, live = {}, picked = {}
  PROVE  count.superseded = 0 /\ count.unresolved = 0
<1>1. BlockShare = {} /\ NodeShare = {} /\ Failing = {}
  BY DEF LiveBids, PickedNids, BlockShare, NodeShare, Failing
<1>2. Cardinality({}) = 0
  BY FS_EmptySet
<1>3. count.superseded \in Nat
  BY DEF Tally
<1> QED BY <1>1, <1>2, <1>3 DEF Tally

\* The tally begins with nothing.
LEMMA TallyStart == Init => Tally
<1> SUFFICES ASSUME Init PROVE Tally
  OBVIOUS
<1>1. live = {} /\ picked = {} /\ count = [damaged |-> 0, superseded |-> 0, unresolved |-> 0]
  BY DEF Init
<1> QED BY <1>1, TallyEmpty

\* A window counts its damaged pages and settles nothing.
LEMMA TallyReadWindow ==
  ASSUME StoreInv, SweepInv, Tally, ReadWindow
  PROVE  Tally'
<1>1. /\ pc = "sweep" /\ UNCHANGED <<live, picked>>
      /\ count' = [count EXCEPT !.damaged = @ + Cardinality({p \in Window : ~ pages[p].ok})]
  BY DEF ReadWindow
<1>2. live = {} /\ picked = {}
  BY <1>1 DEF SweepInv
<1>3. count.superseded = 0 /\ count.unresolved = 0
      /\ count \in [damaged : Nat, superseded : Nat, unresolved : Nat]
  BY <1>2, TallyZero DEF Tally
<1>4. Cardinality({p \in Window : ~ pages[p].ok}) \in Nat
  <2>1. at \in Int /\ PAGES \in Int /\ at + WINDOW - 1 \in Int
    BY StoreAssumption, ScanAssumption DEF SweepInv
  <2>2. IsFiniteSet(Window)
    <3>1. IsFiniteSet(at .. at + WINDOW - 1) /\ IsFiniteSet(at .. PAGES)
      BY <2>1, FS_Interval
    <3> QED BY <3>1 DEF Window
  <2>3. IsFiniteSet({p \in Window : ~ pages[p].ok})
    BY <2>2, FS_Subset
  <2> QED BY <2>3, FS_CardinalityType
<1> DEFINE k == Cardinality({p \in Window : ~ pages[p].ok})
<1> HIDE DEF k
<1>5. count' = [count EXCEPT !.damaged = @ + k] /\ k \in Nat
  BY <1>1, <1>4 DEF k
<1>6. /\ count' \in [damaged : Nat, superseded : Nat, unresolved : Nat]
      /\ count'.superseded = 0 /\ count'.unresolved = 0
  BY <1>3, <1>5
<1>7. live' = {} /\ picked' = {}
  BY <1>1, <1>2
<1>8. /\ LiveBids' = {} /\ PickedNids' = {} /\ BlockShare' = {} /\ NodeShare' = {}
      /\ Failing' = {}
  BY <1>7 DEF LiveBids, PickedNids, BlockShare, NodeShare, Failing
<1>9. IsFiniteSet({}) /\ Cardinality({}) = 0
  BY FS_EmptySet
<1> QED BY <1>6, <1>7, <1>8, <1>9 DEF Tally

\* Phases, and the writer's steps: nothing is counted.
LEMMA TallyStands ==
  ASSUME Tally, UNCHANGED <<copies, live, picked, count>>, UNCHANGED disk \/ live = {}
  PROVE  Tally'
<1>1. UNCHANGED <<LiveBids, PickedNids, BlockShare, NodeShare>>
  BY DEF LiveBids, PickedNids, BlockShare, NodeShare
<1>2. UNCHANGED Failing
  <2>1. CASE UNCHANGED disk
    BY <2>1 DEF Failing, BlockIntact, BlockCopies
  <2>2. CASE live = {}
    BY <2>2 DEF Failing
  <2> QED BY <2>1, <2>2
<1> QED BY <1>1, <1>2 DEF Tally

\* What choosing one of some copies adds to both sides of the account.
LEMMA OneMore ==
  ASSUME NEW S, NEW cs, IsFiniteSet(S), IsFiniteSet(cs), cs # {}, S \cap cs = {}
  PROVE  /\ Cardinality(S \union cs) = Cardinality(S) + Cardinality(cs)
         /\ Cardinality(cs) \in Nat \ {0} /\ Cardinality(S) \in Nat
<1>1. Cardinality(S \union cs) = Cardinality(S) + Cardinality(cs) - Cardinality(S \cap cs)
  BY FS_Union
<1>2. Cardinality(S \cap cs) = 0 /\ Cardinality(cs) # 0
  BY FS_EmptySet
<1>3. Cardinality(cs) \in Nat /\ Cardinality(S) \in Nat
  BY FS_CardinalityType
<1> QED BY <1>1, <1>2, <1>3

\* The copies that are counted are finitely many.
LEMMA FiniteShares ==
  ASSUME StoreInv, SweepInv
  PROVE  /\ IsFiniteSet(BlockShare) /\ IsFiniteSet(NodeShare)
         /\ \A bid : IsFiniteSet(BlockCopies(bid))
         /\ \A nid : IsFiniteSet(NodeCopies(nid))
<1>1. /\ BlockShare \subseteq copies /\ NodeShare \subseteq copies
      /\ \A bid : BlockCopies(bid) \subseteq copies
      /\ \A nid : NodeCopies(nid) \subseteq copies
  BY DEF BlockShare, NodeShare, BlockCopies, NodeCopies
<1> QED BY <1>1, FiniteCopies, FS_Subset

\* What settling one id adds to the counts.
LEMMA CountsAs ==
  ASSUME NEW c \in [damaged : Nat, superseded : Nat, unresolved : Nat],
         NEW k \in Nat \ {0}, NEW vain \in BOOLEAN, NEW d,
         d = [c EXCEPT !.superseded = @ + k - 1,
                       !.unresolved = IF vain THEN @ + 1 ELSE @]
  PROVE  /\ d \in [damaged : Nat, superseded : Nat, unresolved : Nat]
         /\ d.superseded = c.superseded + k - 1
         /\ d.unresolved = c.unresolved + (IF vain THEN 1 ELSE 0)
<1> DEFINE s == c.superseded + k - 1
           u == IF vain THEN c.unresolved + 1 ELSE c.unresolved
<1>1. d = [c EXCEPT !.superseded = s, !.unresolved = u]
  OBVIOUS
<1>2. s \in Nat /\ u \in Nat
  OBVIOUS
<1>3. u = c.unresolved + (IF vain THEN 1 ELSE 0)
  OBVIOUS
<1> HIDE DEF s, u
<1>4. /\ d \in [damaged : Nat, superseded : Nat, unresolved : Nat]
      /\ d.superseded = s /\ d.unresolved = u
  BY <1>1, <1>2
<1> QED BY <1>3, <1>4 DEF s

\* Settling a block id counts the copies it leaves behind.
LEMMA TallySettleBlock ==
  ASSUME StoreInv, SweepInv, Tally, NEW bid \in SweptBids, SettleBlock(bid)
  PROVE  Tally'
<1> DEFINE cs == BlockCopies(bid)
           b == PickBlock(cs)
           vain == Cardinality(cs) > 1 /\ \A c \in cs : ~ BlockIntact(c.e)
<1>1. /\ \A x \in live : x.bid # bid
      /\ live' = live \union {b} /\ UNCHANGED <<disk, copies, picked>>
      /\ count' = [count EXCEPT !.superseded = @ + Cardinality(cs) - 1,
                                !.unresolved = IF vain THEN @ + 1 ELSE @]
  BY DEF SettleBlock, store
<1>2. /\ b.bid = bid /\ \E c \in cs : c.e = b
      /\ (\E c \in cs : BlockIntact(c.e)) => BlockIntact(b)
  BY BlockPicked DEF BlockChosen
<1>3. vain <=> ~ BlockIntact(b) /\ Cardinality(cs) > 1
  BY <1>2
<1> HIDE DEF b, vain
<1>4. /\ b \notin live /\ bid \notin LiveBids /\ LiveBids' = LiveBids \union {bid}
      /\ PickedNids' = PickedNids
  BY <1>1, <1>2 DEF LiveBids, PickedNids
<1>5. /\ IsFiniteSet(live') /\ Cardinality(live') = Cardinality(live) + 1
      /\ IsFiniteSet(LiveBids') /\ Cardinality(LiveBids') = Cardinality(LiveBids) + 1
  BY <1>1, <1>4, FS_AddElement DEF Tally
<1>6. /\ cs # {} /\ IsFiniteSet(cs) /\ BlockShare \cap cs = {}
      /\ BlockShare' = BlockShare \union cs /\ NodeShare' = NodeShare
  <2>1. cs # {} /\ IsFiniteSet(cs)
    BY <1>2, FiniteShares
  <2>2. BlockShare \cap cs = {}
    BY <1>4 DEF BlockShare, BlockCopies
  <2>3. BlockShare' = BlockShare \union cs
    BY <1>1, <1>4 DEF BlockShare, BlockCopies
  <2>4. NodeShare' = NodeShare
    BY <1>1, <1>4 DEF NodeShare
  <2> QED BY <2>1, <2>2, <2>3, <2>4
<1>7. /\ Cardinality(BlockShare') = Cardinality(BlockShare) + Cardinality(cs)
      /\ Cardinality(cs) \in Nat \ {0} /\ Cardinality(BlockShare) \in Nat
  BY <1>6, FiniteShares, OneMore
<1>8. Failing' = IF vain THEN Failing \union {b} ELSE Failing
  <2>1. \A x : BlockIntact(x)' <=> BlockIntact(x)
    BY <1>1 DEF BlockIntact
  <2>2. \A x : BlockCopies(x)' = BlockCopies(x)
    BY <1>1 DEF BlockCopies
  <2>3. Failing' = {x \in live' : ~ BlockIntact(x) /\ Cardinality(BlockCopies(x.bid)) > 1}
    BY <2>1, <2>2 DEF Failing
  <2> QED BY <1>1, <1>2, <1>3, <2>3 DEF Failing
<1>9. IsFiniteSet(Failing) /\ b \notin Failing
  <2>1. Failing \subseteq live
    BY DEF Failing
  <2> QED BY <1>4, <2>1, FS_Subset DEF Tally
<1>10. Cardinality(Failing') = Cardinality(Failing) + (IF vain THEN 1 ELSE 0)
  <2>1. Cardinality(Failing \union {b}) = Cardinality(Failing) + 1
    BY <1>9, FS_AddElement
  <2>2. Cardinality(Failing) \in Nat
    BY <1>9, FS_CardinalityType
  <2> QED BY <1>8, <2>1, <2>2
<1> HIDE DEF cs
<1>11. /\ count' \in [damaged : Nat, superseded : Nat, unresolved : Nat]
       /\ count'.superseded = count.superseded + Cardinality(cs) - 1
       /\ count'.unresolved = count.unresolved + (IF vain THEN 1 ELSE 0)
  <2>1. count \in [damaged : Nat, superseded : Nat, unresolved : Nat]
    BY DEF Tally
  <2> QED BY <1>1, <1>7, <2>1, CountsAs
<1>12. /\ Cardinality(NodeShare) \in Nat /\ Cardinality(live) \in Nat
       /\ Cardinality(picked) \in Nat /\ count.superseded \in Nat
  BY FiniteShares, FS_CardinalityType DEF Tally
<1>13. Cardinality(BlockShare') + Cardinality(NodeShare')
         = Cardinality(live') + Cardinality(picked') + count'.superseded
  BY <1>1, <1>5, <1>6, <1>7, <1>11, <1>12 DEF Tally
<1> QED BY <1>1, <1>4, <1>5, <1>10, <1>11, <1>13 DEF Tally

\* Settling a node id counts the copies it leaves behind.
LEMMA TallySettleNode ==
  ASSUME StoreInv, SweepInv, Tally, NEW nid \in SweptNids, SettleNode(nid)
  PROVE  Tally'
<1> DEFINE cs == NodeCopies(nid)
           n == PickNode(cs)
<1>1. /\ \A x \in picked : x.nid # nid
      /\ picked' = picked \union {n} /\ UNCHANGED <<disk, copies, live>>
      /\ count' = [count EXCEPT !.superseded = @ + Cardinality(cs) - 1]
  BY DEF SettleNode, store
<1>2. n.nid = nid /\ \E c \in cs : c.e = n
  BY NodePicked DEF NodeChosen
<1> HIDE DEF n
<1>3. /\ n \notin picked /\ nid \notin PickedNids /\ PickedNids' = PickedNids \union {nid}
      /\ LiveBids' = LiveBids
  BY <1>1, <1>2 DEF LiveBids, PickedNids
<1>4. /\ IsFiniteSet(picked') /\ Cardinality(picked') = Cardinality(picked) + 1
      /\ IsFiniteSet(PickedNids') /\ Cardinality(PickedNids') = Cardinality(PickedNids) + 1
  BY <1>1, <1>3, FS_AddElement DEF Tally
<1>5. /\ cs # {} /\ IsFiniteSet(cs) /\ NodeShare \cap cs = {}
      /\ NodeShare' = NodeShare \union cs /\ BlockShare' = BlockShare
  <2>1. cs # {} /\ IsFiniteSet(cs)
    BY <1>2, FiniteShares
  <2>2. NodeShare \cap cs = {}
    BY <1>3 DEF NodeShare, NodeCopies
  <2>3. NodeShare' = NodeShare \union cs
    BY <1>1, <1>3 DEF NodeShare, NodeCopies
  <2>4. BlockShare' = BlockShare
    BY <1>1, <1>3 DEF BlockShare
  <2> QED BY <2>1, <2>2, <2>3, <2>4
<1>6. /\ Cardinality(NodeShare') = Cardinality(NodeShare) + Cardinality(cs)
      /\ Cardinality(cs) \in Nat \ {0} /\ Cardinality(NodeShare) \in Nat
  BY <1>5, FiniteShares, OneMore
<1>7. Failing' = Failing
  BY <1>1 DEF Failing, BlockIntact, BlockCopies
<1> HIDE DEF cs
<1>8. /\ count' \in [damaged : Nat, superseded : Nat, unresolved : Nat]
      /\ count'.superseded = count.superseded + Cardinality(cs) - 1
      /\ count'.unresolved = count.unresolved
  <2>1. count \in [damaged : Nat, superseded : Nat, unresolved : Nat]
    BY DEF Tally
  <2>2. count.superseded + Cardinality(cs) - 1 \in Nat
    BY <1>6, <2>1
  <2> QED BY <1>1, <2>1, <2>2
<1>9. /\ Cardinality(BlockShare) \in Nat /\ Cardinality(live) \in Nat
      /\ Cardinality(picked) \in Nat /\ count.superseded \in Nat
  BY FiniteShares, FS_CardinalityType DEF Tally
<1>10. Cardinality(BlockShare') + Cardinality(NodeShare')
         = Cardinality(live') + Cardinality(picked') + count'.superseded
  BY <1>1, <1>4, <1>5, <1>6, <1>8, <1>9 DEF Tally
<1> QED BY <1>1, <1>3, <1>4, <1>7, <1>8, <1>10 DEF Tally

\* The tally, once all is settled, is that every copy is accounted for.
LEMMA AccountedHolds == StoreInv /\ SweepInv /\ Tally => Accounted
<1> SUFFICES ASSUME StoreInv, SweepInv, Tally, pc = "done" PROVE Accounted
  BY DEF Accounted
<1>1. LiveBids = SweptBids /\ PickedNids = SweptNids
  BY DEF SweepInv, LiveBids, PickedNids
<1>2. BlockShare \union NodeShare = copies /\ BlockShare \cap NodeShare = {}
  <2>1. \A c \in copies : c.kind \in {"nbt", "bbt"}
    BY CopyIs
  <2>2. ASSUME NEW c \in copies PROVE c \in BlockShare \/ c \in NodeShare
    BY <1>1, <2>1 DEF BlockShare, NodeShare, SweptBids, SweptNids
  <2> QED BY <2>2 DEF BlockShare, NodeShare
<1>3. Cardinality(copies) = Cardinality(BlockShare) + Cardinality(NodeShare)
  <2>1. IsFiniteSet(BlockShare) /\ IsFiniteSet(NodeShare)
    BY FiniteShares
  <2>2. Cardinality(copies) = Cardinality(BlockShare) + Cardinality(NodeShare)
                                - Cardinality(BlockShare \cap NodeShare)
    BY <1>2, <2>1, FS_Union
  <2>3. Cardinality(BlockShare \cap NodeShare) = 0
    BY <1>2, FS_EmptySet
  <2>4. Cardinality(BlockShare) \in Nat /\ Cardinality(NodeShare) \in Nat
    BY <2>1, FS_CardinalityType
  <2> QED BY <2>2, <2>3, <2>4
<1>4. /\ Cardinality(live) \in Nat /\ Cardinality(picked) \in Nat
      /\ count.superseded \in Nat
  BY FS_CardinalityType DEF Tally
<1>5. Cardinality(copies) = Cardinality(picked) + Cardinality(live) + count.superseded
  BY <1>3, <1>4 DEF Tally
<1>6. count.unresolved =
        Cardinality({b \in live : ~ BlockIntact(b) /\ Cardinality(BlockCopies(b.bid)) > 1})
  BY DEF Tally, Failing
<1> QED BY <1>5, <1>6 DEF Accounted

\* The invariants give the types.
LEMMA TypesHold == StoreInv /\ SweepInv /\ Tally => TypeOK
<1> SUFFICES ASSUME StoreInv, SweepInv, Tally PROVE TypeOK
  OBVIOUS
<1>1. at \in 1 .. PAGES + WINDOW
  BY StoreAssumption, ScanAssumption DEF SweepInv
<1>2. \A c \in copies : c.page \in 1 .. PAGES /\ c.kind \in {"nbt", "bbt"}
  BY CopyIs
<1>3. ASSUME NEW b \in live PROVE b.slot \in 1 .. SLOTS
  <2>1. PICK c \in BlockCopies(b.bid) : c.e = b
    BY DEF SweepInv, BlockChosen
  <2>2. c \in copies /\ c.kind = "bbt"
    BY DEF BlockCopies
  <2>3. b \in BlockEntries
    BY <2>1, <2>2, CopyIs
  <2> QED BY <2>3 DEF BlockEntries
<1> QED BY <1>1, <1>2, <1>3 DEF TypeOK, SweepInv, Tally, LiveBids, PickedNids

-----------------------------------------------------------------------------
ScanInv == StoreInv /\ SweepInv /\ Tally

\* Every step keeps the invariants.
LEMMA ScanStep == ScanInv /\ [Next]_vars => ScanInv'
<1> SUFFICES ASSUME StoreInv, SweepInv, Tally, [Next]_vars PROVE ScanInv'
  BY DEF ScanInv
<1>1. CASE Write
  <2>1. pc = "edit" /\ pc' = "edit" /\ Edit
        /\ UNCHANGED <<broken, at, copies, live, picked, stale, count>>
    BY <1>1 DEF Write, sweep
  <2>2. live = {}
    BY <2>1 DEF SweepInv
  <2> QED BY <2>1, <2>2, StoreEdit, BeforeSweep, TallyStands DEF ScanInv
<1>2. CASE Start
  <2>1. pc = "edit" /\ pc' = "sweep" /\ Rot
        /\ UNCHANGED <<broken, at, copies, live, picked, stale, count>>
    BY <1>2 DEF Start
  <2>2. live = {}
    BY <2>1 DEF SweepInv
  <2> QED BY <2>1, <2>2, StoreRot, BeforeSweep, TallyStands DEF ScanInv
<1>3. ASSUME UNCHANGED store PROVE StoreInv'
  BY <1>3 DEF store, StoreInv, LeavesHold, NodeLeavesHold, LiveNodes
<1>4. CASE ReadFails \/ EndOfFile \/ BlocksSettled \/ Finish
  <2>1. UNCHANGED store /\ UNCHANGED <<disk, copies, live, picked, count>>
    BY <1>4 DEF ReadFails, EndOfFile, BlocksSettled, Finish, store
  <2> QED BY <1>3, <1>4, <2>1, StepPhase, TallyStands DEF ScanInv
<1>5. CASE ReadWindow
  <2>1. UNCHANGED store
    BY <1>5 DEF ReadWindow
  <2> QED BY <1>3, <1>5, <2>1, StepReadWindow, TallyReadWindow DEF ScanInv
<1>6. ASSUME NEW bid \in SweptBids, SettleBlock(bid) PROVE ScanInv'
  <2>1. UNCHANGED store
    BY <1>6 DEF SettleBlock
  <2> QED BY <1>3, <1>6, <2>1, StepSettleBlock, TallySettleBlock DEF ScanInv
<1>7. ASSUME NEW nid \in SweptNids, SettleNode(nid) PROVE ScanInv'
  <2>1. UNCHANGED store
    BY <1>7 DEF SettleNode
  <2> QED BY <1>3, <1>7, <2>1, StepSettleNode, TallySettleNode DEF ScanInv
<1>8. CASE UNCHANGED vars
  <2>1. /\ UNCHANGED store
        /\ UNCHANGED <<pages, disk, pc, broken, at, copies, live, picked, count>>
    BY <1>8 DEF vars, store, sweep
  <2>2. copies' = UNION {Entries(p)' : p \in {p \in 1 .. PAGES : p < at'}}
    BY <2>1, ReadingStands
  <2>3. SweepInv'
    BY <2>1, <2>2, ChoicesStand DEF SweepInv
  <2> QED BY <1>3, <2>1, <2>3, TallyStands DEF ScanInv
<1> QED BY <1>1, <1>2, <1>4, <1>5, <1>6, <1>7, <1>8 DEF Next, Sweep

(* Whatever history the store has, and wherever the sweep stands: no leaf in
   the file holds anything later than the live one, what is settled is settled
   by the bytes or by the order of the ids, and the counters tally. *)
THEOREM ScanInvariant == Spec => []ScanInv
<1>1. Init => ScanInv
  BY SweepStart, TallyStart DEF ScanInv
<1> QED BY <1>1, ScanStep, PTL DEF Spec

(* Every variable has its type, and both recovered indexes name an id once
   (TypeOK). *)
THEOREM ScanTypes == Spec => []TypeOK
<1>1. ScanInv => TypeOK
  BY TypesHold DEF ScanInv
<1> QED BY <1>1, ScanInvariant, PTL

(* Pst::scan: the index the sweep comes up with agrees with the live one on
   every node whose entry survived and whose data is named (SweepAgrees). *)
THEOREM ScanAgrees == Spec => []SweepAgrees
<1>1. ScanInv => SweepAgrees
  BY AgreesHolds DEF ScanInv
<1> QED BY <1>1, ScanInvariant, PTL

(* Pst::scan, the choice between copies of a block: a live block that is whole
   is found, in one place or another (LiveBlocksResolve). *)
THEOREM ScanResolves == Spec => []LiveBlocksResolve
<1>1. ScanInv => LiveBlocksResolve
  BY ResolveHolds DEF ScanInv
<1> QED BY <1>1, ScanInvariant, PTL

(* Pst::scan, the windows: an id named on an intact leaf is in the result, and
   no other is (NothingSweptIsLost). *)
THEOREM ScanLosesNothing == Spec => []NothingSweptIsLost
<1>1. ScanInv => NothingSweptIsLost
  BY NothingLostHolds DEF ScanInv
<1> QED BY <1>1, ScanInvariant, PTL

(* Pst::scan, the order of the copies of a node: a revision whose data block is
   listed is not given up for one whose block is not (ListedWins). *)
THEOREM ScanListedWins == Spec => []ListedWins
<1>1. ScanInv => ListedWins
  BY ListedHolds DEF ScanInv
<1> QED BY <1>1, ScanInvariant, PTL

(* ScanReport: a copy is either in the result or counted as superseded, and
   "unresolved" counts the blocks chosen in vain (Accounted). *)
THEOREM ScanAccounts == Spec => []Accounted
<1>1. ScanInv => Accounted
  BY AccountedHolds DEF ScanInv
<1> QED BY <1>1, ScanInvariant, PTL

-----------------------------------------------------------------------------
(* Carving.                                                                 *)


\* What the assumptions on the constants of a sweep come to.
LEMMA CarveConstants ==
  /\ ALIGN \in Nat \ {0} /\ BACK \in Nat /\ 1 <= BACK /\ BACK <= ALIGN
  /\ SWEEP_WINDOW \in Nat \ {0} /\ LONGEST \in Nat \ {0}
  /\ Carry \in Nat /\ ALIGN <= Carry
<1>1. ALIGN \in Nat \ {0} /\ BACK \in Nat /\ 1 <= BACK /\ BACK <= ALIGN
      /\ SWEEP_WINDOW \in Nat \ {0} /\ LONGEST \in Nat \ {0}
  BY CarveAssumption
<1>2. 1 * ALIGN <= LONGEST * ALIGN /\ LONGEST * ALIGN \in Nat
  BY <1>1, MulMono
<1>3. LONGEST * ALIGN = ALIGN * LONGEST /\ 1 * ALIGN = ALIGN
  BY <1>1
<1> QED BY <1>1, <1>2, <1>3 DEF Carry

\* A block that may be one takes up at most what a window carries over.
LEMMA TotalFits ==
  ASSUME NEW f \in FILES, NEW e \in Nat, Plausible(f, e)
  PROVE  LET t == Total(f.trailers[e].cb) IN t \in Nat /\ t <= Carry /\ t <= e
<1> DEFINE cb == f.trailers[e].cb
<1>1. cb \in Nat /\ cb <= Carry - BACK
  BY CarveAssumption DEF Plausible, MaxCb
<1>2. cb + BACK \in Nat /\ cb + BACK <= Carry
  BY <1>1, CarveConstants
<1>3. Carry % ALIGN = 0
  <2>1. (LONGEST * ALIGN) % ALIGN = 0
    BY CarveConstants, MultipleOf
  <2>2. LONGEST * ALIGN = ALIGN * LONGEST
    BY CarveConstants
  <2> QED BY <2>1, <2>2 DEF Carry
<1> HIDE DEF cb
<1>4. AlignUp(cb + BACK, ALIGN) \in Nat /\ AlignUp(cb + BACK, ALIGN) <= Carry
  BY <1>2, <1>3, CarveConstants, AlignUpIsLeast
<1> QED BY <1>4 DEF Total, Plausible, cb

\* A boundary is a product.
LEMMA BoundaryIs ==
  ASSUME NEW e, Boundary(e)
  PROVE  e \div ALIGN \in Nat /\ e = (e \div ALIGN) * ALIGN
<1>1. e \in Nat /\ ALIGN \in Nat \ {0} /\ e % ALIGN = 0
  BY CarveConstants DEF Boundary
<1> DEFINE m == e \div ALIGN
<1>2. m \in Nat /\ e = m * ALIGN + (e % ALIGN)
  BY <1>1, DivMod
<1> HIDE DEF m
<1>3. m * ALIGN \in Nat
  BY <1>1, <1>2, MulMono
<1>4. e = m * ALIGN
  BY <1>1, <1>2, <1>3
<1> QED BY <1>2, <1>4 DEF m

\* Between two neighbouring boundaries there is none.
LEMMA NextBoundary ==
  ASSUME NEW e, NEW d, Boundary(e), Boundary(d), d < e
  PROVE  d <= e - ALIGN
<1>1. e \in Nat /\ d \in Nat /\ ALIGN \in Nat \ {0}
  BY CarveConstants DEF Boundary
<1> DEFINE m == e \div ALIGN
           n == d \div ALIGN
<1>2. m \in Nat /\ n \in Nat /\ e = m * ALIGN /\ d = n * ALIGN
  BY BoundaryIs
<1> HIDE DEF m, n
<1>3. n < m
  <2>1. ASSUME m <= n PROVE FALSE
    <3>1. m * ALIGN <= n * ALIGN
      BY <1>1, <1>2, <2>1, MulMono
    <3> QED BY <1>1, <1>2, <3>1
  <2> QED BY <1>2, <2>1
<1>4. (n + 1) * ALIGN <= m * ALIGN
  BY <1>1, <1>2, <1>3, MulMono
<1>5. (n + 1) * ALIGN = n * ALIGN + ALIGN
  BY <1>1, <1>2
<1> QED BY <1>1, <1>2, <1>4, <1>5

\* One alignment after a boundary is the next one.
LEMMA BoundaryStep ==
  ASSUME NEW e, Boundary(e)
  PROVE  Boundary(e + ALIGN) /\ e + ALIGN - ALIGN = e
<1>1. e \in Nat \ {0} /\ ALIGN \in Nat \ {0} /\ e % ALIGN = 0
  BY CarveConstants DEF Boundary
<1> DEFINE m == e \div ALIGN
<1>2. m \in Nat /\ e = m * ALIGN
  BY BoundaryIs
<1> HIDE DEF m
<1>3. (m + 1) * ALIGN = m * ALIGN + ALIGN
  BY <1>1, <1>2
<1>4. ((m + 1) * ALIGN) % ALIGN = 0
  <2>1. m + 1 \in Nat
    BY <1>2
  <2> QED BY <1>1, <2>1, MultipleOf
<1>5. (e + ALIGN) % ALIGN = 0
  BY <1>2, <1>3, <1>4
<1>6. e + ALIGN \in Nat \ {0} /\ e + ALIGN - ALIGN = e
  BY <1>1
<1> QED BY <1>5, <1>6 DEF Boundary

\* Accepting one more boundary changes the reference the way Insert does.
LEMMA LatestInsert ==
  ASSUME NEW f \in FILES, NEW e, Boundary(e), Accepted(f, e)
  PROVE  LatestUpTo(f, e) =
           {x \in LatestUpTo(f, e - ALIGN) : Bare(x.bid) # Bare(BlockAt(f, e).bid)}
             \union {BlockAt(f, e)}
<1> DEFINE D == DOMAIN f.trailers
           Win(l) == {d \in D : /\ Boundary(d) /\ d <= l /\ Accepted(f, d)
                                /\ \A c \in D : Boundary(c) /\ c <= l /\ Accepted(f, c)
                                     /\ d < c
                                     => Bare(f.trailers[c].bid) # Bare(f.trailers[d].bid)}
<1>1. \A l : LatestUpTo(f, l) = {BlockAt(f, d) : d \in Win(l)}
  BY DEF LatestUpTo
<1>2. e \in D /\ e \in Nat /\ ALIGN \in Nat \ {0}
  BY CarveConstants DEF Boundary, Accepted, Plausible
<1>3. \A d \in D : Boundary(d) => (d <= e <=> d <= e - ALIGN \/ d = e)
  <2> SUFFICES ASSUME NEW d \in D, Boundary(d)
               PROVE  d <= e <=> d <= e - ALIGN \/ d = e
    OBVIOUS
  <2>1. d \in Nat
    BY DEF Boundary
  <2>2. d < e => d <= e - ALIGN
    BY NextBoundary
  <2> QED BY <1>2, <2>1, <2>2
<1>4. \A d : BlockAt(f, d).bid = f.trailers[d].bid
  BY DEF BlockAt
<1>5. Win(e) = {d \in Win(e - ALIGN) : Bare(f.trailers[d].bid) # Bare(f.trailers[e].bid)}
                 \union {e}
  <2>1. ASSUME NEW d \in Win(e), d # e
        PROVE  d \in Win(e - ALIGN) /\ Bare(f.trailers[d].bid) # Bare(f.trailers[e].bid)
    <3>1. d \in D /\ Boundary(d) /\ d <= e /\ d \in Nat
      BY DEF Boundary
    <3>2. d <= e - ALIGN /\ d < e
      BY <1>2, <1>3, <2>1, <3>1
    <3>3. Bare(f.trailers[d].bid) # Bare(f.trailers[e].bid)
      <4>1. e <= e
        BY <1>2
      <4> QED BY <1>2, <3>2, <4>1
    <3>4. \A c \in D : Boundary(c) /\ c <= e - ALIGN => c <= e
      BY <1>3
    <3> QED BY <3>1, <3>2, <3>3, <3>4
  <2>2. ASSUME NEW d \in Win(e - ALIGN),
               Bare(f.trailers[d].bid) # Bare(f.trailers[e].bid)
        PROVE  d \in Win(e)
    <3>1. d \in D /\ Boundary(d) /\ d <= e - ALIGN /\ Accepted(f, d) /\ d <= e
      BY <1>3
    <3>2. ASSUME NEW c \in D, Boundary(c), c <= e, Accepted(f, c), d < c
          PROVE  Bare(f.trailers[c].bid) # Bare(f.trailers[d].bid)
      <4>1. CASE c = e
        BY <2>2, <4>1
      <4>2. CASE c <= e - ALIGN
        BY <3>2, <4>2
      <4> QED BY <1>3, <3>2, <4>1, <4>2
    <3> QED BY <3>1, <3>2
  <2>3. e \in Win(e)
    <3>1. ASSUME NEW c \in D, Boundary(c), c <= e, e < c PROVE FALSE
      <4>1. c \in Nat
        BY <3>1 DEF Boundary
      <4> QED BY <1>2, <3>1, <4>1
    <3>2. e <= e
      BY <1>2
    <3> QED BY <1>2, <3>1, <3>2
  <2> HIDE DEF Win
  <2> QED BY <2>1, <2>2, <2>3
<1> HIDE DEF Win, D
<1> QED BY <1>1, <1>4, <1>5

\* A boundary that is not accepted changes nothing.
LEMMA LatestSame ==
  ASSUME NEW f \in FILES, NEW e, Boundary(e), ~ Accepted(f, e)
  PROVE  LatestUpTo(f, e) = LatestUpTo(f, e - ALIGN)
<1> DEFINE D == DOMAIN f.trailers
           Up(l) == {d \in D : Boundary(d) /\ d <= l /\ Accepted(f, d)}
<1>1. \A l : LatestUpTo(f, l) =
        {BlockAt(f, d) : d \in {d \in D :
           d \in Up(l) /\ \A c \in D : c \in Up(l) /\ d < c
                            => Bare(f.trailers[c].bid) # Bare(f.trailers[d].bid)}}
  BY DEF LatestUpTo
<1>2. Up(e) = Up(e - ALIGN)
  <2>1. e \in Nat /\ ALIGN \in Nat \ {0}
    BY CarveConstants DEF Boundary
  <2>2. ASSUME NEW d \in D, Boundary(d), Accepted(f, d)
        PROVE  d <= e <=> d <= e - ALIGN
    <3>1. d \in Nat
      BY <2>2 DEF Boundary
    <3>2. d # e
      BY <2>2
    <3>3. d < e => d <= e - ALIGN
      BY <2>2, NextBoundary
    <3> QED BY <2>1, <3>1, <3>2, <3>3
  <2> QED BY <2>2
<1> HIDE DEF Up, D
<1> QED BY <1>1, <1>2

-----------------------------------------------------------------------------
\* Nothing has been read before the first window.
LEMMA CarveStart == CarveInit => CarveInv
<1> SUFFICES ASSUME CarveInit PROVE CarveInv
  OBVIOUS
<1>1. Boundary(ALIGN) /\ ALIGN - ALIGN = 0
  <2>1. 1 * ALIGN = ALIGN /\ ALIGN \in Nat \ {0} /\ ALIGN - ALIGN = 0
    BY CarveConstants
  <2>2. (1 * ALIGN) % ALIGN = 0
    BY <2>1, MultipleOf
  <2> QED BY <2>1, <2>2 DEF Boundary
<1>2. CarveTypeOK
  <2>1. file.len \in Nat
    BY CarveAssumption DEF CarveInit
  <2> QED BY <1>1, <2>1 DEF CarveInit, CarveTypeOK
<1>3. ReachesBack /\ StaysInside /\ FindsAll
  BY CarveConstants, CarveAssumption DEF CarveInit, ReachesBack, StaysInside, FindsAll
<1>4. InsideWindow
  <2>1. ~ (end <= base + have)
    BY CarveConstants DEF CarveInit
  <2> QED BY <2>1 DEF InsideWindow
<1>5. SameAsUnwindowed
  <2>1. \A e : ~ (Boundary(e) /\ e <= 0)
    BY DEF Boundary
  <2>2. LatestUpTo(file, 0) = {}
    BY <2>1 DEF LatestUpTo
  <2> QED BY <1>1, <2>2 DEF CarveInit, SameAsUnwindowed
<1> QED BY <1>2, <1>3, <1>4, <1>5 DEF CarveInv

\* A window that reaches back far enough holds the trailer and the block.
LEMMA WindowServes ==
  ASSUME NEW f \in FILES, NEW e, NEW b \in Nat, Boundary(e),
         b = 0 \/ b + Carry <= e
  PROVE  b <= e - BACK /\ (Plausible(f, e) => b <= e - Total(f.trailers[e].cb))
<1>1. e \in Nat /\ e > 0
  BY DEF Boundary
<1>2. ALIGN <= e
  <2> DEFINE m == e \div ALIGN
  <2>1. m \in Nat /\ e = m * ALIGN
    BY BoundaryIs
  <2> HIDE DEF m
  <2>2. m # 0
    BY <1>1, <2>1, CarveConstants
  <2>3. 1 * ALIGN <= m * ALIGN
    BY <2>1, <2>2, CarveConstants, MulMono
  <2> QED BY <2>1, <2>3, CarveConstants
<1>3. b <= e - BACK
  BY <1>1, <1>2, CarveConstants
<1>4. ASSUME Plausible(f, e) PROVE b <= e - Total(f.trailers[e].cb)
  <2> DEFINE t == Total(f.trailers[e].cb)
  <2>1. t \in Nat /\ t <= Carry /\ t <= e
    BY <1>1, <1>4, TotalFits
  <2> HIDE DEF t
  <2>2. b <= e - t
    BY <1>1, <2>1, CarveConstants
  <2> QED BY <2>2 DEF t
<1> QED BY <1>3, <1>4

\* The next window takes over what was carried, and is broken or goes on.
LEMMA CarveLoads ==
  ASSUME CarveInv, Load
  PROVE  CarveInv'
<1> USE DEF CarveInv
<1>1. end \in Nat /\ file \in FILES /\ file.len \in Nat /\ end <= file.len
      /\ Carry \in Nat /\ Carry + SWEEP_WINDOW \in Nat
  BY CarveConstants, CarveAssumption DEF CarveTypeOK, Boundary, Load
<1>2. base' \in Nat /\ base' <= end /\ (base' = 0 \/ base' + Carry <= end)
  BY <1>1 DEF Load, Reach
<1>3. have' \in Nat /\ base' + have' <= file.len
  BY <1>1, <1>2 DEF Load, AtMost
<1>4. CarveTypeOK'
  BY <1>2, <1>3 DEF CarveTypeOK, Load
<1>5. ReachesBack' /\ StaysInside'
  BY <1>2 DEF ReachesBack, StaysInside, Load
<1>6. InsideWindow'
  BY <1>4, <1>5, WindowServes DEF InsideWindow, CarveTypeOK, ReachesBack
<1>7. SameAsUnwindowed' /\ FindsAll'
  BY DEF Load, SameAsUnwindowed, FindsAll
<1> QED BY <1>4, <1>5, <1>6, <1>7

\* One position is tested, and the next one is an alignment further on.
LEMMA CarveTests ==
  ASSUME CarveInv, Test
  PROVE  CarveInv'
<1> USE DEF CarveInv
<1>1. end \in Nat /\ file \in FILES /\ Boundary(end)
  BY DEF CarveTypeOK, Boundary
<1>2. Boundary(end + ALIGN) /\ end + ALIGN - ALIGN = end
  BY <1>1, BoundaryStep
<1>3. CarveTypeOK'
  BY <1>2 DEF CarveTypeOK, Test
<1>4. ReachesBack' /\ StaysInside'
  <2>1. base \in Nat /\ file.len \in Nat /\ end <= file.len
    BY <1>1, CarveAssumption DEF CarveTypeOK, Test
  <2> QED BY <1>1, <2>1, CarveConstants DEF ReachesBack, StaysInside, Test
<1>5. InsideWindow'
  BY <1>3, <1>4, WindowServes DEF InsideWindow, CarveTypeOK, ReachesBack
<1>6. SameAsUnwindowed'
  <2>1. found' = LatestUpTo(file, end)
    <3>1. CASE Accepted(file, end)
      <4>1. found' = Insert(BlockAt(file, end))
        BY <3>1 DEF Test
      <4> QED BY <1>1, <3>1, <4>1, LatestInsert DEF Insert, SameAsUnwindowed
    <3>2. CASE ~ Accepted(file, end)
      <4>1. found' = found
        BY <3>2 DEF Test
      <4> QED BY <1>1, <3>2, <4>1, LatestSame DEF SameAsUnwindowed
    <3> QED BY <3>1, <3>2
  <2>2. file' = file /\ end' = end + ALIGN
    BY Zenon DEF Test
  <2>3. end' - ALIGN = end
    BY <1>1, <2>2, CarveConstants
  <2> HIDE DEF CarveInv
  <2> QED BY <2>1, <2>2, <2>3 DEF SameAsUnwindowed
<1>7. FindsAll'
  BY DEF Test, FindsAll
<1> QED BY <1>3, <1>4, <1>5, <1>6, <1>7

\* A position past the end of the file ends the sweep.
LEMMA CarveStops ==
  ASSUME CarveInv, Stop
  PROVE  CarveInv'
<1> USE DEF CarveInv
<1>1. end \in Nat /\ file \in FILES /\ Boundary(end) /\ file.len \in Nat
      /\ file.len < end
  BY CarveAssumption DEF CarveTypeOK, Boundary, Stop
<1>2. CarveTypeOK' /\ ReachesBack' /\ StaysInside' /\ InsideWindow' /\ SameAsUnwindowed'
  BY DEF CarveTypeOK, ReachesBack, StaysInside, InsideWindow, SameAsUnwindowed, Stop
<1>3. LatestUpTo(file, end - ALIGN) = LatestUpTo(file, file.len)
  <2>1. \A d : Boundary(d) => (d <= end - ALIGN <=> d <= file.len)
    <3> SUFFICES ASSUME NEW d, Boundary(d)
                 PROVE  d <= end - ALIGN <=> d <= file.len
      OBVIOUS
    <3>1. d \in Nat
      BY DEF Boundary
    <3>2. d < end => d <= end - ALIGN
      BY <1>1, NextBoundary
    <3>3. d <= file.len => d <= end - ALIGN
      BY <1>1, <3>1, <3>2
    <3>4. d <= end - ALIGN => d <= file.len
      BY <1>1, <3>1, CarveConstants DEF StaysInside
    <3> QED BY <3>3, <3>4
  <2> QED BY <2>1 DEF LatestUpTo
<1>4. FindsAll'
  BY <1>3 DEF FindsAll, SameAsUnwindowed, Stop
<1> QED BY <1>2, <1>4

\* A step that changes nothing keeps the invariant.
LEMMA CarveStutters ==
  ASSUME CarveInv, UNCHANGED carving
  PROVE  CarveInv'
BY DEF CarveInv, carving, CarveTypeOK, ReachesBack, StaysInside, InsideWindow,
       SameAsUnwindowed, FindsAll

\* The window serves every boundary it is used for, and what has been found is
\* what carving the file in one piece would have found so far: pst.carve().
THEOREM CarveInvariant == CarveSpec => []CarveInv
<1>1. CarveInv /\ [CarveNext]_carving => CarveInv'
  BY CarveLoads, CarveTests, CarveStops, CarveStutters DEF CarveNext
<1> QED BY CarveStart, <1>1, PTL DEF CarveSpec

\* Boundaries stay boundaries, the window stays inside the file.
THEOREM CarveType == CarveSpec => []CarveTypeOK
<1>1. CarveInv => CarveTypeOK
  BY DEF CarveInv
<1> QED BY <1>1, CarveInvariant, PTL

\* No slice index of the loop wraps or runs over.
THEOREM CarveInsideWindow == CarveSpec => []InsideWindow
<1>1. CarveInv => InsideWindow
  BY DEF CarveInv
<1> QED BY <1>1, CarveInvariant, PTL

\* Reading in windows loses and invents nothing, at any moment.
THEOREM CarveSameAsUnwindowed == CarveSpec => []SameAsUnwindowed
<1>1. CarveInv => SameAsUnwindowed
  BY DEF CarveInv
<1> QED BY <1>1, CarveInvariant, PTL

\* A sweep that ends in order has found all there is.
THEOREM CarveFindsAll == CarveSpec => []FindsAll
<1>1. CarveInv => FindsAll
  BY DEF CarveInv
<1> QED BY <1>1, CarveInvariant, PTL

=============================================================================
