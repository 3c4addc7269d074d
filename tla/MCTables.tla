------------------------------- MODULE MCTables --------------------------------
(***************************************************************************)
(* Contexts of up to four properties in every order, below a B-tree of one *)
(* to three levels that is spread over two blocks, one value in a subnode  *)
(* of one or two blocks.  Tables of up to three rows, in the heap or in a  *)
(* subnode's blocks that have room for one or two rows and a rest; a cell  *)
(* that points into the heap or to a subnode.  Each of them is damaged in   *)
(* one place, or whole.                                                    *)
(***************************************************************************)
EXTENDS Tables

Nowhere == [to |-> "none", blk |-> 0, idx |-> 0, nid |-> 0]
InHeap(blk, idx) == [Nowhere EXCEPT !.to = "heap", !.blk = blk, !.idx = idx]
InSub(nid) == [Nowhere EXCEPT !.to = "sub", !.nid = nid]

Unit(val, ref, bits) == [val |-> val, ref |-> ref, bits |-> bits]
Val(val) == Unit(val, Nowhere, {})

ABlock == [t |-> "data", level |-> 0, fits |-> TRUE, ids |-> <<>>, ents |-> <<>>,
           items |-> <<>>, heap |-> NOHEAP, cells |-> <<>>]
DataBlock(cells) == [ABlock EXCEPT !.cells = cells]
IdBlock(level, ids) == [ABlock EXCEPT !.t = "ids", !.level = level, !.ids = ids]
SubLeaf(ents) == [ABlock EXCEPT !.t = "subs", !.ents = ents]
SubNodeBlock(ids) == [ABlock EXCEPT !.t = "subs", !.level = 1, !.ids = ids]
HeapFirst(client, items) == [ABlock EXCEPT !.heap = [client |-> client, root |-> InHeap(1, 1)],
                                           !.items = items]
HeapLater(items) == [ABlock EXCEPT !.items = items]
Sub(nid, data) == [nid |-> nid, data |-> data, sub |-> NONE]

AnItem == [t |-> "other", levels |-> 0, recs |-> <<>>, kids |-> <<>>, head |-> Nowhere,
           bytes |-> <<>>]
Header(levels, head) == [AnItem EXCEPT !.t = "bth", !.levels = levels, !.head = head]
LeafItem(rs) == [AnItem EXCEPT !.recs = rs]
BranchItem(kids) == [AnItem EXCEPT !.kids = kids]
BytesItem(units) == [AnItem EXCEPT !.bytes = units]

-----------------------------------------------------------------------------
Record(id, type, ref, val) == [id |-> id, type |-> type, ref |-> ref, val |-> val]

\* The narrow text 1, the wide value 2, the code page, the number 4.
Records(cp) ==
  {Record(1, "narrow", InHeap(2, 2), 0), Record(2, "wide", InSub(6), 0),
   Record(4, "fixed", Nowhere, 8)}
  \union (IF cp THEN {Record(CODEPAGE, "fixed", Nowhere, 1251)} ELSE {})

Properties(cp) ==
  (1 :> [Value("text", <<7>>) EXCEPT !.cp = IF cp THEN 1251 ELSE WINDOWS_1252])
  @@ (2 :> Value("bytes", <<21, 22>>)) @@ (4 :> Fixed(8))
  @@ (IF cp THEN CODEPAGE :> Fixed(1251) ELSE <<>>)

\* The B-tree's header, an item for each level, two leaves below.
ContextFile(levels, rs, wide) ==
  [h1 |-> HeapFirst("pc", <<Header(levels, InHeap(1, 4 - levels)),
                            BranchItem(<<InHeap(1, 3), Nowhere>>),
                            BranchItem(<<InHeap(1, 5), InHeap(2, 1)>>),
                            LeafItem(rs), LeafItem(SubSeq(rs, 1, 2))>>),
   h2 |-> HeapLater(<<LeafItem(SubSeq(rs, 3, Len(rs))), BytesItem(<<Val(7)>>)>>),
   x |-> IdBlock(1, <<"h1", "h2">>),
   xx |-> IdBlock(2, <<"x", NONE>>),
   loop |-> IdBlock(2, <<"x", "loop">>),
   v |-> DataBlock(<<Val(21), Val(22)>>),
   v1 |-> DataBlock(<<Val(21)>>), v2 |-> DataBlock(<<Val(22)>>),
   vx |-> IdBlock(1, <<"v1", "v2">>),
   s |-> SubLeaf(<<Sub(6, wide), Sub(7, "v1")>>), s2 |-> SubLeaf(<<Sub(8, "v2")>>),
   si |-> SubNodeBlock(<<"s", "s2", "s">>)]

Orders(cp) == SetToSeqs(Records(cp))

ContextNodes ==
  UNION {{[file |-> ContextFile(levels, rs, "vx"), as |-> "context", data |-> d.data, sub |-> d.sub,
           laid |-> Properties(cp), hurt |-> {2}] :
            levels \in 0 .. 2, rs \in Orders(cp),
            d \in {[data |-> "x", sub |-> "si"], [data |-> "xx", sub |-> "s"],
                   [data |-> "loop", sub |-> "s"]}} : cp \in BOOLEAN}

-----------------------------------------------------------------------------
\* Rows of a number, a text that is elsewhere, and the bitmap; a last column
\* that does not lie in the row.
Columns(short) ==
  <<[prop |-> 10, type |-> "fixed", ib |-> 2, short |-> TRUE, bit |-> 0],
    [prop |-> 11, type |-> "narrow", ib |-> 3, short |-> short, bit |-> 1],
    [prop |-> 12, type |-> "wide", ib |-> 5, short |-> FALSE, bit |-> 0]>>

RefOf(k, inHeap) == IF inHeap THEN InHeap(2, k + 1) ELSE InSub(10 + k)
RowUnits(k, set, inHeap) ==
  <<Val(k), Val(100 + k), Unit(0, RefOf(k, inHeap), {}), Unit(0, Nowhere, set)>>
RowLaid(k, set) ==
  [id |-> k, props |-> (IF 0 \in set THEN 10 :> Fixed(100 + k) ELSE <<>>)
                       @@ (IF 1 \in set THEN 11 :> Value("text", <<200 + k>>) ELSE <<>>)]

Sets == UNION {[1 .. n -> {{}, {0, 1}, {1}}] : n \in 0 .. 3}
Laid(sets, inHeap) == [k \in DOMAIN sets |-> RowUnits(k, sets[k], inHeap)]

\* Block k of the rows, perBlock to a block and one unit left over.
RowBlock(rows, perBlock, k) ==
  LET those == SelectSeq([i \in DOMAIN rows |-> <<i, rows[i]>>],
                         LAMBDA r : (r[1] - 1) \div perBlock = k - 1)
  IN  DataBlock(FlattenSeq([i \in DOMAIN those |-> those[i][2]]) \o <<Val(0)>>)

\* The text of row k is where its cell points, another one where it does not.
Text(k, here) == <<Val(IF here THEN 200 + k ELSE 300 + k)>>

TableFile(sets, inHeap, head, perBlock, short) ==
  LET rows == Laid(sets, inHeap)
      V(k) == DataBlock(Text(k, ~ inHeap))
  IN
  [h1 |-> HeapFirst("tc", <<[AnItem EXCEPT !.t = "info", !.levels = 4, !.recs = Columns(short),
                                           !.head = head]>>),
   h2 |-> HeapLater(<<BytesItem(FlattenSeq(rows))>>
                    \o [k \in 1 .. 3 |-> BytesItem(Text(k, inHeap))]),
   x |-> IdBlock(1, <<"h1", "h2">>),
   r1 |-> RowBlock(rows, perBlock, 1), r2 |-> RowBlock(rows, perBlock, 2),
   r3 |-> RowBlock(rows, perBlock, 3),
   rx |-> IdBlock(1, <<"r1", "r2", "r3">>),
   v1 |-> V(1), v2 |-> V(2), v3 |-> V(3),
   s |-> SubLeaf(<<Sub(2, "rx"), Sub(11, "v1"), Sub(12, "v2"), Sub(13, "v3")>>),
   o |-> SubLeaf(<<[nid |-> 50, data |-> "v1", sub |-> NONE], [nid |-> 40, data |-> "x", sub |-> "s"]>>)]

TableNodes ==
  UNION {{[file |-> TableFile(sets, inHeap, head, perBlock, FALSE), as |-> d.as, data |-> d.data,
           sub |-> d.sub, laid |-> [k \in DOMAIN sets |-> RowLaid(k, sets[k])], hurt |-> {11}] :
            inHeap \in BOOLEAN, head \in {InHeap(2, 1), InSub(2)}, perBlock \in 1 .. 2,
            d \in {[as |-> "table", data |-> "x", sub |-> "s"],
                   [as |-> "recipients", data |-> NONE, sub |-> "o"]}} : sets \in Sets}

ShortCells ==
  {[file |-> TableFile(<<set>>, TRUE, InHeap(2, 1), 1, TRUE), as |-> "table", data |-> "x",
    sub |-> "s", laid |-> <<RowLaid(1, set)>>, hurt |-> {}] : set \in {{}, {0, 1}}}

MCNodes == ContextNodes \union TableNodes \union ShortCells
MCRecipients == {40}
=============================================================================
