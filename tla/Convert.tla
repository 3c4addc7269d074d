------------------------------- MODULE Convert -------------------------------
(***************************************************************************)
(* convert::convert and its writer Out: an OST or an ANSI PST rebuilt as a *)
(* Unicode PST, node by node.  What a node's data stream and subnode tree  *)
(* hold is laid out again as blocks, XBLOCKs and SLBLOCKs under new ids;   *)
(* then come the two trees and, over the zeroes at the front, the header.  *)
(*                                                                         *)
(* A source is [nodes, streams, trees, bad, ansi, store].  streams maps a  *)
(* block id to what node_blocks returns for it, a sequence of blocks, each *)
(* a sequence of bytes; a heap's first block starts with HEAP_SIG.  trees  *)
(* maps an id to what subnodes returns: local ids to [data, sub].  Under   *)
(* the ids in bad nothing can be read.  store tells whether a PST's store  *)
(* can be made of the message store.                                       *)
(*                                                                         *)
(* What a node needs is first planned as a sequence of blocks that refer   *)
(* to each other by their place in it, and then written one by one, each   *)
(* under the next id.  0 refers to nothing.                                *)
(***************************************************************************)
EXTENDS BTree, Lists

CONSTANTS
  SOURCES,     \* files that may be converted
  STORE,       \* id of the message store's node
  ESSENTIAL,   \* the nodes without which no reader opens a store
  HEAP_SIG,    \* the byte that marks the head of a heap
  MAX_DATA,    \* the most a block can hold
  FAN,         \* entries of an XBLOCK and an SLBLOCK: [x, s]
  TOP_FAN,     \* entries of an XXBLOCK and an SIBLOCK
  MAX_NEST,    \* how deep subnode trees may nest
  CHUNK,       \* zeroes that pad writes at a time
  RECOVERS     \* whether a write may succeed after one that failed

ASSUME ConvertAssumption ==
  /\ MAX_DATA \in Nat \ {0} /\ MAX_NEST \in Nat /\ CHUNK \in Nat \ {0}
  /\ FAN \in [{"x", "s"} -> Nat \ {0}] /\ TOP_FAN \in [{"x", "s"} -> Nat \ {0}]
  /\ \A most \in {MAX_DATA, FAN["x"], FAN["s"], TOP_FAN["x"], TOP_FAN["s"]} :
       \A n \in 0 .. most : BlockSpan(n) <= AMAP_EVERY - MAP_SLOTS * PAGE
  /\ HEAP_SIG \in Nat /\ ESSENTIAL \subseteq Nat
  /\ RECOVERS \in BOOLEAN /\ AMAP_FIRST # 0

\* What a node or a subnode names is 0 or an id, if one that cannot be read.
ASSUME SourcesAssumption ==
  \A s \in SOURCES :
    LET data == {0} \union DOMAIN s.streams
        subs == {0} \union DOMAIN s.trees
    IN  /\ data \union subs \subseteq Nat
        /\ 0 \notin (DOMAIN s.streams) \union (DOMAIN s.trees) \union s.bad
        /\ s.nodes \in Seq([nid : Nat, data : data, sub : subs, parent : Nat])
        /\ \A x \in DOMAIN s.streams : s.streams[x] \in Seq(Seq(Nat))
        /\ \A t \in DOMAIN s.trees :
             /\ IsFiniteSet(DOMAIN s.trees[t]) /\ DOMAIN s.trees[t] \subseteq Nat
             /\ \A nid \in DOMAIN s.trees[t] : s.trees[t][nid] \in [data : data, sub : subs]
        /\ s.ansi \in BOOLEAN /\ s.store \in BOOLEAN

VARIABLES
  pc,       \* "create", "nodes", "pages", "header", "done", "failed", "panicked"
  src,      \* the file converted
  i,        \* nodes (then pages) dealt with
  job,      \* the plan of the node in hand, or NoJob
  base,     \* the id counter when it was begun
  out,      \* what was handed to the writer, each piece where it really starts
  end,      \* where the next byte handed over really goes
  pos,      \* where Out takes that to be
  next,     \* the id counter
  broken,   \* a write has failed
  nbt,      \* entries of the node tree, in the order the nodes were kept
  bbt,      \* entries of the block tree, in the order the blocks were written
  named,    \* nodes left out, by name
  divided,  \* streams reported for a heap that was divided
  plan,     \* the tree pages, the header over them, and what will be missing
  flushed,  \* pieces known to be on disk
  header    \* the header on disk, or NoHeader

writer == <<out, end, pos, next, broken, bbt>>
vars == <<pc, src, i, job, base, writer, nbt, named, divided, plan, flushed, header>>

NoHeader == [eof |-> 0]
NoPlan == [pages |-> <<>>, header |-> NoHeader, missing |-> {}]

Nothing == [blocks |-> <<>>, root |-> 0, failed |-> FALSE, divided |-> {}]
Failed == [Nothing EXCEPT !.failed = TRUE]

\* No plan names a block that it does not have.
NoJob == [blocks |-> <<>>, failed |-> FALSE, divided |-> {}, data |-> 1, sub |-> 1]

-----------------------------------------------------------------------------
\* A reference in a plan that comes behind k other blocks.
Up(ref, k) == IF ref = 0 THEN 0 ELSE ref + k

Shifted(b, k) ==
  [b EXCEPT !.ents = [j \in DOMAIN b.ents |->
     [nid |-> b.ents[j].nid, data |-> Up(b.ents[j].data, k),
      sub |-> Up(b.ents[j].sub, k)]]]

\* Plan q after plan p; the root is q's.  What failed once goes no further.
Then(p, q) ==
  LET k == Len(p.blocks) IN
  IF p.failed THEN p
  ELSE [blocks |-> p.blocks \o [j \in DOMAIN q.blocks |-> Shifted(q.blocks[j], k)],
        root |-> Up(q.root, k),
        failed |-> q.failed,
        divided |-> p.divided \union q.divided]

DataBlock(bytes) == [kind |-> "data", level |-> 0, bytes |-> bytes, ents |-> <<>>]
IndexBlock(kind, level, ents) ==
  [kind |-> kind, level |-> level, bytes |-> <<>>, ents |-> ents]

\* One block over the entries, or a second level when they do not fit in one.
\* There is no third.
Indexed(p, kind, ents) ==
  LET groups == Chunks(ents, FAN[kind])
      low == IF kind = "x" THEN 1 ELSE 0
      k == Len(p.blocks)
      level == [g \in DOMAIN groups |-> IndexBlock(kind, low, groups[g])]
      above == [g \in DOMAIN groups |->
                  [nid |-> Head(groups[g]).nid, data |-> k + g, sub |-> 0]]
      all == p.blocks \o level
  IN  IF Len(groups) = 1 THEN [p EXCEPT !.blocks = all, !.root = k + 1]
      ELSE IF Len(groups) > TOP_FAN[kind]
      THEN [p EXCEPT !.blocks = all, !.failed = TRUE]
      ELSE [p EXCEPT !.blocks = Append(all, IndexBlock(kind, low + 1, above)),
                     !.root = Len(all) + 1]

\* Slip: the stream is cut anew, without regard to where its blocks ended.
CutAnew(blocks) == Chunks(Joined(blocks), MAX_DATA)

\* Blocks stay as they are unless they are too big.
Cut(blocks) ==
  Joined([j \in DOMAIN blocks |->
    IF Len(blocks[j]) <= MAX_DATA THEN <<blocks[j]>> ELSE Chunks(blocks[j], MAX_DATA)])

LooksLikeHeap(b) == b # <<>> /\ Head(b) = HEAP_SIG

\* A data stream laid out again.
Stream(old, s) ==
  IF s = 0 THEN Nothing
  ELSE IF s \in old.bad THEN Failed
  ELSE LET blocks == old.streams[s]
           parts == Cut(blocks)
           p == [blocks |-> [j \in DOMAIN parts |-> DataBlock(parts[j])],
                 root |-> Len(parts),
                 failed |-> FALSE,
                 divided |-> IF \E j \in DOMAIN blocks :
                                  Len(blocks[j]) > MAX_DATA /\ LooksLikeHeap(blocks[j])
                             THEN {s} ELSE {}]
       IN  IF Len(parts) <= 1 THEN p
           ELSE Indexed(p, "x", [j \in DOMAIN parts |-> [nid |-> 0, data |-> j, sub |-> 0]])

\* One more subnode: its data, then the tree below it, of which below has the plan.
Add(old, acc, nid, sub, below) ==
  LET s == Stream(old, sub.data)
      p == Then(acc.p, s)
      q == Then(p, below[sub.sub])
  IN  IF acc.p.failed THEN acc
      ELSE [p |-> q,
            ents |-> Append(acc.ents,
              [nid |-> nid, data |-> Up(s.root, Len(acc.p.blocks)),
               sub |-> IF p.failed THEN 0 ELSE q.root])]

\* The subnodes in the order of their ids, and a block over them.
Subnodes(old, subs, below) ==
  LET nids == SortedSet(DOMAIN subs)
      upTo[k \in 0 .. Len(nids)] ==
        IF k = 0 THEN [p |-> Nothing, ents |-> <<>>]
        ELSE Add(old, upTo[k - 1], nids[k], subs[nids[k]], below)
      over(all) == IF all.p.failed \/ all.ents = <<>> THEN all.p
                   ELSE Indexed(all.p, "s", all.ents)
  IN  over(upTo[Len(nids)])

\* A subnode tree laid out again, and the trees below it, r levels of them.
Subtree(old, t0) ==
  LET tree[r \in 0 .. MAX_NEST + 1] ==
        [t \in {0} \union DOMAIN old.trees |->
           IF t = 0 THEN Nothing
           ELSE IF r = 0 \/ t \in old.bad THEN Failed
           ELSE Subnodes(old, old.trees[t], tree[r - 1])]
  IN  tree[MAX_NEST + 1][t0]

\* A store that says where a PST's folders are, in one block.
PstStore == [Nothing EXCEPT !.blocks = <<DataBlock(<<HEAP_SIG>>)>>, !.root = 1]

\* The message store of an OST is made anew, if it can be.
Remade(old, n) ==
  n.nid = STORE /\ ~ old.ansi /\ old.store /\ n.data \notin old.bad \union {0}

\* All that a node needs, and which of its blocks the node's entry names.
PlanOf(old, n) ==
  LET d == IF Remade(old, n) THEN PstStore ELSE Stream(old, n.data)
      p == Then(d, Subtree(old, n.sub))
  IN  [blocks |-> p.blocks, failed |-> p.failed, divided |-> p.divided,
       data |-> d.root, sub |-> IF d.failed THEN 0 ELSE p.root]

\* Slip: only the ids of the nodes' data are looked at.
FirstIdOfData(nodes) ==
  (Max({0} \union {n.data : n \in ToSet(nodes)}) \div 4) + 1

\* The counter starts past every id that a node of the source names.
FirstId(nodes) ==
  (Max({0} \union UNION {{n.data, n.sub} : n \in ToSet(nodes)}) \div 4) + 1

\* Slip: nodes in the order they were found in.
KeepAsFound(nodes) == nodes

\* Nodes in the order of their ids.
Keep(nodes) == InOrder(nodes, [k \in DOMAIN nodes |-> nodes[k].nid])

Init ==
  /\ pc = "create"
  /\ src \in SOURCES
  /\ i = 0 /\ job = NoJob /\ base = 0
  /\ out = <<>> /\ end = 0 /\ pos = 0 /\ next = FirstId(src.nodes)
  /\ broken = FALSE /\ bbt = <<>>
  /\ nbt = <<>> /\ named = {} /\ divided = {}
  /\ plan = NoPlan /\ flushed = 0 /\ header = NoHeader

-----------------------------------------------------------------------------
\* An error ends the conversion.  The file stays as it is.
Fail ==
  /\ pc' = "failed"
  /\ UNCHANGED <<src, i, job, base, writer, nbt, named, divided, plan, flushed, header>>

\* The target is opened and its front filled with zeroes.
Create ==
  /\ pc = "create"
  /\ \/ Fail
     \/ /\ pos' = FirstFree /\ end' = FirstFree
        /\ pc' = "nodes"
        /\ UNCHANGED <<src, i, job, base, out, next, broken, bbt, nbt, named, divided,
                       plan, flushed, header>>

\* The next node is looked at.
Begin ==
  /\ pc = "nodes" /\ job = NoJob /\ i < Len(src.nodes)
  /\ job' = PlanOf(src, Keep(src.nodes)[i + 1])
  /\ base' = next
  /\ divided' = divided \union job'.divided
  /\ UNCHANGED <<pc, src, i, writer, nbt, named, plan, flushed, header>>

\* An id says in its second bit whether its block is an index.
Id(k, b) == 4 * k + (IF b.kind = "data" THEN 0 ELSE 2)

\* The id of a block of a plan whose first block is written under counter k.
IdOf(k, blocks, ref) == IF ref = 0 THEN 0 ELSE Id(k + ref - 1, blocks[ref])

Resolved(k, blocks, b) ==
  [b EXCEPT !.ents = [j \in DOMAIN b.ents |->
     [nid |-> b.ents[j].nid, data |-> IdOf(k, blocks, b.ents[j].data),
      sub |-> IdOf(k, blocks, b.ents[j].sub)]]]

Bytes(b) == Len(b.bytes) + Len(b.ents)

Written == next - base

WriteOk == RECOVERS \/ ~ broken

\* Out::block: the next block of the plan goes behind the last one.
WriteBlock ==
  /\ pc = "nodes" /\ job # NoJob /\ Written < Len(job.blocks)
  /\ WriteOk
  /\ LET b == job.blocks[Written + 1]
         at == PlaceAligned(pos, BlockSpan(Bytes(b)), BLOCK_ALIGN)
         bid == Id(next, b)
     IN  /\ out' = Append(out, [kind |-> "block", at |-> end + (at - pos), bid |-> bid,
                                block |-> Resolved(base, job.blocks, b)])
         /\ end' = end + (at - pos) + BlockSpan(Bytes(b))
         /\ pos' = at + BlockSpan(Bytes(b))
         /\ bbt' = Append(bbt, [key |-> bid, at |-> at, cb |-> Bytes(b), cref |-> 2])
  /\ next' = next + 1
  /\ UNCHANGED <<pc, src, i, job, base, broken, nbt, named, divided, plan, flushed, header>>

\* The node in hand is left out, and named.
LeaveOut ==
  /\ named' = named \union {Keep(src.nodes)[i + 1].nid}
  /\ i' = i + 1
  /\ job' = NoJob
  /\ UNCHANGED nbt

\* Out::block cannot write: in the padding, which is then counted as if it were
\* there, or in the block itself.  The error is the node's.
WriteFails ==
  /\ pc = "nodes" /\ job # NoJob /\ Written < Len(job.blocks)
  /\ LET span == BlockSpan(Bytes(job.blocks[Written + 1]))
         at == PlaceAligned(pos, span, BLOCK_ALIGN)
     IN  /\ \/ \E got \in 0 .. at - pos - 1 : got % CHUNK = 0 /\ end' = end + got
            \/ end' = end + (at - pos)
         /\ pos' = at
  /\ next' = next + 1
  /\ broken' = TRUE
  /\ LeaveOut
  /\ UNCHANGED <<pc, src, base, out, bbt, divided, plan, flushed, header>>

\* Slip: a subnode tree that cannot be read is taken for an empty one.
EndNodeRegardless ==
  /\ pc = "nodes" /\ job # NoJob /\ Written = Len(job.blocks)
  /\ LET n == Keep(src.nodes)[i + 1] IN
       /\ nbt' = Append(nbt, [key |-> n.nid, data |-> IdOf(base, job.blocks, job.data),
                              sub |-> IdOf(base, job.blocks, job.sub), parent |-> n.parent])
       /\ i' = i + 1
       /\ job' = NoJob
       /\ UNCHANGED named
  /\ UNCHANGED <<pc, src, base, writer, divided, plan, flushed, header>>

\* All its blocks are written: the node gets its entry, unless something of it
\* could not be read.
EndNode ==
  /\ pc = "nodes" /\ job # NoJob /\ Written = Len(job.blocks)
  /\ LET n == Keep(src.nodes)[i + 1] IN
       \/ /\ job.failed
          /\ LeaveOut
       \/ /\ ~ job.failed
          /\ nbt' = Append(nbt, [key |-> n.nid, data |-> IdOf(base, job.blocks, job.data),
                                 sub |-> IdOf(base, job.blocks, job.sub), parent |-> n.parent])
          /\ i' = i + 1
          /\ job' = NoJob
          /\ UNCHANGED named
  /\ UNCHANGED <<pc, src, base, writer, divided, plan, flushed, header>>

-----------------------------------------------------------------------------
\* No node was kept: an error.  No block was written: build_tree finds no page
\* to be the root, and panics.
NoTree ==
  /\ pc = "nodes" /\ job = NoJob /\ i = Len(src.nodes)
  /\ \/ nbt = <<>> /\ pc' = "failed"
     \/ nbt # <<>> /\ bbt = <<>> /\ pc' = "panicked"
  /\ UNCHANGED <<src, i, job, base, writer, nbt, named, divided, plan, flushed, header>>

\* Both trees are built, in memory, and the essential nodes looked for.
LayOut ==
  /\ pc = "nodes" /\ job = NoJob /\ i = Len(src.nodes)
  /\ nbt # <<>> /\ bbt # <<>>
  /\ LET n == BuildTree(nbt, "NBT", [next |-> pos, bid |-> 4 * next])
         b == BuildTree(bbt, "BBT", n.cur)
         pages == n.pages \o b.pages
     IN  plan' = [pages |-> pages,
                  header |-> [eof |-> AlignUp(Last(pages).at + PAGE, BLOCK_ALIGN),
                              NBT |-> [at |-> n.root.at, bid |-> n.root.bid],
                              BBT |-> [at |-> b.root.at, bid |-> b.root.bid],
                              bidNext |-> b.cur.bid],
                  missing |-> ESSENTIAL \ {e.key : e \in ToSet(nbt)}]
  /\ pc' = "pages" /\ i' = 0
  /\ UNCHANGED <<src, job, base, writer, nbt, named, divided, flushed, header>>

WritePage ==
  /\ pc = "pages" /\ i < Len(plan.pages)
  /\ \/ Fail
     \/ /\ WriteOk
        /\ LET g == plan.pages[i + 1] IN
             /\ out' = Append(out, [kind |-> "page", at |-> end + (g.at - pos), page |-> g])
             /\ end' = end + (g.at - pos) + PAGE
             /\ pos' = g.at + PAGE
        /\ i' = i + 1
        /\ UNCHANGED <<pc, src, job, base, next, broken, bbt, nbt, named, divided, plan,
                       flushed, header>>

\* Pad to the end, read the source's header for the fields kept from it, flush.
Flush ==
  /\ pc = "pages" /\ i = Len(plan.pages)
  /\ \/ Fail
     \/ /\ WriteOk
        /\ pos' = plan.header.eof
        /\ end' = end + (plan.header.eof - pos)
        /\ flushed' = Len(out)
        /\ pc' = "header"
        /\ UNCHANGED <<src, i, job, base, out, next, broken, bbt, nbt, named, divided,
                       plan, header>>

WriteHeader ==
  /\ pc = "header"
  /\ \/ Fail
     \/ /\ WriteOk
        /\ header' = plan.header
        /\ pc' = "done"
        /\ UNCHANGED <<src, i, job, base, writer, nbt, named, divided, plan, flushed>>

Next ==
  \/ Create \/ Begin \/ WriteBlock \/ WriteFails \/ EndNode \/ NoTree
  \/ LayOut \/ WritePage \/ Flush \/ WriteHeader

Spec == Init /\ [][Next]_vars

-----------------------------------------------------------------------------
OnDisk(kind) == {s \in ToSet(SubSeq(out, 1, flushed)) : s.kind = kind}
Pages == {s.page : s \in {s \in OnDisk("page") : s.at = s.page.at}}
Find(tree, key) == Search(Pages, header[tree], tree, key)

\* What the block tree of the new file leads to: blocks by their ids.
Readable ==
  LET leads(s) == \E e \in Find("BBT", s.bid) : e.at = s.at /\ e.cb = Bytes(s.block)
      found == {s \in OnDisk("block") : leads(s)}
  IN  [bid \in {s.bid : s \in found} |-> (CHOOSE s \in found : s.bid = bid).block]

Lost == << <<0 - 1>> >>
IsIndex(bid) == (bid \div 2) % 2 = 1

\* What node_blocks reads among the blocks of the new file: a data block, what an
\* XBLOCK lists, what an XXBLOCK lists.
Direct(new, bid) ==
  IF bid \in DOMAIN new /\ ~ IsIndex(bid) THEN <<new[bid].bytes>> ELSE Lost

Listed(new, bid) ==
  IF bid \in DOMAIN new /\ IsIndex(bid)
  THEN Joined([j \in DOMAIN new[bid].ents |-> Direct(new, new[bid].ents[j].data)])
  ELSE Direct(new, bid)

ReadStream(new, bid) ==
  IF bid = 0 THEN <<>>
  ELSE IF bid \in DOMAIN new /\ new[bid].level = 2
  THEN Joined([j \in DOMAIN new[bid].ents |-> Listed(new, new[bid].ents[j].data)])
  ELSE Listed(new, bid)

\* The entries that subnodes reads there.
Entries(new, bid) == IF bid \in DOMAIN new THEN ToSet(new[bid].ents) ELSE {}

ReadTree(new, bid) ==
  IF bid \in DOMAIN new /\ new[bid].level = 1
  THEN UNION {Entries(new, e.data) : e \in Entries(new, bid)} ELSE Entries(new, bid)

\* The same bytes, in the same blocks where they fit.
SameStream(old, new, bid, s) ==
  LET was == IF s = 0 THEN <<>> ELSE old.streams[s]
      is == ReadStream(new, bid)
  IN  IF \A j \in DOMAIN was : Len(was[j]) <= MAX_DATA THEN is = was
      ELSE Joined(is) = Joined(was)

\* Of each subnode one entry, with the same data and the same tree under it.
SameEntries(old, new, is, subs, same) ==
  /\ {e.nid : e \in is} = DOMAIN subs
  /\ Cardinality(is) = Cardinality(DOMAIN subs)
  /\ \A e \in is : /\ SameStream(old, new, e.data, subs[e.nid].data)
                   /\ same[subs[e.nid].sub][e.sub]

\* The same local ids at every depth.
SameTree(old, new, bid0, t0) ==
  LET same[r \in 0 .. MAX_NEST + 1] ==
        [t \in {0} \union DOMAIN old.trees |-> [bid \in Nat |->
           IF t = 0 THEN ReadTree(new, bid) = {}
           ELSE r > 0 /\ SameEntries(old, new, ReadTree(new, bid), old.trees[t], same[r - 1])]]
  IN  same[MAX_NEST + 1][t0][bid0]

\* The entry of a kept node leads to what the source's did.
Carried(old, new, n) ==
  \E e \in Find("NBT", n.nid) :
    /\ e.parent = n.parent
    /\ IF Remade(old, n) THEN ReadStream(new, e.data) = << <<HEAP_SIG>> >>
       ELSE SameStream(old, new, e.data, n.data)
    /\ SameTree(old, new, e.sub, n.sub)

\* Whether all of a node can be read and fits, said without the plan: every
\* tree and stream under it, level by level.
Whole(old, n) ==
  LET under(t) == {old.trees[t][k] : k \in DOMAIN old.trees[t]}
      trees[d \in 0 .. MAX_NEST + 1] ==
        IF d = 0 THEN {n.sub} \ {0}
        ELSE (UNION {{s.sub : s \in under(t)} : t \in trees[d - 1]}) \ {0}
      all == UNION {trees[d] : d \in 0 .. MAX_NEST}
      streams == (IF Remade(old, n) THEN {} ELSE {n.data})
                   \union UNION {{s.data : s \in under(t)} : t \in all}
      fits(count, kind) == count <= FAN[kind] * TOP_FAN[kind]
  IN  /\ all \intersect old.bad = {} /\ streams \intersect old.bad = {}
      /\ trees[MAX_NEST + 1] = {}
      /\ \A t \in all : fits(Cardinality(DOMAIN old.trees[t]), "s")
      /\ \A s \in streams \ {0} : fits(Len(Cut(old.streams[s])), "x")

(* The offsets and counters are numbers; the block tree's entries are in the
   order of their ids, which build_tree relies on: "in the order the blocks
   were written, which is bid order". *)
TypeOK ==
  /\ pc \in {"create", "nodes", "pages", "header", "done", "failed", "panicked"}
  /\ src \in SOURCES
  /\ i \in Nat /\ base \in Nat /\ next \in Nat /\ pos \in Nat /\ end \in Nat
  /\ \A j, k \in DOMAIN bbt : j < k => bbt[j].key < bbt[k].key
  /\ \A j, k \in DOMAIN nbt : j < k => nbt[j].key < nbt[k].key
  /\ broken \in BOOLEAN /\ flushed \in 0 .. Len(out)

\* Every node that was not left out is in the file: the same bytes in the same
\* blocks, the same subnodes at every depth, the same parent.
HoldsTheRest ==
  \A new \in {Readable} :
    \A n \in ToSet(src.nodes) : n.nid \in named \/ Carried(src, new, n)

(* Whenever the process ends, the file it leaves either has no header and is
   refused by every reader, or holds every node that was not left out (the
   comparison of an_ost_converts_to_a_pst_holding_the_same_mail, at every moment
   and for every source). *)
OpensOnlyWhole == header # NoHeader => HoldsTheRest

(* One node's trouble is not another's: left out, and named, are those nodes
   of which something cannot be read, nests too deep or needs a third level,
   at any depth of their trees, and no others; the essential nodes reported
   missing are those that a reader will not find. *)
LeftOutForCause ==
  pc = "done" =>
    /\ \A n \in ToSet(src.nodes) :
         /\ n.nid \in named <=> ~ Whole(src, n)
         /\ n.nid \in named => Find("NBT", n.nid) = {}
    /\ plan.missing = {nid \in ESSENTIAL : Find("NBT", nid) = {}}

(* No two structures of the file have one id, whatever was begun and left out
   in between; the counter in the header is past them; and none is the id of
   something a node of the source names. *)
IdsFresh ==
  header # NoHeader =>
    LET blocks == {s.bid : s \in OnDisk("block")}
        pages == {g.bid : g \in Pages}
        was == UNION {{n.data, n.sub} : n \in ToSet(src.nodes)}
    IN  /\ Cardinality(blocks) + Cardinality(pages) = Len(out)
        /\ blocks \intersect pages = {}
        /\ \A x \in blocks \union pages : x < header.bidNext /\ \A y \in was : y < x

-----------------------------------------------------------------------------
Output == INSTANCE OutputFile WITH
  LEAVES_HALF <- TRUE,
  at <- IF pos = 0 THEN "absent"
        ELSE IF header # NoHeader /\ HoldsTheRest THEN "whole" ELSE "partial",
  result <- IF pc = "done" THEN "ok"
            ELSE IF pc \in {"failed", "panicked"} THEN "error" ELSE "none"

(* convert implements the safe part of OutputFile as far as it goes: an error
   leaves what was written so far, which nothing removes, but success is said of
   a whole file only, and what was whole once stays so. *)
ImplementsOutput == Output!Safety

-----------------------------------------------------------------------------
(* The comment on a node that is left out: "Its blocks may already be in the
   output, unreferenced, which costs space and nothing else".  When the write
   that failed was padding, the padding is counted though it is not there, and
   if later writes succeed every block after it lies before where its entry in
   the index says. *)
CostsNothingElse == OpensOnlyWhole

=============================================================================
