------------------------------- MODULE Streams -------------------------------
(***************************************************************************)
(* What a node's two block ids lead to: Pst::node_blocks, its data as a    *)
(* list of blocks, and Pst::subnodes, its subnode tree as a map.           *)
(*                                                                         *)
(* A file is a map from block id to block; an id it lacks cannot be read.  *)
(* A block is [t, level, fits, ids, ents, items, heap, cells]: t is "ids"  *)
(* for an XBLOCK or XXBLOCK, "subs" for a subnode block, or "data"; fits,  *)
(* whether the entries it claims lie inside it.  items and heap are what   *)
(* a data block holds when it is read as a heap, cells when as plain data. *)
(***************************************************************************)
EXTENDS Naturals, Sequences, FiniteSets, SequencesExt

CONSTANTS
  NONE,      \* the block id 0
  DEEP       \* bound: calls of node_blocks that the thread's stack has room for

VARIABLE file

Failed == [ok |-> FALSE, crashed |-> FALSE, blocks |-> <<>>]
Crashed == [ok |-> FALSE, crashed |-> TRUE, blocks |-> <<>>]
Fine(blocks) == [ok |-> TRUE, crashed |-> FALSE, blocks |-> blocks]

\* The first failure is the result; otherwise the lists one after the other.
Joined(results) ==
  FoldLeft(LAMBDA r, s : IF ~ r.ok THEN r ELSE IF ~ s.ok THEN s ELSE Fine(r.blocks \o s.blocks),
           Fine(<<>>), results)

Block(bid) == IF bid \in DOMAIN file THEN Fine(<<file[bid]>>) ELSE Failed

\* An XXBLOCK's ids are read as streams of their own, an XBLOCK's as blocks.
NodeBlocks(bid) ==
  LET read[d \in 0 .. DEEP] ==
        [b \in DOMAIN file |->
           IF d = 0 THEN Crashed
           ELSE IF file[b].t # "ids" THEN Block(b)
           ELSE IF ~ file[b].fits THEN Failed
           ELSE Joined([i \in DOMAIN file[b].ids |->
                  LET c == file[b].ids[i] IN
                  IF file[b].level # 2 THEN Block(c)
                  ELSE IF c = NONE THEN Fine(<<>>)
                  ELSE IF c \in DOMAIN file THEN read[d - 1][c] ELSE Failed])]
  IN  IF bid = NONE THEN Fine(<<>>)
      ELSE IF bid \in DOMAIN file THEN read[DEEP][bid] ELSE Failed

\* One turn of the loop in subnodes: [stack, seen, map, ok, warned].  A leaf
\* lists subnodes [nid, data, sub], the level above the leaves.
SubStep(s) ==
  LET b == Last(s.stack)
      rest == [s EXCEPT !.stack = Front(@)]
      here == [rest EXCEPT !.seen = @ \union {b}]
  IN  IF ~ s.ok \/ s.stack = <<>> THEN s
      ELSE IF b \in s.seen THEN [rest EXCEPT !.warned = @ \union {b}]
      ELSE IF b \notin DOMAIN file THEN [here EXCEPT !.ok = FALSE]
      ELSE IF file[b].t # "subs" \/ ~ file[b].fits THEN [here EXCEPT !.ok = FALSE]
      ELSE IF file[b].level = 0
      THEN [here EXCEPT !.map = FoldLeft(LAMBDA m, e : (e.nid :> e) @@ m, @, file[b].ents)]
      ELSE [here EXCEPT !.stack = @ \o file[b].ids]

\* Each block is taken once, so there are no more turns than ids.
Turns == FoldFunctionOnSet(LAMBDA f, n : Len(f.ids) + n, 1, file, DOMAIN file)

Subnodes(bid) ==
  LET begin == [stack |-> IF bid = NONE THEN <<>> ELSE <<bid>>, seen |-> {}, map |-> <<>>,
                ok |-> TRUE, warned |-> {}]
  IN  FoldLeft(LAMBDA s, k : SubStep(s), begin, [k \in 1 .. Turns |-> k])

\* A stream's bytes.
Concat(blocks) == FoldLeft(LAMBDA cs, b : cs \o b.cells, <<>>, blocks)

=============================================================================
