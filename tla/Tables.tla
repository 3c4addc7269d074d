-------------------------------- MODULE Tables --------------------------------
(***************************************************************************)
(* The properties of a folder, message or attachment (read_pc), the tables *)
(* of folders, messages and recipients (read_tc, read_recipients), and the *)
(* heap both are in.                                                       *)
(*                                                                         *)
(* Bytes are a sequence of units, of four bytes or more, that read as a    *)
(* value, an id or a set of bits: [val, ref, bits].  An id says where      *)
(* bytes are: [to, blk, idx, nid], to "none", "heap" or "sub".  A heap is  *)
(* [client, root], and an item of it what it reads as: [t, levels, recs,   *)
(* kids, head, bytes], t "bth" for a B-tree's header, "info" for a table's *)
(* that holds its columns and gives rows a width.  A record of a context   *)
(* is [id, type, ref, val], a column [prop, type, ib, short, bit], short   *)
(* if its cell has less than the four bytes of an id; type is "fixed",     *)
(* "wide" or "narrow", for text that is in a code page.                    *)
(***************************************************************************)
EXTENDS Streams

CONSTANTS
  NODES,         \* what is opened: [file, as, data, sub, laid, hurt], the
                 \* last two what was written and which of it is damaged
  NOHEAP,        \* the heap of a block that does not begin one
  CODEPAGE,      \* PID_MESSAGE_CODEPAGE
  WINDOWS_1252,  \* the code page of text that names none
  RECIPIENTS     \* the node ids of a recipient table's type

VARIABLES
  node,    \* what is opened, as a "context", "table" or "recipients"
  stage,   \* "open", "descend", "take", "rows", "done", "failed", "crashed"
  heap,    \* the node's blocks
  queue,   \* the B-tree's items still to be read, with their levels
  recs,    \* the records still to be taken, or the rows
  props,
  narrow,  \* the texts that wait for the code page
  table    \* [cols, width, rows], a row read [id, props]

vars == <<file, node, stage, heap, queue, recs, props, narrow, table>>

\* The file as it was written, or without one block, one subnode, or the last
\* items of one block's heap.
Damages(f) ==
  {f} \union {[b \in (DOMAIN f) \ {bid} |-> f[b]] : bid \in DOMAIN f}
  \union UNION {{[f EXCEPT ![bid].ents = RemoveAt(@, i)] : i \in DOMAIN f[bid].ents} : bid \in DOMAIN f}
  \union UNION {{[f EXCEPT ![bid].items = SubSeq(@, 1, i - 1)] : i \in DOMAIN f[bid].items} :
                  bid \in DOMAIN f}

Init ==
  /\ node \in NODES
  /\ file \in Damages(node.file)
  /\ stage = "open"
  /\ heap = <<>> /\ queue = <<>> /\ recs = <<>> /\ props = <<>> /\ narrow = <<>>
  /\ table = [cols |-> <<>>, width |-> 0, rows |-> <<>>]

-----------------------------------------------------------------------------
\* Heap::new, and the heap is of this client's.
Opened(bid, client) ==
  LET s == NodeBlocks(bid) IN
  IF ~ s.ok THEN s
  ELSE IF s.blocks = <<>> \/ s.blocks[1].heap = NOHEAP \/ s.blocks[1].heap.client # client
  THEN Failed
  ELSE s

\* An item is in the block its id names, if that one has as many.
HasItem(blocks, ref) ==
  /\ ref.to = "heap"
  /\ ref.blk \in DOMAIN blocks
  /\ ref.idx \in DOMAIN blocks[ref.blk].items
Item(blocks, ref) == blocks[ref.blk].items[ref.idx]

\* The item the client begins at, if it is what it should be.
HasRoot(blocks, t) ==
  LET ref == blocks[1].heap.root IN HasItem(blocks, ref) /\ Item(blocks, ref).t = t
Root(blocks) == Item(blocks, blocks[1].heap.root)

\* A property's value: [how, cp, what].
Value(how, what) == [how |-> how, cp |-> WINDOWS_1252, what |-> what]
Fixed(val) == Value("int", <<val>>)
Missing(nid) == Value("missing", <<nid>>)
Plain(units) == [i \in DOMAIN units |-> units[i].val]
Decode(type, units) == Value(IF type = "narrow" THEN "text" ELSE "bytes", Plain(units))

Put(f, id, v) == (id :> v) @@ f

\* What an unsuccessful read ends in.
Outcome(s) == IF s.crashed THEN "crashed" ELSE "failed"

Ends(how) ==
  /\ stage' = how
  /\ UNCHANGED <<file, node, heap, queue, recs, props, narrow, table>>

\* The bytes a reference leads to: [ok, crashed, missing, units].
Fetched(ref, sub) ==
  LET found(s, units) == [ok |-> s.ok, crashed |-> s.crashed, missing |-> FALSE, units |-> units]
  IN  CASE ref.to = "none" -> found(Fine(<<>>), <<>>)
        [] ref.to = "heap" -> IF HasItem(heap, ref) THEN found(Fine(<<>>), Item(heap, ref).bytes)
                              ELSE found(Failed, <<>>)
        [] ref.to = "sub" -> IF ~ sub.ok THEN found(Failed, <<>>)
                             ELSE IF ref.nid \notin DOMAIN sub.map
                             THEN [found(Fine(<<>>), <<>>) EXCEPT !.missing = TRUE]
                             ELSE LET s == NodeBlocks(sub.map[ref.nid].data) IN
                                  found(s, Concat(s.blocks))

-----------------------------------------------------------------------------
OpenContext ==
  /\ stage = "open" /\ node.as = "context"
  /\ \E s \in {Opened(node.data, "pc")} :
       IF ~ s.ok THEN Ends(Outcome(s))
       ELSE IF ~ HasRoot(s.blocks, "bth") THEN Ends("failed")
       ELSE /\ heap' = s.blocks
            /\ queue' = <<[ref |-> Root(s.blocks).head, level |-> Root(s.blocks).levels]>>
            /\ stage' = "descend"
            /\ UNCHANGED <<file, node, recs, props, narrow, table>>

\* bth_records: the item added last is read first.
Descend ==
  /\ stage = "descend" /\ queue # <<>>
  /\ LET q == Last(queue)
         item == Item(heap, q.ref)
     IN  IF q.ref.to = "none" THEN queue' = Front(queue) /\ UNCHANGED <<stage, recs>>
         ELSE IF ~ HasItem(heap, q.ref) THEN stage' = "failed" /\ UNCHANGED <<queue, recs>>
         ELSE IF q.level = 0
         THEN queue' = Front(queue) /\ recs' = recs \o item.recs /\ UNCHANGED stage
         ELSE /\ queue' = Front(queue) \o
                          [i \in DOMAIN item.kids |-> [ref |-> item.kids[i], level |-> q.level - 1]]
              /\ UNCHANGED <<stage, recs>>
  /\ UNCHANGED <<file, node, heap, props, narrow, table>>

Descended ==
  /\ stage = "descend" /\ queue = <<>>
  /\ stage' = "take"
  /\ UNCHANGED <<file, node, heap, queue, recs, props, narrow, table>>

\* Slip: a text is decoded like any other value.
NeverDeferred(type) == FALSE

\* Text in a code page waits for the property that names it.
Deferred(type) == type = "narrow"

\* One property: a fixed one from its record, another from where that points.
Take ==
  /\ stage = "take" /\ recs # <<>>
  /\ LET r == Head(recs)
         f == Fetched(r.ref, Subnodes(node.sub))
     IN  IF r.type = "fixed"
         THEN props' = Put(props, r.id, Fixed(r.val)) /\ UNCHANGED <<stage, narrow>>
         ELSE IF ~ f.ok THEN stage' = Outcome(f) /\ UNCHANGED <<props, narrow>>
         ELSE IF f.missing
         THEN props' = Put(props, r.id, Missing(r.ref.nid)) /\ UNCHANGED <<stage, narrow>>
         ELSE IF Deferred(r.type)
         THEN narrow' = Append(narrow, [id |-> r.id, units |-> f.units]) /\ UNCHANGED <<stage, props>>
         ELSE props' = Put(props, r.id, Decode(r.type, f.units)) /\ UNCHANGED <<stage, narrow>>
  /\ recs' = Tail(recs)
  /\ UNCHANGED <<file, node, heap, queue, table>>

\* The code page a context says its text is in.
PageOf(ps) ==
  IF CODEPAGE \in DOMAIN ps /\ ps[CODEPAGE].how = "int" THEN ps[CODEPAGE].what[1]
  ELSE WINDOWS_1252

TextIn(cp, units) == [Decode("narrow", units) EXCEPT !.cp = cp]

DecodeNarrow ==
  /\ stage = "take" /\ recs = <<>>
  /\ props' = FoldLeft(LAMBDA ps, n : Put(ps, n.id, TextIn(PageOf(props), n.units)), props, narrow)
  /\ stage' = "done"
  /\ UNCHANGED <<file, node, heap, queue, recs, narrow, table>>

-----------------------------------------------------------------------------
\* The bytes of the rows: an item of the heap, or a subnode's blocks as they are.
RowBlocks(blocks, ref, sub) ==
  CASE ref.to = "none" -> Fine(<<>>)
    [] ref.to = "heap" -> IF HasItem(blocks, ref) THEN Fine(<<Item(blocks, ref).bytes>>) ELSE Failed
    [] ref.to = "sub" -> IF ~ sub.ok \/ ref.nid \notin DOMAIN sub.map THEN Failed
                         ELSE LET s == NodeBlocks(sub.map[ref.nid].data) IN
                              [s EXCEPT !.blocks = [i \in DOMAIN @ |-> @[i].cells]]

\* The whole rows of a block; what is left of it is padding.
Chunks(units, width) ==
  [k \in 1 .. Len(units) \div width |-> SubSeq(units, (k - 1) * width + 1, k * width)]

\* Slip: the blocks are joined first.
RowsOfAll(blocks, width) == Chunks(FlattenSeq(blocks), width)

\* No row lies in two blocks.
RowsIn(blocks, width) == FoldLeft(LAMBDA rs, b : rs \o Chunks(b, width), <<>>, blocks)

\* read_tc up to its rows; the node's ids are the table's own from here on.
OpenTable(data, sub, Failing) ==
  \E s \in {Opened(data, "tc")} :
    LET rows == RowBlocks(s.blocks, Root(s.blocks).head, Subnodes(sub)) IN
    IF ~ s.ok THEN Ends(IF s.crashed THEN "crashed" ELSE Failing)
    ELSE IF ~ HasRoot(s.blocks, "info") THEN Ends(Failing)
    ELSE IF ~ rows.ok THEN Ends(IF rows.crashed THEN "crashed" ELSE Failing)
    ELSE /\ heap' = s.blocks
         /\ recs' = RowsIn(rows.blocks, Root(s.blocks).levels)
         /\ table' = [cols |-> Root(s.blocks).recs, width |-> Root(s.blocks).levels, rows |-> <<>>]
         /\ node' = [node EXCEPT !.data = data, !.sub = sub]
         /\ stage' = "rows"
         /\ UNCHANGED <<file, queue, props, narrow>>

OpenNodeTable ==
  /\ stage = "open" /\ node.as = "table"
  /\ OpenTable(node.data, node.sub, "failed")

\* read_recipients: any subnode of the type, and no addressees if there is none
\* or its table cannot be read.
OpenRecipients ==
  /\ stage = "open" /\ node.as = "recipients"
  /\ \E sub \in {Subnodes(node.sub)} :
       \/ /\ ~ sub.ok \/ DOMAIN sub.map \cap RECIPIENTS = {}
          /\ Ends("done")
       \/ /\ sub.ok
          /\ \E nid \in DOMAIN sub.map \cap RECIPIENTS :
               OpenTable(sub.map[nid].data, sub.map[nid].sub, "done")

\* The columns that lie in the row and whose bit it has.
SetIn(row) ==
  {c \in ToSet(table.cols) : c.ib <= table.width /\ c.bit \in row[table.width].bits}

\* A subnode tree that cannot be read lists nothing.
Lenient(sub) == IF sub.ok THEN sub ELSE Subnodes(NONE)

CellFetched(c, row) == Fetched(row[c.ib].ref, Lenient(Subnodes(node.sub)))

\* Empty where the bytes cannot be had.
Cell(c, row) ==
  IF c.type = "fixed" THEN Fixed(row[c.ib].val)
  ELSE IF CellFetched(c, row).missing THEN Missing(row[c.ib].ref.nid)
  ELSE Decode(c.type, IF CellFetched(c, row).ok THEN CellFetched(c, row).units ELSE <<>>)

\* A cell too short for an id is read past its end.
RowCrashes(row) ==
  \E c \in SetIn(row) : c.type # "fixed" /\ (c.short \/ CellFetched(c, row).crashed)

TakeRow ==
  /\ stage = "rows" /\ recs # <<>>
  /\ LET row == Head(recs)
         Of(p) == CHOOSE c \in SetIn(row) : c.prop = p
         cells == [p \in {c.prop : c \in SetIn(row)} |-> Cell(Of(p), row)]
     IN  IF RowCrashes(row) THEN stage' = "crashed" /\ UNCHANGED table
         ELSE /\ table' = [table EXCEPT !.rows = Append(@, [id |-> row[1].val, props |-> cells])]
              /\ UNCHANGED stage
  /\ recs' = Tail(recs)
  /\ UNCHANGED <<file, node, heap, queue, props, narrow>>

RowsTaken ==
  /\ stage = "rows" /\ recs = <<>>
  /\ Ends("done")

Next ==
  \/ OpenContext \/ Descend \/ Descended \/ Take \/ DecodeNarrow
  \/ OpenNodeTable \/ OpenRecipients \/ TakeRow \/ RowsTaken

Spec == Init /\ [][Next]_vars

-----------------------------------------------------------------------------
\* What was read is what was written: nothing else and nothing less, and only
\* what the damage is about is as Gone says.
AsWritten(read, written, Gone(_)) ==
  /\ DOMAIN read = DOMAIN written
  /\ \A p \in DOMAIN read : read[p] = written[p] \/ (p \in node.hurt /\ Gone(read[p]))

(* A context that is read has every property its writer put in it, each with
   its value, and text in the code page the context names wherever among the
   records that stands: a lost block or item of the heap or of its B-tree is an
   error and never a shorter list, and a value whose subnode is lost is marked. *)
ContextComplete ==
  stage = "done" /\ node.as = "context" =>
    AsWritten(props, node.laid, LAMBDA v : v.how = "missing")

\* The file still holds these bytes, in a block or in an item of a heap.
Held(what) ==
  \E bid \in DOMAIN file :
    \/ Plain(file[bid].cells) = what
    \/ \E i \in DOMAIN file[bid].items : Plain(file[bid].items[i].bytes) = what

(* A table that is read has the rows its writer laid out, in their order,
   however they were spread over blocks with room left at the end of each; of
   each row the cells that were set and no other.  A cell whose bytes are still
   in the file is read as it was written, or marked if its subnode's entry is
   lost, and no cell shows bytes that are not its own. *)
TableAsWritten ==
  stage = "done" /\ table.cols # <<>> =>
    /\ [i \in DOMAIN table.rows |-> table.rows[i].id] = [i \in DOMAIN node.laid |-> node.laid[i].id]
    /\ \A i \in DOMAIN table.rows :
         LET read == table.rows[i].props
             laid == node.laid[i].props
         IN  /\ DOMAIN read = DOMAIN laid
             /\ \A p \in DOMAIN read :
                  /\ Held(laid[p].what) \/ p \notin node.hurt => read[p] = laid[p] \/ read[p].how = "missing"
                  /\ read[p].how # "missing" => ToSet(read[p].what) \subseteq ToSet(laid[p].what)

(* What the head of ltp.rs says of a damaged file, "an error naming what was
   wrong, never a panic and never a silent empty answer", said of read_tc: no
   row makes it crash, and each cell is as it was written or marked. *)
NeverSilent ==
  node.as = "table" =>
    /\ stage # "crashed"
    /\ \A i \in DOMAIN table.rows : \A p \in DOMAIN table.rows[i].props :
         LET read == table.rows[i].props[p] IN
         read.how = "missing" \/ read = node.laid[i].props[p]

=============================================================================
