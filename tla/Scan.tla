-------------------------------- MODULE Scan ---------------------------------
(***************************************************************************)
(* Pst::scan: both indexes rebuilt from the leaf pages that are still in   *)
(* the file, unlinked ones included.  The sweep collects every copy of     *)
(* every entry with the page it was found on; the copies of a block are    *)
(* then settled by what the bytes say, those of a node by the block ids.   *)
(* The copies are kept in hash maps, so their ids are settled in any order.*)
(***************************************************************************)
EXTENDS Store

CONSTANT WINDOW  \* pages read at a time; SWEEP_WINDOW in the code

ASSUME ScanAssumption == WINDOW \in Nat \ {0}

VARIABLES
  pc,      \* "edit", "sweep", "blocks", "nodes", "done"
  broken,  \* a window could not be read, and the sweep ended there
  at,      \* the next page to read
  copies,  \* the entries found: [page, kind, e]
  live,    \* the block entries chosen
  picked,  \* the node entries chosen
  stale,   \* the nodes reported, with how many versions and whether dangling
  count    \* the counters: damaged pages, superseded and unresolved entries

sweep == <<pc, broken, at, copies, live, picked, stale, count>>
vars == <<store, sweep>>

Init ==
  /\ StoreInit
  /\ pc = "edit" /\ broken = FALSE
  /\ at = 1
  /\ copies = {} /\ live = {} /\ picked = {} /\ stale = {}
  /\ count = [damaged |-> 0, superseded |-> 0, unresolved |-> 0]

Write ==
  /\ pc = "edit"
  /\ Edit
  /\ UNCHANGED sweep

Start ==
  /\ pc = "edit"
  /\ Rot
  /\ pc' = "sweep"
  /\ UNCHANGED <<broken, at, copies, live, picked, stale, count>>

-----------------------------------------------------------------------------
\* Slip: the page at the end of the file is taken for an incomplete one.
WindowShort == at .. (IF at + WINDOW <= PAGES THEN at + WINDOW - 1 ELSE PAGES - 1)

\* What one read brings in: whole pages, as far as the file goes.
Window == at .. (IF at + WINDOW - 1 <= PAGES THEN at + WINDOW - 1 ELSE PAGES)

\* What a page contributes.
Entries(p) ==
  IF pages[p].ok
  THEN {[page |-> p, kind |-> pages[p].kind, e |-> x] : x \in pages[p].entries}
  ELSE {}

\* Slip: the last page of a window is read again with the next one.
ReadWindowOverlapping ==
  /\ pc = "sweep" /\ at <= PAGES
  /\ copies' = copies \union UNION {Entries(p) : p \in Window}
  /\ count' = [count EXCEPT !.damaged = @ + Cardinality({p \in Window : ~ pages[p].ok})]
  /\ at' = at + Cardinality(Window) - 1
  /\ UNCHANGED <<store, pc, broken, live, picked, stale>>

ReadWindow ==
  /\ pc = "sweep" /\ at <= PAGES
  /\ copies' = copies \union UNION {Entries(p) : p \in Window}
  /\ count' = [count EXCEPT !.damaged = @ + Cardinality({p \in Window : ~ pages[p].ok})]
  /\ at' = at + WINDOW
  /\ UNCHANGED <<store, pc, broken, live, picked, stale>>

\* A read error ends the sweep, without a word to the caller.
ReadFails ==
  /\ pc = "sweep" /\ at <= PAGES
  /\ broken' = TRUE
  /\ pc' = "blocks"
  /\ UNCHANGED <<store, at, copies, live, picked, stale, count>>

EndOfFile ==
  /\ pc = "sweep" /\ at > PAGES
  /\ pc' = "blocks"
  /\ UNCHANGED <<store, broken, at, copies, live, picked, stale, count>>

-----------------------------------------------------------------------------
BlockCopies(bid) == {c \in copies : c.kind = "bbt" /\ c.e.bid = bid}
NodeCopies(nid) == {c \in copies : c.kind = "nbt" /\ c.e.nid = nid}

SweptBids == {c.e.bid : c \in {c \in copies : c.kind = "bbt"}}
SweptNids == {c.e.nid : c \in {c \in copies : c.kind = "nbt"}}

\* The bytes at the entry's offset identify as the block and match their
\* checksum.
BlockIntact(e) == disk[e.slot] = e.bid

LastFound(cs) == CHOOSE c \in cs : \A d \in cs : d.page <= c.page

\* Slip: the last copy, whatever the bytes say.
PickBlockUnread(cs) == LastFound(cs).e

\* The last copy in the file that checks out, or else the last; a single copy
\* is taken on trust.
PickBlock(cs) ==
  LET good == {c \in cs : BlockIntact(c.e)}
  IN  IF Cardinality(cs) = 1 \/ good = {} THEN LastFound(cs).e ELSE LastFound(good).e

SettleBlock(bid) ==
  /\ pc = "blocks"
  /\ \A b \in live : b.bid # bid
  /\ LET cs == BlockCopies(bid) IN
       /\ live' = live \union {PickBlock(cs)}
       /\ count' = [count EXCEPT
            !.superseded = @ + Cardinality(cs) - 1,
            !.unresolved = IF Cardinality(cs) > 1 /\ \A c \in cs : ~ BlockIntact(c.e)
                           THEN @ + 1 ELSE @]
  /\ UNCHANGED <<store, pc, broken, at, copies, picked, stale>>

BlocksSettled ==
  /\ pc = "blocks"
  /\ {b.bid : b \in live} = SweptBids
  /\ pc' = "nodes"
  /\ UNCHANGED <<store, broken, at, copies, live, picked, stale, count>>

Listed(bid) == \E b \in live : b.bid = bid

\* Slip: the subnode tree is left out of the order.
BelowDataOnly(c, d) ==
  \/ Listed(d.e.data) /\ ~ Listed(c.e.data)
  \/ Listed(d.e.data) = Listed(c.e.data) /\ c.e.data < d.e.data
  \/ Listed(d.e.data) = Listed(c.e.data) /\ c.e.data = d.e.data /\ c.page < d.page

\* Slip: a block that is not in the index is as good as one that is.
BelowUnlisted(c, d) ==
  \/ c.e.data < d.e.data
  \/ c.e.data = d.e.data /\ c.e.sub < d.e.sub
  \/ c.e.data = d.e.data /\ c.e.sub = d.e.sub /\ c.page < d.page

\* The order the copies of a node are sorted in, stable in the order they were
\* found in.
Below(c, d) ==
  \/ Listed(d.e.data) /\ ~ Listed(c.e.data)
  \/ /\ Listed(d.e.data) = Listed(c.e.data)
     /\ \/ c.e.data < d.e.data
        \/ c.e.data = d.e.data /\ c.e.sub < d.e.sub
        \/ c.e.data = d.e.data /\ c.e.sub = d.e.sub /\ c.page < d.page

PickNode(cs) == (CHOOSE c \in cs : \A d \in cs \ {c} : Below(d, c)).e

\* How many revisions of the node the copies are of.
Versions(cs) == Cardinality({<<c.e.data, c.e.sub>> : c \in cs})

Dangling(e) == e.data # 0 /\ ~ Listed(e.data)

\* Slip: copies are counted by the revisions they are of.
SettleNodeByVersion(nid) ==
  /\ pc = "nodes"
  /\ \A n \in picked : n.nid # nid
  /\ LET cs == NodeCopies(nid)
         e == PickNode(cs) IN
       /\ picked' = picked \union {e}
       /\ stale' = IF Versions(cs) > 1 \/ Dangling(e)
                   THEN stale \union {[nid |-> nid, versions |-> Versions(cs),
                                       dangling |-> Dangling(e)]}
                   ELSE stale
       /\ count' = [count EXCEPT !.superseded = @ + Versions(cs) - 1]
  /\ UNCHANGED <<store, pc, broken, at, copies, live>>

SettleNode(nid) ==
  /\ pc = "nodes"
  /\ \A n \in picked : n.nid # nid
  /\ LET cs == NodeCopies(nid)
         e == PickNode(cs) IN
       /\ picked' = picked \union {e}
       /\ stale' = IF Versions(cs) > 1 \/ Dangling(e)
                   THEN stale \union {[nid |-> nid, versions |-> Versions(cs),
                                       dangling |-> Dangling(e)]}
                   ELSE stale
       /\ count' = [count EXCEPT !.superseded = @ + Cardinality(cs) - 1]
  /\ UNCHANGED <<store, pc, broken, at, copies, live>>

Finish ==
  /\ pc = "nodes"
  /\ {n.nid : n \in picked} = SweptNids
  /\ pc' = "done"
  /\ UNCHANGED <<store, broken, at, copies, live, picked, stale, count>>

Sweep ==
  \/ ReadWindow \/ EndOfFile \/ BlocksSettled \/ Finish
  \/ \E bid \in SweptBids : SettleBlock(bid)
  \/ \E nid \in SweptNids : SettleNode(nid)

Next == Write \/ Start \/ ReadFails \/ Sweep

\* The sweep is one thread running to its end; the writer owes it nothing.
Spec == Init /\ [][Next]_vars /\ WF_vars(Sweep)

-----------------------------------------------------------------------------
(* Both recovered indexes name an id once. *)
TypeOK ==
  /\ pc \in {"edit", "sweep", "blocks", "nodes", "done"}
  /\ broken \in BOOLEAN
  /\ at \in 1 .. PAGES + WINDOW
  /\ \A c \in copies : c.page \in 1 .. PAGES /\ c.kind \in {"nbt", "bbt"}
  /\ \A b \in live : b.slot \in 1 .. SLOTS
  /\ Cardinality({b.bid : b \in live}) = Cardinality(live)
  /\ Cardinality({n.nid : n \in picked}) = Cardinality(picked)
  /\ count \in [damaged : Nat, superseded : Nat, unresolved : Nat]

Swept == pc = "done" /\ ~ broken

(* The answer of the sweep is the index it replaces: a node whose live entry
   survived, and whose data the swept block index names, comes back with the
   data and the subnodes it has, whatever its older copies say and wherever
   the allocator put them. *)
SweepAgrees ==
  Swept /\ pages[nbt].ok =>
    \A n \in LiveNodes :
      Listed(n.data) =>
        \E m \in picked : m.nid = n.nid /\ m.data = n.data /\ m.sub = n.sub

(* A block the live index names and whose bytes are whole is found: entries of
   its earlier places, freed and written over, do not win over it. *)
LiveBlocksResolve ==
  Swept /\ pages[bbt].ok =>
    \A b \in LiveBlocks :
      disk[b.slot] = b.bid => \E l \in live : l.bid = b.bid /\ disk[l.slot] = b.bid

(* No id named on an intact leaf page is left out, wherever in the file and
   in whichever window the page lies; none is invented. *)
NothingSweptIsLost ==
  Swept =>
    LET leaves(kind) == {p \in 1 .. PAGES : pages[p].ok /\ pages[p].kind = kind} IN
    /\ {n.nid : n \in picked} = {e.nid : e \in UNION {pages[p].entries : p \in leaves("nbt")}}
    /\ {b.bid : b \in live} = {e.bid : e \in UNION {pages[p].entries : p \in leaves("bbt")}}

(* A revision whose data block the index lists is not given up for a newer one
   whose block it does not list.  Listed and not readable: a block that only one
   entry names is listed on trust, torn or not. *)
ListedWins ==
  pc = "done" =>
    \A n \in picked :
      (\E c \in NodeCopies(n.nid) : Listed(c.e.data)) => Listed(n.data)

(* The counters in the report are those of the choices made: a copy is either
   in the result or superseded, and "unresolved" is the number of blocks that
   were chosen from several copies and still do not check out. *)
Accounted ==
  pc = "done" =>
    /\ Cardinality(copies) = Cardinality(picked) + Cardinality(live) + count.superseded
    /\ count.unresolved =
         Cardinality({b \in live : ~ BlockIntact(b) /\ Cardinality(BlockCopies(b.bid)) > 1})

(* The sweep ends. *)
Finishes == pc = "sweep" ~> pc = "done"

=============================================================================
