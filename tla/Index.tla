-------------------------------- MODULE Index --------------------------------
(***************************************************************************)
(* Which index a command works with, what it then reads through it, and    *)
(* what --verify says in the end.  The command line (index in pstfree.rs)  *)
(* and the window (load in pstfree-gui.rs) recover a lost tree each in a   *)
(* way of its own.  A block is found through the cache, a map from id to   *)
(* offset that adopt fills, or the first lookup from the header's tree.    *)
(*                                                                         *)
(* The sweep and the carving, modelled in Scan and Carve, stand here for   *)
(* what they return: for every id on a sound leaf page one of its copies,  *)
(* and the sound blocks.  A read error ends each of them early, and then   *)
(* they return what lies before it.                                        *)
(***************************************************************************)
EXTENDS Walk, Lists, FiniteSetsExt, Functions

CONSTANTS
  ROLES,   \* of "verify", "salvage", "export" and "rebuild": see Init
  NOTHING  \* no report yet

VARIABLES
  role, pc,
  nodes,   \* the node entries in use: a sequence of [nid, kind, of, parent, data]
  blocks,  \* the block entries in use: a sequence of [bid, ib]
  cache,   \* Pst.bbt: no map yet, or one
  cut,     \* where sweep and carving stopped: a read error, or the file's end
  left,    \* the blocks, and then the tables, still to be read
  report   \* what verify counted, and whether it found no damage

index == <<role, pc, nodes, blocks, cache, cut, left, report>>
vars == <<file, log, walk, index>>

\* Blocks lie at bytes of the file, and the entries of its block tree are numbers.
ASSUME IndexAssumption ==
  \A f \in FILES :
    /\ f.refused \in BOOLEAN
    /\ DOMAIN f.disk \subseteq Nat /\ IsFiniteSet(DOMAIN f.disk)
    /\ DOMAIN f.pages \subseteq Nat
    /\ \A ib \in DOMAIN f.disk : f.disk[ib].sound \in BOOLEAN /\ f.disk[ib].id \in Nat
    /\ \A p \in DOMAIN f.pages :
         f.pages[p].kind = "BBT" /\ f.pages[p].leaf =>
           f.pages[p].ents \in Seq([bid : Nat, ib : Nat])

\* "verify" and "salvage" are the command line's --verify, the latter with
\* --salvage; "export" and "rebuild" the window's jobs.
Init ==
  /\ file \in FILES
  /\ log = [listed |-> <<>>, count |-> 0]
  /\ want = "none" /\ todo = <<>> /\ seen = {} /\ opened = <<>>
  /\ role \in ROLES
  /\ pc = "open"
  /\ nodes = <<>> /\ blocks = <<>> /\ cache = {}
  /\ cut = [pages |-> 0, blocks |-> 0]
  /\ left = <<>> /\ report = NOTHING

\* Pst::open: a file without a signature, or shorter than its header, is
\* refused; whatever else is wrong with the header is a problem and no more.
Open ==
  /\ pc = "open"
  /\ log' = [listed |-> file.troubles, count |-> Len(file.troubles)]
  /\ IF file.refused THEN pc' = "done" /\ UNCHANGED walk
     ELSE IF role = "salvage" THEN pc' = "recover" /\ UNCHANGED walk
     ELSE pc' = "nodes" /\ BeginWalk("NBT")
  /\ UNCHANGED <<file, role, nodes, blocks, cache, cut, left, report>>

Visited ==
  /\ pc \in {"nodes", "blocks", "cache", "copy"}
  /\ Visit
  /\ UNCHANGED index

Walked(at) == pc = at /\ todo = <<>>

\* The window looks at the block tree only when the node tree gave something.
NodesWalked ==
  /\ Walked("nodes")
  /\ nodes' = Delivered
  /\ IF role \in {"export", "rebuild"} /\ Delivered = <<>>
     THEN pc' = "recover" /\ UNCHANGED walk
     ELSE pc' = "blocks" /\ BeginWalk("BBT")
  /\ UNCHANGED <<file, log, role, blocks, cache, cut, left, report>>

BlocksWalked ==
  /\ Walked("blocks")
  /\ blocks' = Delivered
  /\ pc' = IF nodes = <<>> \/ Delivered = <<>> THEN "recover" ELSE "use"
  /\ UNCHANGED <<file, log, walk, role, nodes, cache, cut, left, report>>

-----------------------------------------------------------------------------
Leaves(kind) ==
  {p \in DOMAIN file.pages : LET g == file.pages[p] IN
     g.same /\ g.sound /\ g.fits /\ g.leaf /\ g.kind = kind}

\* The entries on the leaves of a kind that lie before page c.
Entries(kind, c) == UNION {ToSet(file.pages[p].ents) : p \in {p \in Leaves(kind) : p < c}}

\* One of the copies of every id.
OnePer(es, key) ==
  {s \in SUBSET es : /\ \A e \in es : \E f \in s : f[key] = e[key]
                     /\ \A e, f \in s : e[key] = f[key] => e = f}

\* The entries in the order of their ids.
Sorted(es) == LET s == SetToSeq(es) IN InOrder(s, [k \in DOMAIN s |-> s[k].bid])

SoundAt(ib) == ib \in DOMAIN file.disk /\ file.disk[ib].sound

\* Where a pass over these offsets may break off, or that it does not.  What cannot
\* be read itself is nothing sound.
Stops(offsets) == offsets \union {Max(offsets) + 1}

Cuts == [pages : Stops(DOMAIN file.pages), blocks : Stops(DOMAIN file.disk)]

\* The last of each id before offset c.
Carved(c) ==
  {[bid |-> file.disk[ib].id, ib |-> ib] :
     ib \in {ib \in DOMAIN file.disk :
               /\ ib < c /\ SoundAt(ib)
               /\ \A jb \in DOMAIN file.disk :
                    jb > ib /\ jb < c /\ SoundAt(jb) => file.disk[jb].id # file.disk[ib].id}}

BlockIntact(e) == SoundAt(e.ib) /\ file.disk[e.ib].id = e.bid

\* The map from id to offset that a list of entries makes: the last one wins.
MapOf(es) ==
  LET last(bid) == CHOOSE k \in DOMAIN es :
        es[k].bid = bid /\ \A j \in DOMAIN es : es[j].bid = bid => j <= k
  IN  [bid \in {es[k].bid : k \in DOMAIN es} |-> es[last(bid)].ib]

\* Slip: swept entries go in whatever their bytes say.
MergeAll(carved, swept) ==
  carved \union {e \in swept : \A c \in carved : c.bid # e.bid}

\* What carving found, and of the swept entries those that check out.
Merge(carved, swept) ==
  carved \union {e \in swept : (\A c \in carved : c.bid # e.bid) /\ BlockIntact(e)}

\* Slip: what is recovered is listed and not adopted.
RecoverUnadopted ==
  /\ pc = "recover" /\ role \in {"verify", "salvage"}
  /\ cut' \in Cuts
  /\ \E ns \in OnePer(Entries("NBT", cut'.pages), "nid"),
        bs \in OnePer(Entries("BBT", cut'.pages), "bid") :
       /\ IF blocks # <<>> THEN UNCHANGED blocks
          ELSE blocks' = Sorted(Merge(Carved(cut'.blocks), bs))
       /\ nodes' = IF nodes # <<>> THEN nodes ELSE SetToSeq(ns)
  /\ pc' = "use"
  /\ UNCHANGED <<file, log, walk, role, cache, left, report>>

\* The command line: each tree is replaced only if it is the one that failed.
Recover ==
  /\ pc = "recover" /\ role \in {"verify", "salvage"}
  /\ cut' \in Cuts
  /\ \E ns \in OnePer(Entries("NBT", cut'.pages), "nid"),
        bs \in OnePer(Entries("BBT", cut'.pages), "bid") :
       /\ IF blocks # <<>> THEN UNCHANGED <<blocks, cache>>
          ELSE /\ blocks' = Sorted(Merge(Carved(cut'.blocks), bs))
               /\ cache' = {MapOf(blocks')}
       /\ nodes' = IF nodes # <<>> THEN nodes ELSE SetToSeq(ns)
  /\ pc' = "use"
  /\ UNCHANGED <<file, log, walk, role, left, report>>

\* The window: what was carved is adopted, whichever tree failed.
Load ==
  /\ pc = "recover" /\ role \in {"export", "rebuild"}
  /\ cut' \in Cuts
  /\ cache' = {MapOf(SetToSeq(Carved(cut'.blocks)))}
  /\ \E ns \in OnePer(Entries("NBT", cut'.pages), "nid") :
       nodes' = IF nodes # <<>> THEN nodes ELSE SetToSeq(ns)
  /\ pc' = "use"
  /\ UNCHANGED <<file, log, walk, role, blocks, left, report>>

-----------------------------------------------------------------------------
\* Pst::block: whether bytes come back, and the problem it records of them.
Place(bid) == (CHOOSE m \in cache : TRUE)[bid]

Lies(bid) ==
  \E m \in cache : /\ bid \in DOMAIN m /\ m[bid] \in DOMAIN file.disk
                   /\ file.disk[m[bid]].id = bid

Reads(bid) == Lies(bid) /\ file.disk[Place(bid)].decodes # "no"

\* Slip: a checksum that does not match is counted and not listed.
LogOfBlockCounted(bid) ==
  IF Lies(bid) /\ ~ file.disk[Place(bid)].sound THEN [log EXCEPT !.count = @ + 1] ELSE log

LogOfBlock(bid) ==
  IF ~ Lies(bid) THEN log
  ELSE LET at == Place(bid)
           l == IF file.disk[at].sound THEN log ELSE Warned(log, Problem("checksum", at))
       IN  IF file.disk[at].decodes = "short" THEN Pushed(l, Problem("length", at)) ELSE l

\* The first lookup without a cache walks the block tree, once more or for the
\* first time.
FillCache ==
  /\ pc \in {"check", "read", "tables"} /\ left # <<>> /\ cache = {}
  /\ pc' = "cache"
  /\ BeginWalk("BBT")
  /\ UNCHANGED <<file, log, role, nodes, blocks, cache, cut, left, report>>

CacheFilled ==
  /\ Walked("cache")
  /\ cache' = {MapOf(Delivered)}
  /\ pc' = IF role = "export" THEN "read"
           ELSE IF "rotten" \in DOMAIN report THEN "tables" ELSE "check"
  /\ UNCHANGED <<file, log, walk, role, nodes, blocks, cut, left, report>>

BeginVerify ==
  /\ pc = "use" /\ role \in {"verify", "salvage"}
  /\ left' = [i \in DOMAIN blocks |-> blocks[i].bid]
  /\ report' = [ok |-> 0, bad |-> 0, before |-> ProblemCount(log)]
  /\ pc' = "check"
  /\ UNCHANGED <<file, log, walk, role, nodes, blocks, cache, cut>>

BeginExport ==
  /\ pc = "use" /\ role = "export"
  /\ left' = [i \in DOMAIN nodes |-> nodes[i].data]
  /\ report' = [ok |-> 0, bad |-> 0, before |-> ProblemCount(log)]
  /\ pc' = "read"
  /\ UNCHANGED <<file, log, walk, role, nodes, blocks, cache, cut>>

ReadBlock ==
  /\ pc \in {"check", "read"} /\ left # <<>> /\ cache # {}
  /\ log' = LogOfBlock(Head(left))
  /\ report' = IF Reads(Head(left)) THEN [report EXCEPT !.ok = @ + 1]
               ELSE [report EXCEPT !.bad = @ + 1]
  /\ left' = Tail(left)
  /\ UNCHANGED <<file, walk, role, pc, nodes, blocks, cache, cut>>

ExportEnds ==
  /\ pc = "read" /\ left = <<>>
  /\ pc' = "done"
  /\ UNCHANGED <<file, log, walk, role, nodes, blocks, cache, cut, left, report>>

LastNode(nid) == nodes[SelectLastInSeq(nodes, LAMBDA n : n.nid = nid)]

\* The folders' own tables, with the folder each is of.
Tables ==
  FoldLeft(LAMBDA ts, f :
             ts \o SelectSeq([i \in 1 .. Len(nodes) |-> [folder |-> f, table |-> nodes[i]]],
                             LAMBDA t : f.nid[1] = "folder" /\ t.table.nid[2] = f.nid[2]
                                        /\ t.table.nid[1] \in {"hierarchy", "contents"}
                                        /\ t.table = LastNode(t.table.nid)),
           <<>>, nodes)

BlocksChecked ==
  /\ pc = "check" /\ left = <<>>
  /\ report' = [ok |-> report.ok, bad |-> report.bad, before |-> report.before,
                rotten |-> ProblemCount(log) - report.before, compared |-> 0, disagree |-> 0]
  /\ left' = Tables
  /\ pc' = "tables"
  /\ UNCHANGED <<file, log, walk, role, nodes, blocks, cache, cut>>

Pointed(t) ==
  LET kinds == IF t.table.nid[1] = "hierarchy" THEN {"folder", "search"} ELSE {"message"} IN
  {n.nid : n \in {n \in ToSet(nodes) : /\ n.nid[1] \in kinds
                                       /\ n.parent = t.folder.nid /\ n.nid # t.folder.nid}}

\* A table that cannot be read is not compared, and nothing says so.
CompareTable ==
  /\ pc = "tables" /\ left # <<>> /\ cache # {}
  /\ LET bid == Head(left).table.data
         at == Place(bid) IN
       /\ log' = LogOfBlock(bid)
       /\ report' = IF Reads(bid) /\ file.disk[at].table
                    THEN [report EXCEPT !.compared = @ + 1,
                            !.disagree = IF file.disk[at].rows = Pointed(Head(left))
                                         THEN @ ELSE @ + 1]
                    ELSE report
  /\ left' = Tail(left)
  /\ UNCHANGED <<file, walk, role, pc, nodes, blocks, cache, cut>>

\* "No damage found." is printed when the list of problems is empty; what the
\* index has lost is counted by a sweep of its own.
Report ==
  /\ pc = "tables" /\ left = <<>>
  /\ \E c \in Stops(DOMAIN file.pages) :
       report' =
         [ok |-> report.ok, bad |-> report.bad, before |-> report.before,
          rotten |-> report.rotten, compared |-> report.compared, disagree |-> report.disagree,
          extra |-> {e.nid : e \in Entries("NBT", c)} \ {n.nid : n \in ToSet(nodes)},
          clean |-> (log.listed = <<>>), problems |-> ProblemCount(log)]
  /\ pc' = "done"
  /\ UNCHANGED <<file, log, walk, role, nodes, blocks, cache, cut, left>>

\* index_blocks in the window: the header's tree if it gives anything.
BeginRebuild ==
  /\ pc = "use" /\ role = "rebuild"
  /\ pc' = "copy"
  /\ BeginWalk("BBT")
  /\ UNCHANGED <<file, log, role, nodes, blocks, cache, cut, left, report>>

IndexBlocks ==
  /\ Walked("copy")
  /\ IF Delivered # <<>> THEN blocks' = Delivered /\ UNCHANGED cut
     ELSE \E c \in Stops(DOMAIN file.disk) :
            cut' = [cut EXCEPT !.blocks = c] /\ blocks' = SetToSeq(Carved(c))
  /\ pc' = "done"
  /\ UNCHANGED <<file, log, walk, role, nodes, cache, left, report>>

Next ==
  \/ Open \/ Visited \/ NodesWalked \/ BlocksWalked \/ Recover \/ Load
  \/ FillCache \/ CacheFilled \/ ReadBlock
  \/ BeginVerify \/ BlocksChecked \/ CompareTable \/ Report
  \/ BeginExport \/ ExportEnds \/ BeginRebuild \/ IndexBlocks

Spec == Init /\ [][Next]_vars

-----------------------------------------------------------------------------
(* The blocks a command line run says it works with are the blocks its
   lookups find, wherever they were recovered from and however the tree was
   walked in between. *)
OneIndex ==
  role \in {"verify", "salvage"} /\ pc \in {"check", "tables"} /\ cache # {} =>
    cache = {MapOf(blocks)}

(* A recovered block index has no ghosts and no gaps: each entry's bytes are
   that block, whole, and every whole block before the point where carving
   stopped can be found.  On the command line so can one further on that an
   index page names which the sweep came to, when all the copies of its entry
   that the sweep met agree.  What both missed is lost, and nothing says so. *)
NoGhosts ==
  pc = "use" => \A m \in cache :
    /\ \A bid \in DOMAIN m : BlockIntact([bid |-> bid, ib |-> m[bid]])
    /\ \A ib \in DOMAIN file.disk :
         /\ SoundAt(ib)
         /\ \/ ib < cut.blocks
            \/ /\ role \in {"verify", "salvage"}
               /\ {e \in Entries("BBT", cut.pages) : e.bid = file.disk[ib].id}
                    = {[bid |-> file.disk[ib].id, ib |-> ib]}
         => file.disk[ib].id \in DOMAIN m

(* "No damage found." is not said of a file with damage that was met: no
   trouble with the header, no page lost or failing its checksum on the way
   to the blocks, no block of the index that was read and fails its own. *)
NothingUnsaid ==
  pc = "done" /\ role \in {"verify", "salvage"} /\ ~ file.refused =>
    (report.clean =>
       /\ file.troubles = <<>>
       /\ \A p \in Opened : file.pages[p].sound /\ {r.at : r \in Children(p)} \subseteq Opened
       /\ \A b \in ToSet(blocks) : Lies(b.bid) => file.disk[Place(b.bid)].sound)

-----------------------------------------------------------------------------
(* pstfree.rs: verify is to "check everything that can be checked", the "what
   is actually wrong with my file" command.  A block that cannot be read at
   all is counted in passing and is no problem in the list: the report of a
   file that has one ends in "No damage found." *)
AllClear ==
  pc = "done" /\ role \in {"verify", "salvage"} /\ ~ file.refused =>
    (report.clean => report.bad = 0)

=============================================================================
