# pstfree in TLA+

pstfree reads Outlook PST files, damaged ones above all, searches and exports
what is in them and writes clean ones. This directory holds TLA+ models of the
parts of it that are hard to test, the TLC runs that check them and TLAPS proofs
about eight of them. Paths such as `src/repair.rs` are relative to the repository
root.

    tlc -config MCSalvage.cfg MCSalvage         # one run
    tlapm RebuildProofs.tla                     # one proof

## The system

| Component | State | Operations | Talks to | What makes it correct |
|---|---|---|---|---|
| Placement (`repair.rs`: `place_aligned`, `reserved`, `block_span`) | the caller's cursor | place the next span | called by rebuild, build_level, convert | nothing on a map page, nothing overlaps, no hole, it ends |
| Index building (`repair.rs`: `build_level`, `build_tree`) | cursor, page id counter | cut entries into pages, level by level | placement | a reader's search finds each entry; ids are new |
| Repair (`repair.rs`: `rebuild`, `write_out`) | kept blocks, layout, write position, the target | verify, lay out, copy, remove on failure | reading; index building; the disk, twice | the new file indexes exactly what survived; no half file; a true report |
| Sweep (`ndb.rs`: `scan`) | copies of entries by id, counters | read windows, settle blocks, settle nodes | the file; `block_intact` | the live revision wins over what copy-on-write left behind |
| Carving (`ndb.rs`: `carve`) | window, boundary, blocks found | load a window, test a boundary | the file | same result as with the file in memory |
| Window (`pstfree-gui.rs`) | `App`, list rows, status bar, `busy`, dialogs | open, show folder, export, rebuild, find, close | worker thread through posted messages | one job at a time, on what was chosen; its end arrives |
| Reading (`ndb.rs`: `open`, `read_page`, `walk`) | file handle, warnings, seen pages | walk both trees | crypt, everything above | terminates on any bytes, loses no reachable entry |
| Data streams (`ndb.rs`: `block`, `node_blocks`, `subnodes`) | seen set, stack | follow XBLOCKs and subnode trees | reading | terminates; every block once |
| Index choice (`pstfree.rs` `index`, `verify`; `pstfree-gui.rs` `load`, `index_blocks`) | entries in use, the block cache, problems | walk, or else sweep and carve; adopt; report | the four above | lookups use the index that is listed; no damage met goes unsaid |
| Conversion (`convert.rs`) | the file being written, ids, subnode trees | copy each node, or leave it out | placement, index building, heaps | header last, ids new, a failed node leaves nothing that is indexed |
| Heaps and tables (`ltp.rs`) | properties, texts that wait, rows | `read_pc`, `read_tc`, `read_recipients`; `find` | data streams | what was written is read, or an error, or marked as missing |
| Export (`export.rs`) | the directory tree, counters | one message after the other | heaps, cfbf, html | what is counted as written is there; the folder chosen and all below it |
| Compound files (`cfbf.rs`) | sectors, their links, directory | `build` | export | a reader finds every item from the header on |
| Encodings, HTML (`crypt.rs`, `html.rs`) | – | bytes to bytes | reading, export | inverses |

What is hard: the two-pass rebuild, in which any read or write may fail;
arithmetic at the edges of map pages, windows and tree pages; deciding between
copies of index entries that a copy-on-write writer left behind, settled in hash
map order; a message loop that goes on running inside dialogs while a thread
posts to it. `PROJECT.json` lists these hazards with their lines.

## Modules

    Align ── Layout ─┬─ Placement ─────────────────────┬─ RebuildProofs
       │             └─ BTree ─┬─ Rebuild (with Lists) ────────┘
       │                       └─ Convert (with Lists) ─ ConvertProofs
       └─ Carve ─┬─ SweepProofs
    Store ─ Scan ┘
    Walk ── Index ── IndexProofs
    Streams ── Tables
    Cfbf ── Export (with Lists) ── ExportProofs
    Gui ── GuiProofs

`Rebuild` and `Convert` both implement `OutputFile`. All proof modules but
`GuiProofs` stand on `BasicLemmas`; `RebuildProofs` and `ConvertProofs` also share
`LayoutLemmas`, which has what both need of map pages, spans and trees.

Each `MC*` module and its cfg give one of them a small instance. In a model a
definition under a comment `Slip:` is not part of the system: it is a mistake
that the definition after it could have contained, and `PROJECT.json`
("mutants") names the property which refutes it.

**Align, Layout.** Rounding, map pages, the room a block takes, and the loop of
`place_aligned` both as the set of map pages in the way (`Clashes`) and as a
function (`PlaceAligned`) that the larger models use. `Reserved` is the code's
test; `MapByte` says the same section by section, and properties use `MapByte`.
`PlaceAll` is the cursor that `rebuild` and `build_level` keep: each span is placed
behind the one before it.

**Lists.** Filtering, sorting and joining, which the code takes from its library,
with definitions of their own: `Picked`, `InOrder`, `SortedSet` and `Joined` and
not `SelectSeq`, `SortSeq`, `SetToSortSeq` and `FlattenSeq`, inside which the
provers cannot look.

**Placement.** `place_aligned` one turn per step with the cursor of its callers:
`Ask` is a call, `Skip` one turn past a map page, `Settle` its return and the
caller's `next = at + len` (here `cursor`). `handed` is a history variable.

**BTree.** `build_level` and `build_tree` as functions from entries and a cursor
to pages, and `Search`, the lookup of a reader, which is not in this repository's
writer and is external. A tree without entries is outside `BuildTree`: `rebuild`
refuses it before the call.

**Rebuild.** `rebuild` and `write_out` for a Unicode source. `Check` verifies one
block; `LayOut` is everything between the passes; `Create`, `WriteBlock`,
`WritePage` and `Finish` write. Every fallible call has a failing disjunct:
`GiveUp` before the disk is touched, `RemoveAndFail` after. The new file is the
sequence of pieces put on disk with the offsets where they landed, so an index
that points elsewhere is seen. `damaged` is which blocks fail their checksum.
Two things are assumed: removing the target after a failure works, and nobody
else writes the source. Page checksums, signatures' arithmetic and the header's
remaining fields are abstracted; a piece carries the offset its signature was
made for.

**Convert.** `convert` and its writer `Out`. `Begin` plans what a node needs, as
the sequence of blocks that `Out::stream` and `Out::subtree` would write, with
references by place; `WriteBlock` puts down one of them under the next id, and
`EndNode` gives the node its entry or, when the plan failed, leaves it out with
its blocks already in the file. What `node_blocks` and `subnodes` return is data
of the source (`streams`, `trees`); `bad` are the ids under which nothing can be
read, at most one in the instance. What recurs through data in the code goes by
depth here: `Subtree` makes the plans of all trees of a source as they are when
nothing nests deeper than 0, 1, 2, ... levels, up to `MAX_NEST`, and takes a tree
that is deeper for one that fails, as the code does; `SameTree` compares trees and
`Whole` visits them in the same way. The state machine does not show it; the
proofs need it. `WriteFails` is `Out::block` failing in the padding or in the block:
`pos` is where `Out` believes to be, `end` where the next byte really goes, and
`pad` counts its zeroes before it writes them, so the two can part. `RECOVERS`
says whether a later write may succeed. The store that `pst_store` makes is one
block, index blocks are their entries, and a file has no other writer and is not
the source. A crash is a process that stops after any step: there is no call
that forces data to the disk, so a machine that stops is not covered.

**Store, Scan.** `Store` is Outlook, as far as `scan` depends on it: block ids
only go up, changes go to new pages and blocks, roots change over, and what was
unlinked stays until written over. It is external and is the reason the ids
order revisions at all. One thing in it is an assumption about Outlook: a
node's subnode tree is replaced and never only taken away. `Scan` reads windows
of pages, gathers copies, settles blocks (`SettleBlock`) by their bytes and then
nodes (`SettleNode`) by the code's sort key, in any order of ids, because the
code iterates over hash maps. What a page claims about its entry size is
abstracted: a page is whole or `ok` is false.

**Carve.** The loop of `carve`: `Load` reads a window that reaches back by
`Carry`, `Test` looks at one boundary, `Stop` ends. A trailer is what the bytes
before a boundary say, garbage included. `LatestUpTo` is the definition it is
held against: the same tests on the whole file in memory.

**OutputFile.** What a command that writes a file promises of the path: older,
absent, being written, whole, and when it may say "ok". `Rebuild` and `Convert`
each define what their state is as such a file (`Output`, an instance with a
refinement mapping) and have the abstract specification as a property. What is
"whole" is not a flag of theirs but what a reader finds: the indexes of the file
on disk resolve to what the source had.

**Walk, Index.** `Walk` is `walk` one page per step over pages that may be
anything: outside the file, of another tree, too deep, in a circle. `log` is
`Pst.warnings` and the count beside it, with the two ways a problem is recorded
(`Warned`: capped and counted; `Pushed`: neither). `Index` is what a command does
with it: `Open`, the walks, then `Recover` (the command line's `index`) or `Load`
and `IndexBlocks` (the window's), the cache that `block` fills on first use, and
`verify` block by block, table by table, to its last line. The sweep and the
carving stand for what they return: of every id on a sound leaf one of its
copies, and the sound blocks. Each of them breaks off at a read error without a
word, so each has a point behind which it saw nothing (`cut`). One bad sector may
end both, yet at different places, because their windows differ; the model
lets the two points be any. `Scan` and `Carve` have their loops.

**Streams, Tables.** `NodeBlocks` and `Subnodes` are functions of a file, a map
from ids to blocks. `Tables` reads it the way `read_pc`, `read_tc` and
`read_recipients` do, one B-tree item, one property or one row per step. The
instance lays each node out as a writer would and then damages it in at most one
place (`Damages`: a block, a subnode, the end of a block's heap). Bytes are units
of four bytes or more that read as a number, an id or bits. `DEEP` stands for
the stack: an XXBLOCK deeper than that ends the thread (`Crashed`).

**Cfbf, Export.** `Build` lays out a compound file from its items as `build`
does; `Opened`, `Search` and `Bytes` are a reader of such files, external, and
start from the header's cells alone. `Export` writes one message per step to a
file system of paths (`disk`); `FolderPath`, `SafeName`, `Wanted` and `PathIn`
are the code's functions on texts reduced to the tokens that make names
coincide. A write may fail and leaves what was written of it. Reading a message
either works or not (`Readable`); a message's attachments that cannot be read are
dropped by the code without a word and are not in the model.

**Gui.** Window and worker share nothing but the posted messages. `modal` is the
stack of dialogs and boxes. While one is up the window takes no input (Windows
disables a modal dialog's owner, which is external), yet `Deliver*` may happen
and the handler that opened the dialog goes on when it closes: `AskExport` is
`do_export` up to `pick_folder`, `StartExport` what follows. `status` keeps the
kinds of text the status bar can show. Rows are nodes tagged with the file whose
index they came from.

## Runs

| Run | Question | Bounds | States |
|---|---|---|---|
| `salvage` | Carving: do windows make a difference, is every index inside its window, does it end? Placing: do spans stay off map pages and off each other, leave no hole, and does the loop end? | six boundaries, five trailers each, a file of two windows that ends off the alignment, bad bytes; two sizes of block, one of which only just fits between map groups, the cursor over two more sections | 341 thousand |
| `rebuild` | Does the finished file give back exactly what survived, is nothing half-written left, is the report true? | five blocks in two orders, or none, any subset damaged, four nodes, fan-out 2, failure anywhere | 4 thousand |
| `convert` | Does a file with a header hold all that was not left out, is a node left out only for its own trouble, are ids new? | four sources: two-level streams and subnode trees, nested trees, a tree that contains itself, nothing at all; one id unreadable, failure anywhere | 4 thousand |
| `scan` | Does the sweep bring back the live index? | two nodes, two edits out of six kinds, one page or block rotten, five pages in windows of three | 719 thousand |
| `gui` | One job at a time, on what was chosen, rows and status in step, and an end to every job? | three files, two folders, two queued progress messages | 22 thousand |
| `index` | Is every loss recorded, is all that is healthy read, are lookups made in the index that is listed, is no met damage left unsaid? | ten pages, three blocks, four commands; every single damage of a list that hits both trees, roots, blocks and header, and every pair; sweep and carving broken off anywhere | 1.1 million |
| `export` | Is what is counted as written there, are the folder chosen and all below it taken, does a `.msg` open? | two folders under a root that may be each other's parents, three messages whose names coincide, three formats, a disk that fills up; 160 shapes of compound file, some with DIFAT sectors | 174 thousand |
| `tables` | Is a context what was written, or an error, or marked where it is lost? Has a table its rows, and the cells whose bytes are still there, and no bytes that are another's? | up to four properties in every order under one to three levels; up to three rows over one to three blocks; whole, or one damage | 97 thousand |

The bounds are enough because each instance holds the case its properties are
about: in `salvage` and `rebuild` sections are so short that blocks and pages
of both trees meet map pages and trees have three levels; in `convert` a block
holds two bytes and an index two entries, so streams are divided, need a second
level and run past it; in `salvage` the window
is shorter than the reach back, so each is read with carried bytes; in `scan` the
second edit may overwrite, or leave, what the first unlinked; in `index` a pair
of damages makes a stray reference meet a page twice, a tree that is lost beside
one that is not, and a list of problems at its cap; in `export` a sector holds
three ids, so files need DIFAT sectors and sizes at which the FAT needs one more
sector for itself; in `tables` a block has room for two rows of three and a rest.
`LIMIT`, `MAX_EDITS` and `MAX_POSTED` only stop the model from going on for ever.

The type invariants of `Placement`, `Carve`, `Scan`, `Convert` and `Gui` are
theorems and so no property of a run (each holds on the instances too); only
`rebuild`'s, which has the progress bar in it, is checked as well.

`salvage` checks the two algorithms of a repair in one run, first the carving of
a file, then a layout. Where a span goes depends on the cursor alone and not on
what was found, so the layout is followed behind one of the carved files only,
for every mix of spans that callers may ask for.

All eight say `CHECK_DEADLOCK FALSE`: each program ends (or, in `salvage` and
`gui`, may be left alone).

Some assumptions are narrower than the code. In `convert` a device that failed
once stays failed (`RECOVERS` is `FALSE`; `convert_torn_write` is the same with
`TRUE`). In `rebuild` the output is another file than the source (`TARGETS`).
`RebuiltFileResolves` is about what the index entries of kept nodes name, not
about what an XBLOCK names in turn. `EachIsThere` excepts a subject that reads
like another message's fallback name, and `SweepAgrees` says nothing of the folder
of a node. A sweep that broke off is outside the properties of `scan`. `NoGhosts`
does speak of it, and of carving that broke off: what carving came to is found,
and on the command line also what it did not come to, if the sweep came to a page
that names it; what neither came to is lost. `ListedWins` says *listed* and not
*readable*: see below. `TableAsWritten` speaks of cells whose bytes are still in the
file; `NeverSilent` speaks of the others, and is refuted. The list below has what is
so left out.

Four more runs each refute one sentence of the repository's documentation;
`PROJECT.json` ("findings") quotes them.

| Run | What TLC finds |
|---|---|
| `gui_stale_hits` | another file is opened during a search: the hits shown, and what is exported from them, are the first file's ids in the second |
| `convert_torn_write` | padding fails to be written, the node is left out, later writes succeed, and every block after it lies before where the index says: more than "space" is lost |
| `verify_all_clear` | a block that cannot be read is counted in passing, and `--verify` ends in "No damage found." |
| `tables_silent_cell` | a cell whose bytes are gone from the heap is read as an empty text, in a table that is read without an error; with such cells allowed, the next trace is a row whose cell is narrower than an id and which is read past its end, a panic |

Met while modelling, visible in the models or the code, and not given a run:

- the path written to may be the source's own under another spelling: creating
  it destroys the original, which `repair.rs:375-376` says is untouched;
- an XBLOCK survives, a block it names does not: the node is kept with a hole
  and not counted (`repair.rs:300`, against the comment at 246);
- copies of an entry that disagree about the folder only are chosen between by
  file position and not listed (`docs/findings.md:103-104` says they are);
- a heap whose second block is too big is divided and not reported
  (`convert.rs:187`, against 33-34);
- the fallback name of a second message can be the first name of a third, whose
  file is then written over it (`export.rs:236-242`: "one fallback is always
  enough");
- a block that a single entry names is listed whether it checks out or not
  (`ndb.rs:1021-1022`), so a newer revision whose only block was torn wins over an
  older one that can be read; the comment at `ndb.rs:1042-1044` says that those
  whose "data block did not survive ... lose first";
- a recipient table that cannot be read is a message without addressees
  (`ltp.rs:774-786`), where the head of that file promises an error;
- an XXBLOCK that names itself recurses until the stack ends (`ndb.rs:845`); a
  heap's B-tree whose branches share children is read once per path, so a small
  damaged one takes exponentially long (`ltp.rs:181-195`);
- "failed their checksum" in `--verify` counts every problem met while blocks
  are read, pages walked for the cache and inflated lengths too
  (`pstfree.rs:331`); the total of problems is the larger of two counts and not
  their sum (`ndb.rs:415`);
- the window replaces an intact block tree by what it carves when the node tree
  is the one that is lost, and `index_blocks` then copies by the header's tree
  again: the rebuilt file and what was on screen may differ
  (`pstfree-gui.rs:833-853`);
- the `.mbox` of the root folder's messages is written beside the directory
  exported to; an entry that was cut off runs into the next; attachments that
  cannot be read are dropped without a word;
- after a dropped block the progress bar stops short of its total
  (`repair.rs`, though a test is named for the bar landing on it);
- a read error inside `carve` or `scan` ends the sweep like the end of the file,
  and readable blocks behind it are lost;
- a job that panics leaves `busy` set, and every later job is refused;
- a conversion that fails leaves its file behind, without a header, where
  `rebuild` removes it; it panics in `build_tree` when no node has data;
- the first id of a conversion is past the ids that nodes name, not past those
  of blocks named only inside XBLOCKs or subnode trees;
- a failed open leaves "Nothing open." in the status bar though the previous
  file is still open.

## Fairness

`Placement`, `Rebuild`, `Carve` and `Scan` are straight-line code on one thread;
weak fairness of their steps says that the thread goes on. In `Placement` only
the loop is fair, not its callers; in `Scan` only the sweep, not the writer. From
the fairness of `Rebuild` follows that it implements `OutputFile` with its
liveness; `Convert`, `Index`, `Export` and `Tables` have safety properties only
and no fairness (`convert` implements the safe part). In
`Gui` it is assumed of `Complete` (a job that does not panic ends) and of
`Deliver` (some message loop is always pumping, the window's or the dialog's).
Nothing is assumed of the user: a box may stay open for ever.

## Proofs

| Theorems | Property | For every |
|---|---|---|
| `PlacementClearOfMaps`, `PlacementForward`, `PlacementNoHole`, `PlacementAligned`, `PlacementType` | `ClearOfMaps`, `ForwardAndDisjoint`, `NoHoleLeft`, `Aligned` of `salvage` | page, block and section size, mix of spans, length of file |
| `CarveInsideWindow`, `CarveSameAsUnwindowed`, `CarveFindsAll`, `CarveType` | `InsideWindow`, `SameAsUnwindowed`, `FindsAll` of `salvage` | alignment, trailer, window, longest block, file |
| `OneJobAtATime`, `JobsAsAsked`, `StatusWhenIdle`, `RowsMatchShown`, `GuiTypes` | the safety properties of `gui` | set of files, folders and messages, length of queue |
| `ScanAgrees`, `ScanResolves`, `ScanLosesNothing`, `ScanListedWins`, `ScanAccounts`, `ScanTypes` | the safety properties of `scan` | history of the store, damage, window, order of settling |
| `WalkRecordsLosses`, `WalkReadsHealthy` | `LossRecorded`, `HealthyPathsRead` of `index` | file, depth limit, cap on problems |
| `LookupsUseOwnIndex`, `RecoveredIsWhole`, `NothingGoesUnsaid` | `OneIndex`, `NoGhosts`, `NothingUnsaid` of `index` | the same, and points where sweep and carving stop |
| `ExportKeepsAll`, `ExportOnlyChosen` | `EachIsThere`, `OnlyChosen` of `export` | mailbox, folder tree, circles in it included, coincidence of names, disk |
| `RebuildTypeOK`, `RebuildKeepsOffMaps`, `RebuildFreshIds` | `TypeOK`, `MapSlotsEmpty`, `IdsFresh` of `rebuild` | index, damage, page, block and section size, fan-out |
| `RebuiltResolves`, `RebuildTellsTruth` | `RebuiltFileResolves`, `ReportHonest` of `rebuild` | the same, for indexes without an id twice (`Unique`) |
| `RebuildIsOutput` | the safe part of `ImplementsOutput` (`Output!Safety`) | the same |
| `ConvertIdsFresh` | `IdsFresh` of `convert` | source, page, block and section size, limits of blocks and nesting, on a device that stays failed (`~ RECOVERS`) |
| `ConvertOpensOnlyWhole`, `ConvertLeftOutForCause`, `ConvertTypeOK` | `OpensOnlyWhole`, `LeftOutForCause` of `convert`, and the types | the same, for sources whose nodes have ids of their own (`Unique`) |
| `ConvertIsOutput` | `ImplementsOutput` of `convert`, all of it | the same |
| `SearchFinds`, `PlaceAlignedIs`, `TreeLaid`, `StreamReads`, `TreeReads`, `CauseIs`, `AlignUpIsLeast`, `PickedIs`, `SortedIs`, `SortedSetIs`, `JoinedTwice` | lemmas about operators | argument |

*Placement.* None of the properties is inductive alone: a settled span is safe
because of where the candidate stood. `PlaceInv` adds `Candidate`: the candidate lies
at or behind the cursor and is aligned. The heart is `NoClashIffClear`: the code
tests the pages a span touches, and because maps begin and recur on page
boundaries (`MapsOnPages`) no clash among pages means no map byte in the span,
and a clash means one. `SkippedSpansClash` then gives `NoHoleLeft`: each offset
that `Skip` passes over still runs through the map page it met.

*Carve.* `CarveInv` adds `ReachesBack` (a window that does not start at 0 starts at
least `Carry` before the boundary) and `StaysInside`. From the first follows that
no slice index wraps (`InsideWindow`), since no acceptable trailer claims more
than `Carry`; `LatestInsert` and `LatestSame` say how one more boundary changes
the reference result, and so that `Insert` keeps `SameAsUnwindowed`.

*Gui.* `GuiInv` adds `Stack` and `Queue` to the properties. `Stack`: at most two
dialogs or boxes are up, two only while no job runs; a dialog that ends in a job
is the only thing up, and what an export is to write are messages of the file the
window shows. `Queue`: a queue that is not empty has a job behind it or ends with
the job's last message, and it is no longer than the cap. Neither `OneJob` nor
`JobAsAsked` is inductive without both: what makes a handler safe to go on with
after its dialog closes is a check it made before the dialog opened.

*Scan.* `StoreInv` is what copy-on-write keeps true of the file: every entry on a
leaf, live or left behind, carries ids already handed out and is no later than
the live entry of its id. `SweepInv` says of the sweep that its copies are the
entries of the pages before `at`, and of each settled id by which copy it was
settled; `Tally` holds the counters.

*Walk, Index.* `IndexInv` is `WalkInv`, `HealthInv`, `UnderWay` and `Lookups`.
`WalkInv` accounts for every reference of an opened page: opened, waiting, or
recorded at its offset. `HealthInv` follows the healthy pages of any grading by
depth: such a page waits at its own depth, is opened once seen, and before that
is within reach of an opened page one level up; the depth limit does not cut it
because a waiting page is no deeper than its level says. `UnderWay` says that the
state is what so many turns of one function make of the header, so that a second
walk reads the same; `Lookups` ties the cache to the index in use.

What is recovered rests on `MapIs` (the map a list of entries makes names for an
id an entry of the list, and has every id of it) and on `CarvedAre` and `SweptAre`
(a carved entry is its block, whole; the swept set has a copy of every id), which
`RecoversAll` and `LoadsAll` put together for the command line and the window.
`NothingUnsaid` is about three things that happen at different times, and `Saying`
keeps each from its own moment on: what the header or an opened page has wrong is on the
list (`Noticed`), a block of the index waits for its turn or was looked up, and if
it failed is on the list (`InTurn`, which also goes through the second walk that
the first lookup may begin), and the report is made of the list as it stands
(`Phases`). No step after `Open` takes the last problem off the list
(`ListStays`), though the list has a cap.

*Export.* `ExportInv` says of every message counted that its file lies whole
where its name leads (`Kept`) and of every message to come that it is not
counted yet. The step rests on `PathIn`: the next path is not on the disk, or an
mbox that is appended to, or the subject with the message's own id, so that of
the files already there only one whose subject reads like that can be hit, and
this one `EachIsThere` excepts. `ChoiceInv` adds that what was counted and what is
left make up what was chosen, and `WantedBelow` that this is the folder and all
below it: a pass of `subtree` adds an id or changes nothing (`PassedOnce`), and
there are no more ids than nodes, so that the passes end with a set that has the
children of all its folders (`WantedAll`), the least such set.

*Rebuild.* What the state machine does is one half: `RebuildInv` says that the
plan is the layout of what survived the first pass, that the disk holds the
header and the first `i` pieces of the plan, each at the offset the plan has for
it, and that the write position is not past the place of any piece to come, for
which reason padding never writes a piece elsewhere than planned. The other half
is what a layout is, and it rests on lemmas about the operators, bottom up:
`PlaceAlignedIs` (from every offset the loop reaches a span that fits: behind
every map group there is room for it, `RoomAhead`, and no turn passes it over),
`PlaceAllIs` (spans one behind the other), `ChunksIs` (entries are cut into
parts that are not empty and leave nothing out), `LevelIs`, `TreeGoesUp` and
`TreeLaid` (the pages of all levels of a tree), `LayoutIs` (blocks, the node tree,
the block tree).

That the finished file resolves needs both halves and a third, the reader.
`SearchFinds` follows `build_tree` upwards: if each page of a level leads to the
right entries for the keys from its first one to the first of the next page, then
so does each page of the level above (`ParentsFind`), and a level of one page, the
root, answers for all keys. Other pages in the file do no harm, because each is
known by an id of its own (`PagesApart`). `SiftInv` adds to `RebuildInv` what the
blocks kept are (`Sifting`), what the caller was told (`Reporting`) and what is at
the target (`Telling`). Then `WholeResolves`: with the last page written, the
file resolves; and `HalfFindsNothing`: before that it does not, because the root
of the block tree is the last page of all. The two together say what `OutputFile`
sees in each state (`Seen`), and so that each step is one it allows.

`Unique` is a hypothesis of the last three theorems about rebuild and not an
assumption on the constants: the two indexes list no id twice. Indexes from `scan`
and `carve` are made from maps keyed by id, and a sound tree has a key once. A
damaged tree that a walk goes through may name an entry twice; rebuild then writes
both, and a search finds the one that comes last. The other theorems about rebuild
need no such hypothesis.

*Convert.* Three things are proved apart and then put together: what a plan is,
what the state machine does with it, and what a reader of the new file makes of
it.

A plan is a sequence of blocks that name each other by their place in it. Putting
one plan behind another moves its references (`Then`), and `Within` says that a
plan lies somewhere inside a longer one with its references moved along; it
survives everything that is put behind (`WithinLonger`). So each subnode's blocks
can be followed from the plan of its own stream and tree into that of the whole
node (`AddIs`, `GatheredStep`, `PlanOfIs`). Once a plan's blocks are in a file
under ids that count up (`Holds`), a reader who starts from the id of the plan's
root finds what was laid out: first the entries of one index, of one level or two
(`TreeOverReads`), then a divided stream (`StreamReads`), then a tree with all
below it (`TreeReads`, by induction over the depth), and with both the node
(`NodeReads`). `CauseIs` says that a plan fails exactly for what `Whole` excludes:
the plan is made from the deepest trees up and `Whole` goes from the root down,
and both say that some tree or stream within reach cannot be read or is too big,
or that something is still there below the last level (`SubtreeFails`).

`FileInv` is about the file as a file: while no write has failed, `pos` is its
end, its first pieces are the blocks, each where its entry in `bbt` says and under
the id that the counter had, and behind them come the pages of the layout.
`NodesInv` is about nodes: one that is dealt with is named and has no entry, or
all the blocks of its plan stand in the file (`Stands`) and its entry leads to
their roots; of the node in hand as many as were written. Nothing written is ever
touched again (`OutGrows`, `StandsStays`), and that is why a node left out
half-way, whose blocks stay in the file without an entry, does no harm to the
others. Since the ids of blocks only go up and the nodes are taken in the order of
their ids, both trees are built over ascending entries, so `SearchFinds` applies,
and a finished file leads to every block by its id (`ReadableIs`) and to every
node (`Closed`). `KeysInv` says that the entries ascend after a failed write too,
which the types of the plan need. `OnlyFinishedOpens` is the other half of
`OpensOnlyWhole`: until the last write there is no header.

Two hypotheses. `~ RECOVERS`: a device that failed once stays failed; without it
the properties are false, as `convert_torn_write` shows. `Unique`: no two nodes of
the source have one id. A sound node tree has a key once, and so has the index
that `scan` makes; a damaged tree that a walk goes through may name a node twice,
and then the conversion writes both and a search finds one. The sources of the run
have nodes with ids of their own, so that the run says nothing else.
`ConvertIdsFresh` does not need it.

Induction over data. The library's induction theorems take an operator as a
parameter, which the provers at hand cannot instantiate. `Induct` states
induction for a claim that is given as the set of naturals it holds for, and
`Recursion` that a recursion over `0 .. N` has a solution when its step is given
as a function. With the two of them the recursive functions of `Layout`,
`BTree`, `Lists` and `Walk` are open to proof; models that are proved about use
such functions, and neither folds nor `SelectSeq` and `SortSeq`.

Assumed, each in the module that declares the constants:

- `LayoutAssumption`: sizes are positive, maps begin and recur on page boundaries,
  a page is a multiple of the block alignment, a section is longer than its maps
  (512, 64, 0x4400, 253952 and 4 in the code). `SizesAssumption`,
  `CarveAssumption`: sizes are naturals; from trailer to boundary is no more than
  the alignment (16, 24 or 12 bytes against 64 or 512).
- `FanAssumption`: a page holds an entry, and two above the leaves (15 and 20).
- `RebuildAssumption`: entries have fields that are naturals, as in the code's
  structures; a block, whose length has 16 bits, is shorter than what a section
  has between its maps (65552 against 251904 bytes); the header ends before the
  first offset a layout uses; the essential nodes are numbers.
- `StoreAssumption`: a store has a node and a folder, and a leaf of each tree.
  `ScanAssumption`: a window holds a page.
- `WalkAssumption`, `IndexAssumption`: a file is finite, its references are an
  offset and an id, the entries of its block tree's leaves an id and an offset,
  its pages lie at offsets; anything may stand in them.
- `ExportAssumption`: names are texts, a directory is no file, and a mailbox lists
  one entry per node id: `scan` and a walk of a sound tree deliver that. For an
  index with an id twice it is not so, and there the "unique" fallback name of
  `export.rs:236-238` is not unique.
- `GuiAssumption`: messages have numbers, folders are none of them, the queue of
  the model is finite.
- `ConvertAssumption`: a block and an index block hold at least one unit, and
  whatever a block may hold fits between the maps of a section (8176 bytes against
  251904); maps do not begin at offset 0. `SourcesAssumption`: what the nodes and
  subnodes of a source name is an id or 0 for nothing; a stream is a finite
  sequence of blocks and a tree has finitely many subnodes. Any stream and any
  tree may be one that cannot be read, and trees may contain each other.

Only model-checked: `MsgReads` of `Export`, `ContextComplete` and `TableAsWritten`
of `Tables`, and all liveness (`Settles`, `Ends`, `Finishes`, `JobEnds`, the end of
a rebuild), which is out of the prover's reach. `MsgReads` is about `Cfbf`, whose
`Build` and reader are folds over the sectors of a file; the two of `Tables` are
about files laid out by the instance itself and read by folds over heaps and
blocks. Neither folds nor what a CONSTANT's value was made by can be proved about
as they stand.

## Not modelled

`crypt.rs` (two byte tables that are each other's inverses), `html.rs` (strings
to strings), and of `ltp.rs` the search `find`, the names of properties, body
text and the decodings of single values: functions of bytes without state, whose
unit tests say what a model would. Of `export.rs` the text of messages. Printing
and window layout have no properties. Byte layouts of pages, headers and trailers
are in the models as what they are good for: whether a page fits, a checksum
matches, an id is the one expected.

## Plan

1. **Export**: `MsgReads`, sector by sector, with the folds of `Cfbf` as
   recursive functions, the way `Convert` has them now.
2. **Tables**: the writer's layout, which is the instance's, as operators of a
   module of its own, so that `ContextComplete` and `TableAsWritten` can be stated
   for every node that can be laid out.
