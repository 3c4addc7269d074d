-------------------------------- MODULE Cfbf ---------------------------------
(***************************************************************************)
(* cfbf::build: the compound file that a .msg is.  Sectors are handed out  *)
(* in order, chained by the FAT; short streams share the mini stream,      *)
(* chained by a FAT of its own; the directory's entries form a search tree *)
(* per storage.  The FAT's own sectors are listed in the header and, past  *)
(* what it holds, in DIFAT sectors.  A reader starts from the header.      *)
(*                                                                         *)
(* A sector is a sequence of cells: bytes, ids, or directory entries, of   *)
(* each of which it holds a number of its own.  A name is its length and   *)
(* its rank among names of that length in upper case.  The items are       *)
(* listed each storage before what it holds: [name, parent, bytes], parent *)
(* the number of the storage or 0, bytes STORAGE for a storage.            *)
(***************************************************************************)
EXTENDS Naturals, Sequences, FiniteSets, SequencesExt

CONSTANTS
  SECTOR, MINI_SECTOR, MINI_CUTOFF,
  IDS,              \* how many ids a sector holds
  DIRS,             \* how many directory entries
  DIFAT_IN_HEADER,  \* how many of the FAT's sectors the header lists
  STORAGE,          \* in place of the bytes of a storage
  FREESECT, ENDOFCHAIN, FATSECT, DIFSECT, NOSTREAM

CeilDiv(n, d) == (n + d - 1) \div d
Fill(n, v) == [i \in 1 .. n |-> v]

\* n cells to a sector, the last one padded.
Sectors(cells, n, pad) ==
  [i \in 1 .. CeilDiv(Len(cells), n) |->
     [j \in 1 .. n |-> LET k == (i - 1) * n + j IN IF k <= Len(cells) THEN cells[k] ELSE pad]]

\* The links of a run of count sectors, or mini sectors, the first numbered first.
Links(first, count) ==
  [i \in 1 .. count |-> IF i = count THEN ENDOFCHAIN ELSE first + i]

\* An image under construction: [data, fat].
Chain(img, sectors) ==
  [data |-> img.data \o sectors, fat |-> img.fat \o Links(Len(img.fat), Len(sectors))]

-----------------------------------------------------------------------------
\* The format's order of siblings: length first.
Before(a, b) == a[1] < b[1] \/ (a[1] = b[1] /\ a[2] < b[2])

\* The order add_all sorts them in.
Sorted(a, b) == a[1] < b[1] \/ (a[1] = b[1] /\ a[2] < b[2])

\* The entries of one storage in their order; entry 0 is the root.
Siblings(items, parent) ==
  SetToSortSeq({i \in DOMAIN items : items[i].parent = parent},
               LAMBDA i, j : Sorted(items[i].name, items[j].name))

\* The middle of ids[lo .. hi], the root of the balanced tree over them.
Middle(ids, lo, hi) == IF lo > hi THEN NOSTREAM ELSE ids[lo + (hi - lo + 1) \div 2]

\* The entries with their subtrees, [id, left, right], over ids[lo .. hi].
Balanced(ids) ==
  LET below[lo \in 1 .. Len(ids) + 1, hi \in 0 .. Len(ids)] ==
        IF lo > hi THEN {}
        ELSE LET mid == lo + (hi - lo + 1) \div 2 IN
             {[id |-> ids[mid], left |-> Middle(ids, lo, mid - 1),
               right |-> Middle(ids, mid + 1, hi)]}
             \union below[lo, mid - 1] \union below[mid + 1, hi]
  IN  below[1, Len(ids)]

RootOf(items, parent) ==
  LET ids == Siblings(items, parent) IN Middle(ids, 1, Len(ids))

\* add_all: one entry per item, number i at place i + 1.
AddAll(items) ==
  LET links == UNION {Balanced(Siblings(items, p)) : p \in {0} \union DOMAIN items}
      Child(i) == IF items[i].bytes = STORAGE THEN RootOf(items, i) ELSE NOSTREAM
  IN  <<[name |-> <<0, 0>>, left |-> NOSTREAM, right |-> NOSTREAM,
         child |-> RootOf(items, 0), start |-> FREESECT, size |-> 0]>>
      \o [i \in DOMAIN items |->
            LET l == CHOOSE l \in links : l.id = i IN
            [name |-> items[i].name, left |-> l.left, right |-> l.right,
             child |-> Child(i), start |-> FREESECT, size |-> 0]]

-----------------------------------------------------------------------------
IsMini(bytes) == Len(bytes) < MINI_CUTOFF

\* One stream laid down: b is [img, mini, minifat, dirs].
Lay(b, i, bytes) ==
  LET placed(start) == [b.dirs EXCEPT ![i + 1].start = start, ![i + 1].size = Len(bytes)] IN
  IF bytes = <<>> THEN [b EXCEPT !.dirs = placed(ENDOFCHAIN)]
  ELSE IF IsMini(bytes)
  THEN LET cells == Sectors(bytes, MINI_SECTOR, 0)
           first == Len(b.minifat) IN
       [b EXCEPT !.mini = @ \o FlattenSeq(cells),
                 !.minifat = @ \o Links(first, Len(cells)),
                 !.dirs = placed(first)]
  ELSE [b EXCEPT !.img = Chain(@, Sectors(bytes, SECTOR, 0)),
                 !.dirs = placed(Len(b.img.fat))]

Streams(items) ==
  FoldLeftDomain(LAMBDA b, i : IF items[i].bytes = STORAGE THEN b ELSE Lay(b, i, items[i].bytes),
                 [img |-> [data |-> <<>>, fat |-> <<>>], mini |-> <<>>, minifat |-> <<>>,
                  dirs |-> AddAll(items)],
                 items)

FirstOf(img, cells) == IF cells = <<>> THEN ENDOFCHAIN ELSE Len(img.fat)

\* What the FAT and the DIFAT need when they are as large as s says.
Need(n, s) ==
  LET fat == CeilDiv(n + s[1] + s[2], IDS)
      most == IF fat = 0 THEN 1 ELSE fat
      over == IF most > DIFAT_IN_HEADER THEN most - DIFAT_IN_HEADER ELSE 0
  IN  <<most, CeilDiv(over, IDS - 1)>>

\* Slip: the need is worked out once and not again with its own size.
FatSizeOnce(n) == Need(n, Need(n, <<0, 0>>))

\* The code repeats it until it settles; each round can only ask for more, and
\* n + 2 rounds are more than it takes.
FatSize(n) == FoldLeft(LAMBDA s, k : Need(n, s), <<0, 0>>, Fill(n + 2, 0))

NoEntry == [name |-> <<0, 0>>, left |-> NOSTREAM, right |-> NOSTREAM, child |-> NOSTREAM,
            start |-> FREESECT, size |-> 0]

\* The sectors that list the FAT's sectors from where the header's list ends,
\* each with the number of the next.
DifatSectors(ids, first) ==
  LET rest == SubSeq(ids, DIFAT_IN_HEADER + 1, Len(ids))
      parts == Sectors(rest, IDS - 1, FREESECT)
  IN  [i \in DOMAIN parts |->
         Append(parts[i], IF i < Len(parts) THEN first + i ELSE ENDOFCHAIN)]

\* The image with its directory, then the FAT over all of it.
Sealed(img, minifatStart, minifatCount, dirStart) ==
  LET size == FatSize(Len(img.fat))
      fatStart == Len(img.fat)
      difatStart == fatStart + size[1]
      ids == [i \in 1 .. size[1] |-> fatStart + i - 1]
      fat == img.fat \o Fill(size[1], FATSECT) \o Fill(size[2], DIFSECT)
      whole == SubSeq(fat \o Fill(size[1] * IDS, FREESECT), 1, size[1] * IDS)
  IN  [header |-> [nFat |-> size[1], dirStart |-> dirStart,
                   minifatStart |-> minifatStart, minifatCount |-> minifatCount,
                   difatStart |-> IF size[2] > 0 THEN difatStart ELSE ENDOFCHAIN,
                   nDifat |-> size[2],
                   fatIds |-> [i \in 1 .. DIFAT_IN_HEADER |->
                                 IF i <= size[1] THEN ids[i] ELSE FREESECT]],
       sectors |-> img.data \o Sectors(whole, IDS, FREESECT) \o DifatSectors(ids, difatStart)]

Build(items) ==
  LET b == Streams(items)
      mini == Sectors(b.mini, SECTOR, 0)
      withMini == Chain(b.img, mini)
      minifat == Sectors(b.minifat, IDS, FREESECT)
      withMinifat == Chain(withMini, minifat)
      dirs == [b.dirs EXCEPT ![1].start = FirstOf(b.img, mini), ![1].size = Len(b.mini)]
  IN  Sealed(Chain(withMinifat, Sectors(dirs, DIRS, NoEntry)),
             FirstOf(withMini, minifat), Len(minifat), Len(withMinifat.fat))

-----------------------------------------------------------------------------
\* A reader's way from the header to the bytes.
Linked(start, links) ==
  LET step(l, k) == IF l.at \in 0 .. Len(links) - 1
                    THEN [at |-> links[l.at + 1], run |-> Append(l.run, l.at)] ELSE l
  IN  FoldLeft(step, [at |-> start, run |-> <<>>], links).run

Cells(f, run) == FoldLeft(LAMBDA cs, s : cs \o f.sectors[s + 1], <<>>, run)

\* The numbers of the FAT's sectors: those in the header, then the DIFAT's.
FatRun(f) ==
  LET more(l, k) == LET s == f.sectors[l.at + 1] IN
                    [at |-> s[IDS], run |-> l.run \o SubSeq(s, 1, IDS - 1)]
      over == FoldLeft(more, [at |-> f.header.difatStart, run |-> <<>>],
                       Fill(f.header.nDifat, 0))
  IN  SubSeq(f.header.fatIds \o over.run, 1, f.header.nFat)

\* What a reader works with: the links, the entries, the mini stream.
Opened(f) ==
  LET fat == Cells(f, FatRun(f))
      dirs == Cells(f, Linked(f.header.dirStart, fat))
  IN  [file |-> f, fat |-> fat, dirs |-> dirs,
       minifat |-> Cells(f, Linked(f.header.minifatStart, fat)),
       mini |-> Cells(f, Linked(dirs[1].start, fat))]

\* The entry of a name in a storage, looked for down its search tree.
Search(r, dir, name) ==
  LET step(at, k) ==
        IF at = NOSTREAM \/ r.dirs[at + 1].name = name THEN at
        ELSE IF Before(name, r.dirs[at + 1].name) THEN r.dirs[at + 1].left
        ELSE r.dirs[at + 1].right
  IN  IF dir = NOSTREAM THEN NOSTREAM ELSE FoldLeft(step, r.dirs[dir + 1].child, r.dirs)

Bytes(r, d) ==
  LET cells == IF d.size >= MINI_CUTOFF THEN Cells(r.file, Linked(d.start, r.fat))
               ELSE FoldLeft(LAMBDA cs, s :
                               cs \o SubSeq(r.mini, s * MINI_SECTOR + 1, (s + 1) * MINI_SECTOR),
                             <<>>, Linked(d.start, r.minifat))
  IN  SubSeq(cells, 1, d.size)

\* Every item is found where it was put, and has its bytes.
ReadsBack(items) ==
  \A r \in {Opened(Build(items))} :
    LET At(i) == IF items[i].parent = 0 THEN Search(r, 0, items[i].name)
                 ELSE Search(r, Search(r, 0, items[items[i].parent].name), items[i].name)
    IN  \A i \in DOMAIN items :
          /\ At(i) = i
          /\ items[i].bytes # STORAGE => Bytes(r, r.dirs[i + 1]) = items[i].bytes

\* Every sector of the file is in the FAT, as what it is.
Described(items) ==
  \A r \in {Opened(Build(items))} :
    LET n == Len(r.file.sectors) IN
    /\ n <= Len(r.fat)
    /\ \A s \in 0 .. Len(r.fat) - 1 : (s >= n) = (r.fat[s + 1] = FREESECT)
    /\ {s \in 0 .. n - 1 : r.fat[s + 1] = FATSECT} = ToSet(FatRun(r.file))
    /\ Cardinality({s \in 0 .. n - 1 : r.fat[s + 1] = DIFSECT}) = r.file.header.nDifat

=============================================================================
