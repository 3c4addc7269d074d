-------------------------------- MODULE BTree --------------------------------
(***************************************************************************)
(* The two B-trees of a PST as build_tree writes them, bottom up, and the  *)
(* search a reader makes in them.  rebuild and convert both index what     *)
(* they wrote this way.                                                    *)
(*                                                                         *)
(* A page is a record [at, bid, ptype, level, ents]; a leaf entry is any   *)
(* record with a "key", an entry above it is [key, bid, at].  A cursor is  *)
(* [next, bid]: the next free offset and the next page id.                 *)
(***************************************************************************)
EXTENDS Layout, Sequences, FiniteSets, SequencesExt

CONSTANTS
  LEAF_FAN,   \* entries of a leaf page, by ptype: 15 (NBT), 20 (BBT) in the code
  INNER_FAN   \* entries of a page above the leaves, 20 in the code

ASSUME FanAssumption ==
  /\ LEAF_FAN \in [{"NBT", "BBT"} -> Nat \ {0}]
  /\ INNER_FAN \in Nat \ {0, 1}

\* ents cut into pages of at most fan entries.
Chunks(ents, fan) ==
  [i \in 1 .. (Len(ents) + fan - 1) \div fan |->
     SubSeq(ents, (i - 1) * fan + 1, Min({i * fan, Len(ents)}))]

\* The pages of one level, each placed behind the one before it.
LevelPages(ents, fan, level, ptype, cur) ==
  LET parts == Chunks(ents, fan)
      at == PlaceAll(cur.next, [i \in 1 .. Len(parts) |-> PAGE], PAGE)
  IN  [i \in 1 .. Len(parts) |->
         [at |-> at[i], bid |-> cur.bid + 4 * (i - 1), ptype |-> ptype, level |-> level,
          ents |-> parts[i]]]

\* Slip: the id counter is not moved past the pages of the level.
LevelSameIds(ents, fan, level, ptype, cur) ==
  LET pages == LevelPages(ents, fan, level, ptype, cur)
  IN  [pages |-> pages, cur |-> [next |-> Last(pages).at + PAGE, bid |-> cur.bid]]

\* Pages that begin at cursor cur, and the cursor behind them.
UpTo(pages, cur) ==
  [pages |-> pages,
   cur |-> [next |-> Last(pages).at + PAGE, bid |-> cur.bid + 4 * Len(pages)]]

\* One level, and the cursor behind it.
BuildLevel(ents, fan, level, ptype, cur) ==
  UpTo(LevelPages(ents, fan, level, ptype, cur), cur)

\* Slip: a parent entry is keyed by the last key below it.
ParentsByLast(pages) ==
  [i \in 1 .. Len(pages) |->
     [key |-> Last(pages[i].ents).key, bid |-> pages[i].bid, at |-> pages[i].at]]

\* The entries of the level above: where each page's keys start, and the page.
Parents(pages) ==
  [i \in 1 .. Len(pages) |->
     [key |-> Head(pages[i].ents).key, bid |-> pages[i].bid, at |-> pages[i].at]]

\* All pages of a tree over leaves, which must not be empty, in the order they
\* are placed; the root is the last of them.
BuildTree(leaves, ptype, cur) ==
  LET upTo[d \in 0 .. Len(leaves)] ==   \* the levels 0 .. d, while there are more pages
        IF d = 0
        THEN LET l == BuildLevel(leaves, LEAF_FAN[ptype], 0, ptype, cur)
             IN  [pages |-> l.pages, below |-> 0, cur |-> l.cur]
        ELSE LET b == upTo[d - 1]
                 top == SubSeq(b.pages, b.below + 1, Len(b.pages))
                 l == BuildLevel(Parents(top), INNER_FAN, d, ptype, b.cur)
             IN  IF Len(top) = 1 THEN b
                 ELSE [pages |-> b.pages \o l.pages, below |-> Len(b.pages), cur |-> l.cur]
      all == upTo[Len(leaves)]
  IN  [pages |-> all.pages, root |-> Last(all.pages), cur |-> all.cur]

-----------------------------------------------------------------------------
\* What a reader finds for key k, starting at the page at offset root of a set
\* of pages that it can read: the leaf entries it lands on, none if the way
\* down leads to no page of the right kind, level and id.
Search(pages, root, ptype, k) ==
  LET down[p \in pages] ==
        LET le == {i \in 1 .. Len(p.ents) : p.ents[i].key <= k}
            e == p.ents[Max(le)]
        IN  IF le = {} THEN {}
            ELSE IF p.level = 0 THEN {f \in {e} : f.key = k}
            ELSE UNION {down[c] : c \in {c \in pages : /\ c.at = e.at
                                                       /\ c.bid = e.bid
                                                       /\ c.ptype = ptype
                                                       /\ c.level = p.level - 1}}
  IN  UNION {down[p] : p \in {p \in pages : p.at = root.at /\ p.bid = root.bid
                                            /\ p.ptype = ptype}}

=============================================================================
