------------------------------- MODULE MCIndex -------------------------------
(***************************************************************************)
(* One store with every piece of damage, or two, out of a list that hits   *)
(* both trees, their roots, the blocks and the header.  Pages 1 to 3 are   *)
(* the node tree and 7 to 9 the block tree; 4 to 6 are an older and taller *)
(* node tree that was unlinked, so that a root that goes astray meets the  *)
(* depth limit, and 10 a block leaf whose entry is out of date.            *)
(***************************************************************************)
EXTENDS Index

MCRoles == {"verify", "salvage", "export", "rebuild"}

Ref(at) == [at |-> at, id |-> 10 + at]
Page(at, kind, leaf, ents) ==
  [same |-> TRUE, id |-> 10 + at, sound |-> TRUE, kind |-> kind, fits |-> TRUE,
   leaf |-> leaf, ents |-> ents]
NodeOf(kind, n, data) == [nid |-> <<kind, n>>, parent |-> <<"folder", 1>>, data |-> data]
BlockOf(bid, ib) == [bid |-> bid, ib |-> ib]
Data(id) == [id |-> id, sound |-> TRUE, decodes |-> "yes", table |-> FALSE, rows |-> {}]

Whole ==
  [refused |-> FALSE, troubles |-> <<>>, nbt |-> Ref(1), bbt |-> Ref(7),
   pages |-> <<
     Page(1, "NBT", FALSE, <<Ref(2), Ref(3)>>),
     Page(2, "NBT", TRUE, <<NodeOf("folder", 1, 1), NodeOf("contents", 1, 2)>>),
     Page(3, "NBT", TRUE, <<NodeOf("message", 2, 3)>>),
     Page(4, "NBT", FALSE, <<Ref(5)>>),
     Page(5, "NBT", FALSE, <<Ref(6)>>),
     Page(6, "NBT", TRUE, <<NodeOf("message", 2, 1)>>),
     Page(7, "BBT", FALSE, <<Ref(8), Ref(9)>>),
     Page(8, "BBT", TRUE, <<BlockOf(1, 1), BlockOf(2, 2)>>),
     Page(9, "BBT", TRUE, <<BlockOf(3, 3)>>),
     Page(10, "BBT", TRUE, <<BlockOf(2, 1)>>)>>,
   disk |-> <<Data(1),
              [Data(2) EXCEPT !.table = TRUE, !.rows = {<<"message", 2>>}],
              Data(3)>>]

\* One page goes bad in one of the ways a reader can tell.
BadPage(f) ==
  UNION {{[f EXCEPT !.pages[p].sound = FALSE], [f EXCEPT !.pages[p].same = FALSE],
          [f EXCEPT !.pages[p].fits = FALSE], [f EXCEPT !.pages[p].id = 99]} :
         p \in {1, 2, 3, 7, 8, 9}}

\* A reference goes astray: to another page, back up, or out of the file.
BadReference(f) ==
  {[f EXCEPT !.nbt = Ref(a)] : a \in {0, 4, 7}}
  \union {[f EXCEPT !.bbt = Ref(a)] : a \in {0, 1}}
  \union {[f EXCEPT !.pages[1].ents[1] = r] : r \in {Ref(1), Ref(3), Ref(4), [at |-> 3, id |-> 98]}}
  \union {[f EXCEPT !.pages[5].ents[1] = Ref(4)], [f EXCEPT !.pages[7].ents[2] = Ref(8)]}

\* A block, or the entry that names it, goes bad.
BadBlock(f) ==
  UNION {{[f EXCEPT !.disk[b].sound = FALSE], [f EXCEPT !.disk[b].id = 97],
          [f EXCEPT !.disk[b].decodes = "no"]} : b \in {2, 3}}
  \union {[f EXCEPT !.disk[3].decodes = "short"], [f EXCEPT !.pages[9].ents[1].ib = 99],
          [f EXCEPT !.pages[3].ents[1].data = 96]}

BadHeader(f) ==
  {[f EXCEPT !.refused = TRUE],
   [f EXCEPT !.troubles = <<Problem("header", 0)>>],
   [f EXCEPT !.troubles = <<Problem("header", 0), Problem("header", 0)>>]}

Damaged(f) == BadPage(f) \union BadReference(f) \union BadBlock(f) \union BadHeader(f)

MCFiles == {Whole} \union Damaged(Whole) \union UNION {Damaged(f) : f \in Damaged(Whole)}
=============================================================================
