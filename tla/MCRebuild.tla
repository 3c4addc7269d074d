------------------------------ MODULE MCRebuild ------------------------------
(***************************************************************************)
(* Rebuild of a store of five blocks and four nodes: an XBLOCK over two    *)
(* others, an id with its low bit set, an index listed in two orders, and  *)
(* sections so short that blocks and tree pages both meet map pages.       *)
(***************************************************************************)
EXTENDS Rebuild

B(bid, cb, cref, kids) == [bid |-> bid, cb |-> cb, cref |-> cref, kids |-> kids]

Sorted == << B(4, 3, 1, {}), B(9, 7, 0, {}), B(12, 9, 2, {}),
             B(18, 2, 1, {4, 12}), B(20, 6, 1, {}) >>

MCBlockLists == {Sorted, Reverse(Sorted), <<>>}

N(nid, data, sub, parent) == [nid |-> nid, data |-> data, sub |-> sub, parent |-> parent]

MCNodeLists == {
  << N(290, 8, 0, 290), N(33, 20, 0, 0), N(40, 18, 12, 290), N(41, 0, 0, 290) >>,
  << N(33, 18, 0, 0), N(290, 4, 20, 290) >> }

MCLeafFan == [NBT |-> 2, BBT |-> 2]
=============================================================================
