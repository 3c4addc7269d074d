------------------------------ MODULE MCSalvage ------------------------------
(***************************************************************************)
(* The two algorithms a repair stands on, one after the other: the blocks  *)
(* of a file are found by carving, and a new file is laid out.  Where a    *)
(* span goes depends on the cursor alone and not on what was found, so the *)
(* layout is followed, for every mix of spans, behind one of the files.    *)
(*                                                                         *)
(* Carving goes over every file of thirteen bytes whose six boundaries     *)
(* hold no trailer or one of four: short and longest blocks, two ids that  *)
(* differ in their low bit, and one that claims more than a block can      *)
(* hold.  The file is longer than a window and ends off the alignment; in  *)
(* two of three cases a byte cannot be read, in the first window or behind *)
(* it.                                                                     *)
(*                                                                         *)
(* The layout is one of small sections: pages of four bytes, groups of two *)
(* map pages every 28 bytes, spans of two bytes to four pages, so that the *)
(* largest block only just fits between two groups.  LIMIT takes it over   *)
(* the map groups of two more sections.                                    *)
(***************************************************************************)
EXTENDS Carve, Placement

T(bid, cb) == [bid |-> bid, cb |-> cb, sum |-> TRUE]
NoTrailer == [bid |-> 0, cb |-> 0, sum |-> FALSE]
Boundaries == {2, 4, 6, 8, 10, 12}

MCFiles ==
  [len : {13},
   trailers : [Boundaries -> {NoTrailer, T(4, 1), T(5, 5), T(8, 3), T(9, 7)}],
   bad : {{}, {9}, {11}}]

LaidOutBehind == [len |-> 13, trailers |-> [e \in Boundaries |-> NoTrailer], bad |-> {}]

-----------------------------------------------------------------------------
Init == CarveInit /\ PlaceInit

Find == CarveNext /\ UNCHANGED placing

LayOut ==
  /\ sweeping = "done" /\ file = LaidOutBehind
  /\ PlaceNext
  /\ UNCHANGED carving

Spec ==
  /\ Init /\ [][Find \/ LayOut]_<<carving, placing>>
  /\ WF_carving(CarveNext) /\ WF_placing(Skip \/ Settle)
=============================================================================
