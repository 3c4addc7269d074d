------------------------------ MODULE MCConvert ------------------------------
(***************************************************************************)
(* Three sources.  The first has a stream of three blocks, which needs an  *)
(* XXBLOCK here, one that has to be divided, three subnodes, which need an *)
(* SIBLOCK, and a tree below one of them.  The second is damaged: a tree   *)
(* that contains itself, a stream longer than two levels hold, a heap      *)
(* whose second block is too big.  The third has nothing in it.  The first *)
(* comes once more with a message store that cannot be made.               *)
(***************************************************************************)
EXTENDS Convert

N(nid, data, sub, parent) == [nid |-> nid, data |-> data, sub |-> sub, parent |-> parent]
S(data, sub) == [data |-> data, sub |-> sub]

Mail ==
  [nodes |-> << N(290, 8, 0, 290), N(33, 10, 0, 0), N(40, 18, 22, 290), N(41, 0, 0, 290) >>,
   streams |-> 8 :> << <<9, 1>> >> @@ 10 :> << <<9>>, <<2>> >>
               @@ 18 :> << <<1>>, <<2, 3>>, <<4>> >> @@ 28 :> << <<1, 2, 3>> >>
               @@ 24 :> << <<>> >> @@ 32 :> <<>>,
   trees |-> 22 :> (5 :> S(28, 0) @@ 6 :> S(24, 30) @@ 7 :> S(0, 0))
             @@ 30 :> (5 :> S(24, 0) @@ 9 :> S(32, 0)),
   bad |-> {}, ansi |-> FALSE, store |-> TRUE]

Loops ==
  [nodes |-> << N(33, 4, 0, 0), N(50, 8, 14, 33), N(51, 18, 0, 33), N(52, 22, 26, 33) >>,
   streams |-> 4 :> << <<9>> >> @@ 8 :> << <<1>> >>
               @@ 18 :> << <<1>>, <<2>>, <<3>>, <<4>>, <<5>> >>
               @@ 22 :> << <<9, 1>>, <<1, 2, 3>> >>,
   trees |-> 14 :> (5 :> S(8, 14)) @@ 26 :> (5 :> S(8, 0)),
   bad |-> {}, ansi |-> TRUE, store |-> TRUE]

Empty ==
  [nodes |-> << N(33, 0, 0, 0) >>, streams |-> <<>>, trees |-> <<>>,
   bad |-> {}, ansi |-> TRUE, store |-> FALSE]

\* A source as it is, or with one stream or tree that cannot be read.
Ids(s) == (DOMAIN s.streams) \union (DOMAIN s.trees)
Damaged(s) == {s} \union {[s EXCEPT !.bad = {x}] : x \in Ids(s)}

MCSources == UNION {Damaged(s) : s \in {Mail, [Mail EXCEPT !.store = FALSE], Loops, Empty}}

MCFan == [x |-> 2, s |-> 2]
MCLeafFan == [NBT |-> 2, BBT |-> 2]
=============================================================================
