-------------------------------- MODULE MCGui --------------------------------
(***************************************************************************)
(* A window and three files: two with messages, of which one id occurs in  *)
(* both, and one without any.                                              *)
(***************************************************************************)
EXTENDS Gui

MCFiles == {"a", "b", "empty"}
MCMails ==
  [f \in MCFiles |->
     CASE f = "a" -> (7 :> {1, 2} @@ 8 :> {3})
       [] f = "b" -> (7 :> {} @@ 8 :> {1})
       [] OTHER -> (7 :> {} @@ 8 :> {})]
=============================================================================
