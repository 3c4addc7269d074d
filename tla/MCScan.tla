------------------------------- MODULE MCScan --------------------------------
(***************************************************************************)
(* A store of up to two nodes, edited twice and swept.  Five pages: the    *)
(* second edit overwrites some of the leaves the first one unlinked and    *)
(* leaves others.  Three slots: a block can overwrite a freed one.  A      *)
(* window is three pages and does not divide the file.                     *)
(***************************************************************************)
EXTENDS Scan

MCNids == {1, 2}
MCKinds == {"create", "rewrite", "attach", "delete", "refile", "relocate"}
=============================================================================
