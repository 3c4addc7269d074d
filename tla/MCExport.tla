------------------------------ MODULE MCExport -------------------------------
(***************************************************************************)
(* A root, two folders that may be each other's parents or orphans, and    *)
(* three messages whose names coincide in every way names can: the same    *)
(* subject, a subject cut short, one that looks like that or like another  *)
(* message's second choice, a folder named like a message's file.  One     *)
(* small mailbox goes through compound files of every shape: streams below *)
(* and at the cutoff, empty values, DIFAT sectors.                         *)
(***************************************************************************)
EXTENDS Export

MCFormats == {"eml", "msg", "mbox"}

Plain(clean) == [clean |-> clean, kind |-> "plain"]
FolderNode(nid, parent, text) ==
  [nid |-> nid, type |-> "folder", parent |-> parent, text |-> text, ok |-> TRUE]
MessageNode(nid, parent, text, ok) ==
  [nid |-> nid, type |-> "message", parent |-> parent, text |-> text, ok |-> ok]

Subjects == {Plain(<<"s">>), [clean |-> <<"s">>, kind |-> "long"], Plain(<<"s", "(", "m3">>)}

\* A child may come before its parent.
Trees ==
  {<<FolderNode("f2", up2, text2), FolderNode("f0", "f0", Plain(<<"top">>)),
     FolderNode("f1", up1, text1)>> :
     up1 \in {"f0", "f2"}, up2 \in {"f0", "f1", "f9"},
     text1 \in {Plain(<<"a">>), Plain(<<"s", "eml">>)},
     text2 \in {Plain(<<"a">>), [clean |-> <<>>, kind |-> "odd"]}}

Mails ==
  {<<MessageNode("m1", "f2", text, ok), MessageNode("m2", folder, other, TRUE),
     MessageNode("m3", "f2", Plain(<<"s">>), TRUE)>> :
     text \in Subjects, ok \in BOOLEAN, folder \in {"f1", "f2", "f0", "f9"},
     other \in {Plain(<<"s">>), Plain(<<"s", "_", "m1">>)}}

\* Streams are made in an order that is not that of their names: in the code the
\* carbon copies' names come behind the recipients' though their id is lower.
Stream(prop, n) == [prop |-> prop, bytes |-> [i \in 1 .. n |-> i]]

Small == [streams |-> <<Stream(1, 1)>>, recips |-> <<>>, attaches |-> <<>>]

Shapes ==
  {[streams |-> <<Stream(4, a), Stream(3, b)>>, recips |-> r, attaches |-> c] :
     a \in 0 .. 9, b \in {0, 5, 6, 23},
     r \in {<<>>, <<<<Stream(1, 1)>>, <<Stream(2, 2), Stream(1, 7)>>>>},
     c \in {<<>>, <<<<Stream(1, 6)>>>>}}

MCMailboxes ==
  {[nodes |-> t \o m, content |-> Small] : t \in Trees, m \in Mails}
  \union {[nodes |-> <<FolderNode("f0", "f0", Plain(<<"top">>)),
                       MessageNode("m1", "f0", Plain(<<"s">>), TRUE)>>, content |-> c] :
            c \in Shapes}
=============================================================================
