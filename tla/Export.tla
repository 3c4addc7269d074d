------------------------------- MODULE Export --------------------------------
(***************************************************************************)
(* export: every message out of the file, one directory per folder, as     *)
(* .eml, .msg or into one .mbox per folder.  Nothing stops it: a message   *)
(* that cannot be read or written is counted and the next one taken.       *)
(*                                                                         *)
(* A text is [clean, kind]: the tokens left when what a file name may not  *)
(* hold is replaced and trimmed, and "plain", "odd" (nothing left, or a    *)
(* reserved name) or "long".  Texts that differ in case only are one text, *)
(* as names are to the file system.  A path is a sequence of names, a name *)
(* a sequence of tokens; the directory exported to is <<OUT>>.             *)
(***************************************************************************)
EXTENDS Cfbf, Lists

CONSTANTS
  MAILBOXES,   \* the files: [nodes, content], the nodes in the index's order
  FORMATS,     \* of "eml", "msg", "mbox"
  ROOT_FOLDER, \* NID_ROOT_FOLDER
  WHOLE,       \* no folder chosen
  DIR          \* what a path of a directory names

Entries == [nid : STRING, whole : BOOLEAN]

\* An index has one entry for a node.
ASSUME ExportAssumption ==
  /\ FORMATS \subseteq {"eml", "msg", "mbox"}
  /\ DIR \notin Seq(Entries)
  /\ \A b \in MAILBOXES :
       /\ b.nodes \in Seq([nid : STRING, type : STRING, parent : STRING,
                           text : [clean : Seq(STRING), kind : {"plain", "odd", "long"}],
                           ok : BOOLEAN])
       /\ \A i, j \in DOMAIN b.nodes : b.nodes[i].nid = b.nodes[j].nid => i = j

VARIABLES
  box,      \* a sequence of [nid, type, parent, text, ok]
  content,  \* what each message holds: [streams, recips, attaches]
  format,
  only,     \* the folder chosen
  pc,       \* "start", "write", "done"
  left,     \* the messages still to be written
  disk,     \* a path names DIR or the entries written to the file: [nid, whole]
  stats     \* [messages, failed]: the ids of those counted

vars == <<box, content, format, only, pc, left, disk, stats>>

OUT == <<"out">>

Folders(b) == {n \in ToSet(b) : n.type = "folder"}
Messages(b) == Picked(b, {n \in ToSet(b) : n.type = "message"})

Init ==
  /\ \E b \in MAILBOXES : box = b.nodes /\ content = b.content
  /\ format \in FORMATS
  /\ only \in {WHOLE} \union {f.nid : f \in Folders(box)}
  /\ pc = "start"
  /\ left = <<>>
  /\ disk = [path \in {<<>>} |-> DIR]
  /\ stats = [messages |-> {}, failed |-> {}]

-----------------------------------------------------------------------------
SafeName(t, nid) == IF t.kind = "plain" THEN t.clean ELSE t.clean \o <<"_", nid>>

Known(nid) == \E f \in Folders(box) : f.nid = nid
FolderOf(nid) == CHOOSE f \in Folders(box) : f.nid = nid

\* The names of the folders above, up to one that has no parent folder or was
\* passed before; the root folder contributes none.
FolderPath(nid) ==
  LET up[k \in 0 .. Len(box)] ==
        IF k = 0 THEN [cur |-> nid, seen |-> {}, path |-> <<>>]
        ELSE LET w == up[k - 1]
                 f == FolderOf(w.cur)
             IN  IF w.cur \in w.seen \/ ~ Known(w.cur) THEN w
                 ELSE [cur |-> f.parent, seen |-> w.seen \union {w.cur},
                       path |-> IF f.nid = ROOT_FOLDER THEN w.path
                                ELSE <<SafeName(f.text, f.nid)>> \o w.path]
  IN  <<OUT>> \o up[Len(box)].path

\* A message whose folder is missing still gets written out.
DirOf(m) == IF Known(m.parent) THEN FolderPath(m.parent) ELSE <<OUT, <<"_no-folder">>>>

\* One pass of subtree over the nodes.
Grown(want) ==
  LET upTo[k \in 0 .. Len(box)] ==
        IF k = 0 THEN want
        ELSE LET n == box[k] IN
             IF n.type = "folder" /\ n.nid # n.parent /\ n.parent \in upTo[k - 1]
             THEN upTo[k - 1] \union {n.nid} ELSE upTo[k - 1]
  IN  upTo[Len(box)]

\* Slip: parents are expected to come before their children.
WantedOnce == Grown({only})

\* The passes go on until one adds nothing, which is no more than a folder each.
Wanted ==
  LET after[k \in 0 .. Len(box)] == IF k = 0 THEN {only} ELSE Grown(after[k - 1])
  IN  after[Len(box)]

Start ==
  /\ pc = "start"
  /\ left' = IF only = WHOLE THEN Messages(box)
             ELSE Picked(Messages(box), {m \in ToSet(box) : m.parent \in Wanted})
  /\ pc' = "write"
  /\ UNCHANGED <<box, content, format, only, disk, stats>>

-----------------------------------------------------------------------------
IsFile(path) == path \in DOMAIN disk /\ disk[path] # DIR
Prefixed(path) == {SubSeq(path, 1, n) : n \in 0 .. Len(path)}

\* create_dir_all, if no name on the way is a file's.
CanCreateDir(dir) == \A p \in Prefixed(dir) : ~ IsFile(p)
WithDir(dir) ==
  [p \in Prefixed(dir) \union DOMAIN disk |-> IF p \in Prefixed(dir) THEN DIR ELSE disk[p]]

Base(m) == SafeName(m.text, m.nid)
Named(dir, base) == Append(dir, Append(base, format))
Fallback(m) == Base(m) \o <<"(", m.nid>>

\* Slip: the file is named by its subject alone.
PathInSubject(m) == Named(DirOf(m), Base(m))

\* The subject, or the subject with the node id; a path is looked for once the
\* directory is there.
PathIn(m) ==
  LET first == Named(DirOf(m), Base(m)) IN
  IF first \in DOMAIN WithDir(DirOf(m)) THEN Named(DirOf(m), Fallback(m)) ELSE first

\* Beside where the folder's directory would have been.
MboxOf(m) == LET dir == DirOf(m) IN Append(Front(dir), Append(Last(dir), "mbox"))

Target(m) == IF format = "mbox" THEN MboxOf(m) ELSE PathIn(m)
DirFor(m) == IF format = "mbox" THEN Front(DirOf(m)) ELSE DirOf(m)

Earlier(path) == IF format = "mbox" /\ IsFile(path) THEN disk[path] ELSE <<>>

Counted(m, how) ==
  LET also(kind) == IF kind = how THEN {m.nid} ELSE {} IN
  stats' = [messages |-> stats.messages \union also("messages"),
            failed |-> stats.failed \union also("failed")]

Taking(m) ==
  /\ pc = "write" /\ left # <<>> /\ m = Head(left)
  /\ left' = Tail(left)
  /\ UNCHANGED <<box, content, format, only, pc>>

Readable(m) == m.ok

Unreadable(m) ==
  /\ Taking(m)
  /\ ~ Readable(m)
  /\ Counted(m, "failed")
  /\ UNCHANGED disk

\* A name on the way is taken by a file, or the path itself by a directory.
Blocked(m) ==
  /\ Taking(m)
  /\ Readable(m)
  /\ \/ ~ CanCreateDir(DirFor(m)) /\ UNCHANGED disk
     \/ /\ CanCreateDir(DirFor(m))
        /\ Target(m) \in DOMAIN WithDir(DirFor(m)) /\ WithDir(DirFor(m))[Target(m)] = DIR
        /\ disk' = WithDir(DirFor(m))
  /\ Counted(m, "failed")

CanWrite(m) ==
  /\ Readable(m)
  /\ CanCreateDir(DirFor(m))
  /\ Target(m) \in DOMAIN WithDir(DirFor(m)) => WithDir(DirFor(m))[Target(m)] # DIR

\* The file now ends in this entry: mbox appends, the others start anew.
Wrote(m, whole) ==
  LET dirs == WithDir(DirFor(m)) IN
  disk' = [p \in {Target(m)} \union DOMAIN dirs |->
             IF p = Target(m) THEN Append(Earlier(p), [nid |-> m.nid, whole |-> whole])
             ELSE dirs[p]]

Write(m) ==
  /\ Taking(m)
  /\ CanWrite(m)
  /\ Wrote(m, TRUE)
  /\ Counted(m, "messages")

\* The disk is full: what was written of it stays.
WriteFails(m) ==
  /\ Taking(m)
  /\ CanWrite(m)
  /\ Wrote(m, FALSE)
  /\ Counted(m, "failed")

End ==
  /\ pc = "write" /\ left = <<>>
  /\ pc' = "done"
  /\ UNCHANGED <<box, content, format, only, left, disk, stats>>

Next ==
  \/ Start \/ End
  \/ \E m \in ToSet(left) : Unreadable(m) \/ Blocked(m) \/ Write(m) \/ WriteFails(m)

Spec == Init /\ [][Next]_vars

-----------------------------------------------------------------------------
\* Props::finish: the streams of one object, none for an empty value, then its
\* property table, an entry for each.
Object(streams, header, parent) ==
  LET given == SelectSeq(streams, LAMBDA s : s.bytes # <<>>) IN
  [i \in DOMAIN given |-> [name |-> <<20, given[i].prop>>, parent |-> parent, bytes |-> given[i].bytes]]
  \o <<[name |-> <<23, 0>>, parent |-> parent, bytes |-> Fill(header + Len(given), 7)]>>

\* The objects of one kind, each in a storage of its own.
Storages(items, length, objects) ==
  FoldLeftDomain(LAMBDA is, i :
                   is \o <<[name |-> <<length, i>>, parent |-> 0, bytes |-> STORAGE]>>
                   \o Object(objects[i], 1, Len(is) + 1),
                 items, objects)

\* build_msg: the message's own properties, its recipients, its attachments.
BuildMsg(c) ==
  Storages(Storages(Object(c.streams, 3, 0), 27, c.recips), 28, c.attaches)

-----------------------------------------------------------------------------
\* The file at a path holds the message, whole.
Holds(path, nid) == IsFile(path) /\ [nid |-> nid, whole |-> TRUE] \in ToSet(disk[path])

\* Another message's second choice of a name is this one's first.
Lookalike(m) ==
  \E n \in ToSet(Messages(box)) \ {m} :
    Named(DirOf(n), Fallback(n)) = Named(DirOf(m), Base(m))

(* Every message counted as written is there: none shares its file with
   another that came later, however subjects, folders and missing parents make
   names coincide - apart from a subject that reads like another message's
   subject with its node id. *)
EachIsThere ==
  \A m \in ToSet(Messages(box)) :
    m.nid \in stats.messages =>
      \/ \E path \in DOMAIN disk : Holds(path, m.nid)
      \/ format # "mbox" /\ Lookalike(m)

\* The folder and those above it: what every set has that has the folder and,
\* with a folder, its parent.
Above(nid) ==
  LET ids == {nid} \union UNION {{f.nid, f.parent} : f \in Folders(box)}
      closed == {s \in SUBSET ids : \A f \in Folders(box) : f.nid \in s => f.parent \in s}
  IN  {a \in ids : \A s \in closed : nid \in s => a \in s}

(* A folder's export is the messages of it and all below it, in whatever order
   the index lists them and although parents may form a circle; and each is
   counted. *)
OnlyChosen ==
  pc = "done" =>
    stats.messages \union stats.failed =
      {m.nid : m \in {m \in ToSet(Messages(box)) : only \in {WHOLE} \union Above(m.parent)}}

(* A .msg opens: from the header of the compound file every property of the
   message, of its recipients and its attachments is found under its name with
   its bytes, and the FAT says of every sector what it is. *)
MsgReads ==
  pc = "done" /\ format = "msg" =>
    \A items \in {BuildMsg(content)} : ReadsBack(items) /\ Described(items)

=============================================================================
