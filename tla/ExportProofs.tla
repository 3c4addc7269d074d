----------------------------- MODULE ExportProofs -----------------------------
(***************************************************************************)
(* No export overwrites what it has counted as written, for every mailbox, *)
(* every folder tree and every way of names to coincide; and it counts the *)
(* messages of the folder chosen and of those below it, and no others.     *)
(***************************************************************************)
EXTENDS Export, BasicLemmas

Nodes == [nid : STRING, type : STRING, parent : STRING,
          text : [clean : Seq(STRING), kind : {"plain", "odd", "long"}], ok : BOOLEAN]

Boxes == {b.nodes : b \in MAILBOXES}

\* What names are made of.
Tokens == STRING \union {"eml", "msg", "mbox", "out", "_", "(", "_no-folder"}
Names == Seq(Tokens)

OneEntryEach(s) == \A i, j \in 1 .. Len(s) : s[i].nid = s[j].nid => i = j

-----------------------------------------------------------------------------
\* Names and paths, for a mailbox that is not a variable.
FolderPathIn(b, nid) ==
  LET up[k \in 0 .. Len(b)] ==
        IF k = 0 THEN [cur |-> nid, seen |-> {}, path |-> <<>>]
        ELSE LET w == up[k - 1]
                 f == CHOOSE g \in Folders(b) : g.nid = w.cur
             IN  IF w.cur \in w.seen \/ ~ (\E g \in Folders(b) : g.nid = w.cur) THEN w
                 ELSE [cur |-> f.parent, seen |-> w.seen \union {w.cur},
                       path |-> IF f.nid = ROOT_FOLDER THEN w.path
                                ELSE <<SafeName(f.text, f.nid)>> \o w.path]
  IN  <<OUT>> \o up[Len(b)].path

DirIn(b, m) ==
  IF \E f \in Folders(b) : f.nid = m.parent THEN FolderPathIn(b, m.parent)
  ELSE <<OUT, <<"_no-folder">>>>

\* The folder of a message depends on the mailbox alone.
LEMMA DirIs == \A m : DirOf(m) = DirIn(box, m)
<1>1. \A nid : FolderPath(nid) = FolderPathIn(box, nid)
  BY DEF FolderPath, FolderPathIn, Known, FolderOf
<1>2. \A nid : Known(nid) <=> \E f \in Folders(box) : f.nid = nid
  BY DEF Known
<1> QED BY <1>1, <1>2 DEF DirOf, DirIn

\* A mailbox is a sequence of nodes with one entry for every id.
LEMMA BoxTyped ==
  ASSUME NEW b \in Boxes
  PROVE  b \in Seq(Nodes) /\ OneEntryEach(b)
<1>1. PICK f \in MAILBOXES : b = f.nodes
  BY DEF Boxes
<1>2. b \in Seq(Nodes)
  BY <1>1, ExportAssumption DEF Nodes
<1>3. DOMAIN b = 1 .. Len(b)
  BY <1>2
<1> QED BY <1>1, <1>2, <1>3, ExportAssumption DEF OneEntryEach

\* The tokens that the program puts into names are tokens.
LEMMA TokensAre ==
  /\ STRING \subseteq Tokens /\ FORMATS \subseteq Tokens
  /\ "_" \in Tokens /\ "(" \in Tokens /\ "out" \in Tokens /\ "_no-folder" \in Tokens
  /\ "mbox" \in Tokens
BY ExportAssumption DEF Tokens

\* What is left of a name after the replacements is a name.
LEMMA NameTyped ==
  ASSUME NEW n \in Nodes
  PROVE  SafeName(n.text, n.nid) \in Names
<1>1. n.text.clean \in Seq(STRING) /\ n.nid \in STRING
  BY DEF Nodes
<1>2. PICK U, c, u, i : U = Tokens /\ c = n.text.clean /\ u = "_" /\ i = n.nid
  OBVIOUS
<1>3. u \in U /\ i \in U /\ c \in Seq(U)
  BY <1>1, <1>2, TokensAre, SeqWider
<1>4. c \o <<u, i>> \in Seq(U)
  BY <1>3
<1>5. SafeName(n.text, n.nid) = c \/ SafeName(n.text, n.nid) = c \o <<u, i>>
  BY <1>2 DEF SafeName
<1> QED BY <1>2, <1>3, <1>4, <1>5 DEF Names

Climbs == [cur : STRING, seen : SUBSET STRING, path : Seq(Names)]

\* One folder up.
Climb(b, w) ==
  LET f == CHOOSE g \in Folders(b) : g.nid = w.cur IN
  IF w.cur \in w.seen \/ ~ (\E g \in Folders(b) : g.nid = w.cur) THEN w
  ELSE [cur |-> f.parent, seen |-> w.seen \union {w.cur},
        path |-> IF f.nid = ROOT_FOLDER THEN w.path
                 ELSE <<SafeName(f.text, f.nid)>> \o w.path]

\* A step up the parents, taken or refused, leaves a climb.
LEMMA ClimbTyped ==
  ASSUME NEW b \in Boxes, NEW w \in Climbs
  PROVE  Climb(b, w) \in Climbs
<1>1. CASE w.cur \in w.seen \/ ~ (\E g \in Folders(b) : g.nid = w.cur)
  BY <1>1 DEF Climb
<1>2. CASE ~ (w.cur \in w.seen \/ ~ (\E g \in Folders(b) : g.nid = w.cur))
  <2>1. PICK f : f = CHOOSE g \in Folders(b) : g.nid = w.cur
    OBVIOUS
  <2>2. f \in Folders(b)
    BY <1>2, <2>1
  <2>3. f \in Nodes
    BY <2>2, BoxTyped DEF Folders, ToSet
  <2>4. <<SafeName(f.text, f.nid)>> \o w.path \in Seq(Names)
    <3>1. <<SafeName(f.text, f.nid)>> \in Seq(Names) /\ w.path \in Seq(Names)
      BY <2>3, NameTyped DEF Climbs
    <3> QED BY <3>1
  <2>5. f.parent \in STRING /\ w.seen \union {w.cur} \in SUBSET STRING
    BY <2>3 DEF Nodes, Climbs
  <2>6. Climb(b, w) = [cur |-> f.parent, seen |-> w.seen \union {w.cur},
                       path |-> IF f.nid = ROOT_FOLDER THEN w.path
                                ELSE <<SafeName(f.text, f.nid)>> \o w.path]
    BY <1>2, <2>1 DEF Climb
  <2> QED BY <2>4, <2>5, <2>6 DEF Climbs
<1> QED BY <1>1, <1>2

\* A path below the directory exported to.
LEMMA PathTyped ==
  ASSUME NEW b \in Boxes, NEW nid \in STRING
  PROVE  FolderPathIn(b, nid) \in Seq(Names)
<1> DEFINE N == Len(b)
           start == [cur |-> nid, seen |-> {}, path |-> <<>>]
           step == [k \in 1 .. N |-> [w \in Climbs |-> Climb(b, w)]]
           Rec(u) == u = [k \in 0 .. N |->
                        IF k = 0 THEN start ELSE Climb(b, u[k - 1])]
           up == CHOOSE u : Rec(u)
<1>1. N \in Nat
  BY BoxTyped
<1>2. start \in Climbs
  BY DEF Climbs
<1>3. step \in [1 .. N -> [Climbs -> Climbs]]
  BY ClimbTyped
<1>4. PICK u : Recurs(u, N, Climbs, start, step)
  <2> HIDE DEF N, start, step
  <2> QED BY <1>1, <1>2, <1>3, Recursion
<1>5. Rec(u)
  <2>1. u \in [0 .. N -> Climbs] /\ u[0] = start
    BY <1>4 DEF Recurs
  <2>2. ASSUME NEW k \in 1 .. N PROVE u[k] = Climb(b, u[k - 1])
    <3>1. k - 1 \in 0 .. N
      BY <1>1
    <3>2. u[k - 1] \in Climbs
      BY <2>1, <3>1
    <3>3. u[k] = step[k][u[k - 1]]
      BY <1>4 DEF Recurs
    <3> QED BY <3>2, <3>3
  <2>3. \A k \in 0 .. N : k = 0 \/ k \in 1 .. N
    BY <1>1
  <2> HIDE DEF start, N, step
  <2> QED BY <2>1, <2>2, <2>3
<1>6. Rec(up)
  BY <1>5
<1>7. FolderPathIn(b, nid) = <<OUT>> \o up[N].path
  BY DEF FolderPathIn, Climb
<1> HIDE DEF up, start
<1> DEFINE P == {k \in Nat : k <= N => up[k] \in Climbs}
<1>8. 0 \in P
  <2>1. 0 \in 0 .. N
    BY <1>1
  <2> QED BY <1>2, <1>6, <2>1
<1>9. ASSUME NEW k \in Nat, k \in P PROVE k + 1 \in P
  <2> SUFFICES ASSUME k + 1 <= N PROVE up[k + 1] \in Climbs
    OBVIOUS
  <2>1. up[k] \in Climbs /\ k + 1 \in 0 .. N /\ k + 1 # 0 /\ (k + 1) - 1 = k
    BY <1>1, <1>9
  <2>2. up[k + 1] = Climb(b, up[k])
    BY <1>6, <2>1
  <2> QED BY <2>1, <2>2, ClimbTyped
<1>10. N \in P
  <2> HIDE DEF P
  <2> QED BY <1>1, <1>8, <1>9, Induct
<1>11. up[N].path \in Seq(Names)
  BY <1>1, <1>10 DEF Climbs
<1>12. <<OUT>> \in Seq(Names)
  BY DEF OUT, Names, Tokens
<1> QED BY <1>7, <1>11, <1>12

\* The folder of a message is a list of names.
LEMMA DirTyped ==
  ASSUME NEW b \in Boxes, NEW m \in Nodes
  PROVE  DirIn(b, m) \in Seq(Names)
<1>1. m.parent \in STRING
  BY DEF Nodes
<1>2. <<OUT, <<"_no-folder">>>> \in Seq(Names)
  BY DEF OUT, Names, Tokens
<1> QED BY <1>1, <1>2, PathTyped DEF DirIn

-----------------------------------------------------------------------------
\* A mail's two names.
FirstIn(b, m, how) == Append(DirIn(b, m), Append(Base(m), how))
SecondIn(b, m, how) == Append(DirIn(b, m), Append(Base(m) \o <<"(", m.nid>>, how))

\* The two paths a message may be written to depend on the mailbox and the format alone.
LEMMA PathsAre ==
  \A m : /\ Named(DirOf(m), Base(m)) = FirstIn(box, m, format)
         /\ Named(DirOf(m), Fallback(m)) = SecondIn(box, m, format)
BY DirIs DEF Named, Fallback, FirstIn, SecondIn

\* Equal paths end in equal names, and those in equal tokens.
LEMMA LastTokens ==
  ASSUME NEW U, NEW d \in U, NEW f \in U, NEW g \in U, NEW w \in U,
         NEW c \in Seq(U), NEW e \in Seq(U), NEW h \in Seq(Seq(U)), NEW k \in Seq(Seq(U)),
         Append(h, Append(c \o <<d, f>>, w)) = Append(k, Append(e \o <<d, g>>, w))
  PROVE  f = g
<1>1. /\ c \o <<d, f>> \in Seq(U) /\ e \o <<d, g>> \in Seq(U)
      /\ (c \o <<d, f>>)[Len(c \o <<d, f>>)] = f
      /\ (e \o <<d, g>>)[Len(e \o <<d, g>>)] = g
  OBVIOUS
<1>2. PICK x, y : x = c \o <<d, f>> /\ y = e \o <<d, g>>
  OBVIOUS
<1>3. x \in Seq(U) /\ y \in Seq(U) /\ x[Len(x)] = f /\ y[Len(y)] = g
  BY <1>1, <1>2
<1>4. PICK v, z : v = Append(x, w) /\ z = Append(y, w)
  OBVIOUS
<1>5. v \in Seq(U) /\ z \in Seq(U)
  BY <1>3, <1>4
<1>6. Append(h, v) = Append(k, z)
  BY <1>2, <1>4
<1>7. v = z
  <2>1. /\ Len(Append(h, v)) = Len(h) + 1 /\ Append(h, v)[Len(h) + 1] = v
        /\ Len(Append(k, z)) = Len(k) + 1 /\ Append(k, z)[Len(k) + 1] = z
        /\ Len(h) \in Nat /\ Len(k) \in Nat
    BY <1>5
  <2> QED BY <1>6, <2>1
<1>8. /\ Len(x) \in Nat /\ Len(y) \in Nat
      /\ x # <<>> /\ y # <<>> /\ Len(x) > 0 /\ Len(y) > 0
  BY <1>2
<1>9. Len(v) = Len(x) + 1 /\ Len(z) = Len(y) + 1
  BY <1>3, <1>4
<1>10. v[Len(x)] = x[Len(x)] /\ z[Len(y)] = y[Len(y)]
  BY <1>3, <1>4, <1>8
<1> QED BY <1>3, <1>7, <1>8, <1>9, <1>10

\* Only one message falls back on a name.
LEMMA SecondDiffers ==
  ASSUME NEW b \in Boxes, NEW m \in Nodes, NEW n \in Nodes, NEW how \in FORMATS,
         SecondIn(b, m, how) = SecondIn(b, n, how)
  PROVE  m.nid = n.nid
<1>1. PICK U, D, c, e, f, g, h, k :
        /\ U = Tokens /\ D = "(" /\ c = Base(m) /\ e = Base(n)
        /\ f = m.nid /\ g = n.nid /\ h = DirIn(b, m) /\ k = DirIn(b, n)
  OBVIOUS
<1>2. D \in U /\ c \in Seq(U) /\ e \in Seq(U) /\ f \in U /\ g \in U /\ how \in U
  BY <1>1, TokensAre, NameTyped DEF Base, Names, Nodes
<1>3. h \in Seq(Seq(U)) /\ k \in Seq(Seq(U))
  BY <1>1, DirTyped DEF Names
<1>4. Append(h, Append(c \o <<D, f>>, how)) = Append(k, Append(e \o <<D, g>>, how))
  BY <1>1 DEF SecondIn
<1>5. f = g
  BY <1>2, <1>3, <1>4, LastTokens
<1> QED BY <1>1, <1>5

-----------------------------------------------------------------------------
\* Messages as the list of those of a mailbox, in its order.
LEMMA PickedEach ==
  ASSUME NEW s \in Seq(Nodes), OneEntryEach(s), NEW keep
  PROVE  /\ Picked(s, keep) \in Seq(Nodes)
         /\ OneEntryEach(Picked(s, keep))
         /\ ToSet(Picked(s, keep)) \subseteq ToSet(s)
<1>1. PICK p, f : /\ p = Picked(s, keep) /\ p \in Seq(Nodes)
                  /\ PickedFrom(p, s, Len(s), keep, f)
  BY PickedIs
<1>2. Len(p) \in Nat /\ DOMAIN p = 1 .. Len(p) /\ DOMAIN s = 1 .. Len(s)
  BY <1>1
<1>3. OneEntryEach(p)
  <2>1. ASSUME NEW i \in 1 .. Len(p), NEW j \in 1 .. Len(p), p[i].nid = p[j].nid, i < j
        PROVE  FALSE
    <3>1. /\ f[i] \in 1 .. Len(s) /\ f[j] \in 1 .. Len(s) /\ f[i] < f[j]
          /\ p[i] = s[f[i]] /\ p[j] = s[f[j]]
      BY <1>1, <2>1 DEF PickedFrom
    <3>2. f[i] = f[j]
      BY <2>1, <3>1 DEF OneEntryEach
    <3> QED BY <3>1, <3>2
  <2>2. \A i, j \in 1 .. Len(p) : i = j \/ i < j \/ j < i
    BY <1>2
  <2> QED BY <2>1, <2>2 DEF OneEntryEach
<1>4. ToSet(p) \subseteq ToSet(s)
  BY <1>1, <1>2 DEF ToSet, PickedFrom
<1> QED BY <1>1, <1>3, <1>4

\* The messages of a mailbox are nodes, with one entry for every id.
LEMMA MessagesTyped ==
  ASSUME NEW b \in Boxes
  PROVE  Messages(b) \in Seq(Nodes) /\ OneEntryEach(Messages(b))
BY BoxTyped, PickedEach DEF Messages

-----------------------------------------------------------------------------
LookalikeIn(b, m, how) ==
  \E n \in ToSet(Messages(b)) \ {m} : SecondIn(b, n, how) = FirstIn(b, m, how)

\* Where a message is that was written.
Kept(m) ==
  IF format = "mbox" THEN \E path \in DOMAIN disk : Holds(path, m.nid)
  ELSE \/ LookalikeIn(box, m, format)
       \/ Holds(FirstIn(box, m, format), m.nid)
       \/ Holds(SecondIn(box, m, format), m.nid)

DiskTyped ==
  \A path \in DOMAIN disk : disk[path] # DIR => disk[path] \in Seq(Entries)

\* Each message is taken once.
ToCome ==
  /\ left \in Seq(Nodes) /\ OneEntryEach(left)
  /\ \A k \in 1 .. Len(left) :
       left[k] \in ToSet(Messages(box)) /\ left[k].nid \notin stats.messages
  /\ pc = "start" => left = <<>> /\ stats.messages = {}

ExportInv ==
  /\ box \in Boxes /\ format \in FORMATS
  /\ DiskTyped /\ ToCome
  /\ \A m \in ToSet(Messages(box)) : m.nid \in stats.messages => Kept(m)

-----------------------------------------------------------------------------
\* What a write does to the disk: another file stays as it was.
LEMMA WriteOne ==
  ASSUME DiskTyped, NEW m \in Nodes, CanWrite(m), NEW whole \in BOOLEAN, Wrote(m, whole)
  PROVE  /\ DiskTyped'
         /\ \A path : IsFile(path) /\ path # Target(m) =>
              path \in DOMAIN disk' /\ disk'[path] = disk[path]
         /\ Target(m) \in DOMAIN disk' /\ disk'[Target(m)] # DIR
         /\ disk'[Target(m)] = Append(Earlier(Target(m)), [nid |-> m.nid, whole |-> whole])
         /\ Earlier(Target(m)) \in Seq(Entries)
<1>1. PICK t, dir, dirs, e, was :
        /\ t = Target(m) /\ dir = DirFor(m) /\ dirs = WithDir(dir)
        /\ e = [nid |-> m.nid, whole |-> whole] /\ was = Earlier(t)
  OBVIOUS
<1>2. disk' = [p \in {t} \union DOMAIN dirs |-> IF p = t THEN Append(was, e) ELSE dirs[p]]
  <2>1. disk' = [p \in {t} \union DOMAIN dirs |-> IF p = t THEN Append(Earlier(p), e)
                                                  ELSE dirs[p]]
    BY <1>1 DEF Wrote
  <2> QED BY <1>1, <2>1
<1>3. was \in Seq(Entries)
  BY <1>1 DEF Earlier, IsFile, DiskTyped
<1>4. e \in Entries
  BY <1>1 DEF Entries, Nodes
<1>5. Append(was, e) \in Seq(Entries)
  BY <1>3, <1>4
<1>6. Append(was, e) # DIR
  BY <1>5, ExportAssumption
<1>7. /\ DOMAIN dirs = Prefixed(dir) \union DOMAIN disk
      /\ \A p \in DOMAIN dirs : dirs[p] = IF p \in Prefixed(dir) THEN DIR ELSE disk[p]
  BY <1>1 DEF WithDir
<1>8. \A p \in Prefixed(dir) : ~ IsFile(p)
  BY <1>1 DEF CanWrite, CanCreateDir
<1>9. DiskTyped'
  <2> SUFFICES ASSUME NEW p \in DOMAIN disk', disk'[p] # DIR PROVE disk'[p] \in Seq(Entries)
    BY DEF DiskTyped
  <2>1. p \in {t} \union DOMAIN dirs
    BY <1>2
  <2>2. CASE p = t
    BY <1>2, <1>5, <2>2
  <2>3. CASE p # t
    <3>1. disk'[p] = dirs[p] /\ p \in DOMAIN dirs
      BY <1>2, <2>1, <2>3
    <3>2. p \in DOMAIN disk /\ dirs[p] = disk[p]
      BY <1>7, <3>1
    <3> QED BY <3>1, <3>2 DEF DiskTyped
  <2> QED BY <2>2, <2>3
<1>10. ASSUME NEW path, IsFile(path), path # t
       PROVE  path \in DOMAIN disk' /\ disk'[path] = disk[path]
  <2>1. path \in DOMAIN disk /\ path \notin Prefixed(dir)
    BY <1>8, <1>10 DEF IsFile
  <2>2. path \in DOMAIN dirs /\ dirs[path] = disk[path]
    BY <1>7, <2>1
  <2> QED BY <1>2, <1>10, <2>2
<1>11. t \in DOMAIN disk' /\ disk'[t] = Append(was, e)
  BY <1>2
<1> QED BY <1>1, <1>3, <1>6, <1>9, <1>10, <1>11

\* Making directories takes no file away.
LEMMA DirsOnly ==
  ASSUME DiskTyped, NEW dir, CanCreateDir(dir), disk' = WithDir(dir)
  PROVE  /\ DiskTyped'
         /\ \A path : IsFile(path) => path \in DOMAIN disk' /\ disk'[path] = disk[path]
<1>1. /\ DOMAIN disk' = Prefixed(dir) \union DOMAIN disk
      /\ \A p \in DOMAIN disk' : disk'[p] = IF p \in Prefixed(dir) THEN DIR ELSE disk[p]
  BY DEF WithDir
<1>2. \A p \in Prefixed(dir) : ~ IsFile(p)
  BY DEF CanCreateDir
<1>3. DiskTyped'
  BY <1>1 DEF DiskTyped
<1> QED BY <1>1, <1>2, <1>3 DEF IsFile

\* A file of a message goes over another message's only in an mbox, or where
\* that other's first name looks like this one's second.
LEMMA WritesBeside ==
  ASSUME box \in Boxes, format \in FORMATS, format # "mbox",
         NEW m \in Nodes, NEW n \in Nodes, m.nid # n.nid, n \in ToSet(Messages(box)),
         CanWrite(n), NEW path,
         path \in {FirstIn(box, m, format), SecondIn(box, m, format)},
         IsFile(path), path = Target(n)
  PROVE  LookalikeIn(box, m, format)
<1>1. Target(n) = PathIn(n)
  BY DEF Target
<1>2. path \in DOMAIN WithDir(DirOf(n))
  BY DEF IsFile, WithDir
<1>3. path = SecondIn(box, n, format)
  <2>1. CASE FirstIn(box, n, format) \in DOMAIN WithDir(DirOf(n))
    BY <1>1, <2>1, PathsAre DEF PathIn
  <2>2. CASE FirstIn(box, n, format) \notin DOMAIN WithDir(DirOf(n))
    <3>1. path = FirstIn(box, n, format)
      BY <1>1, <2>2, PathsAre DEF PathIn
    <3> QED BY <1>2, <2>2, <3>1
  <2> QED BY <2>1, <2>2
<1>4. path # SecondIn(box, m, format)
  BY <1>3, SecondDiffers
<1>5. n # m
  OBVIOUS
<1> QED BY <1>3, <1>4, <1>5 DEF LookalikeIn

\* The message taken is one of the mailbox, and comes no more.
LEMMA TakenOnce ==
  ASSUME ToCome, box \in Boxes, NEW m, Taking(m), stats.messages' \in SUBSET (stats.messages \union {m.nid})
  PROVE  /\ m \in Nodes /\ m \in ToSet(Messages(box)) /\ m.nid \notin stats.messages
         /\ pc = "write"
         /\ ToCome'
<1>1. /\ m = left[1] /\ 1 \in 1 .. Len(left) /\ Len(left) \in Nat
      /\ left' = Tail(left) /\ pc = "write" /\ UNCHANGED <<box, pc>>
  BY DEF Taking, ToCome
<1>2. /\ left' \in Seq(Nodes) /\ Len(left') = Len(left) - 1
      /\ \A k \in 1 .. Len(left') : left'[k] = left[k + 1] /\ k + 1 \in 2 .. Len(left)
  BY <1>1 DEF ToCome
<1>3. m \in Nodes /\ m \in ToSet(Messages(box)) /\ m.nid \notin stats.messages
  BY <1>1 DEF ToCome
<1>4. OneEntryEach(left')
  <2> SUFFICES ASSUME NEW i \in 1 .. Len(left'), NEW j \in 1 .. Len(left'),
                      left'[i].nid = left'[j].nid
               PROVE  i = j
    BY DEF OneEntryEach
  <2>1. i + 1 \in 1 .. Len(left) /\ j + 1 \in 1 .. Len(left)
        /\ left[i + 1].nid = left[j + 1].nid
    BY <1>2
  <2>2. i + 1 = j + 1
    BY <2>1 DEF ToCome, OneEntryEach
  <2> QED BY <2>2
<1>5. Messages(box)' = Messages(box)
  BY <1>1
<1>6. ASSUME NEW k \in 1 .. Len(left')
      PROVE  left'[k] \in ToSet(Messages(box)) /\ left'[k].nid \notin stats.messages'
  <2>1. k + 1 \in 1 .. Len(left) /\ left'[k] = left[k + 1] /\ k + 1 # 1
    BY <1>2
  <2>2. left[k + 1].nid # left[1].nid
    BY <1>1, <2>1 DEF ToCome, OneEntryEach
  <2>3. left[k + 1].nid \notin stats.messages /\ left[k + 1] \in ToSet(Messages(box))
    BY <2>1 DEF ToCome
  <2> QED BY <1>1, <2>1, <2>2, <2>3
<1>7. OneEntryEach(left)'
  BY <1>4 DEF OneEntryEach
<1> QED BY <1>1, <1>2, <1>3, <1>5, <1>6, <1>7 DEF ToCome

\* What is kept stays where the disk does.
LEMMA KeptBeside ==
  ASSUME UNCHANGED <<box, format>>, NEW m, Kept(m),
         \A path : IsFile(path) => path \in DOMAIN disk' /\ disk'[path] = disk[path]
  PROVE  Kept(m)'
<1>1. \A path : Holds(path, m.nid) => Holds(path, m.nid)'
  BY DEF Holds, IsFile
<1>2. CASE format = "mbox"
  BY <1>1, <1>2 DEF Kept, Holds, IsFile
<1>3. CASE format # "mbox"
  <2>1. PICK b, how, p, q : /\ b = box /\ how = format
                            /\ p = FirstIn(b, m, how) /\ q = SecondIn(b, m, how)
    OBVIOUS
  <2>2. LookalikeIn(b, m, how) \/ Holds(p, m.nid) \/ Holds(q, m.nid)
    BY <1>3, <2>1 DEF Kept
  <2>3. LookalikeIn(b, m, how) \/ Holds(p, m.nid)' \/ Holds(q, m.nid)'
    BY <1>1, <2>2
  <2>4. box' = b /\ format' = how /\ format' # "mbox"
    BY <1>3, <2>1
  <2> QED BY <2>1, <2>3, <2>4 DEF Kept
<1> QED BY <1>2, <1>3

\* A write keeps what was written before, whether or not it succeeds.
LEMMA WriteKeepsOthers ==
  ASSUME ExportInv, NEW m \in Nodes, m \in ToSet(Messages(box)), CanWrite(m),
         NEW whole \in BOOLEAN, Wrote(m, whole), UNCHANGED <<box, format>>,
         NEW x \in ToSet(Messages(box)), x \in Nodes, x.nid # m.nid, Kept(x)
  PROVE  Kept(x)'
<1>1. /\ \A path : IsFile(path) /\ path # Target(m) =>
            path \in DOMAIN disk' /\ disk'[path] = disk[path]
      /\ Target(m) \in DOMAIN disk' /\ disk'[Target(m)] # DIR
      /\ disk'[Target(m)] = Append(Earlier(Target(m)), [nid |-> m.nid, whole |-> whole])
      /\ Earlier(Target(m)) \in Seq(Entries)
  BY WriteOne DEF ExportInv
<1>2. PICK t : t = Target(m)
  OBVIOUS
<1>3. \A path : Holds(path, x.nid) /\ path # t => Holds(path, x.nid)'
  BY <1>1, <1>2 DEF Holds, IsFile
<1>4. CASE format = "mbox"
  <2>1. PICK path : Holds(path, x.nid)
    BY <1>4 DEF Kept
  <2>2. CASE path = t
    <3>1. Earlier(t) = disk[t] /\ IsFile(t) /\ [nid |-> x.nid, whole |-> TRUE] \in ToSet(disk[t])
      BY <1>4, <2>1, <2>2 DEF Earlier, Holds
    <3>2. PICK was, e : was = Earlier(t) /\ e = [nid |-> m.nid, whole |-> whole]
      OBVIOUS
    <3>3. was \in Seq(Entries) /\ e \in Entries /\ disk'[t] = Append(was, e)
      BY <1>1, <1>2, <3>2 DEF Entries, Nodes
    <3>4. ToSet(was) \subseteq ToSet(Append(was, e))
      BY <3>3 DEF ToSet
    <3>5. Holds(t, x.nid)'
      BY <1>1, <1>2, <3>1, <3>2, <3>3, <3>4 DEF Holds, IsFile
    <3> QED BY <1>4, <3>5 DEF Kept, Holds, IsFile
  <2>3. CASE path # t
    <3>1. Holds(path, x.nid)'
      BY <1>3, <2>1, <2>3
    <3> QED BY <1>4, <3>1 DEF Kept, Holds, IsFile
  <2> QED BY <2>2, <2>3
<1>5. CASE format # "mbox"
  <2>1. PICK b, how, p, q : /\ b = box /\ how = format
                            /\ p = FirstIn(b, x, how) /\ q = SecondIn(b, x, how)
    OBVIOUS
  <2>2. LookalikeIn(b, x, how) \/ Holds(p, x.nid) \/ Holds(q, x.nid)
    BY <1>5, <2>1 DEF Kept
  <2>3. ASSUME NEW path \in {p, q}, Holds(path, x.nid)
        PROVE  LookalikeIn(b, x, how) \/ Holds(path, x.nid)'
    <3>1. CASE path = t
      <4>1. IsFile(path) /\ path = Target(m)
        BY <1>2, <2>3, <3>1 DEF Holds
      <4> QED BY <1>5, <2>1, <2>3, <4>1, WritesBeside DEF ExportInv
    <3>2. CASE path # t
      BY <1>3, <2>3, <3>2
    <3> QED BY <3>1, <3>2
  <2>4. LookalikeIn(b, x, how) \/ Holds(p, x.nid)' \/ Holds(q, x.nid)'
    BY <2>2, <2>3
  <2>5. box' = b /\ format' = how /\ format' # "mbox"
    BY <1>5, <2>1
  <2> QED BY <2>1, <2>4, <2>5 DEF Kept
<1> QED BY <1>4, <1>5

\* A message that was written is at its first or second name, or in its mbox.
LEMMA WriteKeepsItself ==
  ASSUME ExportInv, NEW m \in Nodes, CanWrite(m), Wrote(m, TRUE), UNCHANGED <<box, format>>
  PROVE  Kept(m)'
<1>1. PICK t, was, e : t = Target(m) /\ was = Earlier(t) /\ e = [nid |-> m.nid, whole |-> TRUE]
  OBVIOUS
<1>2. /\ t \in DOMAIN disk' /\ disk'[t] # DIR
      /\ disk'[t] = Append(was, e) /\ was \in Seq(Entries)
  BY <1>1, WriteOne DEF ExportInv
<1>3. e \in ToSet(Append(was, e))
  <2>1. e \in Entries
    BY <1>1 DEF Entries, Nodes
  <2>2. Append(was, e)[Len(was) + 1] = e /\ Len(was) + 1 \in DOMAIN Append(was, e)
    BY <1>2, <2>1
  <2> QED BY <2>2 DEF ToSet
<1>4. Holds(t, m.nid)'
  BY <1>1, <1>2, <1>3 DEF Holds, IsFile
<1>5. CASE format = "mbox"
  BY <1>2, <1>4, <1>5 DEF Kept
<1>6. CASE format # "mbox"
  <2>1. PICK b, how, p, q : /\ b = box /\ how = format
                            /\ p = FirstIn(b, m, how) /\ q = SecondIn(b, m, how)
    OBVIOUS
  <2>2. t = p \/ t = q
    BY <1>1, <1>6, <2>1, PathsAre DEF Target, PathIn
  <2>3. box' = b /\ format' = how /\ format' # "mbox"
    BY <1>6, <2>1
  <2> QED BY <1>4, <2>1, <2>2, <2>3 DEF Kept
<1> QED BY <1>5, <1>6

\* Two messages with one id are the same message.
LEMMA MessagesDiffer ==
  ASSUME box \in Boxes, NEW m \in ToSet(Messages(box)), NEW x \in ToSet(Messages(box)),
         m.nid = x.nid
  PROVE  m = x
<1>1. PICK s \in Seq(Nodes) : s = Messages(box) /\ OneEntryEach(s)
  BY MessagesTyped
<1>2. PICK i, j \in 1 .. Len(s) : m = s[i] /\ x = s[j]
  BY <1>1 DEF ToSet
<1> QED BY <1>1, <1>2 DEF OneEntryEach

\* A message is a node.
LEMMA MessageTyped ==
  ASSUME box \in Boxes, NEW m \in ToSet(Messages(box))
  PROVE  m \in Nodes
<1>1. PICK s \in Seq(Nodes) : s = Messages(box)
  BY MessagesTyped
<1> QED BY <1>1 DEF ToSet

-----------------------------------------------------------------------------
\* Nothing is written and nothing is left to do before the export starts.
LEMMA ExportInit == Init => ExportInv
<1> SUFFICES ASSUME Init PROVE ExportInv
  OBVIOUS
<1>1. box \in Boxes /\ format \in FORMATS
  BY DEF Init, Boxes
<1>2. DiskTyped
  BY DEF Init, DiskTyped
<1>3. ToCome
  BY DEF Init, ToCome, OneEntryEach
<1>4. stats.messages = {}
  BY DEF Init
<1> QED BY <1>1, <1>2, <1>3, <1>4 DEF ExportInv

\* Starting puts all the messages of the mailbox among those left.
LEMMA ExportStart ==
  ASSUME ExportInv, Start
  PROVE  ExportInv'
<1>1. UNCHANGED <<box, format, disk, stats>> /\ pc = "start" /\ pc' = "write"
  BY DEF Start
<1>2. stats.messages = {}
  BY <1>1 DEF ExportInv, ToCome
<1>3. PICK s : s = Messages(box)
  OBVIOUS
<1>4. s \in Seq(Nodes) /\ OneEntryEach(s)
  BY <1>3, MessagesTyped DEF ExportInv
<1>5. left' \in Seq(Nodes) /\ OneEntryEach(left') /\ ToSet(left') \subseteq ToSet(s)
  <2>1. CASE left' = s
    BY <1>4, <2>1
  <2>2. ASSUME NEW keep, left' = Picked(s, keep)
        PROVE left' \in Seq(Nodes) /\ OneEntryEach(left') /\ ToSet(left') \subseteq ToSet(s)
    BY <1>4, <2>2, PickedEach
  <2> QED BY <1>3, <2>1, <2>2 DEF Start
<1>6. OneEntryEach(left)'
  BY <1>5 DEF OneEntryEach
<1>7. \A k \in 1 .. Len(left') : left'[k] \in ToSet(s)
  BY <1>5 DEF ToSet
<1>8. Messages(box)' = s
  BY <1>1, <1>3
<1>9. ToCome'
  BY <1>1, <1>2, <1>5, <1>6, <1>7, <1>8 DEF ToCome
<1> QED BY <1>1, <1>2, <1>9 DEF ExportInv, DiskTyped

\* A message that is dealt with leaves the list, and is counted or is on disk.
LEMMA ExportTakes ==
  ASSUME ExportInv, NEW m, Unreadable(m) \/ Blocked(m) \/ Write(m) \/ WriteFails(m)
  PROVE  ExportInv'
<1>1. Taking(m)
  BY DEF Unreadable, Blocked, Write, WriteFails
<1>2. UNCHANGED <<box, format>>
  BY <1>1 DEF Taking
<1>3. stats.messages' = stats.messages \/ (Write(m) /\ stats.messages' = stats.messages \union {m.nid})
  <2>1. CASE Unreadable(m) \/ Blocked(m) \/ WriteFails(m)
    <3>1. Counted(m, "failed")
      BY <2>1 DEF Unreadable, Blocked, WriteFails
    <3> QED BY <3>1 DEF Counted
  <2>2. CASE Write(m)
    BY <2>2 DEF Write, Counted
  <2> QED BY <2>1, <2>2
<1>4. /\ m \in Nodes /\ m \in ToSet(Messages(box)) /\ m.nid \notin stats.messages
      /\ ToCome'
  BY <1>1, <1>3, TakenOnce DEF ExportInv
<1>5. Messages(box)' = Messages(box)
  BY <1>2
<1>6. box' \in Boxes /\ format' \in FORMATS
  BY <1>2 DEF ExportInv
<1>7. CASE Unreadable(m) \/ Blocked(m)
  <2>1. stats.messages' = stats.messages
    BY <1>7 DEF Unreadable, Blocked, Counted
  <2>2. disk' = disk \/ \E dir : CanCreateDir(dir) /\ disk' = WithDir(dir)
    BY <1>7 DEF Unreadable, Blocked
  <2>3. DiskTyped' /\ \A path : IsFile(path) => path \in DOMAIN disk' /\ disk'[path] = disk[path]
    <3>1. CASE disk' = disk
      BY <3>1 DEF ExportInv, DiskTyped, IsFile
    <3>2. ASSUME NEW dir, CanCreateDir(dir), disk' = WithDir(dir)
          PROVE  DiskTyped' /\ \A path : IsFile(path) =>
                   path \in DOMAIN disk' /\ disk'[path] = disk[path]
      BY <3>2, DirsOnly DEF ExportInv
    <3> QED BY <2>2, <3>1, <3>2
  <2>4. ASSUME NEW x \in ToSet(Messages(box)), x.nid \in stats.messages PROVE Kept(x)'
    BY <1>2, <2>3, <2>4, KeptBeside DEF ExportInv
  <2> QED BY <1>4, <1>5, <1>6, <2>1, <2>3, <2>4 DEF ExportInv
<1>8. CASE Write(m) \/ WriteFails(m)
  <2>1. PICK whole \in BOOLEAN : /\ CanWrite(m) /\ Wrote(m, whole)
                                 /\ Write(m) => Wrote(m, TRUE)
    BY <1>8 DEF Write, WriteFails
  <2>2. DiskTyped'
    BY <1>4, <2>1, WriteOne DEF ExportInv
  <2>3. ASSUME NEW x \in ToSet(Messages(box)), x.nid \in stats.messages' PROVE Kept(x)'
    <3>1. CASE x.nid = m.nid
      <4>1. Write(m)
        BY <1>3, <1>4, <2>3, <3>1
      <4>2. x = m
        BY <1>4, <3>1, MessagesDiffer DEF ExportInv
      <4>3. Kept(m)'
        BY <1>2, <1>4, <2>1, <4>1, WriteKeepsItself
      <4> QED BY <4>2, <4>3
    <3>2. CASE x.nid # m.nid
      <4>1. Kept(x)
        BY <1>3, <2>3, <3>2 DEF ExportInv
      <4>2. x \in Nodes
        BY MessageTyped DEF ExportInv
      <4> QED BY <1>2, <1>4, <2>1, <3>2, <4>1, <4>2, WriteKeepsOthers
    <3> QED BY <3>1, <3>2
  <2> QED BY <1>4, <1>5, <1>6, <2>2, <2>3 DEF ExportInv
<1> QED BY <1>7, <1>8

\* A step that takes no message keeps what was said of those taken.
LEMMA ExportRests ==
  ASSUME ExportInv, UNCHANGED <<box, format, left, disk, stats>>, pc' # "start" \/ pc' = pc
  PROVE  ExportInv'
<1>1. Messages(box)' = Messages(box)
  OBVIOUS
<1>2. ToCome'
  BY <1>1 DEF ExportInv, ToCome, OneEntryEach
<1>3. ASSUME NEW x \in ToSet(Messages(box)), x.nid \in stats.messages PROVE Kept(x)'
  <2>1. \A path : IsFile(path) => path \in DOMAIN disk' /\ disk'[path] = disk[path]
    BY DEF IsFile
  <2> QED BY <1>3, <2>1, KeptBeside DEF ExportInv
<1> QED BY <1>1, <1>2, <1>3 DEF ExportInv, DiskTyped

-----------------------------------------------------------------------------
\* The folders below the one chosen, for a mailbox that is not a variable.
Added(b, k, w) ==
  IF b[k].type = "folder" /\ b[k].nid # b[k].parent /\ b[k].parent \in w
  THEN w \union {b[k].nid} ELSE w

GrownIn(b, want) ==
  LET upTo[k \in 0 .. Len(b)] == IF k = 0 THEN want ELSE Added(b, k, upTo[k - 1])
  IN  upTo[Len(b)]

WantedIn(b, o) ==
  LET after[k \in 0 .. Len(b)] == IF k = 0 THEN {o} ELSE GrownIn(b, after[k - 1])
  IN  after[Len(b)]

\* What is wanted depends on the mailbox and the choice alone.
LEMMA WantedIs == Wanted = WantedIn(box, only)
<1>1. \A w : Grown(w) = GrownIn(box, w)
  BY DEF Grown, GrownIn, Added
<1> QED BY <1>1 DEF Wanted, WantedIn

\* A set that has the children of each folder it has.
Downwards(b, S) == \A f \in Folders(b) : f.parent \in S => f.nid \in S

\* What a pass over the first k nodes makes of what was wanted.
Grew(b, k, want, g) ==
  /\ g \in SUBSET STRING /\ want \subseteq g
  /\ \A x \in g : x \in want \/ \E j \in 1 .. Len(b) : x = b[j].nid
  /\ \A j \in 1 .. k : b[j].type = "folder" /\ b[j].nid # b[j].parent /\ b[j].parent \in want =>
       b[j].nid \in g
  /\ \A S : want \subseteq S /\ Downwards(b, S) => g \subseteq S

\* One more node.
LEMMA GrewMore ==
  ASSUME NEW b \in Boxes, NEW want \in SUBSET STRING, NEW k \in Nat, k + 1 \in 1 .. Len(b),
         NEW g, Grew(b, k, want, g)
  PROVE  Grew(b, k + 1, want, Added(b, k + 1, g))
<1>1. b[k + 1] \in Nodes /\ b[k + 1] \in ToSet(b)
  <2>1. b \in Seq(Nodes) /\ DOMAIN b = 1 .. Len(b)
    BY BoxTyped
  <2> QED BY <2>1 DEF ToSet
<1>2. PICK n : n = b[k + 1]
  OBVIOUS
<1>3. n.nid \in STRING
  BY <1>1, <1>2 DEF Nodes
<1>4. PICK h : h = Added(b, k + 1, g)
  OBVIOUS
<1>5. /\ h = g \/ h = g \union {n.nid}
      /\ h # g => n.type = "folder" /\ n.parent \in g
      /\ n.type = "folder" /\ n.nid # n.parent /\ n.parent \in g => n.nid \in h
  BY <1>2, <1>4 DEF Added
<1>6. /\ h \in SUBSET STRING /\ want \subseteq h
      /\ \A x \in h : x \in want \/ \E j \in 1 .. Len(b) : x = b[j].nid
  BY <1>2, <1>3, <1>5 DEF Grew
<1>7. ASSUME NEW j \in 1 .. k + 1,
             b[j].type = "folder", b[j].nid # b[j].parent, b[j].parent \in want
      PROVE  b[j].nid \in h
  <2>1. j = k + 1 \/ j \in 1 .. k
    OBVIOUS
  <2> QED BY <1>2, <1>5, <1>7, <2>1 DEF Grew
<1>8. ASSUME NEW S, want \subseteq S, Downwards(b, S)
      PROVE  h \subseteq S
  <2>1. g \subseteq S
    BY <1>8 DEF Grew
  <2>2. n.type = "folder" /\ n.parent \in g => n.nid \in S
    BY <1>1, <1>2, <1>8, <2>1 DEF Downwards, Folders
  <2> QED BY <1>5, <2>1, <2>2
<1> QED BY <1>4, <1>6, <1>7, <1>8 DEF Grew

\* What a whole pass makes of what was wanted.
LEMMA GrownIs ==
  ASSUME NEW b \in Boxes, NEW want \in SUBSET STRING
  PROVE  Grew(b, Len(b), want, GrownIn(b, want))
<1> DEFINE N == Len(b)
           V == SUBSET STRING
           step == [k \in 1 .. N |-> [w \in V |-> Added(b, k, w)]]
           Rec(u) == u = [k \in 0 .. N |-> IF k = 0 THEN want ELSE Added(b, k, u[k - 1])]
           up == CHOOSE u : Rec(u)
<1>1. N \in Nat /\ b \in Seq(Nodes)
  BY BoxTyped
<1>2. step \in [1 .. N -> [V -> V]]
  <2>1. ASSUME NEW k \in 1 .. N, NEW w \in V PROVE Added(b, k, w) \in V
    <3>1. b[k] \in Nodes
      BY <1>1
    <3>2. b[k].nid \in STRING
      BY <3>1 DEF Nodes
    <3> QED BY <3>2 DEF Added
  <2> QED BY <2>1
<1>3. PICK u : Recurs(u, N, V, want, step)
  <2> HIDE DEF N, step, V
  <2>1. want \in V
    BY DEF V
  <2> QED BY <1>1, <1>2, <2>1, Recursion
<1>4. Rec(u)
  <2>1. u \in [0 .. N -> V] /\ u[0] = want
    BY <1>3 DEF Recurs
  <2>2. ASSUME NEW k \in 1 .. N PROVE u[k] = Added(b, k, u[k - 1])
    <3>1. k - 1 \in 0 .. N
      BY <1>1
    <3>2. u[k - 1] \in V
      BY <2>1, <3>1
    <3>3. u[k] = step[k][u[k - 1]]
      BY <1>3 DEF Recurs
    <3> QED BY <3>2, <3>3
  <2>3. \A k \in 0 .. N : k = 0 \/ k \in 1 .. N
    BY <1>1
  <2> HIDE DEF N, step, V
  <2> QED BY <2>1, <2>2, <2>3
<1>5. Rec(up)
  BY <1>4
<1>6. GrownIn(b, want) = up[N]
  BY DEF GrownIn
<1> HIDE DEF up
<1> DEFINE P == {k \in Nat : k <= N => Grew(b, k, want, up[k])}
<1>7. 0 \in P
  <2>1. 0 \in 0 .. N
    BY <1>1
  <2>2. up[0] = want
    BY <1>5, <2>1
  <2>3. Grew(b, 0, want, want)
    BY DEF Grew
  <2> QED BY <2>2, <2>3
<1>8. ASSUME NEW k \in Nat, k \in P PROVE k + 1 \in P
  <2> SUFFICES ASSUME k + 1 <= N PROVE Grew(b, k + 1, want, up[k + 1])
    OBVIOUS
  <2>1. Grew(b, k, want, up[k]) /\ k + 1 \in 0 .. N /\ k + 1 # 0 /\ (k + 1) - 1 = k
    BY <1>1, <1>8
  <2>2. up[k + 1] = Added(b, k + 1, up[k])
    BY <1>5, <2>1
  <2>3. k + 1 \in 1 .. Len(b)
    BY <1>1, <2>1
  <2> QED BY <2>1, <2>2, <2>3, GrewMore
<1>9. N \in P
  <2> HIDE DEF P
  <2> QED BY <1>1, <1>7, <1>8, Induct
<1> QED BY <1>1, <1>6, <1>9

Ids(b) == {b[j].nid : j \in 1 .. Len(b)}

\* There are no more ids than nodes.
LEMMA FewIds ==
  ASSUME NEW b \in Boxes
  PROVE  /\ IsFiniteSet(Ids(b)) /\ Cardinality(Ids(b)) <= Len(b)
         /\ Ids(b) \subseteq STRING
<1>1. b \in Seq(Nodes) /\ Len(b) \in Nat /\ \A j \in 1 .. Len(b) : b[j] \in Nodes
  BY BoxTyped
<1>2. IsFiniteSet(1 .. Len(b)) /\ Cardinality(1 .. Len(b)) = Len(b)
  <2>1. PICK a, n \in Int : a = 1 /\ n = Len(b) /\ n >= 0
    BY <1>1
  <2>2. IsFiniteSet(a .. n) /\ Cardinality(a .. n) = IF a > n THEN 0 ELSE n - a + 1
    BY FS_Interval
  <2> QED BY <2>1, <2>2
<1>3. PICK g : g = [j \in 1 .. Len(b) |-> b[j].nid]
  OBVIOUS
<1>4. g \in Surjection(1 .. Len(b), Ids(b))
  BY <1>3 DEF Surjection, Ids
<1>5. IsFiniteSet(Ids(b)) /\ Cardinality(Ids(b)) <= Cardinality(1 .. Len(b))
  BY <1>2, <1>4, FS_Surjection
<1>6. Ids(b) \subseteq STRING
  BY <1>1 DEF Ids, Nodes
<1> QED BY <1>2, <1>5, <1>6

\* What is wanted after some passes: the folder chosen, and what every set has
\* that has it and the children of each folder it has.
Within(b, o, w) ==
  /\ w \in SUBSET Ids(b) /\ o \in w
  /\ \A S : o \in S /\ Downwards(b, S) => w \subseteq S

Passed(b, o, k, w) ==
  /\ Within(b, o, w)
  /\ GrownIn(b, w) = w \/ Cardinality(w) >= k + 1

\* A pass adds something unless it is the last that is needed.
LEMMA PassedOnce ==
  ASSUME NEW b \in Boxes, NEW o, NEW k \in Nat, NEW w, Passed(b, o, k, w)
  PROVE  Passed(b, o, k + 1, GrownIn(b, w))
<1>1. /\ w \in SUBSET Ids(b) /\ w \in SUBSET STRING /\ o \in w
      /\ IsFiniteSet(Ids(b))
  BY FewIds DEF Passed, Within
<1>2. PICK g : g = GrownIn(b, w)
  OBVIOUS
<1>3. Grew(b, Len(b), w, g)
  BY <1>1, <1>2, GrownIs
<1>4. Within(b, o, g)
  <2>1. g \in SUBSET Ids(b)
    BY <1>1, <1>3 DEF Grew, Ids
  <2>2. ASSUME NEW S, o \in S, Downwards(b, S) PROVE g \subseteq S
    BY <1>3, <2>2 DEF Grew, Passed, Within
  <2> QED BY <1>1, <1>3, <2>1, <2>2 DEF Within, Grew
<1>5. CASE g = w
  BY <1>2, <1>4, <1>5 DEF Passed
<1>6. CASE g # w
  <2>1. w \subseteq g /\ IsFiniteSet(g)
    BY <1>1, <1>3, <1>4, FS_Subset DEF Grew, Within
  <2>2. IsFiniteSet(w) /\ Cardinality(w) <= Cardinality(g) /\ Cardinality(g) # Cardinality(w)
    BY <1>6, <2>1, FS_Subset
  <2>3. PICK c, d \in Nat : c = Cardinality(w) /\ d = Cardinality(g)
    BY <2>1, <2>2, FS_CardinalityType
  <2>4. c >= k + 1
    BY <1>2, <1>6, <2>3 DEF Passed
  <2>5. d >= (k + 1) + 1
    BY <2>2, <2>3, <2>4
  <2> QED BY <1>2, <1>4, <2>3, <2>5 DEF Passed
<1> QED BY <1>2, <1>5, <1>6

\* The passes end with the chosen folder and all below it.
LEMMA WantedAll ==
  ASSUME NEW b \in Boxes, NEW f \in Folders(b)
  PROVE  Within(b, f.nid, WantedIn(b, f.nid)) /\ Downwards(b, WantedIn(b, f.nid))
<1> DEFINE N == Len(b)
           V == SUBSET STRING
           step == [k \in 1 .. N |-> [w \in V |-> GrownIn(b, w)]]
           Rec(u) == u = [k \in 0 .. N |-> IF k = 0 THEN {f.nid} ELSE GrownIn(b, u[k - 1])]
           after == CHOOSE u : Rec(u)
<1>1. N \in Nat /\ b \in Seq(Nodes) /\ DOMAIN b = 1 .. N
  BY BoxTyped
<1>2. PICK o : o = f.nid
  OBVIOUS
<1>3. o \in Ids(b) /\ {o} \in V
  <2>1. PICK j \in 1 .. N : f = b[j]
    BY <1>1 DEF Folders, ToSet
  <2> QED BY <1>2, <2>1, FewIds DEF Ids
<1>4. step \in [1 .. N -> [V -> V]]
  BY GrownIs DEF Grew
<1>5. PICK u : Recurs(u, N, V, {o}, step)
  <2> HIDE DEF N, step, V
  <2> QED BY <1>1, <1>3, <1>4, Recursion
<1>6. Rec(u)
  <2>1. u \in [0 .. N -> V] /\ u[0] = {f.nid}
    BY <1>2, <1>5 DEF Recurs
  <2>2. ASSUME NEW k \in 1 .. N PROVE u[k] = GrownIn(b, u[k - 1])
    <3>1. k - 1 \in 0 .. N
      BY <1>1
    <3>2. u[k - 1] \in V
      BY <2>1, <3>1
    <3>3. u[k] = step[k][u[k - 1]]
      BY <1>5 DEF Recurs
    <3> QED BY <3>2, <3>3
  <2>3. \A k \in 0 .. N : k = 0 \/ k \in 1 .. N
    BY <1>1
  <2> HIDE DEF N, step, V
  <2> QED BY <2>1, <2>2, <2>3
<1>7. Rec(after)
  BY <1>6
<1>8. WantedIn(b, f.nid) = after[N]
  BY DEF WantedIn
<1> HIDE DEF after
<1> DEFINE P == {k \in Nat : k <= N => Passed(b, o, k, after[k])}
<1>9. 0 \in P
  <2>1. 0 \in 0 .. N
    BY <1>1
  <2>2. after[0] = {o}
    BY <1>2, <1>7, <2>1
  <2>3. Within(b, o, {o})
    BY <1>3 DEF Within
  <2>4. Cardinality({o}) >= 0 + 1
    <3>1. Cardinality({o}) = 1
      BY FS_Singleton
    <3> QED BY <3>1
  <2> QED BY <2>2, <2>3, <2>4 DEF Passed
<1>10. ASSUME NEW k \in Nat, k \in P PROVE k + 1 \in P
  <2> SUFFICES ASSUME k + 1 <= N PROVE Passed(b, o, k + 1, after[k + 1])
    OBVIOUS
  <2>1. Passed(b, o, k, after[k]) /\ k + 1 \in 0 .. N /\ k + 1 # 0 /\ (k + 1) - 1 = k
    BY <1>1, <1>10
  <2>2. after[k + 1] = GrownIn(b, after[k])
    BY <1>7, <2>1
  <2> QED BY <2>1, <2>2, PassedOnce
<1>11. N \in P
  <2> HIDE DEF P
  <2> QED BY <1>1, <1>9, <1>10, Induct
<1>12. PICK w : w = after[N]
  OBVIOUS
<1>13. Passed(b, o, N, w)
  BY <1>1, <1>11, <1>12
<1>14. w \in SUBSET Ids(b) /\ w \in SUBSET STRING
  BY <1>13, FewIds DEF Passed, Within
<1>15. GrownIn(b, w) = w
  <2>1. IsFiniteSet(Ids(b)) /\ Cardinality(Ids(b)) <= N
    BY FewIds
  <2>2. IsFiniteSet(w) /\ Cardinality(w) <= Cardinality(Ids(b))
    BY <1>14, <2>1, FS_Subset
  <2>3. PICK c, d \in Nat : c = Cardinality(w) /\ d = Cardinality(Ids(b))
    BY <2>1, <2>2, FS_CardinalityType
  <2>4. ~ (c >= N + 1)
    BY <1>1, <2>1, <2>2, <2>3
  <2> QED BY <1>13, <2>3, <2>4 DEF Passed
<1>16. Downwards(b, w)
  <2>1. Grew(b, N, w, w)
    BY <1>14, <1>15, GrownIs
  <2>2. ASSUME NEW g \in Folders(b), g.parent \in w PROVE g.nid \in w
    <3>1. PICK j \in 1 .. N : g = b[j]
      BY <1>1 DEF Folders, ToSet
    <3>2. b[j].type = "folder"
      BY <3>1 DEF Folders
    <3> QED BY <2>1, <2>2, <3>1, <3>2 DEF Grew
  <2> QED BY <2>2 DEF Downwards
<1> QED BY <1>2, <1>8, <1>12, <1>13, <1>16 DEF Passed

\* A folder's own id and its parent's are ids.
LEMMA FolderTyped ==
  ASSUME NEW b \in Boxes, NEW f \in Folders(b)
  PROVE  f.nid \in STRING /\ f.parent \in STRING
<1>1. f \in Nodes
  BY BoxTyped DEF Folders, ToSet
<1> QED BY <1>1 DEF Nodes

\* A folder is one of those wanted if the one chosen is it or above it.
LEMMA WantedBelow ==
  ASSUME box \in Boxes, NEW f \in Folders(box), only = f.nid, NEW nid \in STRING
  PROVE  nid \in Wanted <=> only \in Above(nid)
<1> DEFINE ids == {nid} \union UNION {{g.nid, g.parent} : g \in Folders(box)}
           closed == {s \in SUBSET ids : \A g \in Folders(box) : g.nid \in s => g.parent \in s}
<1>1. PICK w : w = Wanted
  OBVIOUS
<1>2. Within(box, only, w) /\ Downwards(box, w)
  BY <1>1, WantedAll, WantedIs
<1>3. Above(nid) = {a \in ids : \A s \in closed : nid \in s => a \in s}
  BY DEF Above
<1>4. only \in ids
  OBVIOUS
<1>5. ASSUME nid \in w PROVE only \in Above(nid)
  <2>1. ASSUME NEW s \in closed, nid \in s, only \notin s PROVE FALSE
    <3>1. PICK S : S = STRING \ s
      OBVIOUS
    <3>2. only \in S
      BY <1>2, <2>1, <3>1, FewIds DEF Within
    <3>3. \A g \in Folders(box) : g.nid \in STRING
      BY FolderTyped
    <3>4. Downwards(box, S)
      BY <2>1, <3>1, <3>3 DEF Downwards
    <3>5. w \subseteq S
      BY <1>2, <3>2, <3>4 DEF Within
    <3> QED BY <1>5, <2>1, <3>1, <3>5
  <2> HIDE DEF ids, closed
  <2> QED BY <1>3, <1>4, <2>1
<1>6. ASSUME nid \notin w PROVE only \notin Above(nid)
  <2>1. PICK s : s = ids \ w
    OBVIOUS
  <2>2. \A g \in Folders(box) : g.parent \in ids
    OBVIOUS
  <2>3. \A g \in Folders(box) : g.nid \in s => g.parent \in s
    BY <1>2, <2>1, <2>2 DEF Downwards
  <2>4. s \in closed /\ nid \in s /\ only \notin s
    BY <1>2, <1>6, <2>1, <2>3 DEF Within
  <2> HIDE DEF ids, closed
  <2> QED BY <1>3, <2>4
<1> QED BY <1>1, <1>5, <1>6

-----------------------------------------------------------------------------
\* A filtered list has what it is filtered for.
LEMMA PickedAll ==
  ASSUME NEW s \in Seq(Nodes), NEW keep
  PROVE  ToSet(Picked(s, keep)) = {x \in ToSet(s) : x \in keep}
<1>1. PICK p, f : /\ p = Picked(s, keep) /\ p \in Seq(Nodes)
                  /\ PickedFrom(p, s, Len(s), keep, f)
  BY PickedIs
<1>2. Len(p) \in Nat /\ DOMAIN p = 1 .. Len(p) /\ DOMAIN s = 1 .. Len(s)
  BY <1>1
<1>3. ASSUME NEW x \in ToSet(p) PROVE x \in ToSet(s) /\ x \in keep
  BY <1>1, <1>2, <1>3 DEF ToSet, PickedFrom
<1>4. ASSUME NEW x \in ToSet(s), x \in keep PROVE x \in ToSet(p)
  <2>1. PICK i \in 1 .. Len(s) : s[i] = x
    BY <1>2, <1>4 DEF ToSet
  <2>2. PICK k \in 1 .. Len(p) : f[k] = i
    BY <1>1, <1>4, <2>1 DEF PickedFrom
  <2>3. p[k] = x
    BY <1>1, <2>1, <2>2 DEF PickedFrom
  <2> QED BY <1>2, <2>3 DEF ToSet
<1> QED BY <1>1, <1>3, <1>4

\* What an export goes through.
PoolIn(b, o) ==
  IF o = WHOLE THEN Messages(b)
  ELSE Picked(Messages(b), {m \in ToSet(b) : m.parent \in WantedIn(b, o)})

IdsOf(s) == {m.nid : m \in ToSet(s)}

ChoiceInv ==
  /\ only \in {WHOLE} \union {f.nid : f \in Folders(box)}
  /\ pc \in {"start", "write", "done"}
  /\ pc = "start" => left = <<>> /\ stats.messages = {} /\ stats.failed = {}
  /\ pc # "start" =>
       stats.messages \union stats.failed \union IdsOf(left) = IdsOf(PoolIn(box, only))
  /\ pc = "done" => left = <<>>

\* Nothing is counted before the export starts.
LEMMA ChoiceInit == Init => ChoiceInv
  BY DEF Init, ChoiceInv

\* A message that is dealt with is counted one way or the other.
LEMMA ChoiceTakes ==
  ASSUME ExportInv, ChoiceInv, NEW m,
         Unreadable(m) \/ Blocked(m) \/ Write(m) \/ WriteFails(m)
  PROVE  ChoiceInv'
<1>1. /\ Taking(m) /\ pc = "write" /\ left # <<>> /\ m = Head(left) /\ left' = Tail(left)
      /\ UNCHANGED <<box, only, pc>>
  BY DEF Unreadable, Blocked, Write, WriteFails, Taking
<1>2. \/ /\ stats'.messages = stats.messages \union {m.nid} /\ stats'.failed = stats.failed
      \/ /\ stats'.messages = stats.messages /\ stats'.failed = stats.failed \union {m.nid}
  <2>1. Counted(m, "messages") \/ Counted(m, "failed")
    BY DEF Unreadable, Blocked, Write, WriteFails
  <2>2. Counted(m, "messages") =>
          stats'.messages = stats.messages \union {m.nid} /\ stats'.failed = stats.failed \union {}
    BY DEF Counted
  <2>3. Counted(m, "failed") =>
          stats'.messages = stats.messages \union {} /\ stats'.failed = stats.failed \union {m.nid}
    BY DEF Counted
  <2> QED BY <2>1, <2>2, <2>3
<1>3. left \in Seq(Nodes)
  BY DEF ExportInv, ToCome
<1>4. ToSet(left) = {m} \union ToSet(left')
  <2>1. /\ Len(left) \in Nat \ {0} /\ DOMAIN left = 1 .. Len(left) /\ m = left[1]
        /\ DOMAIN left' = 1 .. Len(left) - 1
        /\ \A k \in 1 .. Len(left) - 1 : left'[k] = left[k + 1]
    BY <1>1, <1>3
  <2>2. \A k \in 1 .. Len(left) : k = 1 \/ (k - 1 \in 1 .. Len(left) - 1 /\ (k - 1) + 1 = k)
    BY <2>1
  <2>3. \A k \in 1 .. Len(left) - 1 : k + 1 \in 1 .. Len(left)
    BY <2>1
  <2>4. ASSUME NEW k \in 1 .. Len(left) PROVE left[k] = m \/ left[k] \in ToSet(left')
    <3>1. CASE k = 1
      BY <2>1, <3>1
    <3>2. CASE k # 1
      <4>1. k - 1 \in 1 .. Len(left) - 1 /\ (k - 1) + 1 = k
        BY <2>2, <3>2
      <4>2. left'[k - 1] = left[k] /\ k - 1 \in DOMAIN left'
        BY <2>1, <4>1
      <4> QED BY <4>2 DEF ToSet
    <3> QED BY <3>1, <3>2
  <2>5. m \in ToSet(left) /\ \A x \in ToSet(left') : x \in ToSet(left)
    BY <2>1, <2>3 DEF ToSet
  <2>6. \A x \in ToSet(left) : x = m \/ x \in ToSet(left')
    BY <2>1, <2>4 DEF ToSet
  <2> QED BY <2>5, <2>6
<1>5. IdsOf(left) = {m.nid} \union IdsOf(left')
  BY <1>4 DEF IdsOf
<1>6. IdsOf(left)' = IdsOf(left') /\ PoolIn(box, only)' = PoolIn(box, only)
  BY <1>1
<1>7. IdsOf(PoolIn(box, only))' = IdsOf(PoolIn(box, only))
  BY <1>1
<1> QED BY <1>1, <1>2, <1>5, <1>6, <1>7 DEF ChoiceInv

\* Every step keeps what is still to do and what was counted together.
LEMMA ChoiceSteps ==
  ASSUME ExportInv, ChoiceInv, [Next]_vars
  PROVE  ChoiceInv'
<1>1. CASE Start
  <2>1. /\ pc = "start" /\ pc' = "write" /\ UNCHANGED <<box, only, stats>>
        /\ left' = PoolIn(box, only)
    BY <1>1, WantedIs DEF Start, PoolIn
  <2>2. IdsOf(left)' = IdsOf(PoolIn(box, only)) /\ IdsOf(PoolIn(box, only))' = IdsOf(PoolIn(box, only))
    BY <2>1
  <2> QED BY <2>1, <2>2 DEF ChoiceInv
<1>2. CASE End \/ UNCHANGED vars
  <2>1. /\ UNCHANGED <<box, only, stats, left>>
        /\ pc' = pc \/ (pc = "write" /\ pc' = "done" /\ left = <<>>)
    BY <1>2 DEF End, vars
  <2> QED BY <2>1 DEF ChoiceInv
<1>3. ASSUME NEW m, Unreadable(m) \/ Blocked(m) \/ Write(m) \/ WriteFails(m)
      PROVE  ChoiceInv'
  BY <1>3, ChoiceTakes
<1> QED BY <1>1, <1>2, <1>3 DEF Next

\* What an export goes through are the messages of the folder chosen and those below it.
LEMMA PoolIs ==
  ASSUME box \in Boxes, only \in {WHOLE} \union {f.nid : f \in Folders(box)}
  PROVE  ToSet(PoolIn(box, only)) =
           {m \in ToSet(Messages(box)) : only \in {WHOLE} \union Above(m.parent)}
<1>1. CASE only = WHOLE
  BY <1>1 DEF PoolIn
<1>2. CASE only # WHOLE
  <2>1. PICK f \in Folders(box) : only = f.nid
    BY <1>2
  <2>2. PICK s : s = Messages(box) /\ s \in Seq(Nodes)
    BY MessagesTyped
  <2>3. PICK keep : keep = {m \in ToSet(box) : m.parent \in WantedIn(box, only)}
    OBVIOUS
  <2>4. ToSet(PoolIn(box, only)) = {m \in ToSet(s) : m \in keep}
    BY <1>2, <2>2, <2>3, PickedAll DEF PoolIn
  <2>5. ASSUME NEW m \in ToSet(s)
        PROVE  m \in keep <=> only \in Above(m.parent)
    <3>1. m \in Nodes
      BY <2>2, MessageTyped
    <3>2. m.parent \in STRING
      BY <3>1 DEF Nodes
    <3>3. m \in ToSet(box)
      <4>1. box \in Seq(Nodes) /\ OneEntryEach(box)
        BY BoxTyped
      <4> QED BY <2>2, <2>5, <4>1, PickedEach DEF Messages
    <3>4. m.parent \in Wanted <=> only \in Above(m.parent)
      BY <2>1, <3>2, WantedBelow
    <3> QED BY <2>3, <3>3, <3>4, WantedIs
  <2> QED BY <1>2, <2>2, <2>4, <2>5
<1> QED BY <1>1, <1>2

\* Every step keeps what was counted on the disk.
LEMMA ExportSteps ==
  ASSUME ExportInv, [Next]_vars
  PROVE  ExportInv'
<1>1. CASE Start
  BY <1>1, ExportStart
<1>2. CASE End
  BY <1>2, ExportRests DEF End
<1>3. ASSUME NEW m, Unreadable(m) \/ Blocked(m) \/ Write(m) \/ WriteFails(m)
      PROVE  ExportInv'
  BY <1>3, ExportTakes
<1>4. CASE UNCHANGED vars
  BY <1>4, ExportRests DEF vars
<1> QED BY <1>1, <1>2, <1>3, <1>4 DEF Next

\* What was counted is kept, and what is to come was not counted.
THEOREM ExportInvariant == Spec => []ExportInv
<1>1. Init => ExportInv
  BY ExportInit
<1>2. ExportInv /\ [Next]_vars => ExportInv'
  BY ExportSteps
<1> QED BY <1>1, <1>2, PTL DEF Spec

\* export never writes over a message it has counted: its path is new, or an
\* mbox that it appends to, or the subject with the message's own id; only a
\* subject that reads like that is in danger.
THEOREM ExportKeepsAll == Spec => []EachIsThere
<1>1. ExportInv => EachIsThere
  <2> SUFFICES ASSUME ExportInv, NEW m \in ToSet(Messages(box)), m.nid \in stats.messages
               PROVE  \/ \E path \in DOMAIN disk : Holds(path, m.nid)
                      \/ format # "mbox" /\ Lookalike(m)
    BY DEF EachIsThere
  <2>1. Kept(m)
    BY DEF ExportInv
  <2>2. LookalikeIn(box, m, format) <=> Lookalike(m)
    BY PathsAre DEF LookalikeIn, Lookalike
  <2>3. \A path : Holds(path, m.nid) => path \in DOMAIN disk
    BY DEF Holds, IsFile
  <2> QED BY <2>1, <2>2, <2>3 DEF Kept
<1> QED BY <1>1, ExportInvariant, PTL

\* A folder's export takes the messages of the folder and of all below it, in
\* whatever order the index lists them and though folders may be below themselves,
\* and counts each of them as written or as failed.
THEOREM ExportOnlyChosen == Spec => []OnlyChosen
<1> DEFINE Inv == ExportInv /\ ChoiceInv
<1>1. Init => Inv
  BY ExportInit, ChoiceInit
<1>2. Inv /\ [Next]_vars => Inv'
  BY ExportSteps, ChoiceSteps
<1>3. Inv => OnlyChosen
  <2> SUFFICES ASSUME Inv, pc = "done"
               PROVE  stats.messages \union stats.failed =
                        {m.nid : m \in {m \in ToSet(Messages(box)) :
                                          only \in {WHOLE} \union Above(m.parent)}}
    BY DEF OnlyChosen
  <2>1. IdsOf(left) = {}
    BY DEF ChoiceInv, IdsOf, ToSet
  <2>2. ToSet(PoolIn(box, only)) =
           {m \in ToSet(Messages(box)) : only \in {WHOLE} \union Above(m.parent)}
    BY PoolIs DEF ExportInv, ChoiceInv
  <2> QED BY <2>1, <2>2 DEF ChoiceInv, IdsOf
<1> QED BY <1>1, <1>2, <1>3, PTL DEF Spec

=============================================================================
