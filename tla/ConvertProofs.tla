---------------------------- MODULE ConvertProofs ----------------------------
(***************************************************************************)
(* Proofs about the conversion, for every source, block size and fan-out:  *)
(* what a plan is, what a reader finds of it once its blocks are in a file *)
(* under ids that count up, what the state machine does with plans, and so *)
(* the safety properties of the run and the safe part of its refinement.   *)
(***************************************************************************)
EXTENDS Convert, LayoutLemmas, FiniteSetTheorems, TLAPS

-----------------------------------------------------------------------------
(* Sources. *)

\* A source's streams, its trees (zero stands for none), and its nodes.
Data(old) == {0} \union DOMAIN old.streams
Trees(old) == {0} \union DOMAIN old.trees
Node(old) == [nid : Nat, data : Data(old), sub : Trees(old), parent : Nat]

\* What SourcesAssumption says of a source.
Source(old) ==
  /\ Data(old) \subseteq Nat /\ Trees(old) \subseteq Nat
  /\ 0 \notin DOMAIN old.streams /\ 0 \notin DOMAIN old.trees /\ 0 \notin old.bad
  /\ old.nodes \in Seq(Node(old))
  /\ \A x \in DOMAIN old.streams : old.streams[x] \in Seq(Seq(Nat))
  /\ \A t \in DOMAIN old.trees :
       /\ IsFiniteSet(DOMAIN old.trees[t]) /\ DOMAIN old.trees[t] \subseteq Nat
       /\ \A nid \in DOMAIN old.trees[t] :
            old.trees[t][nid] \in [data : Data(old), sub : Trees(old)]
  /\ old.ansi \in BOOLEAN /\ old.store \in BOOLEAN

\* Every source the model may start from is one SourcesAssumption describes.
LEMMA SourcesAre == \A s \in SOURCES : Source(s)
<1> SUFFICES ASSUME NEW s \in SOURCES PROVE Source(s)
  OBVIOUS
<1> QED BY SourcesAssumption DEF Source, Data, Trees, Node

-----------------------------------------------------------------------------
(* What joins and cuts. *)

\* Parts that a sequence was cut into join to that sequence.
LEMMA JoinedParts ==
  ASSUME NEW S, NEW s \in Seq(S), NEW parts \in Seq(Seq(S)), NEW fan, NEW from,
         CutUp(parts, s, fan, from)
  PROVE  Joined(parts) = s
<1>1. PICK G \in Nat : G = Len(parts)
  OBVIOUS
<1>2. PICK N \in Nat : N = Len(s)
  OBVIOUS
<1>3. /\ G >= 1 /\ from \in [1 .. G + 1 -> 1 .. N + 1]
      /\ from[1] = 1 /\ from[G + 1] = N + 1
  BY <1>1, <1>2 DEF CutUp
<1>4. \A g \in 1 .. G :
        /\ Len(parts[g]) = from[g + 1] - from[g] /\ Len(parts[g]) >= 1
        /\ \A j \in 1 .. Len(parts[g]) : parts[g][j] = s[from[g] + j - 1]
  BY <1>1 DEF CutUp
<1> DEFINE u == [g \in 0 .. G |-> SubSeq(s, 1, from[g + 1] - 1)]
<1>5. ASSUME NEW g \in 0 .. G
      PROVE  /\ from[g + 1] - 1 \in 0 .. N
             /\ SubSeq(s, 1, from[g + 1] - 1) \in Seq(S)
             /\ Len(SubSeq(s, 1, from[g + 1] - 1)) = from[g + 1] - 1
             /\ \A j \in 1 .. from[g + 1] - 1 : SubSeq(s, 1, from[g + 1] - 1)[j] = s[j]
  <2>1. PICK n \in Nat : n = from[g + 1] - 1 /\ n <= N
    <3>1. g + 1 \in 1 .. G + 1
      BY <1>1
    <3>2. from[g + 1] \in 1 .. N + 1
      BY <1>3, <3>1
    <3> QED BY <1>2, <3>2
  <2>2. SubSeq(s, 1, n) \in Seq(S) /\ Len(SubSeq(s, 1, n)) = n
        /\ \A j \in 1 .. n : SubSeq(s, 1, n)[j] = s[j]
    BY <1>2, <2>1
  <2> QED BY <2>1, <2>2
<1>6. u \in [0 .. G -> Seq(S)]
  BY <1>5
<1>7. u[0] = <<>>
  <2>1. 0 \in 0 .. G /\ 0 + 1 = 1
    BY <1>1
  <2>2. u[0] = SubSeq(s, 1, 0)
    BY <1>3, <2>1
  <2>3. SubSeq(s, 1, 0) = <<>>
    OBVIOUS
  <2> QED BY <2>2, <2>3
<1>8. ASSUME NEW g \in 1 .. G PROVE u[g] = u[g - 1] \o parts[g]
  <2>1. g \in 0 .. G /\ g - 1 \in 0 .. G /\ (g - 1) + 1 = g
    BY <1>1
  <2>9. from[g] \in 1 .. N + 1 /\ from[g + 1] \in 1 .. N + 1
    <3>1. g \in 1 .. G + 1 /\ g + 1 \in 1 .. G + 1
      BY <1>1
    <3> QED BY <1>3, <3>1
  <2>10. PICK c, d \in 1 .. N + 1 : c = from[g] /\ d = from[g + 1]
    BY <2>9
  <2>2. PICK a, b \in Nat : a = c - 1 /\ b = d - 1 /\ b <= N
    BY <1>2, <2>10
  <2>11. u[g - 1] = SubSeq(s, 1, a) /\ u[g] = SubSeq(s, 1, b) /\ a <= N
    <3>1. u[g] = SubSeq(s, 1, b)
      BY <2>1, <2>2, <2>10
    <3>2. u[g - 1] = SubSeq(s, 1, from[(g - 1) + 1] - 1)
      BY <2>1
    <3>3. (g - 1) + 1 = g /\ a <= N
      BY <1>1, <1>2, <2>2, <2>10
    <3> QED BY <2>2, <2>10, <3>1, <3>2, <3>3
  <2>12. \A n \in 0 .. N : /\ SubSeq(s, 1, n) \in Seq(S) /\ Len(SubSeq(s, 1, n)) = n
                           /\ \A j \in 1 .. n : SubSeq(s, 1, n)[j] = s[j]
    BY <1>2
  <2>15. a \in 0 .. N /\ b \in 0 .. N
    BY <2>2, <2>11
  <2>3. PICK x \in Seq(S) : x = SubSeq(s, 1, a) /\ Len(x) = a
                           /\ \A j \in 1 .. a : x[j] = s[j]
    BY <2>12, <2>15
  <2>4. PICK y \in Seq(S) : y = SubSeq(s, 1, b) /\ Len(y) = b
                           /\ \A j \in 1 .. b : y[j] = s[j]
    BY <2>12, <2>15
  <2>5. PICK p \in Seq(S) : p = parts[g]
    BY <1>1
  <2>6. /\ Len(p) = b - a
        /\ \A j \in 1 .. Len(p) : p[j] = s[a + j]
    <3>2. Len(p) = d - c /\ \A j \in 1 .. Len(p) : p[j] = s[c + j - 1]
      BY <1>4, <2>5, <2>10
    <3>3. d - c = b - a
      BY <2>2
    <3>4. \A j \in 1 .. Len(p) : c + j - 1 = a + j
      BY <2>2
    <3> QED BY <3>2, <3>3, <3>4
  <2>14. a <= b
    BY <2>2, <2>5, <2>6
  <2>7. Len(x \o p) = b
    BY <2>3, <2>6, <2>14
  <2>13. ASSUME NEW j \in 1 .. b PROVE (x \o p)[j] = s[j]
    <3>1. CASE j <= a
      BY <2>3, <2>7, <3>1
    <3>2. CASE j > a
      <4>1. j - a \in 1 .. Len(p) /\ a + (j - a) = j
        BY <2>2, <2>6, <3>2
      <4>2. (x \o p)[j] = p[j - a]
        BY <2>3, <2>7, <3>2
      <4>3. PICK m \in 1 .. Len(p) : m = j - a /\ a + m = j
        BY <4>1
      <4>4. p[m] = s[a + m]
        BY <2>6, <4>3
      <4> QED BY <4>2, <4>3, <4>4
    <3>3. j <= a \/ j > a
      OBVIOUS
    <3> QED BY <3>1, <3>2, <3>3, Zenon
  <2>8. y = x \o p
    <3>1. x \o p \in Seq(S)
      BY <2>3, <2>5
    <3>2. Len(y) = Len(x \o p) /\ \A j \in 1 .. Len(y) : y[j] = (x \o p)[j]
      BY <2>4, <2>7, <2>13
    <3>3. PICK z \in Seq(S) : z = x \o p
      BY <3>1
    <3>4. Len(y) = Len(z) /\ \A j \in 1 .. Len(y) : y[j] = z[j]
      BY <3>2, <3>3, Zenon
    <3>6. y = [j \in 1 .. Len(y) |-> y[j]] /\ z = [j \in 1 .. Len(z) |-> z[j]]
      OBVIOUS
    <3>5. y = z
      BY <3>4, <3>6
    <3> QED BY <3>3, <3>5
  <2> QED BY <2>3, <2>4, <2>5, <2>8, <2>11
<1>9. u[G] = s
  <2>1. G \in 0 .. G /\ from[G + 1] - 1 = N
    BY <1>1, <1>2, <1>3
  <2>2. u[G] = SubSeq(s, 1, N)
    BY <2>1
  <2>3. SubSeq(s, 1, N) = s
    BY <1>2
  <2> QED BY <2>2, <2>3
<1> HIDE DEF u
<1>10. Joining(u, parts, S)
  BY <1>1, <1>6, <1>7, <1>8 DEF Joining
<1> QED BY <1>1, <1>9, <1>10, JoinedAs

\* What fits in a data block.
Part == {x \in Seq(Nat) : Len(x) <= MAX_DATA}

\* Cutting makes blocks that fit, keeps every byte, and leaves alone what fits.
LEMMA CutIs ==
  ASSUME NEW blocks \in Seq(Seq(Nat))
  PROVE  /\ Cut(blocks) \in Seq(Part)
         /\ Joined(Cut(blocks)) = Joined(blocks)
         /\ (\A j \in DOMAIN blocks : Len(blocks[j]) <= MAX_DATA) => Cut(blocks) = blocks
<1>1. PICK N \in Nat : N = Len(blocks) /\ DOMAIN blocks = 1 .. N
  OBVIOUS
<1>2. PICK D \in Nat \ {0} : D = MAX_DATA
  BY ConvertAssumption
<1>3. PICK ps : ps = [j \in DOMAIN blocks |->
                  IF Len(blocks[j]) <= MAX_DATA THEN <<blocks[j]>> ELSE Chunks(blocks[j], MAX_DATA)]
  OBVIOUS
<1>4. Cut(blocks) = Joined(ps)
  BY <1>3 DEF Cut
<1>5. ASSUME NEW j \in 1 .. N
      PROVE  /\ ps[j] \in Seq(Part) /\ ps[j] \in Seq(Seq(Nat))
             /\ Joined(ps[j]) = blocks[j]
  <2>1. PICK b \in Seq(Nat) : b = blocks[j]
    BY <1>1
  <2>2. CASE Len(b) <= D
    <3>1. ps[j] = <<b>>
      BY <1>1, <1>2, <1>3, <2>1, <2>2
    <3>2. b \in Part
      BY <1>2, <2>2 DEF Part
    <3>3. Joined(<<b>>) = b
      <4>0. <<>> \in Seq(Seq(Nat)) /\ Len(<<>>) = 0
        OBVIOUS
      <4>1. PICK e \in Seq(Seq(Nat)) : e = <<>> /\ Len(e) = 0
        BY <4>0
      <4>2. PICK w : Joining(w, e, Nat) /\ Joined(e) = w[Len(e)]
        BY JoinedIs
      <4>3. Joined(e) = <<>>
        BY <4>1, <4>2 DEF Joining
      <4>4. Joined(Append(e, b)) = Joined(e) \o b
        BY JoinedAppend
      <4>5. Append(e, b) = <<b>> /\ <<>> \o b = b
        BY <4>1
      <4> QED BY <4>3, <4>4, <4>5
    <3>4. <<b>> \in Seq(Part) /\ <<b>> \in Seq(Seq(Nat))
      BY <3>2
    <3> QED BY <2>1, <3>1, <3>3, <3>4
  <2>3. CASE ~ (Len(b) <= D)
    <3>1. ps[j] = Chunks(b, D)
      BY <1>1, <1>2, <1>3, <2>1, <2>3
    <3>2. b # <<>>
      BY <2>3
    <3>3. PICK parts \in Seq(Seq(Nat) \ {<<>>}) :
            parts = Chunks(b, D) /\ \E from : CutUp(parts, b, D, from)
      BY <3>2, ChunksIs
    <3>4. PICK from : CutUp(parts, b, D, from)
      BY <3>3
    <3>5. parts \in Seq(Seq(Nat))
      BY SeqWider
    <3>6. Joined(parts) = b
      BY <3>4, <3>5, JoinedParts
    <3>7. parts \in Seq(Part)
      <4>1. ASSUME NEW g \in 1 .. Len(parts) PROVE parts[g] \in Part
        <5>1. parts[g] \in Seq(Nat)
          BY <3>5
        <5>2. Len(parts[g]) <= D
          BY <3>4 DEF CutUp
        <5>3. Len(parts[g]) <= MAX_DATA
          BY <1>2, <5>2
        <5> QED BY <5>1, <5>3 DEF Part
      <4>2. parts = [g \in 1 .. Len(parts) |-> parts[g]] /\ Len(parts) \in Nat
        BY <3>5
      <4>3. parts \in [1 .. Len(parts) -> Part]
        BY <4>1, <4>2
      <4>4. PICK n \in Nat : n = Len(parts)
        BY <4>2
      <4>5. parts \in [1 .. n -> Part]
        BY <4>3, <4>4
      <4>6. \A x \in [1 .. n -> Part] : x \in Seq(Part)
        OBVIOUS
      <4> QED BY <4>5, <4>6
    <3> QED BY <2>1, <3>1, <3>3, <3>5, <3>6, <3>7
  <2> QED BY <2>2, <2>3
<1>6. ps \in Seq(Seq(Part)) /\ ps \in Seq(Seq(Seq(Nat))) /\ Len(ps) = N /\ DOMAIN ps = 1 .. N
  <2>1. ps \in [1 .. N -> Seq(Part)] /\ ps \in [1 .. N -> Seq(Seq(Nat))]
    BY <1>1, <1>3, <1>5
  <2> QED BY <2>1
<1>7. Cut(blocks) \in Seq(Part)
  <2>1. PICK u : Joining(u, ps, Part) /\ Joined(ps) = u[Len(ps)]
    BY <1>6, JoinedIs
  <2> QED BY <1>4, <1>6, <2>1, JoinedAs
<1>8. Joined(Cut(blocks)) = Joined(blocks)
  <2>1. Joined(Joined(ps)) = Joined([j \in DOMAIN ps |-> Joined(ps[j])])
    BY <1>6, JoinedTwice
  <2>2. [j \in DOMAIN ps |-> Joined(ps[j])] = blocks
    BY <1>1, <1>5, <1>6
  <2> QED BY <1>4, <2>1, <2>2
<1>9. ASSUME \A j \in DOMAIN blocks : Len(blocks[j]) <= MAX_DATA
      PROVE  Cut(blocks) = blocks
  <2>1. ps = [j \in DOMAIN blocks |-> <<blocks[j]>>]
    BY <1>3, <1>9
  <2> QED BY <1>4, <2>1, JoinedSingles
<1> QED BY <1>7, <1>8, <1>9

-----------------------------------------------------------------------------
(* Plans. *)

\* An entry of an index block, and a block that fits a block's largest size.
Ent == [nid : Nat, data : Nat, sub : Nat]
Small(b) == Fits(BlockSpan(Bytes(b)))

\* A block of a plan: one that can be written, a data block without entries.
Piece == {b \in [kind : {"data", "x", "s"}, level : 0 .. 2, bytes : Seq(Nat), ents : Seq(Ent)] :
            Small(b) /\ (b.kind = "data" => b.ents = <<>> /\ b.level = 0)}

\* References go to one of the first k blocks, or nowhere.
Below(ents, k) == \A m \in 1 .. Len(ents) : ents[m].data <= k /\ ents[m].sub <= k
Backward(blocks) == \A j \in 1 .. Len(blocks) : Below(blocks[j].ents, j - 1)

Plan == {p \in [blocks : Seq(Piece), root : Nat, failed : BOOLEAN, divided : SUBSET Nat] :
           Backward(p.blocks) /\ p.root <= Len(p.blocks)}

\* The two plans that are written out, of nothing and of what failed, are plans.
LEMMA NothingTyped == Nothing \in Plan /\ Failed \in Plan /\ Nothing.blocks = <<>>
                      /\ Nothing.root = 0 /\ ~ Nothing.failed /\ Failed.failed
<1>1. Nothing.blocks = <<>> /\ Nothing.root = 0 /\ Nothing.failed = FALSE /\ Nothing.divided = {}
  BY DEF Nothing
<1>2. Failed \in [blocks : Seq(Piece), root : Nat, failed : BOOLEAN, divided : SUBSET Nat]
      /\ Failed.blocks = <<>> /\ Failed.root = 0 /\ Failed.failed
  <2>1. PICK p : p = Nothing
    OBVIOUS
  <2>2. /\ p \in [blocks : Seq(Piece), root : Nat, failed : BOOLEAN, divided : SUBSET Nat]
        /\ p.blocks = <<>> /\ p.root = 0
    BY <2>1 DEF Nothing
  <2>3. PICK q : q = [p EXCEPT !.failed = TRUE]
    OBVIOUS
  <2>4. q \in [blocks : Seq(Piece), root : Nat, failed : BOOLEAN, divided : SUBSET Nat]
    BY <2>2, <2>3
  <2>5. q.blocks = p.blocks /\ q.root = p.root /\ q.failed = TRUE
    BY <2>2, <2>3
  <2>6. Failed = q
    BY <2>1, <2>3 DEF Failed
  <2> QED BY <2>2, <2>4, <2>5, <2>6
<1>3. <<>> \in Seq(Piece) /\ Backward(<<>>) /\ Len(<<>>) = 0
  BY DEF Backward
<1>4. Nothing \in Plan
  BY <1>3 DEF Nothing, Plan
<1>5. Failed \in Plan
  BY <1>2, <1>3 DEF Plan
<1> QED BY <1>1, <1>2, <1>4, <1>5

\* What fits in a block of data or of entries can be written.
LEMMA SizesFit ==
  /\ \A n \in 0 .. MAX_DATA : Fits(BlockSpan(n))
  /\ \A kind \in {"x", "s"} : \A n \in Nat :
       n <= FAN[kind] \/ n <= TOP_FAN[kind] => Fits(BlockSpan(n))
<1>1. ASSUME NEW n \in Nat, BlockSpan(n) <= AMAP_EVERY - MAP_SLOTS * PAGE
      PROVE  Fits(BlockSpan(n))
  <2>1. n + TRAILER \in Nat /\ n + TRAILER >= 1 /\ BLOCK_ALIGN \in Nat \ {0}
    BY LayoutAssumption
  <2>2. BlockSpan(n) \in Nat /\ n + TRAILER <= BlockSpan(n)
    BY <2>1, AlignUpIsLeast DEF BlockSpan
  <2> QED BY <1>1, <2>1, <2>2 DEF Fits, Room
<1>2. /\ MAX_DATA \in Nat
      /\ \A kind \in {"x", "s"} : FAN[kind] \in Nat /\ TOP_FAN[kind] \in Nat
  BY ConvertAssumption
<1>3. ASSUME NEW most \in {MAX_DATA, FAN["x"], FAN["s"], TOP_FAN["x"], TOP_FAN["s"]},
             NEW n \in 0 .. most
      PROVE  BlockSpan(n) <= AMAP_EVERY - MAP_SLOTS * PAGE
  BY ConvertAssumption
<1>4. ASSUME NEW n \in 0 .. MAX_DATA PROVE Fits(BlockSpan(n))
  BY <1>1, <1>2, <1>3
<1>5. ASSUME NEW kind \in {"x", "s"}, NEW n \in Nat, n <= FAN[kind] \/ n <= TOP_FAN[kind]
      PROVE  Fits(BlockSpan(n))
  <2>1. FAN[kind] \in {MAX_DATA, FAN["x"], FAN["s"], TOP_FAN["x"], TOP_FAN["s"]}
        /\ TOP_FAN[kind] \in {MAX_DATA, FAN["x"], FAN["s"], TOP_FAN["x"], TOP_FAN["s"]}
    OBVIOUS
  <2>2. FAN[kind] \in Nat /\ TOP_FAN[kind] \in Nat
    BY <1>2
  <2>3. n \in 0 .. FAN[kind] \/ n \in 0 .. TOP_FAN[kind]
    BY <1>5, <2>2
  <2>4. BlockSpan(n) <= AMAP_EVERY - MAP_SLOTS * PAGE
    BY <1>3, <2>1, <2>3
  <2> QED BY <1>1, <2>4
<1> QED BY <1>4, <1>5

\* Sequences that agree place by place are one sequence.
LEMMA SeqSame ==
  ASSUME NEW S, NEW s \in Seq(S), NEW t \in Seq(S), Len(s) = Len(t),
         \A k \in 1 .. Len(s) : s[k] = t[k]
  PROVE  s = t
<1>1. s = [k \in 1 .. Len(s) |-> s[k]] /\ t = [k \in 1 .. Len(t) |-> t[k]]
  OBVIOUS
<1> QED BY <1>1

\* A function on 1 .. n is a sequence of length n.
LEMMA SeqFrom ==
  ASSUME NEW S, NEW n \in Nat, NEW f \in [1 .. n -> S]
  PROVE  f \in Seq(S) /\ Len(f) = n /\ \A k \in 1 .. n : f[k] \in S
OBVIOUS

\* A sequence whose members are all in T is a sequence over T.
LEMMA SeqNarrow ==
  ASSUME NEW S, NEW T, NEW s \in Seq(S), \A k \in 1 .. Len(s) : s[k] \in T
  PROVE  s \in Seq(T)
<1>1. PICK n \in Nat : n = Len(s)
  OBVIOUS
<1>2. s = [k \in 1 .. n |-> s[k]]
  BY <1>1
<1>3. s \in [1 .. n -> T]
  BY <1>1, <1>2
<1> QED BY <1>3, SeqFrom

\* A part of a stream fits a data block, which carries it and no entries.
LEMMA DataBlocksTyped ==
  ASSUME NEW x \in Part
  PROVE  DataBlock(x) \in Piece /\ DataBlock(x).kind = "data" /\ DataBlock(x).ents = <<>>
         /\ DataBlock(x).bytes = x
<1>1. x \in Seq(Nat) /\ Len(x) <= MAX_DATA
  BY DEF Part
<1>2. /\ DataBlock(x) = [kind |-> "data", level |-> 0, bytes |-> x, ents |-> <<>>]
      /\ DataBlock(x).kind = "data" /\ DataBlock(x).ents = <<>> /\ DataBlock(x).bytes = x
      /\ DataBlock(x).level = 0
  BY DEF DataBlock
<1>3. Small(DataBlock(x))
  <2>1. Bytes(DataBlock(x)) = Len(x)
    BY <1>1, <1>2 DEF Bytes
  <2>2. Len(x) \in 0 .. MAX_DATA
    BY <1>1, ConvertAssumption
  <2> QED BY <2>1, <2>2, SizesFit DEF Small
<1>4. <<>> \in Seq(Ent)
  OBVIOUS
<1> QED BY <1>1, <1>2, <1>3, <1>4 DEF Piece

\* An index block that respects its fan-out can be written; it carries its entries.
LEMMA IndexBlocksTyped ==
  ASSUME NEW kind \in {"x", "s"}, NEW level \in 0 .. 2, NEW ents \in Seq(Ent),
         Len(ents) <= FAN[kind] \/ Len(ents) <= TOP_FAN[kind]
  PROVE  LET b == IndexBlock(kind, level, ents)
         IN  b \in Piece /\ b.kind = kind /\ b.level = level /\ b.ents = ents
<1> DEFINE b == IndexBlock(kind, level, ents)
<1>1. b = [kind |-> kind, level |-> level, bytes |-> <<>>, ents |-> ents]
      /\ b.kind = kind /\ b.ents = ents /\ b.bytes = <<>> /\ b.level = level
  BY DEF IndexBlock
<1>2. Small(b)
  <2>1. Bytes(b) = Len(ents)
    BY <1>1 DEF Bytes
  <2> QED BY <2>1, SizesFit DEF Small
<1>3. <<>> \in Seq(Nat) /\ b.kind # "data"
  BY <1>1
<1> HIDE DEF b
<1>4. b \in Piece
  BY <1>1, <1>2, <1>3 DEF Piece
<1> QED BY <1>1, <1>4 DEF b

\* A block that comes behind k others refers to the same ones.
LEMMA ShiftedIs ==
  ASSUME NEW b \in Piece, NEW k \in Nat
  PROVE  LET c == Shifted(b, k)
         IN  /\ c \in Piece /\ c.kind = b.kind /\ c.level = b.level /\ c.bytes = b.bytes
             /\ Len(c.ents) = Len(b.ents)
             /\ \A m \in 1 .. Len(b.ents) :
                  c.ents[m] = [nid |-> b.ents[m].nid, data |-> Up(b.ents[m].data, k),
                               sub |-> Up(b.ents[m].sub, k)]
<1> DEFINE c == Shifted(b, k)
           e(m) == [nid |-> b.ents[m].nid, data |-> Up(b.ents[m].data, k),
                    sub |-> Up(b.ents[m].sub, k)]
<1>1. b.ents \in Seq(Ent) /\ Small(b) /\ (b.kind = "data" => b.ents = <<>> /\ b.level = 0)
      /\ b \in [kind : {"data", "x", "s"}, level : 0 .. 2, bytes : Seq(Nat), ents : Seq(Ent)]
  BY DEF Piece
<1>2. PICK n \in Nat : n = Len(b.ents) /\ DOMAIN b.ents = 1 .. n
  BY <1>1
<1>3. c = [b EXCEPT !.ents = [j \in 1 .. n |-> e(j)]]
  BY <1>2 DEF Shifted
<1>4. ASSUME NEW m \in 1 .. n PROVE e(m) \in Ent
  <2>1. b.ents[m] \in Ent
    BY <1>1, <1>2
  <2>2. b.ents[m].nid \in Nat /\ b.ents[m].data \in Nat /\ b.ents[m].sub \in Nat
    BY <2>1 DEF Ent
  <2>3. \A x \in Nat : Up(x, k) \in Nat
    BY DEF Up
  <2> QED BY <2>2, <2>3 DEF Ent
<1>5. PICK f : f = [j \in 1 .. n |-> e(j)]
  OBVIOUS
<1>6. f \in Seq(Ent) /\ Len(f) = n /\ \A m \in 1 .. n : f[m] = e(m)
  <2>1. f \in [1 .. n -> Ent]
    BY <1>4, <1>5
  <2> QED BY <1>5, <2>1, SeqFrom
<1> HIDE DEF e
<1>7. /\ c = [b EXCEPT !.ents = f]
      /\ c.kind = b.kind /\ c.level = b.level /\ c.bytes = b.bytes /\ c.ents = f
      /\ c \in [kind : {"data", "x", "s"}, level : 0 .. 2, bytes : Seq(Nat), ents : Seq(Ent)]
  <2>1. c = [b EXCEPT !.ents = f]
    BY <1>3, <1>5
  <2> HIDE DEF c
  <2> QED BY <1>1, <1>6, <2>1
<1> HIDE DEF c
<1>8. Small(c)
  <2>1. Bytes(c) = Bytes(b)
    BY <1>2, <1>6, <1>7 DEF Bytes
  <2> QED BY <1>1, <2>1 DEF Small
<1>9. c.kind = "data" => c.ents = <<>> /\ c.level = 0
  <2> SUFFICES ASSUME c.kind = "data" PROVE c.ents = <<>> /\ c.level = 0
    OBVIOUS
  <2>1. b.ents = <<>> /\ b.level = 0
    BY <1>1, <1>7
  <2>2. n = 0
    BY <1>2, <2>1
  <2>3. f = <<>>
    BY <1>6, <2>2
  <2> QED BY <1>7, <2>1, <2>3
<1>10. c \in Piece
  BY <1>7, <1>8, <1>9 DEF Piece
<1> QED BY <1>2, <1>6, <1>7, <1>10 DEF c, e

\* Plan q after plan p, as its fields are.
LEMMA ThenIs ==
  ASSUME NEW p \in Plan, NEW q \in Plan
  PROVE  LET r == Then(p, q)
             k == Len(p.blocks)
         IN  /\ r \in Plan /\ (r.failed <=> p.failed \/ q.failed)
             /\ p.failed => r = p
             /\ ~ p.failed =>
                  /\ r.root = Up(q.root, k)
                  /\ Len(r.blocks) = k + Len(q.blocks)
                  /\ \A j \in 1 .. k : r.blocks[j] = p.blocks[j]
                  /\ \A j \in 1 .. Len(q.blocks) : r.blocks[k + j] = Shifted(q.blocks[j], k)
<1> DEFINE r == Then(p, q)
           k == Len(p.blocks)
           n == Len(q.blocks)
<1>1. /\ p.blocks \in Seq(Piece) /\ p.root \in Nat /\ p.failed \in BOOLEAN
      /\ p.divided \subseteq Nat /\ Backward(p.blocks) /\ p.root <= k /\ k \in Nat
  BY DEF Plan
<1>2. /\ q.blocks \in Seq(Piece) /\ q.root \in Nat /\ q.failed \in BOOLEAN
      /\ q.divided \subseteq Nat /\ Backward(q.blocks) /\ q.root <= n /\ n \in Nat
      /\ DOMAIN q.blocks = 1 .. n
  BY DEF Plan
<1>3. CASE p.failed
  <2>1. r = p
    BY <1>3 DEF Then
  <2> QED BY <1>3, <2>1
<1>4. CASE ~ p.failed
  <2> HIDE DEF k, n
  <2>1. PICK f : f = [j \in DOMAIN q.blocks |-> Shifted(q.blocks[j], k)]
    OBVIOUS
  <2>2. ASSUME NEW j \in 1 .. n PROVE Shifted(q.blocks[j], k) \in Piece
    <3>1. q.blocks[j] \in Piece
      BY <1>2 DEF n
    <3> QED BY <1>1, <3>1, ShiftedIs
  <2>3. f \in Seq(Piece) /\ Len(f) = n /\ \A j \in 1 .. n : f[j] = Shifted(q.blocks[j], k)
    <3>1. f \in [1 .. n -> Piece]
      BY <1>2, <2>1, <2>2
    <3> QED BY <1>2, <2>1, <3>1, SeqFrom
  <2>4. PICK ps \in Seq(Piece) : ps = p.blocks
    BY <1>1
  <2>41. PICK bs : bs = ps \o f
    OBVIOUS
  <2>42. Len(ps) = k /\ k \in Nat
    BY <1>1, <2>4 DEF k
  <2>43. /\ bs \in Seq(Piece) /\ Len(bs) = k + n
         /\ \A j \in 1 .. k : bs[j] = ps[j]
         /\ \A j \in 1 .. n : bs[k + j] = f[j]
    <3>1. f \in Seq(Piece) /\ Len(f) = n
      BY <2>3
    <3>2. /\ bs \in Seq(Piece) /\ Len(bs) = Len(ps) + Len(f)
          /\ \A j \in 1 .. Len(ps) : bs[j] = ps[j]
          /\ \A j \in 1 .. Len(f) : bs[Len(ps) + j] = f[j]
      <4>1. ps \in Seq(Piece) /\ f \in Seq(Piece) /\ bs = ps \o f
        BY <2>41, <3>1
      <4>2. bs \in Seq(Piece) /\ Len(bs) = Len(ps) + Len(f)
        BY <4>1
      <4>3. \A j \in 1 .. Len(ps) : bs[j] = ps[j]
        BY <4>1, SeqJoined
      <4>4. \A j \in 1 .. Len(f) : bs[Len(ps) + j] = f[j]
        BY <4>1, SeqJoined
      <4> QED BY <4>2, <4>3, <4>4
    <3> QED BY <2>42, <3>1, <3>2
  <2>5. /\ Len(bs) = k + n
        /\ \A j \in 1 .. k : bs[j] = p.blocks[j]
        /\ \A j \in 1 .. n : bs[k + j] = Shifted(q.blocks[j], k)
    BY <2>3, <2>4, <2>43
  <2>6. r = [blocks |-> bs, root |-> Up(q.root, k), failed |-> q.failed,
             divided |-> p.divided \union q.divided]
    BY <1>4, <2>1, <2>4, <2>41 DEF Then, k
  <2>7. /\ r.blocks = bs /\ r.root = Up(q.root, k) /\ r.failed = q.failed
        /\ r.divided = p.divided \union q.divided
    BY <2>6
  <2>8. Up(q.root, k) \in Nat /\ Up(q.root, k) <= k + n
    BY <1>1, <1>2 DEF Up
  <2>9. Backward(bs)
    <3> SUFFICES ASSUME NEW j \in 1 .. k + n PROVE Below(bs[j].ents, j - 1)
      BY <2>5 DEF Backward
    <3>1. CASE j <= k
      <4>1. j \in 1 .. k
        BY <1>1, <1>2, <3>1
      <4> QED BY <1>1, <2>5, <4>1 DEF Backward, k
    <3>2. CASE j > k
      <4>1. PICK m \in 1 .. n : j = k + m
        <5>1. j - k \in 1 .. n /\ j = k + (j - k)
          BY <1>1, <1>2, <3>2
        <5> QED BY <5>1
      <4>2. PICK b \in Piece : b = q.blocks[m]
        BY <1>2 DEF n
      <4>3. Below(b.ents, m - 1)
        BY <1>2, <4>2 DEF Backward, n
      <4>4. PICK c : c = Shifted(b, k)
        OBVIOUS
      <4>5. Len(c.ents) = Len(b.ents) /\ bs[j] = c
        BY <1>1, <2>5, <4>1, <4>2, <4>4, ShiftedIs
      <4>6. ASSUME NEW l \in 1 .. Len(b.ents)
            PROVE  c.ents[l].data <= j - 1 /\ c.ents[l].sub <= j - 1
        <5>1. c.ents[l].data = Up(b.ents[l].data, k) /\ c.ents[l].sub = Up(b.ents[l].sub, k)
          <6>1. k \in Nat
            BY <1>1
          <6>2. c.ents[l] = [nid |-> b.ents[l].nid, data |-> Up(b.ents[l].data, k),
                             sub |-> Up(b.ents[l].sub, k)]
            BY <4>4, <6>1, ShiftedIs
          <6> QED BY <6>2
        <5>2. b.ents \in Seq(Ent)
          BY DEF Piece
        <5>3. b.ents[l] \in Ent
          BY <5>2
        <5>4. PICK x, y \in Nat : x = b.ents[l].data /\ y = b.ents[l].sub
          BY <5>3 DEF Ent
        <5>5. x <= m - 1 /\ y <= m - 1
          BY <4>3, <5>4 DEF Below
        <5>6. Up(x, k) <= j - 1 /\ Up(y, k) <= j - 1
          BY <1>1, <1>2, <4>1, <5>5 DEF Up
        <5> QED BY <5>1, <5>4, <5>6
      <4> QED BY <4>5, <4>6 DEF Below
    <3> QED BY <1>1, <1>2, <3>1, <3>2
  <2>10. r \in Plan
    <3>1. p.divided \union q.divided \subseteq Nat
      BY <1>1, <1>2
    <3>2. r \in [blocks : Seq(Piece), root : Nat, failed : BOOLEAN, divided : SUBSET Nat]
      <4>1. bs \in Seq(Piece) /\ Up(q.root, k) \in Nat /\ q.failed \in BOOLEAN
        BY <1>2, <2>8, <2>43
      <4> HIDE DEF r
      <4> QED BY <2>6, <3>1, <4>1
    <3>3. Backward(r.blocks) /\ r.root <= Len(r.blocks)
      BY <2>5, <2>7, <2>8, <2>9
    <3> QED BY <3>2, <3>3 DEF Plan
  <2> HIDE DEF r
  <2>11. Len(r.blocks) = k + n
    BY <2>5, <2>7
  <2>12. \A j \in 1 .. k : r.blocks[j] = p.blocks[j]
    BY <2>5, <2>7
  <2>13. \A j \in 1 .. n : r.blocks[k + j] = Shifted(q.blocks[j], k)
    BY <2>5, <2>7
  <2>14. r.root = Up(q.root, k) /\ (r.failed <=> p.failed \/ q.failed)
    BY <1>4, <2>7
  <2> QED BY <1>4, <2>10, <2>11, <2>12, <2>13, <2>14 DEF r, k, n
<1> HIDE DEF r, k, n
<1>5. p.failed \in BOOLEAN
  BY <1>1
<1> QED BY <1>3, <1>4, <1>5 DEF r, k, n

\* The lowest level of an index: XBLOCK over data blocks, SLBLOCK over nothing.
Low(kind) == IF kind = "x" THEN 1 ELSE 0

\* What Indexed puts behind the blocks of p: a block over each group of the entries,
\* and one over those when there is more than one group.
Over(r, p, kind, gs) ==
  LET k == Len(p.blocks)
      G == Len(gs)
  IN  /\ r \in Plan /\ (r.failed <=> G > TOP_FAN[kind])
      /\ Len(r.blocks) >= k + G
      /\ \A j \in 1 .. k : r.blocks[j] = p.blocks[j]
      /\ \A g \in 1 .. G : r.blocks[k + g] = IndexBlock(kind, Low(kind), gs[g])
      /\ G = 1 => r.root = k + 1
      /\ ~ r.failed /\ G # 1 =>
           /\ r.root = k + G + 1 /\ Len(r.blocks) = k + G + 1
           /\ r.blocks[k + G + 1].kind = kind /\ r.blocks[k + G + 1].level = Low(kind) + 1
           /\ Len(r.blocks[k + G + 1].ents) = G
           /\ \A g \in 1 .. G : r.blocks[k + G + 1].ents[g].data = k + g

\* How many groups there are, against how many entries.
LEMMA GroupsCounted ==
  ASSUME NEW n \in Nat \ {0}, NEW F \in Nat \ {0}, NEW T \in Nat
  PROVE  (n + F - 1) \div F > T <=> n > F * T
<1>1. PICK x \in Nat : x = n + F - 1
  OBVIOUS
<1>2. PICK G \in Nat, r \in 0 .. F - 1 : G = x \div F /\ x = G * F + r
  BY <1>1, DivMod
<1>3. F * T = T * F /\ T * F \in Nat /\ G * F \in Nat
  OBVIOUS
<1>4. ASSUME G > T PROVE n > F * T
  <2>1. (T + 1) * F <= G * F
    BY <1>4, MulMono
  <2>2. (T + 1) * F = T * F + F
    OBVIOUS
  <2> QED BY <1>1, <1>2, <1>3, <2>1, <2>2
<1>5. ASSUME ~ (G > T) PROVE ~ (n > F * T)
  <2>1. G * F <= T * F
    BY <1>5, MulMono
  <2> QED BY <1>1, <1>2, <1>3, <2>1
<1> QED BY <1>1, <1>2, <1>4, <1>5

\* The entries in groups, a block over each, and one over these when they are several.
LEMMA IndexedIs ==
  ASSUME NEW p \in Plan, ~ p.failed, NEW kind \in {"x", "s"},
         NEW ents \in Seq(Ent), ents # <<>>, Below(ents, Len(p.blocks))
  PROVE  \E gs \in Seq(Seq(Ent)) :
           /\ \E from : CutUp(gs, ents, FAN[kind], from)
           /\ Over(Indexed(p, kind, ents), p, kind, gs)
           /\ Len(gs) > TOP_FAN[kind] <=> Len(ents) > FAN[kind] * TOP_FAN[kind]
<1>1. PICK F, T \in Nat \ {0} : F = FAN[kind] /\ T = TOP_FAN[kind]
  BY ConvertAssumption
<1>2. PICK gs \in Seq(Seq(Ent) \ {<<>>}) :
        gs = Chunks(ents, F) /\ \E from : CutUp(gs, ents, F, from)
  BY ChunksIs
<1>3. PICK from : CutUp(gs, ents, F, from)
  BY <1>2
<1>4. PICK G \in Nat : G = Len(gs) /\ G >= 1 /\ DOMAIN gs = 1 .. G
  BY <1>2, <1>3 DEF CutUp
<1>5. PICK k \in Nat : k = Len(p.blocks)
  BY DEF Plan
<1>6. /\ p.blocks \in Seq(Piece) /\ p.root \in Nat /\ p.root <= k
      /\ p.divided \in SUBSET Nat /\ Backward(p.blocks) /\ p.failed = FALSE
      /\ p \in [blocks : Seq(Piece), root : Nat, failed : BOOLEAN, divided : SUBSET Nat]
  BY <1>5 DEF Plan
<1>7. ASSUME NEW g \in 1 .. G
      PROVE  /\ gs[g] \in Seq(Ent) /\ gs[g] # <<>> /\ Len(gs[g]) <= F /\ Below(gs[g], k)
  <2>1. gs[g] \in Seq(Ent) /\ gs[g] # <<>>
    BY <1>2, <1>4
  <2>2. Len(gs[g]) <= F
    BY <1>3, <1>4 DEF CutUp
  <2>3. ASSUME NEW m \in 1 .. Len(gs[g]) PROVE gs[g][m].data <= k /\ gs[g][m].sub <= k
    <3>1. \A h \in 1 .. Len(gs) : \A l \in 1 .. Len(gs[h]) : \E a \in 1 .. Len(ents) : gs[h][l] = ents[a]
      <4>1. Len(ents) \in Nat /\ Len(gs) \in Nat
        BY <1>4
      <4> QED BY <1>3, <4>1, FromWhole
    <3>2. \A l \in 1 .. Len(gs[g]) : \E a \in 1 .. Len(ents) : gs[g][l] = ents[a]
      BY <1>4, <3>1
    <3>3. PICK a \in 1 .. Len(ents) : gs[g][m] = ents[a]
      BY <3>2
    <3> QED BY <1>5, <3>3 DEF Below
  <2> QED BY <2>1, <2>2, <2>3 DEF Below
<1>8. PICK low \in 0 .. 1 : low = Low(kind) /\ low = IF kind = "x" THEN 1 ELSE 0
  BY DEF Low
<1>9. PICK level : level = [g \in DOMAIN gs |-> IndexBlock(kind, low, gs[g])]
  OBVIOUS
<1>10. ASSUME NEW g \in 1 .. G
       PROVE  /\ IndexBlock(kind, low, gs[g]) \in Piece
              /\ IndexBlock(kind, low, gs[g]).ents = gs[g]
  <2>1. gs[g] \in Seq(Ent) /\ Len(gs[g]) <= FAN[kind] /\ low \in 0 .. 2
    BY <1>1, <1>7
  <2> QED BY <2>1, IndexBlocksTyped
<1>11. level \in Seq(Piece) /\ Len(level) = G
       /\ \A g \in 1 .. G : level[g] = IndexBlock(kind, low, gs[g])
  <2>1. level \in [1 .. G -> Piece]
    BY <1>4, <1>9, <1>10
  <2> QED BY <1>4, <1>9, <2>1, SeqFrom
<1>12. PICK all : all = p.blocks \o level
  OBVIOUS
<1>13. /\ all \in Seq(Piece) /\ Len(all) = k + G
       /\ \A j \in 1 .. k : all[j] = p.blocks[j]
       /\ \A g \in 1 .. G : all[k + g] = IndexBlock(kind, low, gs[g])
  <2>1. PICK ps \in Seq(Piece) : ps = p.blocks /\ Len(ps) = k
    BY <1>5, <1>6
  <2>2. level \in Seq(Piece) /\ Len(level) = G
    BY <1>11
  <2>3. all = ps \o level
    BY <1>12, <2>1
  <2>4. all \in Seq(Piece) /\ Len(all) = Len(ps) + Len(level)
    <3>1. all \in Seq(Piece)
      BY <2>2, <2>3, SeqJoined
    <3>2. Len(all) = Len(ps) + Len(level)
      <4>1. level \in Seq(Piece)
        BY <2>2
      <4> QED BY <2>3, <4>1
    <3> QED BY <3>1, <3>2
  <2>5. \A j \in 1 .. Len(ps) : all[j] = ps[j]
    BY <2>2, <2>3, SeqJoined
  <2>6. \A j \in 1 .. Len(level) : all[Len(ps) + j] = level[j]
    BY <2>2, <2>3, SeqJoined
  <2>7. \A g \in 1 .. G : all[k + g] = IndexBlock(kind, low, gs[g])
    BY <1>11, <2>1, <2>2, <2>6
  <2> QED BY <2>1, <2>2, <2>4, <2>5, <2>7
<1>14. Backward(all)
  <2> SUFFICES ASSUME NEW j \in 1 .. k + G PROVE Below(all[j].ents, j - 1)
    BY <1>13 DEF Backward
  <2>1. CASE j <= k
    <3>1. j \in 1 .. k
      BY <2>1
    <3> QED BY <1>5, <1>6, <1>13, <3>1 DEF Backward
  <2>2. CASE j > k
    <3>1. PICK g \in 1 .. G : j = k + g
      <4>1. j - k \in 1 .. G /\ j = k + (j - k)
        BY <2>2
      <4> QED BY <4>1
    <3>2. PICK x \in Seq(Ent) : x = gs[g] /\ all[j].ents = x /\ Below(x, k)
      BY <1>7, <1>10, <1>13, <3>1
    <3>3. k <= j - 1
      BY <2>2
    <3>4. ASSUME NEW m \in 1 .. Len(x) PROVE x[m].data <= j - 1 /\ x[m].sub <= j - 1
      <4>1. x[m] \in Ent /\ x[m].data <= k /\ x[m].sub <= k
        BY <3>2 DEF Below
      <4>2. PICK a, b \in Nat : a = x[m].data /\ b = x[m].sub
        BY <4>1 DEF Ent
      <4>3. a <= k /\ b <= k
        BY <4>1, <4>2
      <4>4. a <= j - 1 /\ b <= j - 1
        BY <3>3, <4>3
      <4> QED BY <4>2, <4>4
    <3> QED BY <3>2, <3>4 DEF Below
  <2> QED BY <2>1, <2>2
<1>15. PICK above : above = [g \in DOMAIN gs |->
                       [nid |-> Head(gs[g]).nid, data |-> k + g, sub |-> 0]]
  OBVIOUS
<1>16. above \in Seq(Ent) /\ Len(above) = G /\ \A g \in 1 .. G : above[g].data = k + g /\ above[g].sub = 0
  <2>1. ASSUME NEW g \in 1 .. G
        PROVE  [nid |-> Head(gs[g]).nid, data |-> k + g, sub |-> 0] \in Ent
    <3>1. Head(gs[g]) \in Ent
      BY <1>7
    <3>2. Head(gs[g]).nid \in Nat
      BY <3>1 DEF Ent
    <3> QED BY <3>2 DEF Ent
  <2>2. above \in [1 .. G -> Ent]
    BY <1>4, <1>15, <2>1
  <2>3. \A g \in 1 .. G : above[g].data = k + g /\ above[g].sub = 0
    BY <1>4, <1>15
  <2> QED BY <2>2, <2>3, SeqFrom
<1>17. PICK top : top = IndexBlock(kind, low + 1, above)
  OBVIOUS
<1>18. PICK r : r = Indexed(p, kind, ents)
  OBVIOUS
<1>19. r = IF G = 1 THEN [p EXCEPT !.blocks = all, !.root = k + 1]
           ELSE IF G > T THEN [p EXCEPT !.blocks = all, !.failed = TRUE]
           ELSE [p EXCEPT !.blocks = Append(all, top), !.root = k + G + 1]
  BY <1>1, <1>2, <1>4, <1>5, <1>8, <1>9, <1>12, <1>13, <1>15, <1>17, <1>18 DEF Indexed
<1>20. gs \in Seq(Seq(Ent))
  BY SeqWider
<1>30. Len(gs) > TOP_FAN[kind] <=> Len(ents) > FAN[kind] * TOP_FAN[kind]
  <2>1. PICK n \in Nat \ {0} : n = Len(ents)
    OBVIOUS
  <2>2. G = (n + F - 1) \div F
    BY <1>2, <1>4, <2>1 DEF Chunks
  <2>3. G > T <=> n > F * T
    BY <2>2, GroupsCounted
  <2> QED BY <1>1, <1>4, <2>1, <2>3
<1>21. CASE G = 1
  <2>1. r = [p EXCEPT !.blocks = all, !.root = k + 1]
    BY <1>19, <1>21
  <2>2. r.blocks = all /\ r.root = k + 1 /\ r.failed = FALSE
        /\ r \in [blocks : Seq(Piece), root : Nat, failed : BOOLEAN, divided : SUBSET Nat]
    <3>1. all \in Seq(Piece) /\ k + 1 \in Nat
      BY <1>13
    <3>2. r.blocks = all /\ r.root = k + 1 /\ r.failed = FALSE
      BY <1>6, <2>1, <3>1
    <3>3. r \in [blocks : Seq(Piece), root : Nat, failed : BOOLEAN, divided : SUBSET Nat]
      BY <1>6, <2>1, <3>1
    <3> QED BY <3>2, <3>3
  <2>3. r \in Plan
    BY <1>13, <1>14, <1>21, <2>2 DEF Plan
  <2>4. Over(r, p, kind, gs)
    BY <1>1, <1>4, <1>5, <1>8, <1>13, <1>21, <2>2, <2>3 DEF Over
  <2> QED BY <1>1, <1>3, <1>18, <1>20, <1>30, <2>4
<1>22. CASE G # 1 /\ G > T
  <2>1. r = [p EXCEPT !.blocks = all, !.failed = TRUE]
    BY <1>19, <1>22
  <2>2. r.blocks = all /\ r.root = p.root /\ r.failed = TRUE
        /\ r \in [blocks : Seq(Piece), root : Nat, failed : BOOLEAN, divided : SUBSET Nat]
    <3>1. all \in Seq(Piece)
      BY <1>13
    <3>2. r.blocks = all /\ r.root = p.root /\ r.failed = TRUE
      BY <1>6, <2>1, <3>1
    <3>3. r \in [blocks : Seq(Piece), root : Nat, failed : BOOLEAN, divided : SUBSET Nat]
      BY <1>6, <2>1, <3>1
    <3> QED BY <3>2, <3>3
  <2>3. r \in Plan
    BY <1>6, <1>13, <1>14, <2>2 DEF Plan
  <2>4. Over(r, p, kind, gs)
    BY <1>1, <1>4, <1>5, <1>8, <1>13, <1>22, <2>2, <2>3 DEF Over
  <2> QED BY <1>1, <1>3, <1>18, <1>20, <1>30, <2>4
<1>23. CASE G # 1 /\ ~ (G > T)
  <2>1. top \in Piece /\ top.kind = kind /\ top.level = low + 1 /\ top.ents = above
    <3>1. low + 1 \in 0 .. 2 /\ Len(above) <= TOP_FAN[kind]
      BY <1>1, <1>16, <1>23
    <3> QED BY <1>16, <1>17, <3>1, IndexBlocksTyped
  <2>2. PICK bs : bs = Append(all, top)
    OBVIOUS
  <2>3. /\ bs \in Seq(Piece) /\ Len(bs) = k + G + 1 /\ bs[k + G + 1] = top
        /\ \A j \in 1 .. k + G : bs[j] = all[j]
    <3>1. all \in Seq(Piece) /\ Len(all) = k + G /\ top \in Piece
      BY <1>13, <2>1
    <3>2. bs \in Seq(Piece) /\ Len(bs) = k + G + 1
      BY <2>2, <3>1
    <3>3. bs[k + G + 1] = top
      <4>1. bs[Len(all) + 1] = top
        <5>1. all \in Seq(Piece)
          BY <3>1
        <5> QED BY <2>2, <5>1
      <4> QED BY <3>1, <4>1
    <3>4. \A j \in 1 .. k + G : bs[j] = all[j]
      BY <2>2, <3>1
    <3> QED BY <3>2, <3>3, <3>4
  <2>4. r = [p EXCEPT !.blocks = bs, !.root = k + G + 1]
    BY <1>19, <1>23, <2>2
  <2>5. r.blocks = bs /\ r.root = k + G + 1 /\ r.failed = FALSE
        /\ r \in [blocks : Seq(Piece), root : Nat, failed : BOOLEAN, divided : SUBSET Nat]
    <3>1. bs \in Seq(Piece) /\ k + G + 1 \in Nat
      BY <2>3
    <3>2. r.blocks = bs /\ r.root = k + G + 1 /\ r.failed = FALSE
      BY <1>6, <2>4, <3>1
    <3>3. r \in [blocks : Seq(Piece), root : Nat, failed : BOOLEAN, divided : SUBSET Nat]
      BY <1>6, <2>4, <3>1
    <3> QED BY <3>2, <3>3
  <2>6. Backward(bs)
    <3> SUFFICES ASSUME NEW j \in 1 .. k + G + 1 PROVE Below(bs[j].ents, j - 1)
      BY <2>3 DEF Backward
    <3>1. CASE j <= k + G
      <4>1. j \in 1 .. k + G
        BY <3>1
      <4> QED BY <1>13, <1>14, <2>3, <4>1 DEF Backward
    <3>2. CASE j > k + G
      <4>1. j = k + G + 1 /\ j - 1 = k + G
        BY <3>2
      <4>2. \A g \in 1 .. G : k + g <= k + G /\ 0 <= k + G
        OBVIOUS
      <4> QED BY <1>16, <2>1, <2>3, <4>1, <4>2 DEF Below
    <3> QED BY <3>1, <3>2
  <2>7. r \in Plan
    BY <2>3, <2>5, <2>6 DEF Plan
  <2>8. \A j \in 1 .. k : bs[j] = p.blocks[j]
    BY <1>13, <2>3
  <2>9. \A g \in 1 .. G : bs[k + g] = IndexBlock(kind, low, gs[g])
    <3>1. \A g \in 1 .. G : k + g \in 1 .. k + G
      OBVIOUS
    <3> QED BY <1>13, <2>3, <3>1
  <2>10. /\ r.blocks[k + G + 1].kind = kind /\ r.blocks[k + G + 1].level = low + 1
         /\ Len(r.blocks[k + G + 1].ents) = G
         /\ \A g \in 1 .. G : r.blocks[k + G + 1].ents[g].data = k + g
    BY <1>16, <2>1, <2>3, <2>5
  <2>11. /\ r \in Plan /\ ~ r.failed /\ ~ (G > TOP_FAN[kind])
         /\ r.root = k + G + 1 /\ Len(r.blocks) = k + G + 1 /\ Len(r.blocks) >= k + G
    BY <1>1, <1>23, <2>3, <2>5, <2>7
  <2>12. Over(r, p, kind, gs)
    BY <1>4, <1>5, <1>8, <1>23, <2>5, <2>8, <2>9, <2>10, <2>11 DEF Over
  <2> QED BY <1>1, <1>3, <1>18, <1>20, <1>30, <2>12
<1> QED BY <1>21, <1>22, <1>23

-----------------------------------------------------------------------------
(* Plans written out: what a reader finds under the ids. *)

\* The blocks of a plan are in a file, the first of them under counter b.
Holds(new, b, blocks) ==
  \A j \in 1 .. Len(blocks) :
    /\ Id(b + j - 1, blocks[j]) \in DOMAIN new
    /\ new[Id(b + j - 1, blocks[j])] = Resolved(b, blocks, blocks[j])

\* Out::bid: four ids per counter value, and the bit that tells an index block by its id.
LEMMA IdIs ==
  ASSUME NEW k \in Nat, NEW b \in Piece
  PROVE  /\ Id(k, b) \in Nat /\ 4 * k <= Id(k, b) /\ Id(k, b) < 4 * k + 4
         /\ (IsIndex(Id(k, b)) <=> b.kind # "data")
<1>1. CASE b.kind = "data"
  <2>1. Id(k, b) = 4 * k
    BY <1>1 DEF Id
  <2>2. (4 * k) \div 2 = 2 * k /\ (2 * k) % 2 = 0
    <3>1. 4 * k = (2 * k) * 2 + 0 /\ 2 * k = k * 2 + 0
      OBVIOUS
    <3> QED BY <3>1, DivUnique
  <2> QED BY <1>1, <2>1, <2>2 DEF IsIndex
<1>2. CASE b.kind # "data"
  <2>1. Id(k, b) = 4 * k + 2
    BY <1>2 DEF Id
  <2>2. (4 * k + 2) \div 2 = 2 * k + 1 /\ (2 * k + 1) % 2 = 1
    <3>1. 4 * k + 2 = (2 * k + 1) * 2 + 0 /\ 2 * k + 1 = k * 2 + 1
      OBVIOUS
    <3>2. (4 * k + 2) \div 2 = 2 * k + 1
      <4>1. 2 * k + 1 \in Nat /\ 0 \in 0 .. 2 - 1 /\ 4 * k + 2 \in Nat
        OBVIOUS
      <4> QED BY <3>1, <4>1, DivUnique
    <3>3. (2 * k + 1) % 2 = 1
      <4>1. 2 * k + 1 \in Nat /\ 1 \in 0 .. 2 - 1
        OBVIOUS
      <4> QED BY <3>1, <4>1, DivUnique
    <3> QED BY <3>2, <3>3
  <2> QED BY <1>2, <2>1, <2>2 DEF IsIndex
<1> QED BY <1>1, <1>2

\* An entry of a plan as it is written.
Written1(b, blocks, e) ==
  [nid |-> e.nid, data |-> IdOf(b, blocks, e.data), sub |-> IdOf(b, blocks, e.sub)]

\* Resolving a block of a plan renames what its entries refer to and nothing else.
LEMMA ResolvedIs ==
  ASSUME NEW b, NEW blocks, NEW x \in Piece
  PROVE  LET y == Resolved(b, blocks, x)
         IN  /\ y.kind = x.kind /\ y.level = x.level /\ y.bytes = x.bytes
             /\ y.ents = [m \in 1 .. Len(x.ents) |-> Written1(b, blocks, x.ents[m])]
<1>1. /\ x \in [kind : {"data", "x", "s"}, level : 0 .. 2, bytes : Seq(Nat), ents : Seq(Ent)]
      /\ DOMAIN x.ents = 1 .. Len(x.ents)
  BY DEF Piece
<1>2. PICK f : f = [m \in 1 .. Len(x.ents) |-> Written1(b, blocks, x.ents[m])]
  OBVIOUS
<1>3. Resolved(b, blocks, x) = [x EXCEPT !.ents = f]
  BY <1>1, <1>2 DEF Resolved, Written1
<1> QED BY <1>1, <1>2, <1>3

\* A block of the plan as a reader of the file sees it.
Seen(new, b, blocks, ref) ==
  LET id == IdOf(b, blocks, ref)
  IN  /\ id \in Nat \ {0} /\ id \in DOMAIN new
      /\ (IsIndex(id) <=> blocks[ref].kind # "data")
      /\ new[id].level = blocks[ref].level /\ new[id].bytes = blocks[ref].bytes
      /\ new[id].ents = [m \in 1 .. Len(blocks[ref].ents) |->
                           Written1(b, blocks, blocks[ref].ents[m])]

\* Each block of a plan that is in a file is found under its id, resolved.
LEMMA BlockReads ==
  ASSUME NEW new, NEW b \in Nat \ {0}, NEW blocks \in Seq(Piece), Holds(new, b, blocks),
         NEW ref \in 1 .. Len(blocks)
  PROVE  Seen(new, b, blocks, ref)
<1>1. PICK x \in Piece : x = blocks[ref]
  OBVIOUS
<1>2. b + ref - 1 \in Nat /\ b + ref - 1 >= 1 /\ ref # 0
  OBVIOUS
<1>3. PICK id : id = Id(b + ref - 1, x) /\ id = IdOf(b, blocks, ref)
  BY <1>1, <1>2 DEF IdOf
<1>4. id \in Nat \ {0} /\ (IsIndex(id) <=> x.kind # "data")
  <2>1. PICK k \in Nat : k = b + ref - 1 /\ k >= 1
    BY <1>2
  <2>2. id \in Nat /\ 4 * k <= id /\ (IsIndex(id) <=> x.kind # "data")
    BY <1>3, <2>1, IdIs
  <2>3. id # 0
    BY <2>1, <2>2
  <2> QED BY <2>2, <2>3
<1>5. id \in DOMAIN new /\ new[id] = Resolved(b, blocks, x)
  BY <1>1, <1>3 DEF Holds
<1> QED BY <1>1, <1>3, <1>4, <1>5, ResolvedIs DEF Seen

\* A reader takes a data block as the one part of its stream.
LEMMA DirectReads ==
  ASSUME NEW new, NEW b, NEW blocks, NEW ref, Seen(new, b, blocks, ref),
         blocks[ref].kind = "data"
  PROVE  Direct(new, IdOf(b, blocks, ref)) = <<blocks[ref].bytes>>
BY DEF Direct, Seen

\* Block ref names the data blocks from at + 1 on, and they hold the parts of c.
Lists(blocks, ref, c, at) ==
  /\ Len(c) = Len(blocks[ref].ents)
  /\ \A m \in 1 .. Len(c) :
       /\ blocks[ref].ents[m].data = at + m /\ at + m \in 1 .. Len(blocks)
       /\ blocks[at + m].kind = "data" /\ blocks[at + m].bytes = c[m]

\* What a block over data blocks lists.
LEMMA ListedReads ==
  ASSUME NEW new, NEW b \in Nat \ {0}, NEW blocks \in Seq(Piece), Holds(new, b, blocks),
         NEW ref \in 1 .. Len(blocks), blocks[ref].kind = "x",
         NEW S, NEW c \in Seq(S), NEW at, Lists(blocks, ref, c, at)
  PROVE  Listed(new, IdOf(b, blocks, ref)) = c
<1>0. /\ Len(c) = Len(blocks[ref].ents)
      /\ \A m \in 1 .. Len(c) :
           /\ blocks[ref].ents[m].data = at + m /\ at + m \in 1 .. Len(blocks)
           /\ blocks[at + m].kind = "data" /\ blocks[at + m].bytes = c[m]
  BY DEF Lists
<1>1. PICK id : id = IdOf(b, blocks, ref)
  OBVIOUS
<1>2. /\ id \in DOMAIN new /\ IsIndex(id)
      /\ new[id].ents = [m \in 1 .. Len(blocks[ref].ents) |->
                           Written1(b, blocks, blocks[ref].ents[m])]
  <2>1. Seen(new, b, blocks, ref)
    BY BlockReads
  <2> QED BY <1>1, <2>1 DEF Seen
<1>3. PICK n \in Nat : n = Len(c) /\ DOMAIN c = 1 .. n
  OBVIOUS
<1>4. PICK es : es = new[id].ents
  OBVIOUS
<1>5. DOMAIN es = 1 .. n /\ \A m \in 1 .. n : es[m] = Written1(b, blocks, blocks[ref].ents[m])
  BY <1>0, <1>2, <1>3, <1>4
<1>6. ASSUME NEW m \in 1 .. n PROVE Direct(new, es[m].data) = <<c[m]>>
  <2>1. es[m].data = IdOf(b, blocks, blocks[ref].ents[m].data)
    BY <1>5 DEF Written1
  <2>2. es[m].data = IdOf(b, blocks, at + m) /\ at + m \in 1 .. Len(blocks)
        /\ blocks[at + m].kind = "data" /\ blocks[at + m].bytes = c[m]
    BY <1>0, <1>3, <2>1
  <2>3. Seen(new, b, blocks, at + m)
    BY <2>2, BlockReads
  <2>4. Direct(new, IdOf(b, blocks, at + m)) = <<blocks[at + m].bytes>>
    BY <2>2, <2>3, DirectReads
  <2> QED BY <2>2, <2>4
<1>7. Listed(new, id) = Joined([m \in 1 .. n |-> Direct(new, es[m].data)])
  BY <1>2, <1>4, <1>5 DEF Listed
<1>8. [m \in 1 .. n |-> Direct(new, es[m].data)] = [m \in DOMAIN c |-> <<c[m]>>]
  BY <1>3, <1>6
<1>9. Joined([m \in DOMAIN c |-> <<c[m]>>]) = c
  BY JoinedSingles
<1> QED BY <1>1, <1>7, <1>8, <1>9

\* The sequence that the data blocks at the start of a plan hold, read from the block
\* that Indexed puts over them.
LEMMA OverReads ==
  ASSUME NEW c \in Seq(Part), NEW n \in Nat, n = Len(c), NEW p \in Plan, Len(p.blocks) = n,
         \A j \in 1 .. n : p.blocks[j] = DataBlock(c[j]),
         NEW ents \in Seq(Ent), Len(ents) = n, \A j \in 1 .. n : ents[j].data = j,
         NEW gs \in Seq(Seq(Ent)), NEW fan, NEW from, CutUp(gs, ents, fan, from),
         NEW r, Over(r, p, "x", gs), ~ r.failed,
         NEW new, NEW b \in Nat \ {0}, Holds(new, b, r.blocks)
  PROVE  ReadStream(new, IdOf(b, r.blocks, r.root)) = c
<1>1. PICK G \in Nat : G = Len(gs) /\ G >= 1 /\ DOMAIN gs = 1 .. G
  BY DEF CutUp
<1>2. PICK blocks \in Seq(Piece) : blocks = r.blocks
  BY DEF Over, Plan
<1>3. /\ Len(blocks) \in Nat /\ n + G <= Len(blocks)
      /\ \A j \in 1 .. n : blocks[j] = DataBlock(c[j])
      /\ \A g \in 1 .. G : blocks[n + g] = IndexBlock("x", 1, gs[g])
  BY <1>1, <1>2 DEF Over, Low
<1>4. \A j \in 1 .. n : j \in 1 .. Len(blocks) /\ blocks[j].kind = "data" /\ blocks[j].bytes = c[j]
  BY <1>3, DataBlocksTyped
<1>5. \A g \in 1 .. G : /\ n + g \in 1 .. Len(blocks) /\ blocks[n + g].kind = "x"
                        /\ blocks[n + g].level = 1 /\ blocks[n + g].ents = gs[g]
  <2>1. \A g \in 1 .. G : n + g \in 1 .. Len(blocks)
    BY <1>3
  <2>2. ASSUME NEW g \in 1 .. G
        PROVE  /\ blocks[n + g].kind = "x" /\ blocks[n + g].level = 1
               /\ blocks[n + g].ents = gs[g]
    <3>1. blocks[n + g] = IndexBlock("x", 1, gs[g])
      BY <1>3
    <3> QED BY <3>1 DEF IndexBlock
  <2> QED BY <2>1, <2>2
<1>6. from \in [1 .. G + 1 -> 1 .. n + 1] /\ from[1] = 1 /\ from[G + 1] = n + 1
  BY <1>1 DEF CutUp
<1>7. ASSUME NEW g \in 1 .. G
      PROVE  \E at \in Nat, l \in Nat :
               /\ at = from[g] - 1 /\ l = Len(gs[g]) /\ l = from[g + 1] - from[g]
               /\ l >= 1 /\ l <= fan /\ at + l <= n
               /\ \A m \in 1 .. l : gs[g][m].data = at + m
  <2>1. g \in 1 .. G + 1 /\ g + 1 \in 1 .. G + 1
    BY <1>1
  <2>2. PICK x, y \in 1 .. n + 1 : x = from[g] /\ y = from[g + 1]
    BY <1>6, <2>1
  <2>3. PICK l \in Nat : l = Len(gs[g])
    BY <1>1
  <2>4. l = y - x /\ l >= 1 /\ l <= fan /\ \A m \in 1 .. l : gs[g][m] = ents[x + m - 1]
    BY <1>1, <2>2, <2>3 DEF CutUp
  <2>5. PICK at \in Nat : at = x - 1 /\ at + l <= n
    <3>1. l = y - x
      BY <2>4
    <3> QED BY <3>1
  <2>6. \A m \in 1 .. l : x + m - 1 = at + m /\ at + m \in 1 .. n
    BY <2>5
  <2>7. \A m \in 1 .. l : gs[g][m].data = at + m
    BY <2>4, <2>6
  <2> QED BY <2>2, <2>3, <2>4, <2>5, <2>7
<1>8. DEFINE part(g) == [m \in 1 .. Len(gs[g]) |-> c[from[g] + m - 1]]
<1>9. ASSUME NEW g \in 1 .. G
      PROVE  /\ part(g) \in Seq(Part) /\ Len(part(g)) = Len(gs[g])
             /\ Listed(new, IdOf(b, blocks, n + g)) = part(g)
  <2>1. PICK at \in Nat, l \in Nat :
               /\ at = from[g] - 1 /\ l = Len(gs[g]) /\ at + l <= n
               /\ \A m \in 1 .. l : gs[g][m].data = at + m
    BY <1>7
  <2>2. PICK x \in 1 .. n + 1 : x = from[g] /\ x - 1 = at
    <3>1. g \in 1 .. G + 1
      BY <1>1
    <3>2. PICK x \in 1 .. n + 1 : x = from[g]
      BY <1>6, <3>1
    <3>3. x - 1 = at
      BY <2>1, <3>2
    <3> QED BY <3>2, <3>3
  <2>3. \A m \in 1 .. l : x + m - 1 = at + m /\ at + m \in 1 .. n
    <3>1. at + l <= n
      BY <2>1
    <3>2. x = at + 1
      BY <2>2
    <3> QED BY <3>1, <3>2
  <2>4. PICK d : d = part(g)
    OBVIOUS
  <2>5. d = [m \in 1 .. l |-> c[at + m]]
    BY <2>1, <2>2, <2>3, <2>4
  <2>6. d \in Seq(Part) /\ Len(d) = l /\ \A m \in 1 .. l : d[m] = c[at + m]
    <3>1. d \in [1 .. l -> Part]
      BY <2>3, <2>5
    <3> QED BY <2>5, <3>1, SeqFrom
  <2>7. PICK ref \in 1 .. Len(blocks) : ref = n + g /\ blocks[ref].kind = "x" /\ blocks[ref].ents = gs[g]
    BY <1>5
  <2>8. \A m \in 1 .. Len(d) :
          /\ blocks[ref].ents[m].data = at + m /\ at + m \in 1 .. Len(blocks)
          /\ blocks[at + m].kind = "data" /\ blocks[at + m].bytes = d[m]
    BY <1>4, <2>1, <2>3, <2>6, <2>7
  <2>9. Len(d) = Len(blocks[ref].ents) /\ Holds(new, b, blocks)
    BY <1>2, <2>1, <2>6, <2>7
  <2>10. Listed(new, IdOf(b, blocks, ref)) = d
    <3> HIDE DEF part
    <3>1. d \in Seq(Part) /\ blocks[ref].kind = "x"
      BY <2>6, <2>7
    <3>2. Lists(blocks, ref, d, at)
      BY <2>8, <2>9 DEF Lists
    <3>3. Holds(new, b, blocks)
      BY <2>9
    <3> QED BY <3>1, <3>2, <3>3, ListedReads
  <2> QED BY <2>1, <2>4, <2>6, <2>7, <2>10
<1>10. PICK root : root = r.root /\ (G = 1 => root = n + 1) /\ (G # 1 => root = n + G + 1)
  BY <1>1 DEF Over
<1>11. CASE G = 1
  <2>1. root = n + 1 /\ 1 \in 1 .. G
    BY <1>10, <1>11
  <2>2. part(1) = c
    <3>1. Len(gs[1]) = n /\ from[1] = 1
      <4>1. PICK at \in Nat, l \in Nat : l = Len(gs[1]) /\ l = from[1 + 1] - from[1]
        BY <1>7, <2>1
      <4>2. from[1 + 1] = n + 1
        BY <1>6, <1>11
      <4>3. l = (n + 1) - 1
        BY <1>6, <4>1, <4>2
      <4>4. l = n
        BY <4>3
      <4> QED BY <1>6, <4>1, <4>4
    <3>2. \A m \in 1 .. n : 1 + m - 1 = m
      OBVIOUS
    <3>3. part(1) = [m \in 1 .. n |-> c[m]]
      BY <3>1, <3>2
    <3> QED BY <3>3
  <2>3. Seen(new, b, blocks, n + 1) /\ blocks[n + 1].level = 1
    BY <1>2, <1>5, <2>1, BlockReads
  <2>4. IdOf(b, blocks, n + 1) # 0 /\ new[IdOf(b, blocks, n + 1)].level = 1
    BY <2>3 DEF Seen
  <2>5. Listed(new, IdOf(b, blocks, n + 1)) = c
    BY <1>9, <2>1, <2>2
  <2> QED BY <1>2, <1>10, <2>1, <2>4, <2>5 DEF ReadStream
<1>12. CASE G # 1
  <2>1. root = n + G + 1 /\ root \in 1 .. Len(blocks)
        /\ blocks[root].level = 2 /\ Len(blocks[root].ents) = G
        /\ \A g \in 1 .. G : blocks[root].ents[g].data = n + g
    <3>1. /\ r.root = n + G + 1 /\ Len(r.blocks) = n + G + 1
          /\ r.blocks[n + G + 1].level = Low("x") + 1
          /\ Len(r.blocks[n + G + 1].ents) = G
          /\ \A g \in 1 .. G : r.blocks[n + G + 1].ents[g].data = n + g
      BY <1>1, <1>12 DEF Over
    <3>2. Low("x") + 1 = 2
      BY DEF Low
    <3>3. n + G + 1 \in 1 .. n + G + 1
      OBVIOUS
    <3> QED BY <1>2, <1>10, <3>1, <3>2, <3>3
  <2>2. Seen(new, b, blocks, root)
    BY <1>2, <2>1, BlockReads
  <2>3. PICK id : id = IdOf(b, blocks, root)
    OBVIOUS
  <2>4. /\ id # 0 /\ id \in DOMAIN new /\ new[id].level = 2
        /\ new[id].ents = [m \in 1 .. Len(blocks[root].ents) |->
                             Written1(b, blocks, blocks[root].ents[m])]
    BY <2>1, <2>2, <2>3 DEF Seen
  <2>5. DOMAIN new[id].ents = 1 .. G
        /\ \A g \in 1 .. G : new[id].ents[g].data = IdOf(b, blocks, n + g)
    BY <2>1, <2>4 DEF Written1
  <2>6. PICK parts : parts = [g \in 1 .. G |-> part(g)]
    OBVIOUS
  <2>7. \A g \in 1 .. G : parts[g] = part(g) /\ parts[g] = Listed(new, new[id].ents[g].data)
    BY <1>9, <2>5, <2>6
  <2>8. ReadStream(new, id) = Joined([g \in 1 .. G |-> Listed(new, new[id].ents[g].data)])
    BY <2>4, <2>5 DEF ReadStream
  <2>9. [g \in 1 .. G |-> Listed(new, new[id].ents[g].data)] = parts
    BY <2>6, <2>7
  <2>10. parts \in Seq(Seq(Part)) /\ Len(parts) = G
    <3>1. \A g \in 1 .. G : parts[g] \in Seq(Part)
      BY <1>9, <2>7
    <3>2. parts \in [1 .. G -> Seq(Part)]
      BY <2>6, <3>1
    <3> QED BY <3>2, SeqFrom
  <2>11. CutUp(parts, c, fan, from)
    <3>1. ASSUME NEW g \in 1 .. G
          PROVE  /\ Len(parts[g]) = from[g + 1] - from[g] /\ Len(parts[g]) >= 1
                 /\ Len(parts[g]) <= fan
                 /\ \A j \in 1 .. Len(parts[g]) : parts[g][j] = c[from[g] + j - 1]
      <4>1. Len(parts[g]) = Len(gs[g]) /\ parts[g] = part(g)
        BY <1>9, <2>7
      <4>2. Len(gs[g]) = from[g + 1] - from[g] /\ Len(gs[g]) >= 1 /\ Len(gs[g]) <= fan
        BY <1>7
      <4>3. \A j \in 1 .. Len(gs[g]) : part(g)[j] = c[from[g] + j - 1]
        OBVIOUS
      <4> HIDE DEF part
      <4> QED BY <4>1, <4>2, <4>3
    <3>2. from \in [1 .. Len(parts) + 1 -> 1 .. Len(c) + 1]
          /\ from[1] = 1 /\ from[Len(parts) + 1] = Len(c) + 1 /\ Len(parts) >= 1
      BY <1>1, <1>6, <2>10
    <3> HIDE DEF part
    <3> QED BY <2>10, <3>1, <3>2 DEF CutUp
  <2>12. Joined(parts) = c
    <3> HIDE DEF part
    <3> QED BY <2>10, <2>11, JoinedParts
  <2> QED BY <1>2, <1>10, <2>3, <2>8, <2>9, <2>12
<1> QED BY <1>11, <1>12

-----------------------------------------------------------------------------
(* Data streams. *)

\* A stream that can be read and that two levels can hold.
Sound(old, s) ==
  s = 0 \/ (s \notin old.bad /\ Len(Cut(old.streams[s])) <= FAN["x"] * TOP_FAN["x"])

\* The blocks that the new file is to have for a stream.
Laying(old, s) == IF s = 0 THEN <<>> ELSE Cut(old.streams[s])

\* The plan of the data blocks alone.
Flat(old, s) ==
  LET blocks == old.streams[s]
      parts == Cut(blocks)
  IN  [blocks |-> [j \in DOMAIN parts |-> DataBlock(parts[j])],
       root |-> Len(parts),
       failed |-> FALSE,
       divided |-> IF \E j \in DOMAIN blocks :
                        Len(blocks[j]) > MAX_DATA /\ LooksLikeHeap(blocks[j])
                   THEN {s} ELSE {}]

\* The entries over n blocks in their order.
ListOf(n) == [j \in 1 .. n |-> [nid |-> 0, data |-> j, sub |-> 0]]

\* The data blocks of a stream are a plan, which fails at nothing.
LEMMA FlatIs ==
  ASSUME NEW old, Source(old), NEW s \in DOMAIN old.streams
  PROVE  /\ Flat(old, s) \in Plan /\ ~ Flat(old, s).failed
         /\ Cut(old.streams[s]) \in Seq(Part)
         /\ Len(Flat(old, s).blocks) = Len(Cut(old.streams[s]))
         /\ Flat(old, s).root = Len(Cut(old.streams[s]))
         /\ \A j \in 1 .. Len(Cut(old.streams[s])) :
              Flat(old, s).blocks[j] = DataBlock(Cut(old.streams[s])[j])
<1>1. PICK blocks \in Seq(Seq(Nat)) : blocks = old.streams[s]
  BY DEF Source
<1>2. PICK parts \in Seq(Part) : parts = Cut(blocks)
  BY CutIs
<1>3. PICK n \in Nat : n = Len(parts) /\ DOMAIN parts = 1 .. n
  OBVIOUS
<1>4. PICK bs : bs = [j \in DOMAIN parts |-> DataBlock(parts[j])]
  OBVIOUS
<1>5. \A j \in 1 .. n : bs[j] = DataBlock(parts[j]) /\ DataBlock(parts[j]) \in Piece
                        /\ DataBlock(parts[j]).ents = <<>>
  BY <1>3, <1>4, DataBlocksTyped
<1>6. bs \in Seq(Piece) /\ Len(bs) = n
  <2>1. bs \in [1 .. n -> Piece]
    BY <1>3, <1>4, <1>5
  <2> QED BY <2>1, SeqFrom
<1>7. Backward(bs)
  <2> SUFFICES ASSUME NEW j \in 1 .. n PROVE Below(bs[j].ents, j - 1)
    BY <1>6 DEF Backward
  <2>1. bs[j].ents = <<>>
    BY <1>5
  <2> QED BY <2>1 DEF Below
<1>8. s \in Nat
  BY DEF Source, Data
<1>9. PICK p : p = Flat(old, s)
  OBVIOUS
<1>10. PICK div \in SUBSET Nat : p = [blocks |-> bs, root |-> n, failed |-> FALSE, divided |-> div]
  <2>1. p.divided \in SUBSET Nat
    BY <1>8, <1>9 DEF Flat
  <2>2. p = [blocks |-> bs, root |-> n, failed |-> FALSE, divided |-> p.divided]
    BY <1>1, <1>2, <1>3, <1>4, <1>9 DEF Flat
  <2> QED BY <2>1, <2>2
<1>11. p \in Plan
  <2>1. p \in [blocks : Seq(Piece), root : Nat, failed : BOOLEAN, divided : SUBSET Nat]
    BY <1>6, <1>10
  <2> QED BY <1>6, <1>7, <1>10, <2>1 DEF Plan
<1> QED BY <1>1, <1>2, <1>3, <1>5, <1>6, <1>9, <1>10, <1>11

\* The plan of a stream by cases.
LEMMA StreamCases ==
  ASSUME NEW old, Source(old), NEW s \in Data(old)
  PROVE  /\ s = 0 => Stream(old, s) = Nothing
         /\ s # 0 => s \in DOMAIN old.streams
         /\ s # 0 /\ s \in old.bad => Stream(old, s) = Failed
         /\ s # 0 /\ s \notin old.bad /\ Len(Cut(old.streams[s])) <= 1 =>
              Stream(old, s) = Flat(old, s)
         /\ s # 0 /\ s \notin old.bad /\ ~ (Len(Cut(old.streams[s])) <= 1) =>
              Stream(old, s) =
                Indexed(Flat(old, s), "x", ListOf(Len(Cut(old.streams[s]))))
<1>1. s # 0 => s \in DOMAIN old.streams
  BY DEF Data
<1>2. ASSUME s # 0, s \notin old.bad
      PROVE  Stream(old, s) = IF Len(Cut(old.streams[s])) <= 1 THEN Flat(old, s)
                              ELSE Indexed(Flat(old, s), "x", ListOf(Len(Cut(old.streams[s]))))
  <2>1. Cut(old.streams[s]) \in Seq(Part)
    BY <1>1, <1>2, FlatIs
  <2>2. PICK parts \in Seq(Part) : parts = Cut(old.streams[s])
    BY <2>1
  <2>3. [j \in DOMAIN parts |-> [nid |-> 0, data |-> j, sub |-> 0]] = ListOf(Len(parts))
    BY DEF ListOf
  <2>4. Stream(old, s) = IF Len(parts) <= 1 THEN Flat(old, s)
                         ELSE Indexed(Flat(old, s), "x",
                                [j \in DOMAIN parts |-> [nid |-> 0, data |-> j, sub |-> 0]])
    BY <1>2, <2>2 DEF Stream, Flat
  <2> QED BY <2>2, <2>3, <2>4
<1>3. s = 0 => Stream(old, s) = Nothing
  BY DEF Stream
<1>4. s # 0 /\ s \in old.bad => Stream(old, s) = Failed
  BY DEF Stream
<1> QED BY <1>1, <1>2, <1>3, <1>4

\* The list under an XBLOCK.
LEMMA ListIs ==
  ASSUME NEW n \in Nat
  PROVE  /\ ListOf(n) \in Seq(Ent) /\ Len(ListOf(n)) = n
         /\ \A j \in 1 .. n : ListOf(n)[j].data = j /\ ListOf(n)[j].sub = 0
         /\ Below(ListOf(n), n)
<1>1. PICK l : l = ListOf(n)
  OBVIOUS
<1>2. l \in [1 .. n -> Ent]
  BY <1>1 DEF ListOf, Ent
<1>3. l \in Seq(Ent) /\ Len(l) = n
  BY <1>2, SeqFrom
<1>4. \A j \in 1 .. n : l[j].data = j /\ l[j].sub = 0
  BY <1>1 DEF ListOf
<1>5. Below(l, n)
  BY <1>3, <1>4 DEF Below
<1> QED BY <1>1, <1>3, <1>4, <1>5

\* Whatever a stream is, its plan is one, and fails only where the stream cannot be
\* read or is too long for two levels.
LEMMA StreamIs ==
  ASSUME NEW old, Source(old), NEW s \in Data(old)
  PROVE  Stream(old, s) \in Plan /\ (Stream(old, s).failed <=> ~ Sound(old, s))
<1>1. CASE s = 0
  BY <1>1, StreamCases, NothingTyped DEF Sound
<1>2. CASE s # 0 /\ s \in old.bad
  BY <1>2, StreamCases, NothingTyped DEF Sound
<1>3. CASE s # 0 /\ s \notin old.bad
  <2>1. s \in DOMAIN old.streams
    BY <1>3, StreamCases
  <2>2. PICK p \in Plan : p = Flat(old, s) /\ ~ p.failed
    BY <2>1, FlatIs
  <2>3. PICK n \in Nat : n = Len(Cut(old.streams[s])) /\ Len(p.blocks) = n
    <3>1. PICK c \in Seq(Part) : c = Cut(old.streams[s]) /\ Len(p.blocks) = Len(c)
      BY <2>1, <2>2, FlatIs
    <3> QED BY <3>1
  <2>4. Sound(old, s) <=> n <= FAN["x"] * TOP_FAN["x"]
    BY <1>3, <2>3 DEF Sound
  <2>5. FAN["x"] \in Nat \ {0} /\ TOP_FAN["x"] \in Nat \ {0}
    BY ConvertAssumption
  <2>6. CASE n <= 1
    <3>1. n <= FAN["x"] * TOP_FAN["x"]
      <4>1. PICK f, t \in Nat \ {0} : f = FAN["x"] /\ t = TOP_FAN["x"]
        BY <2>5
      <4>2. 1 * t <= f * t
        BY MulMono
      <4>3. f * t \in Nat
        OBVIOUS
      <4> QED BY <2>6, <4>1, <4>2, <4>3
    <3>2. Stream(old, s) = p
      BY <1>3, <2>2, <2>3, <2>6, StreamCases
    <3> QED BY <2>2, <2>4, <3>1, <3>2
  <2>7. CASE ~ (n <= 1)
    <3>1. Stream(old, s) = Indexed(p, "x", ListOf(n))
      BY <1>3, <2>2, <2>3, <2>7, StreamCases
    <3>2. PICK ents \in Seq(Ent) : ents = ListOf(n) /\ Len(ents) = n /\ Below(ents, n)
      BY ListIs
    <3>3. ents # <<>>
      BY <2>7, <3>2
    <3>4. PICK gs \in Seq(Seq(Ent)) :
            /\ Over(Indexed(p, "x", ents), p, "x", gs)
            /\ Len(gs) > TOP_FAN["x"] <=> Len(ents) > FAN["x"] * TOP_FAN["x"]
      BY <2>2, <2>3, <3>2, <3>3, IndexedIs
    <3>5. Stream(old, s) \in Plan /\ (Stream(old, s).failed <=> n > FAN["x"] * TOP_FAN["x"])
      BY <3>1, <3>2, <3>4 DEF Over
    <3>6. PICK m \in Nat : m = FAN["x"] * TOP_FAN["x"]
      BY <2>5
    <3> QED BY <2>4, <3>5, <3>6
  <2> QED BY <2>6, <2>7
<1> QED BY <1>1, <1>2, <1>3

\* Nothing is read where nothing is named.
LEMMA NothingReads ==
  ASSUME NEW new, NEW b, NEW blocks
  PROVE  IdOf(b, blocks, 0) = 0 /\ ReadStream(new, 0) = <<>>
BY DEF IdOf, ReadStream

\* A stream of one block is that block.
LEMMA OneReads ==
  ASSUME NEW new, NEW b \in Nat \ {0}, NEW blocks \in Seq(Piece), Holds(new, b, blocks),
         NEW ref \in 1 .. Len(blocks), NEW x \in Part, blocks[ref] = DataBlock(x)
  PROVE  ReadStream(new, IdOf(b, blocks, ref)) = <<x>>
<1>1. Seen(new, b, blocks, ref)
  BY BlockReads
<1>2. blocks[ref].kind = "data" /\ blocks[ref].bytes = x /\ blocks[ref].level = 0
  BY DEF DataBlock
<1>3. PICK id : id = IdOf(b, blocks, ref)
  OBVIOUS
<1>4. Direct(new, id) = <<x>>
  BY <1>1, <1>2, <1>3, DirectReads
<1>5. id # 0 /\ ~ IsIndex(id) /\ new[id].level = 0
  BY <1>1, <1>2, <1>3 DEF Seen
<1>6. Listed(new, id) = <<x>>
  BY <1>4, <1>5 DEF Listed
<1>7. ReadStream(new, id) = Listed(new, id)
  BY <1>5 DEF ReadStream
<1> QED BY <1>3, <1>6, <1>7

\* What a reader of the new file finds under the root of a stream's blocks is the
\* stream, in the blocks it was laid out in.
LEMMA StreamReads ==
  ASSUME NEW old, Source(old), NEW s \in Data(old), ~ Stream(old, s).failed,
         NEW new, NEW b \in Nat \ {0}, Holds(new, b, Stream(old, s).blocks)
  PROVE  ReadStream(new, IdOf(b, Stream(old, s).blocks, Stream(old, s).root)) = Laying(old, s)
<1>1. CASE s = 0
  <2>1. Stream(old, s).root = 0 /\ Laying(old, s) = <<>>
    BY <1>1, StreamCases, NothingTyped DEF Laying
  <2> QED BY <2>1, NothingReads
<1>2. CASE s # 0
  <2>1. s \in DOMAIN old.streams /\ s \notin old.bad
    BY <1>2, StreamCases, StreamIs DEF Sound
  <2>2. PICK p \in Plan : p = Flat(old, s) /\ ~ p.failed
    BY <2>1, FlatIs
  <2>3. PICK c \in Seq(Part) : c = Cut(old.streams[s]) /\ c = Laying(old, s)
                               /\ Len(p.blocks) = Len(c) /\ p.root = Len(c)
                               /\ \A j \in 1 .. Len(c) : p.blocks[j] = DataBlock(c[j])
    BY <1>2, <2>1, <2>2, FlatIs DEF Laying
  <2>4. PICK n \in Nat : n = Len(c)
    OBVIOUS
  <2>5. CASE n = 0
    <3>1. Stream(old, s) = p
      <4>1. Len(Cut(old.streams[s])) <= 1
        BY <2>3, <2>4, <2>5
      <4> QED BY <1>2, <2>1, <2>2, <4>1, StreamCases
    <3>2. p.root = 0 /\ c = <<>>
      <4>1. Len(c) = 0 /\ p.root = Len(c)
        BY <2>3, <2>4, <2>5
      <4> QED BY <4>1
    <3> QED BY <2>3, <3>1, <3>2, NothingReads
  <2>6. CASE n = 1
    <3>1. Stream(old, s) = p
      <4>1. Len(Cut(old.streams[s])) <= 1
        BY <2>3, <2>4, <2>6
      <4> QED BY <1>2, <2>1, <2>2, <4>1, StreamCases
    <3>2. p.root = 1 /\ Len(p.blocks) = 1 /\ p.blocks \in Seq(Piece)
      BY <2>3, <2>4, <2>6 DEF Plan
    <3>3. PICK x \in Part : x = c[1] /\ c = <<x>> /\ p.blocks[1] = DataBlock(x)
      <4>1. Len(c) = 1 /\ 1 \in 1 .. Len(c)
        BY <2>4, <2>6
      <4>2. PICK x \in Part : x = c[1]
        BY Z3, <4>1
      <4>3. c = <<x>>
        <5>1. <<x>> \in Seq(Part) /\ Len(<<x>>) = 1 /\ <<x>>[1] = x
          OBVIOUS
        <5>2. \A j \in 1 .. Len(c) : c[j] = <<x>>[j]
          BY <4>1, <4>2, <5>1
        <5> QED BY <4>1, <5>1, <5>2, SeqSame
      <4>4. p.blocks[1] = DataBlock(x)
        BY <2>3, <4>1, <4>2
      <4> QED BY <4>2, <4>3, <4>4
    <3>4. ReadStream(new, IdOf(b, p.blocks, 1)) = <<x>>
      BY <3>1, <3>2, <3>3, OneReads
    <3> QED BY <2>3, <3>1, <3>2, <3>3, <3>4
  <2>7. CASE n >= 2
    <3>1. Stream(old, s) = Indexed(p, "x", ListOf(n))
      <4>1. ~ (n <= 1)
        BY <2>7
      <4> QED BY <1>2, <2>1, <2>2, <2>3, <2>4, <4>1, StreamCases
    <3>2. PICK ents \in Seq(Ent) : ents = ListOf(n) /\ Len(ents) = n /\ Below(ents, n)
                                   /\ \A j \in 1 .. n : ents[j].data = j
      BY ListIs
    <3>3. ents # <<>>
      BY <2>7, <3>2
    <3>4. PICK gs \in Seq(Seq(Ent)) :
            /\ \E from : CutUp(gs, ents, FAN["x"], from)
            /\ Over(Indexed(p, "x", ents), p, "x", gs)
      BY <2>2, <2>3, <2>4, <3>2, <3>3, IndexedIs
    <3>5. PICK from : CutUp(gs, ents, FAN["x"], from)
      BY <3>4
    <3>6. PICK r : r = Stream(old, s)
      OBVIOUS
    <3>7. Over(r, p, "x", gs) /\ ~ r.failed /\ Holds(new, b, r.blocks)
      BY <3>1, <3>2, <3>4, <3>6
    <3>8. n = Len(c) /\ Len(p.blocks) = n /\ \A j \in 1 .. n : p.blocks[j] = DataBlock(c[j])
      BY <2>3, <2>4
    <3>9. ReadStream(new, IdOf(b, r.blocks, r.root)) = c
      BY <3>2, <3>5, <3>7, <3>8, OverReads
    <3> QED BY <2>3, <3>6, <3>9
  <2>8. n = 0 \/ n = 1 \/ n >= 2
    OBVIOUS
  <2> QED BY <2>5, <2>6, <2>7, <2>8
<1> QED BY <1>1, <1>2

\* The stream that was laid out is the one there was.
LEMMA LayingIsSame ==
  ASSUME NEW old, Source(old), NEW s \in Data(old), NEW new, NEW bid,
         ReadStream(new, bid) = Laying(old, s)
  PROVE  SameStream(old, new, bid, s)
<1>1. CASE s = 0
  BY <1>1 DEF SameStream, Laying
<1>2. CASE s # 0
  <2>1. PICK was \in Seq(Seq(Nat)) : was = old.streams[s]
    BY <1>2 DEF Source, Data
  <2>2. ReadStream(new, bid) = Cut(was)
    BY <1>2, <2>1 DEF Laying
  <2>3. Joined(Cut(was)) = Joined(was)
        /\ ((\A j \in DOMAIN was : Len(was[j]) <= MAX_DATA) => Cut(was) = was)
    BY CutIs
  <2> QED BY <1>2, <2>1, <2>2, <2>3 DEF SameStream
<1> QED BY <1>1, <1>2

-----------------------------------------------------------------------------
(* Plans inside plans. *)

\* The id of a reference looks at no other block than the one referred to.
LEMMA IdsAgree ==
  ASSUME NEW b \in Nat, NEW k \in Nat, NEW p \in Seq(Piece), NEW q \in Seq(Piece),
         Len(q) >= k + Len(p), \A j \in 1 .. Len(p) : q[k + j].kind = p[j].kind,
         NEW ref \in 0 .. Len(p)
  PROVE  IdOf(b, q, Up(ref, k)) = IdOf(b + k, p, ref)
<1>1. CASE ref = 0
  BY <1>1 DEF IdOf, Up
<1>2. CASE ref # 0
  <2>1. PICK r \in 1 .. Len(p) : r = ref
    BY <1>2
  <2>2. Up(ref, k) = k + r /\ k + r # 0
    BY <1>2, <2>1 DEF Up
  <2>3. IdOf(b, q, k + r) = Id(b + (k + r) - 1, q[k + r])
    BY <2>2 DEF IdOf
  <2>4. IdOf(b + k, p, ref) = Id((b + k) + r - 1, p[r])
    BY <1>2, <2>1 DEF IdOf
  <2>5. b + (k + r) - 1 = (b + k) + r - 1
    OBVIOUS
  <2>6. q[k + r].kind = p[r].kind
    OBVIOUS
  <2>7. PICK x \in Nat : x = b + (k + r) - 1
    <3>1. b + (k + r) - 1 \in Nat
      OBVIOUS
    <3> QED BY <3>1
  <2>8. Id(x, q[k + r]) = Id(x, p[r])
    BY <2>6 DEF Id
  <2> QED BY <2>2, <2>3, <2>4, <2>5, <2>7, <2>8
<1> QED BY <1>1, <1>2

\* The entries of a block mean the same behind k other blocks.
LEMMA ShiftedResolves ==
  ASSUME NEW b \in Nat, NEW k \in Nat, NEW p \in Seq(Piece), NEW q \in Seq(Piece),
         Len(q) >= k + Len(p), \A j \in 1 .. Len(p) : q[k + j].kind = p[j].kind,
         NEW x \in Piece, Below(x.ents, Len(p))
  PROVE  Resolved(b, q, Shifted(x, k)) = Resolved(b + k, p, x)
<1>1. PICK n \in Nat : n = Len(x.ents) /\ DOMAIN x.ents = 1 .. n /\ x.ents \in Seq(Ent)
  BY DEF Piece
<1>2. PICK y : y = Shifted(x, k)
  OBVIOUS
<1>3. PICK e : e = [m \in 1 .. n |-> [nid |-> x.ents[m].nid, data |-> Up(x.ents[m].data, k),
                                      sub |-> Up(x.ents[m].sub, k)]]
  OBVIOUS
<1>4. y = [x EXCEPT !.ents = e]
  BY <1>1, <1>2, <1>3 DEF Shifted
<1>5. x \in [kind : {"data", "x", "s"}, level : 0 .. 2, bytes : Seq(Nat), ents : Seq(Ent)]
  BY DEF Piece
<1>6. y.ents = e /\ y.kind = x.kind /\ y.level = x.level /\ y.bytes = x.bytes
  BY <1>4, <1>5
<1>7. PICK f : f = [m \in 1 .. n |-> [nid |-> x.ents[m].nid,
                                      data |-> IdOf(b + k, p, x.ents[m].data),
                                      sub |-> IdOf(b + k, p, x.ents[m].sub)]]
  OBVIOUS
<1>8. Resolved(b + k, p, x) = [x EXCEPT !.ents = f]
  BY <1>1, <1>7 DEF Resolved
<1>9. ASSUME NEW m \in 1 .. n
      PROVE  /\ e[m].nid = x.ents[m].nid
             /\ IdOf(b, q, e[m].data) = IdOf(b + k, p, x.ents[m].data)
             /\ IdOf(b, q, e[m].sub) = IdOf(b + k, p, x.ents[m].sub)
  <2>1. x.ents[m] \in Ent
    BY <1>1
  <2>2. PICK c, d \in Nat : c = x.ents[m].data /\ d = x.ents[m].sub
    BY <2>1 DEF Ent
  <2>3. c \in 0 .. Len(p) /\ d \in 0 .. Len(p)
    BY <1>1, <2>2 DEF Below
  <2>4. e[m].nid = x.ents[m].nid /\ e[m].data = Up(c, k) /\ e[m].sub = Up(d, k)
    BY <1>3, <2>2
  <2>5. IdOf(b, q, Up(c, k)) = IdOf(b + k, p, c) /\ IdOf(b, q, Up(d, k)) = IdOf(b + k, p, d)
    <3>1. ASSUME NEW ref \in 0 .. Len(p) PROVE IdOf(b, q, Up(ref, k)) = IdOf(b + k, p, ref)
      <4>1. Len(q) >= k + Len(p) /\ \A j \in 1 .. Len(p) : q[k + j].kind = p[j].kind
        OBVIOUS
      <4> QED BY Z3, <4>1, IdsAgree
    <3> QED BY <2>3, <3>1
  <2> QED BY <2>2, <2>4, <2>5
<1>10. DOMAIN e = 1 .. n
  BY <1>3
<1>11. [m \in DOMAIN e |-> [nid |-> e[m].nid, data |-> IdOf(b, q, e[m].data),
                            sub |-> IdOf(b, q, e[m].sub)]] = f
  BY <1>7, <1>9, <1>10
<1>12. Resolved(b, q, y) = [y EXCEPT !.ents = f]
  <2>1. Resolved(b, q, y) =
          [y EXCEPT !.ents = [m \in DOMAIN e |-> [nid |-> e[m].nid, data |-> IdOf(b, q, e[m].data),
                                                  sub |-> IdOf(b, q, e[m].sub)]]]
    BY <1>6 DEF Resolved
  <2> QED BY <1>11, <2>1
<1>13. [y EXCEPT !.ents = f] = [x EXCEPT !.ents = f]
  BY <1>4, <1>5
<1> QED BY <1>2, <1>8, <1>12, <1>13

\* A plan that comes behind k blocks of a plan which is all in the file is all there too.
LEMMA BackHolds ==
  ASSUME NEW b \in Nat, NEW k \in Nat, NEW p \in Seq(Piece), NEW q \in Seq(Piece),
         Len(q) >= k + Len(p), \A j \in 1 .. Len(p) : q[k + j] = Shifted(p[j], k),
         Backward(p), NEW new, Holds(new, b, q)
  PROVE  /\ Holds(new, b + k, p)
         /\ \A ref \in 0 .. Len(p) : IdOf(b, q, Up(ref, k)) = IdOf(b + k, p, ref)
<1>1. \A j \in 1 .. Len(p) : q[k + j].kind = p[j].kind
  <2>1. ASSUME NEW j \in 1 .. Len(p) PROVE q[k + j].kind = p[j].kind
    <3>1. p[j] \in Piece
      OBVIOUS
    <3>2. Shifted(p[j], k).kind = p[j].kind
      BY <3>1, ShiftedIs
    <3> QED BY <3>2
  <2> QED BY <2>1
<1>2. \A ref \in 0 .. Len(p) : IdOf(b, q, Up(ref, k)) = IdOf(b + k, p, ref)
  BY <1>1, IdsAgree
<1>3. ASSUME NEW j \in 1 .. Len(p)
      PROVE  /\ Id((b + k) + j - 1, p[j]) \in DOMAIN new
             /\ new[Id((b + k) + j - 1, p[j])] = Resolved(b + k, p, p[j])
  <2>1. PICK x \in Piece : x = p[j]
    OBVIOUS
  <2>2. k + j \in 1 .. Len(q) /\ q[k + j] = Shifted(x, k) /\ q[k + j].kind = x.kind
    BY <1>1, <2>1
  <2>3. Id(b + (k + j) - 1, q[k + j]) \in DOMAIN new
        /\ new[Id(b + (k + j) - 1, q[k + j])] = Resolved(b, q, q[k + j])
    BY <2>2 DEF Holds
  <2>4. b + (k + j) - 1 = (b + k) + j - 1
    OBVIOUS
  <2>5. \A a : Id(a, q[k + j]) = Id(a, x)
    BY <2>2 DEF Id
  <2>6. Below(x.ents, Len(p))
    <3>1. Below(x.ents, j - 1)
      BY <2>1 DEF Backward
    <3>2. x.ents \in Seq(Ent)
      BY DEF Piece
    <3>3. ASSUME NEW m \in 1 .. Len(x.ents)
          PROVE  x.ents[m].data <= Len(p) /\ x.ents[m].sub <= Len(p)
      <4>1. x.ents[m] \in Ent
        BY <3>2
      <4>2. PICK c, d \in Nat : c = x.ents[m].data /\ d = x.ents[m].sub
        BY <4>1 DEF Ent
      <4>3. c <= j - 1 /\ d <= j - 1
        BY <3>1, <4>2 DEF Below
      <4>4. c <= Len(p) /\ d <= Len(p)
        BY <4>3
      <4> QED BY <4>2, <4>4
    <3> QED BY <3>3 DEF Below
  <2>7. Resolved(b, q, Shifted(x, k)) = Resolved(b + k, p, x)
    <3>1. Len(q) >= k + Len(p)
      OBVIOUS
    <3> QED BY <1>1, <2>6, <3>1, ShiftedResolves
  <2> QED BY <2>1, <2>2, <2>3, <2>4, <2>5, <2>7
<1>4. Holds(new, b + k, p)
  BY <1>3 DEF Holds
<1> QED BY <1>2, <1>4

\* The same for the plan in front.
LEMMA FrontHolds ==
  ASSUME NEW b \in Nat, NEW p \in Seq(Piece), NEW q \in Seq(Piece),
         Len(q) >= Len(p), \A j \in 1 .. Len(p) : q[j] = p[j],
         Backward(p), NEW new, Holds(new, b, q)
  PROVE  /\ Holds(new, b, p)
         /\ \A ref \in 0 .. Len(p) : IdOf(b, q, ref) = IdOf(b, p, ref)
<1>1. \A j \in 1 .. Len(p) : q[0 + j].kind = p[j].kind
  OBVIOUS
<1>2. \A ref \in 0 .. Len(p) : IdOf(b, q, ref) = IdOf(b, p, ref)
  <2>1. ASSUME NEW ref \in 0 .. Len(p) PROVE IdOf(b, q, ref) = IdOf(b, p, ref)
    <3>1. IdOf(b, q, Up(ref, 0)) = IdOf(b + 0, p, ref)
      <4>1. 0 \in Nat /\ Len(q) >= 0 + Len(p)
        OBVIOUS
      <4> QED BY <1>1, <4>1, IdsAgree
    <3>2. Up(ref, 0) = ref /\ b + 0 = b
      BY DEF Up
    <3> QED BY <3>1, <3>2
  <2> QED BY <2>1
<1>3. ASSUME NEW j \in 1 .. Len(p)
      PROVE  /\ Id(b + j - 1, p[j]) \in DOMAIN new
             /\ new[Id(b + j - 1, p[j])] = Resolved(b, p, p[j])
  <2>1. j \in 1 .. Len(q) /\ q[j] = p[j]
    OBVIOUS
  <2>2. Id(b + j - 1, p[j]) \in DOMAIN new /\ new[Id(b + j - 1, p[j])] = Resolved(b, q, p[j])
    BY <2>1 DEF Holds
  <2>3. PICK x \in Piece : x = p[j] /\ x.ents \in Seq(Ent)
    <3>1. p[j] \in Piece
      OBVIOUS
    <3>2. \A y \in Piece : y.ents \in Seq(Ent)
      BY DEF Piece
    <3> QED BY <3>1, <3>2
  <2>4. ASSUME NEW m \in DOMAIN x.ents
        PROVE  /\ IdOf(b, q, x.ents[m].data) = IdOf(b, p, x.ents[m].data)
               /\ IdOf(b, q, x.ents[m].sub) = IdOf(b, p, x.ents[m].sub)
    <3>1. x.ents[m] \in Ent /\ m \in 1 .. Len(x.ents)
      BY <2>3
    <3>2. PICK c, d \in Nat : c = x.ents[m].data /\ d = x.ents[m].sub
      BY <3>1 DEF Ent
    <3>3. c <= j - 1 /\ d <= j - 1
      BY <2>3, <3>1, <3>2 DEF Backward, Below
    <3>4. c \in 0 .. Len(p) /\ d \in 0 .. Len(p)
      BY <3>3
    <3> QED BY <1>2, <3>2, <3>4
  <2>5. Resolved(b, q, x) = Resolved(b, p, x)
    BY <2>4 DEF Resolved
  <2> QED BY <2>2, <2>3, <2>5
<1>4. Holds(new, b, p)
  BY <1>3 DEF Holds
<1> QED BY <1>2, <1>4

-----------------------------------------------------------------------------
(* Subnode trees. *)

\* The blocks p stand in q, behind k others.
Within(q, k, p) ==
  /\ k \in Nat /\ k + Len(p) <= Len(q)
  /\ \A j \in 1 .. Len(p) : q[k + j] = Shifted(p[j], k)

\* q goes on where p ends.
Longer(q, p) == Len(p) <= Len(q) /\ \A j \in 1 .. Len(p) : q[j] = p[j]

\* What stands in a plan stands in every longer one.
LEMMA WithinLonger ==
  ASSUME NEW S, NEW p \in Seq(S), NEW q \in Seq(S), Longer(q, p),
         NEW x \in Seq(S), NEW k, Within(p, k, x)
  PROVE  Within(q, k, x)
<1>1. k \in Nat /\ k + Len(x) <= Len(p) /\ Len(p) <= Len(q) /\ k + Len(x) <= Len(q)
  BY DEF Within, Longer
<1>2. ASSUME NEW j \in 1 .. Len(x) PROVE q[k + j] = Shifted(x[j], k)
  <2>1. k + j \in 1 .. Len(p)
    BY <1>1
  <2>2. q[k + j] = p[k + j]
    BY <2>1 DEF Longer
  <2> QED BY <2>2 DEF Within
<1> QED BY <1>1, <1>2 DEF Within

\* One plan after another: the first goes on, the second stands behind it.
LEMMA ThenWithin ==
  ASSUME NEW p \in Plan, NEW q \in Plan, ~ p.failed
  PROVE  /\ Longer(Then(p, q).blocks, p.blocks)
         /\ Within(Then(p, q).blocks, Len(p.blocks), q.blocks)
         /\ Then(p, q).root = Up(q.root, Len(p.blocks))
<1>1. p.blocks \in Seq(Piece) /\ q.blocks \in Seq(Piece)
  BY DEF Plan
<1>2. PICK k, l \in Nat : k = Len(p.blocks) /\ l = Len(q.blocks)
  BY <1>1
<1>3. PICK r \in Plan : r = Then(p, q)
  BY ThenIs
<1>4. /\ r.root = Up(q.root, k) /\ Len(r.blocks) = k + l
      /\ \A j \in 1 .. k : r.blocks[j] = p.blocks[j]
      /\ \A j \in 1 .. l : r.blocks[k + j] = Shifted(q.blocks[j], k)
  <2>1. /\ Then(p, q).root = Up(q.root, Len(p.blocks))
        /\ Len(Then(p, q).blocks) = Len(p.blocks) + Len(q.blocks)
        /\ \A j \in 1 .. Len(p.blocks) : Then(p, q).blocks[j] = p.blocks[j]
        /\ \A j \in 1 .. Len(q.blocks) :
             Then(p, q).blocks[Len(p.blocks) + j] = Shifted(q.blocks[j], Len(p.blocks))
    BY ThenIs, Zenon
  <2> QED BY <1>2, <1>3, <2>1
<1>5. k <= k + l /\ k + l <= k + l
  OBVIOUS
<1>6. Longer(r.blocks, p.blocks)
  BY <1>2, <1>4, <1>5 DEF Longer
<1>7. Within(r.blocks, k, q.blocks)
  BY <1>2, <1>4, <1>5 DEF Within
<1> QED BY <1>2, <1>3, <1>4, <1>6, <1>7

\* Laying out more blocks, and again more, keeps the first ones.
LEMMA LongerTwice ==
  ASSUME NEW S, NEW p \in Seq(S), NEW q \in Seq(S), NEW r \in Seq(S),
         Longer(q, p), Longer(r, q)
  PROVE  Longer(r, p)
<1>1. Len(p) <= Len(q) /\ Len(q) <= Len(r) /\ Len(p) <= Len(r)
  BY DEF Longer
<1>2. ASSUME NEW j \in 1 .. Len(p) PROVE r[j] = p[j]
  <2>1. j \in 1 .. Len(q)
    BY <1>1
  <2> QED BY <2>1 DEF Longer
<1> QED BY <1>1, <1>2 DEF Longer

\* What has been gathered of a subnode tree.
Acc == {a \in [p : Plan, ents : Seq(Ent)] : Below(a.ents, Len(a.p.blocks))}

\* What a source says of a subnode.
Sub(old) == [data : Data(old), sub : Trees(old)]

\* An entry refers to where the stream and the tree of a subnode begin.
Entered(old, q, e, s, under) ==
  /\ \E k : Within(q, k, Stream(old, s.data).blocks) /\ e.data = Up(Stream(old, s.data).root, k)
  /\ \E k : Within(q, k, under.blocks) /\ e.sub = Up(under.root, k)

\* An entry made for a subnode still leads to its blocks when more are laid behind.
LEMMA EnteredLonger ==
  ASSUME NEW old, Source(old), NEW s \in Sub(old), NEW under \in Plan,
         NEW p \in Seq(Piece), NEW q \in Seq(Piece), Longer(q, p),
         NEW e, Entered(old, p, e, s, under)
  PROVE  Entered(old, q, e, s, under)
<1>1. Stream(old, s.data) \in Plan
  BY StreamIs DEF Sub
<1>2. Stream(old, s.data).blocks \in Seq(Piece) /\ under.blocks \in Seq(Piece)
  BY <1>1 DEF Plan
<1>3. PICK k : Within(p, k, Stream(old, s.data).blocks) /\ e.data = Up(Stream(old, s.data).root, k)
  BY DEF Entered
<1>4. PICK l : Within(p, l, under.blocks) /\ e.sub = Up(under.root, l)
  BY DEF Entered
<1>5. Within(q, k, Stream(old, s.data).blocks)
  BY <1>2, <1>3, WithinLonger
<1>6. Within(q, l, under.blocks)
  BY <1>2, <1>4, WithinLonger
<1> QED BY <1>3, <1>4, <1>5, <1>6 DEF Entered

\* A longer list of blocks has room for the same references.
LEMMA BelowMore ==
  ASSUME NEW ents \in Seq(Ent), NEW k \in Nat, NEW l \in Nat, k <= l, Below(ents, k)
  PROVE  Below(ents, l)
<1> SUFFICES ASSUME NEW m \in 1 .. Len(ents) PROVE ents[m].data <= l /\ ents[m].sub <= l
  BY DEF Below
<1>1. ents[m] \in Ent
  OBVIOUS
<1>2. PICK c, d \in Nat : c = ents[m].data /\ d = ents[m].sub
  BY <1>1 DEF Ent
<1>3. c <= k /\ d <= k
  BY <1>2 DEF Below
<1> QED BY <1>2, <1>3

\* A reference moved behind k blocks.
LEMMA UpIs ==
  ASSUME NEW k \in Nat, NEW n \in Nat, NEW ref \in 0 .. n
  PROVE  Up(ref, k) \in 0 .. k + n
BY DEF Up

\* One more at the end.
OneMore(fs, es) == Len(fs) = Len(es) + 1 /\ \A m \in 1 .. Len(es) : fs[m] = es[m]

\* One more subnode: the plan goes on with its stream and its tree.
LEMMA AddIs ==
  ASSUME NEW old, Source(old), NEW acc \in Acc, NEW nid \in Nat, NEW sub \in Sub(old),
         NEW below \in [Trees(old) -> Plan]
  PROVE  LET a == Add(old, acc, nid, sub, below)
             n == Len(acc.ents)
         IN  /\ a \in Acc
             /\ a.p.failed <=> \/ acc.p.failed \/ ~ Sound(old, sub.data)
                               \/ below[sub.sub].failed
             /\ ~ acc.p.failed => Longer(a.p.blocks, acc.p.blocks) /\ OneMore(a.ents, acc.ents)
             /\ ~ a.p.failed => /\ a.ents[n + 1].nid = nid
                                /\ Entered(old, a.p.blocks, a.ents[n + 1], sub, below[sub.sub])
<1>1. PICK p \in Plan, es \in Seq(Ent) : p = acc.p /\ es = acc.ents /\ Below(es, Len(p.blocks))
  BY DEF Acc
<1>2. PICK s \in Plan : s = Stream(old, sub.data) /\ (s.failed <=> ~ Sound(old, sub.data))
  BY StreamIs DEF Sub
<1>3. PICK u \in Plan : u = below[sub.sub]
  BY DEF Sub
<1>4. PICK a : a = Add(old, acc, nid, sub, below)
  OBVIOUS
<1>5. PICK p1 \in Plan : p1 = Then(p, s) /\ (p1.failed <=> p.failed \/ s.failed)
  BY ThenIs
<1>6. PICK q \in Plan : q = Then(p1, u) /\ (q.failed <=> p1.failed \/ u.failed)
                        /\ (p1.failed => q = p1)
  BY ThenIs
<1>7. PICK k, k1, kq \in Nat : k = Len(p.blocks) /\ k1 = Len(p1.blocks) /\ kq = Len(q.blocks)
  BY DEF Plan
<1>8. PICK e : e = [nid |-> nid, data |-> Up(s.root, k), sub |-> IF p1.failed THEN 0 ELSE q.root]
  OBVIOUS
<1>9. p.blocks \in Seq(Piece) /\ p1.blocks \in Seq(Piece) /\ q.blocks \in Seq(Piece)
      /\ s.blocks \in Seq(Piece) /\ u.blocks \in Seq(Piece)
  BY DEF Plan
<1>10. PICK n \in Nat : n = Len(es)
  OBVIOUS
<1>11. CASE p.failed
  <2>1. a = acc
    BY <1>1, <1>4, <1>11 DEF Add
  <2> QED BY <1>1, <1>4, <1>11, <2>1
<1>12. CASE ~ p.failed
  <2>1. a = [p |-> q, ents |-> Append(es, e)]
    BY <1>1, <1>2, <1>3, <1>4, <1>5, <1>6, <1>7, <1>8, <1>12 DEF Add
  <2>2. Longer(p1.blocks, p.blocks) /\ Within(p1.blocks, k, s.blocks)
    BY <1>5, <1>7, <1>12, ThenWithin
  <2>3. Longer(q.blocks, p1.blocks)
    <3>1. CASE p1.failed
      <4>1. q = p1
        BY <1>6, <3>1
      <4> QED BY <1>9, <4>1 DEF Longer
    <3>2. CASE ~ p1.failed
      BY <1>6, <3>2, ThenWithin
    <3> QED BY <3>1, <3>2
  <2>4. Longer(q.blocks, p.blocks)
    BY <1>9, <2>2, <2>3, LongerTwice
  <2>5. Within(q.blocks, k, s.blocks)
    BY <1>9, <2>2, <2>3, WithinLonger
  <2>6. k <= kq /\ k1 <= kq /\ k + Len(s.blocks) <= kq
    BY <1>7, <2>3, <2>4, <2>5 DEF Longer, Within
  <2>7. PICK d \in Nat : d = Up(s.root, k) /\ d <= kq
    <3>1. PICK l \in Nat : l = Len(s.blocks) /\ s.root \in 0 .. l
      BY <1>9 DEF Plan
    <3>2. Up(s.root, k) \in 0 .. k + l
      BY <3>1, UpIs
    <3>3. k + l <= kq
      BY <2>6, <3>1
    <3> QED BY <3>2, <3>3
  <2>8. PICK c \in Nat : c = (IF p1.failed THEN 0 ELSE q.root) /\ c <= kq
    BY <1>7 DEF Plan
  <2>9. e = [nid |-> nid, data |-> d, sub |-> c] /\ e \in Ent
    BY <1>8, <2>7, <2>8 DEF Ent
  <2>10. PICK ents \in Seq(Ent) : ents = Append(es, e) /\ Len(ents) = n + 1 /\ ents[n + 1] = e
                                  /\ \A m \in 1 .. n : ents[m] = es[m]
    <3>1. PICK g : g = Append(es, e)
      OBVIOUS
    <3>2. e \in Ent
      BY <2>9
    <3>3. g \in Seq(Ent) /\ Len(g) = n + 1 /\ g[n + 1] = e /\ \A m \in 1 .. n : g[m] = es[m]
      BY <1>10, <3>1, <3>2, SeqGrown
    <3> QED BY <3>1, <3>3
  <2>11. Below(ents, kq)
    <3> SUFFICES ASSUME NEW m \in 1 .. n + 1 PROVE ents[m].data <= kq /\ ents[m].sub <= kq
      BY <2>10 DEF Below
    <3>1. Below(es, kq)
      BY <1>1, <1>7, <2>6, BelowMore
    <3>2. CASE m = n + 1
      BY <2>7, <2>8, <2>9, <2>10, <3>2
    <3>3. CASE m # n + 1
      <4>1. m \in 1 .. n
        BY <3>3
      <4> QED BY <1>10, <2>10, <3>1, <4>1 DEF Below
    <3> QED BY <3>2, <3>3
  <2>12. a \in Acc /\ a.p = q /\ a.ents = ents
    BY <1>7, <2>1, <2>10, <2>11 DEF Acc
  <2>13. a.p.failed <=> acc.p.failed \/ ~ Sound(old, sub.data) \/ below[sub.sub].failed
    BY <1>1, <1>2, <1>3, <1>5, <1>6, <2>12
  <2>14. ASSUME ~ q.failed PROVE Entered(old, q.blocks, e, sub, u)
    <3>1. ~ p1.failed
      BY <1>6, <2>14
    <3>2. Within(q.blocks, k1, u.blocks) /\ q.root = Up(u.root, k1)
      BY <1>6, <1>7, <3>1, ThenWithin
    <3>3. e.data = Up(s.root, k) /\ e.sub = q.root
      BY <1>8, <3>1
    <3> QED BY <1>2, <2>5, <3>2, <3>3 DEF Entered
  <2>15. e.nid = nid
    BY <1>8
  <2>16. OneMore(ents, es)
    BY <1>10, <2>10 DEF OneMore
  <2> QED BY <1>1, <1>3, <1>4, <1>10, <2>4, <2>10, <2>12, <2>13, <2>14, <2>15, <2>16
<1> QED BY <1>11, <1>12

\* What Subnodes makes of what it gathered: an index over the entries, if there are any.
Over1(all) == IF all.p.failed \/ all.ents = <<>> THEN all.p ELSE Indexed(all.p, "s", all.ents)

\* Nothing gathered.
NoneYet == [p |-> Nothing, ents |-> <<>>]

\* u gathers the subnodes one by one.
Gathering(u, old, subs, nids, below) ==
  /\ u \in [0 .. Len(nids) -> Acc] /\ u[0] = NoneYet
  /\ \A k \in 1 .. Len(nids) : u[k] = Add(old, u[k - 1], nids[k], subs[nids[k]], below)

\* The subnodes of a tree are as the source has them.
LEMMA SubsAre ==
  ASSUME NEW old, Source(old), NEW t \in DOMAIN old.trees,
         NEW nids, nids = SortedSet(DOMAIN old.trees[t])
  PROVE  /\ nids \in Seq(Nat) /\ Len(nids) = Cardinality(DOMAIN old.trees[t])
         /\ \A j, k \in 1 .. Len(nids) : j # k => nids[j] # nids[k]
         /\ \A k \in 1 .. Len(nids) : /\ nids[k] \in DOMAIN old.trees[t]
                                      /\ old.trees[t][nids[k]] \in Sub(old)
         /\ \A x \in DOMAIN old.trees[t] : \E k \in 1 .. Len(nids) : nids[k] = x
<1>1. PICK D \in SUBSET Nat : D = DOMAIN old.trees[t] /\ IsFiniteSet(D)
  BY DEF Source
<1>2. \A x \in D : old.trees[t][x] \in Sub(old)
  BY <1>1 DEF Source, Sub
<1>3. /\ nids \in Seq(D) /\ Len(nids) = Cardinality(D)
      /\ \A j, k \in 1 .. Cardinality(D) : j # k => nids[j] # nids[k]
      /\ \A x \in D : \E k \in 1 .. Cardinality(D) : nids[k] = x
  BY <1>1, SortedSetIs
<1>4. nids \in Seq(Nat)
  BY <1>3, SeqWider
<1>5. \A k \in 1 .. Len(nids) : nids[k] \in D
  BY <1>3
<1> QED BY <1>1, <1>2, <1>3, <1>4, <1>5

\* Before the first subnode nothing is laid out.
LEMMA NoneTyped == NoneYet \in Acc
<1>1. Nothing \in Plan /\ <<>> \in Seq(Ent)
  BY NothingTyped
<1>2. Below(<<>>, Len(Nothing.blocks))
  BY DEF Below
<1> QED BY <1>1, <1>2 DEF NoneYet, Acc

\* The recursion of Subnodes.
LEMMA SubnodesGather ==
  ASSUME NEW old, Source(old), NEW t \in DOMAIN old.trees, NEW subs, subs = old.trees[t],
         NEW nids, nids = SortedSet(DOMAIN subs), NEW below \in [Trees(old) -> Plan]
  PROVE  \E u : Gathering(u, old, subs, nids, below)
                /\ Subnodes(old, subs, below) = Over1(u[Len(nids)])
<1> DEFINE N == Len(nids)
           step == [k \in 1 .. N |-> [a \in Acc |-> Add(old, a, nids[k], subs[nids[k]], below)]]
           Rec(u) == u = [k \in 0 .. N |-> IF k = 0 THEN [p |-> Nothing, ents |-> <<>>]
                                           ELSE Add(old, u[k - 1], nids[k], subs[nids[k]], below)]
           upTo == CHOOSE u : Rec(u)
<1>1. N \in Nat /\ \A k \in 1 .. N : nids[k] \in Nat /\ subs[nids[k]] \in Sub(old)
  BY SubsAre
<1>2. \A k \in 1 .. N : \A a \in Acc : Add(old, a, nids[k], subs[nids[k]], below) \in Acc
  <2>1. ASSUME NEW k \in 1 .. N, NEW a \in Acc
        PROVE  Add(old, a, nids[k], subs[nids[k]], below) \in Acc
    <3>1. PICK x \in Nat, s \in Sub(old) : x = nids[k] /\ s = subs[nids[k]]
      BY <1>1
    <3>2. Add(old, a, x, s, below) \in Acc
      BY AddIs
    <3> QED BY <3>1, <3>2
  <2> QED BY <2>1
<1>3. step \in [1 .. N -> [Acc -> Acc]]
  BY <1>2
<1>4. PICK u : Recurs(u, N, Acc, NoneYet, step)
  <2> HIDE DEF step, N
  <2> QED BY <1>1, <1>3, NoneTyped, Recursion
<1>5. \A k \in 1 .. N : u[k] = Add(old, u[k - 1], nids[k], subs[nids[k]], below)
  <2>1. ASSUME NEW k \in 1 .. N
        PROVE  u[k] = Add(old, u[k - 1], nids[k], subs[nids[k]], below)
    <3>1. k - 1 \in 0 .. N
      BY <1>1
    <3>2. u[k - 1] \in Acc
      BY <1>4, <3>1 DEF Recurs
    <3>3. u[k] = step[k][u[k - 1]]
      BY <1>4 DEF Recurs
    <3> QED BY <3>2, <3>3
  <2> QED BY <2>1
<1>6. Rec(u)
  <2> HIDE DEF step, N
  <2>2. \A k \in 0 .. N : k = 0 \/ k \in 1 .. N
    BY <1>1
  <2>3. \A k \in 1 .. N : k # 0
    BY <1>1
  <2> QED BY <1>4, <1>5, <2>2, <2>3 DEF Recurs, NoneYet
<1>7. Rec(upTo)
  BY <1>6
<1>8. Subnodes(old, subs, below) = Over1(upTo[N])
  BY DEF Subnodes, Over1
<1> HIDE DEF upTo, step
<1>9. /\ DOMAIN upTo = 0 .. N /\ upTo[0] = NoneYet
      /\ \A k \in 1 .. N : upTo[k] = Add(old, upTo[k - 1], nids[k], subs[nids[k]], below)
  <2> HIDE DEF N
  <2>1. 0 \in 0 .. N /\ \A k \in 1 .. N : k \in 0 .. N /\ k # 0
    BY <1>1
  <2> QED BY <1>7, <2>1 DEF NoneYet
<1> DEFINE P == {k \in Nat : k <= N => upTo[k] \in Acc}
<1>10. 0 \in P
  BY <1>9, NoneTyped
<1>11. ASSUME NEW k \in Nat, k \in P PROVE k + 1 \in P
  <2> SUFFICES ASSUME k + 1 <= N PROVE upTo[k + 1] \in Acc
    OBVIOUS
  <2>1. upTo[k] \in Acc /\ k + 1 \in 1 .. N /\ (k + 1) - 1 = k
    BY <1>11, <1>1
  <2>2. upTo[k + 1] = Add(old, upTo[k], nids[k + 1], subs[nids[k + 1]], below)
    BY <1>9, <2>1
  <2> HIDE DEF P
  <2> QED BY <1>2, <2>1, <2>2
<1>12. \A k \in 0 .. N : upTo[k] \in Acc
  <2>1. Nat \subseteq P
    <3> HIDE DEF P
    <3> QED BY <1>10, <1>11, Induct
  <2> QED BY <1>1, <2>1
<1>13. Gathering(upTo, old, subs, nids, below)
  <2>1. upTo \in [0 .. N -> Acc]
    <3>1. upTo = [k \in 0 .. N |-> upTo[k]]
      <4> HIDE DEF N
      <4> QED BY <1>7
    <3> HIDE DEF N
    <3> QED BY <1>12, <3>1
  <2> QED BY <1>9, <2>1 DEF Gathering
<1> QED BY <1>8, <1>13

\* A subnode of which all can be read and laid out.
Good(old, s, below) == Sound(old, s.data) /\ ~ below[s.sub].failed

\* What is gathered of the first k subnodes: all of them, or a failure for cause.
Gathered(a, old, subs, nids, below, k) ==
  /\ a.p.failed <=> \E m \in 1 .. k : ~ Good(old, subs[nids[m]], below)
  /\ ~ a.p.failed =>
       /\ Len(a.ents) = k
       /\ \A m \in 1 .. k :
            /\ a.ents[m].nid = nids[m]
            /\ Entered(old, a.p.blocks, a.ents[m], subs[nids[m]], below[subs[nids[m]].sub])

\* One more.
LEMMA GatheredStep ==
  ASSUME NEW old, Source(old), NEW t \in DOMAIN old.trees, NEW subs, subs = old.trees[t],
         NEW nids, nids = SortedSet(DOMAIN subs), NEW below \in [Trees(old) -> Plan],
         NEW k \in Nat, k + 1 <= Len(nids), NEW acc \in Acc,
         Gathered(acc, old, subs, nids, below, k),
         NEW a, a = Add(old, acc, nids[k + 1], subs[nids[k + 1]], below)
  PROVE  Gathered(a, old, subs, nids, below, k + 1)
<1>1. /\ Len(nids) \in Nat
      /\ \A m \in 1 .. Len(nids) : nids[m] \in Nat /\ subs[nids[m]] \in Sub(old)
  <2>1. nids = SortedSet(DOMAIN old.trees[t])
    OBVIOUS
  <2>2. /\ nids \in Seq(Nat)
        /\ \A m \in 1 .. Len(nids) : old.trees[t][nids[m]] \in Sub(old)
    BY <2>1, SubsAre
  <2>3. Len(nids) \in Nat /\ \A m \in 1 .. Len(nids) : nids[m] \in Nat
    BY <2>2
  <2> QED BY <2>2, <2>3
<1>2. PICK x \in Nat, s \in Sub(old) : x = nids[k + 1] /\ s = subs[nids[k + 1]]
  <2>1. k + 1 \in 1 .. Len(nids)
    BY <1>1
  <2> QED BY <1>1, <2>1
<1>3. PICK n \in Nat : n = Len(acc.ents)
  BY DEF Acc
<1>4. /\ a \in Acc
      /\ a.p.failed <=> acc.p.failed \/ ~ Sound(old, s.data) \/ below[s.sub].failed
      /\ ~ acc.p.failed => /\ Longer(a.p.blocks, acc.p.blocks)
                           /\ Len(a.ents) = n + 1 /\ \A m \in 1 .. n : a.ents[m] = acc.ents[m]
      /\ ~ a.p.failed => /\ a.ents[n + 1].nid = x
                         /\ Entered(old, a.p.blocks, a.ents[n + 1], s, below[s.sub])
  <2>1. a = Add(old, acc, x, s, below)
    BY <1>2
  <2>2. /\ Add(old, acc, x, s, below) \in Acc
        /\ Add(old, acc, x, s, below).p.failed <=>
             \/ acc.p.failed \/ ~ Sound(old, s.data) \/ below[s.sub].failed
    BY AddIs, Zenon
  <2>3. ASSUME ~ acc.p.failed
        PROVE  /\ Longer(Add(old, acc, x, s, below).p.blocks, acc.p.blocks)
               /\ OneMore(Add(old, acc, x, s, below).ents, acc.ents)
    BY <2>3, AddIs, Zenon
  <2>4. ~ Add(old, acc, x, s, below).p.failed =>
          /\ Add(old, acc, x, s, below).ents[Len(acc.ents) + 1].nid = x
          /\ Entered(old, Add(old, acc, x, s, below).p.blocks,
                     Add(old, acc, x, s, below).ents[Len(acc.ents) + 1], s, below[s.sub])
    BY AddIs, Zenon
  <2>5. /\ a \in Acc
        /\ a.p.failed <=> acc.p.failed \/ ~ Sound(old, s.data) \/ below[s.sub].failed
    BY <2>1, <2>2
  <2>6. ASSUME ~ acc.p.failed
        PROVE  /\ Longer(a.p.blocks, acc.p.blocks)
               /\ Len(a.ents) = n + 1 /\ \A m \in 1 .. n : a.ents[m] = acc.ents[m]
    <3>1. Longer(a.p.blocks, acc.p.blocks) /\ OneMore(a.ents, acc.ents)
      BY <2>1, <2>3, <2>6
    <3> QED BY <1>3, <3>1 DEF OneMore
  <2>7. ~ a.p.failed => /\ a.ents[n + 1].nid = x
                        /\ Entered(old, a.p.blocks, a.ents[n + 1], s, below[s.sub])
    BY <1>3, <2>1, <2>4
  <2> QED BY <2>5, <2>6, <2>7
<1>5. \A m \in 1 .. k + 1 : m = k + 1 \/ m \in 1 .. k
  OBVIOUS
<1>6. a.p.failed <=> \E m \in 1 .. k + 1 : ~ Good(old, subs[nids[m]], below)
  <2>1. a.p.failed <=> acc.p.failed \/ ~ Good(old, s, below)
    BY <1>4 DEF Good
  <2>2. acc.p.failed <=> \E m \in 1 .. k : ~ Good(old, subs[nids[m]], below)
    BY DEF Gathered
  <2>3. k + 1 \in 1 .. k + 1 /\ \A m \in 1 .. k : m \in 1 .. k + 1
    OBVIOUS
  <2> QED BY <1>2, <1>5, <2>1, <2>2, <2>3, Zenon
<1>7. ASSUME ~ a.p.failed
      PROVE  /\ Len(a.ents) = k + 1
             /\ \A m \in 1 .. k + 1 :
                  /\ a.ents[m].nid = nids[m]
                  /\ Entered(old, a.p.blocks, a.ents[m], subs[nids[m]], below[subs[nids[m]].sub])
  <2>1. ~ acc.p.failed
    BY <1>4, <1>7
  <2>2. n = k /\ \A m \in 1 .. k :
            /\ acc.ents[m].nid = nids[m]
            /\ Entered(old, acc.p.blocks, acc.ents[m], subs[nids[m]], below[subs[nids[m]].sub])
    BY <1>3, <2>1 DEF Gathered
  <2>3. ASSUME NEW m \in 1 .. k
        PROVE  /\ a.ents[m].nid = nids[m]
               /\ Entered(old, a.p.blocks, a.ents[m], subs[nids[m]], below[subs[nids[m]].sub])
    <3>1. PICK v \in Sub(old) : v = subs[nids[m]]
      <4>1. m \in 1 .. Len(nids)
        BY <1>1
      <4> QED BY <1>1, <4>1
    <3>2. PICK under \in Plan : under = below[v.sub]
      BY DEF Sub
    <3>3. a.ents[m] = acc.ents[m]
      BY <1>4, <2>1, <2>2
    <3>4. acc.p.blocks \in Seq(Piece) /\ a.p.blocks \in Seq(Piece)
      BY <1>4 DEF Acc, Plan
    <3>5. PICK e : e = acc.ents[m]
      OBVIOUS
    <3>6. Entered(old, acc.p.blocks, e, v, under)
      BY <2>2, <3>1, <3>2, <3>5
    <3>7. Entered(old, a.p.blocks, e, v, under)
      <4>1. PICK ps, qs \in Seq(Piece) : ps = acc.p.blocks /\ qs = a.p.blocks
        BY <3>4
      <4>2. Longer(qs, ps)
        BY <1>4, <2>1, <4>1
      <4>3. Entered(old, ps, e, v, under)
        BY <3>6, <4>1
      <4>4. Entered(old, qs, e, v, under)
        BY <4>2, <4>3, EnteredLonger
      <4> QED BY <4>1, <4>4
    <3> QED BY <2>2, <3>1, <3>2, <3>3, <3>5, <3>7
  <2>4. /\ a.ents[k + 1].nid = nids[k + 1]
        /\ Entered(old, a.p.blocks, a.ents[k + 1], subs[nids[k + 1]],
                   below[subs[nids[k + 1]].sub])
    BY <1>2, <1>4, <1>7, <2>2
  <2>5. Len(a.ents) = k + 1
    BY <1>4, <2>1, <2>2
  <2> QED BY <1>5, <2>3, <2>4, <2>5
<1> QED BY <1>6, <1>7 DEF Gathered

\* All of them.
LEMMA GatheredAll ==
  ASSUME NEW old, Source(old), NEW t \in DOMAIN old.trees, NEW subs, subs = old.trees[t],
         NEW nids, nids = SortedSet(DOMAIN subs), NEW below \in [Trees(old) -> Plan],
         NEW u, Gathering(u, old, subs, nids, below)
  PROVE  u[Len(nids)] \in Acc /\ Gathered(u[Len(nids)], old, subs, nids, below, Len(nids))
<1>1. PICK N \in Nat : N = Len(nids)
  BY SubsAre
<1> DEFINE P == {k \in Nat : k <= N => Gathered(u[k], old, subs, nids, below, k)}
<1>2. 0 \in P
  <2>1. u[0].p.failed = FALSE /\ u[0].ents = <<>>
    BY NothingTyped DEF Gathering, NoneYet, Nothing
  <2>2. ~ u[0].p.failed /\ Len(u[0].ents) = 0 /\ ~ (\E m \in 1 .. 0 : TRUE)
    BY <2>1
  <2> QED BY <2>2 DEF Gathered
<1>3. ASSUME NEW k \in Nat, k \in P PROVE k + 1 \in P
  <2> SUFFICES ASSUME k + 1 <= N PROVE Gathered(u[k + 1], old, subs, nids, below, k + 1)
    OBVIOUS
  <2>1. k \in 0 .. N /\ k + 1 \in 1 .. N /\ (k + 1) - 1 = k
    OBVIOUS
  <2>2. PICK acc \in Acc : acc = u[k] /\ Gathered(acc, old, subs, nids, below, k)
    BY <1>1, <1>3, <2>1 DEF Gathering
  <2>3. u[k + 1] = Add(old, acc, nids[k + 1], subs[nids[k + 1]], below)
    BY <1>1, <2>1, <2>2 DEF Gathering
  <2> HIDE DEF P
  <2> QED BY <1>1, <2>2, <2>3, GatheredStep
<1>4. N \in P
  <2> HIDE DEF P
  <2> QED BY <1>2, <1>3, Induct
<1>5. u[N] \in Acc
  BY <1>1 DEF Gathering
<1> QED BY <1>1, <1>4, <1>5

\* Entries that one plan has room for under an SLBLOCK or an SIBLOCK.
Roomy(subs) == Cardinality(DOMAIN subs) <= FAN["s"] * TOP_FAN["s"]

\* What Subnodes makes of the subnodes gathered.
LEMMA Over1Is ==
  ASSUME NEW all \in Acc, NEW n \in Nat, ~ all.p.failed => n = Len(all.ents)
  PROVE  /\ Over1(all) \in Plan
         /\ Over1(all).failed <=> all.p.failed \/ n > FAN["s"] * TOP_FAN["s"]
         /\ ~ all.p.failed /\ n = 0 => Over1(all) = all.p
         /\ ~ all.p.failed /\ n # 0 =>
              \E gs \in Seq(Seq(Ent)) : /\ \E from : CutUp(gs, all.ents, FAN["s"], from)
                                        /\ Over(Over1(all), all.p, "s", gs)
<1>1. PICK p \in Plan, ents \in Seq(Ent) :
        p = all.p /\ ents = all.ents /\ Below(ents, Len(p.blocks))
  BY DEF Acc
<1>2. PICK m \in Nat : m = FAN["s"] * TOP_FAN["s"]
  BY ConvertAssumption
<1>3. CASE p.failed
  BY <1>1, <1>3 DEF Over1
<1>4. CASE ~ p.failed /\ n = 0
  <2>1. ents = <<>>
    BY <1>1, <1>4
  <2>2. Over1(all) = p
    BY <1>1, <2>1 DEF Over1
  <2> QED BY <1>1, <1>2, <1>4, <2>2
<1>5. CASE ~ p.failed /\ n # 0
  <2>1. ents # <<>> /\ n = Len(ents)
    BY <1>1, <1>5
  <2>2. PICK r : r = Indexed(p, "s", ents)
    OBVIOUS
  <2>3. Over1(all) = r
    BY <1>1, <1>5, <2>1, <2>2 DEF Over1
  <2>4. PICK gs \in Seq(Seq(Ent)) :
           /\ \E from : CutUp(gs, ents, FAN["s"], from)
           /\ Over(r, p, "s", gs)
           /\ Len(gs) > TOP_FAN["s"] <=> Len(ents) > FAN["s"] * TOP_FAN["s"]
    BY <1>1, <1>5, <2>1, <2>2, IndexedIs
  <2>5. r \in Plan /\ (r.failed <=> n > FAN["s"] * TOP_FAN["s"])
    BY <2>1, <2>4 DEF Over
  <2> QED BY <1>1, <1>5, <2>3, <2>4, <2>5
<1> QED BY <1>3, <1>4, <1>5

\* The plan of a subnode tree fails where something under it cannot be laid out, or
\* where its entries need a third level.
LEMMA SubnodesIs ==
  ASSUME NEW old, Source(old), NEW t \in DOMAIN old.trees, NEW subs, subs = old.trees[t],
         NEW below \in [Trees(old) -> Plan]
  PROVE  /\ Subnodes(old, subs, below) \in Plan
         /\ Subnodes(old, subs, below).failed <=>
              \/ \E x \in DOMAIN subs : ~ Good(old, subs[x], below)
              \/ ~ Roomy(subs)
<1>1. PICK nids : nids = SortedSet(DOMAIN subs)
  OBVIOUS
<1>2. PICK n \in Nat : n = Len(nids) /\ n = Cardinality(DOMAIN subs)
  BY <1>1, SubsAre
<1>3. PICK u : Gathering(u, old, subs, nids, below) /\ Subnodes(old, subs, below) = Over1(u[n])
  BY <1>1, <1>2, SubnodesGather
<1>4. PICK all \in Acc : all = u[n] /\ Gathered(all, old, subs, nids, below, n)
  BY <1>1, <1>2, <1>3, GatheredAll
<1>5. ~ all.p.failed => n = Len(all.ents)
  BY <1>4 DEF Gathered
<1>6. all.p.failed <=> \E x \in DOMAIN subs : ~ Good(old, subs[x], below)
  <2>1. /\ \A k \in 1 .. n : nids[k] \in DOMAIN subs
        /\ \A x \in DOMAIN subs : \E k \in 1 .. n : nids[k] = x
    BY <1>1, <1>2, SubsAre
  <2>2. all.p.failed <=> \E m \in 1 .. n : ~ Good(old, subs[nids[m]], below)
    BY <1>4 DEF Gathered
  <2> QED BY <2>1, <2>2
<1>7. PICK m \in Nat : m = FAN["s"] * TOP_FAN["s"]
  BY ConvertAssumption
<1>8. Roomy(subs) <=> n <= m
  BY <1>2, <1>7 DEF Roomy
<1>9. Over1(all) \in Plan /\ (Over1(all).failed <=> all.p.failed \/ n > m)
  BY <1>5, <1>7, Over1Is
<1> QED BY <1>3, <1>4, <1>6, <1>8, <1>9

\* Every element of a list is in one of the groups it is cut into.
LEMMA CutCovers ==
  ASSUME NEW s, Len(s) \in Nat, NEW parts, Len(parts) \in Nat, NEW fan, NEW from,
         CutUp(parts, s, fan, from), NEW a \in 1 .. Len(s)
  PROVE  \E g \in 1 .. Len(parts) : \E l \in 1 .. Len(parts[g]) : parts[g][l] = s[a]
<1>1. PICK n, G \in Nat : n = Len(s) /\ G = Len(parts) /\ G >= 1
  BY DEF CutUp
<1>2. from \in [1 .. G + 1 -> 1 .. n + 1] /\ from[1] = 1 /\ from[G + 1] = n + 1
  BY <1>1 DEF CutUp
<1> DEFINE T == {g \in 1 .. G : from[g] <= a}
<1>3. 1 \in T
  BY <1>1, <1>2
<1>4. T \subseteq Nat /\ \A g \in T : g <= G
  BY <1>1
<1>5. PICK g \in T : \A h \in T : h <= g
  <2> HIDE DEF T
  <2> QED BY <1>3, <1>4, Greatest
<1>6. PICK x, y \in 1 .. n + 1 : x = from[g] /\ y = from[g + 1] /\ x <= a
  BY <1>1, <1>2
<1>7. a < y
  <2>1. CASE g = G
    BY <1>1, <1>2, <1>6, <2>1
  <2>2. CASE g # G
    <3>1. g + 1 \in 1 .. G /\ ~ (g + 1 <= g)
      BY <2>2
    <3>2. g + 1 \notin T
      BY <1>5, <3>1
    <3>3. ~ (from[g + 1] <= a)
      BY <3>1, <3>2
    <3> QED BY <1>6, <3>3
  <2> QED BY <2>1, <2>2
<1>8. /\ Len(parts[g]) = y - x
      /\ \A j \in 1 .. Len(parts[g]) : parts[g][j] = s[x + j - 1]
  BY <1>1, <1>6 DEF CutUp
<1>9. PICK l \in Nat : l = a - x + 1 /\ l >= 1 /\ l <= y - x /\ x + l - 1 = a
  <2>1. PICK z, m \in Nat : z = a /\ m = a - x + 1
    BY <1>6
  <2>2. m >= 1 /\ m <= y - x /\ x + m - 1 = a
    <3>1. m = z - x + 1 /\ x <= z /\ z < y /\ x \in Nat /\ y \in Nat
      BY <1>6, <1>7, <2>1
    <3>2. m >= 1 /\ m <= y - x /\ x + m - 1 = z
      BY <2>1, <3>1
    <3> QED BY <2>1, <3>2
  <2> QED BY <2>1, <2>2
<1>10. l \in 1 .. Len(parts[g])
  BY <1>6, <1>8, <1>9
<1>11. parts[g][l] = s[a]
  BY <1>8, <1>9, <1>10
<1> QED BY <1>1, <1>10, <1>11

\* Entries as they stand in a file.
AllWritten(b, blocks, ents) == {Written1(b, blocks, ents[m]) : m \in 1 .. Len(ents)}

\* What a block of entries gives a reader.
LEMMA EntriesRead ==
  ASSUME NEW new, NEW b \in Nat \ {0}, NEW blocks \in Seq(Piece), Holds(new, b, blocks),
         NEW ref \in 1 .. Len(blocks)
  PROVE  Entries(new, IdOf(b, blocks, ref)) = AllWritten(b, blocks, blocks[ref].ents)
<1>1. Seen(new, b, blocks, ref)
  BY BlockReads
<1>2. PICK id : id = IdOf(b, blocks, ref)
  OBVIOUS
<1>3. PICK n \in Nat : n = Len(blocks[ref].ents)
  BY DEF Piece
<1>4. PICK w : w = [m \in 1 .. n |-> Written1(b, blocks, blocks[ref].ents[m])]
  OBVIOUS
<1>5. id \in DOMAIN new /\ new[id].ents = w
  BY <1>1, <1>2, <1>3, <1>4 DEF Seen
<1>6. ToSet(w) = {Written1(b, blocks, blocks[ref].ents[m]) : m \in 1 .. n}
  BY <1>4 DEF ToSet
<1>7. Entries(new, id) = ToSet(new[id].ents)
  BY <1>5 DEF Entries
<1> QED BY <1>2, <1>3, <1>5, <1>6, <1>7 DEF AllWritten

\* What a reader of the new file finds under the root of a subnode tree's blocks.
LEMMA TreeOverReads ==
  ASSUME NEW p \in Plan, NEW ents \in Seq(Ent), NEW gs \in Seq(Seq(Ent)), NEW fan, NEW from,
         CutUp(gs, ents, fan, from), NEW r, Over(r, p, "s", gs), ~ r.failed,
         NEW new, NEW b \in Nat \ {0}, Holds(new, b, r.blocks)
  PROVE  ReadTree(new, IdOf(b, r.blocks, r.root)) = AllWritten(b, r.blocks, ents)
<1>1. PICK G, k, n \in Nat : G = Len(gs) /\ k = Len(p.blocks) /\ n = Len(ents) /\ G >= 1
  BY DEF CutUp, Plan
<1>2. PICK blocks \in Seq(Piece) : blocks = r.blocks /\ Holds(new, b, blocks)
  BY DEF Over, Plan
<1>3. Len(blocks) \in Nat /\ Len(blocks) >= k + G
  BY <1>1, <1>2 DEF Over
<1>4. ASSUME NEW g \in 1 .. G
      PROVE  /\ k + g \in 1 .. Len(blocks)
             /\ blocks[k + g].kind = "s" /\ blocks[k + g].level = 0 /\ blocks[k + g].ents = gs[g]
  <2>1. k + g \in 1 .. Len(blocks)
    BY <1>3
  <2>2. blocks[k + g] = IndexBlock("s", Low("s"), gs[g])
    BY <1>1, <1>2 DEF Over
  <2> QED BY <2>1, <2>2 DEF IndexBlock, Low
<1> DEFINE w(e) == Written1(b, blocks, e)
           all == {w(ents[m]) : m \in 1 .. n}
<1>5. ASSUME NEW g \in 1 .. G
      PROVE  Entries(new, IdOf(b, blocks, k + g)) = {w(gs[g][l]) : l \in 1 .. Len(gs[g])}
  <2>1. PICK ref \in 1 .. Len(blocks) : ref = k + g /\ blocks[ref].ents = gs[g]
    BY <1>4
  <2>2. Entries(new, IdOf(b, blocks, ref)) = AllWritten(b, blocks, blocks[ref].ents)
    <3>1. Holds(new, b, blocks)
      BY <1>2
    <3> QED BY <3>1, EntriesRead
  <2> QED BY <2>1, <2>2 DEF AllWritten
<1>6. \A g \in 1 .. G : \A l \in 1 .. Len(gs[g]) : \E m \in 1 .. n : gs[g][l] = ents[m]
  BY <1>1, FromWhole
<1>7. \A m \in 1 .. n : \E g \in 1 .. G : \E l \in 1 .. Len(gs[g]) : gs[g][l] = ents[m]
  <2> SUFFICES ASSUME NEW m \in 1 .. n
               PROVE  \E g \in 1 .. G : \E l \in 1 .. Len(gs[g]) : gs[g][l] = ents[m]
    OBVIOUS
  <2>1. Len(ents) \in Nat /\ Len(gs) \in Nat /\ m \in 1 .. Len(ents)
    BY <1>1
  <2>2. \E g \in 1 .. Len(gs) : \E l \in 1 .. Len(gs[g]) : gs[g][l] = ents[m]
    BY <2>1, CutCovers
  <2> QED BY <1>1, <2>2
<1>8. \A e : e \in all <=> \E g \in 1 .. G : e \in {w(gs[g][l]) : l \in 1 .. Len(gs[g])}
  <2>1. ASSUME NEW e, e \in all PROVE \E g \in 1 .. G : e \in {w(gs[g][l]) : l \in 1 .. Len(gs[g])}
    <3>1. PICK m \in 1 .. n : e = w(ents[m])
      BY <2>1
    <3>2. PICK g \in 1 .. G : \E l \in 1 .. Len(gs[g]) : gs[g][l] = ents[m]
      BY <1>7
    <3> HIDE DEF w
    <3> QED BY <3>1, <3>2
  <2>2. ASSUME NEW e, NEW g \in 1 .. G, e \in {w(gs[g][l]) : l \in 1 .. Len(gs[g])} PROVE e \in all
    <3>1. PICK l \in 1 .. Len(gs[g]) : e = w(gs[g][l])
      BY <2>2
    <3>2. PICK m \in 1 .. n : gs[g][l] = ents[m]
      BY <1>6
    <3> HIDE DEF w
    <3> QED BY <3>1, <3>2
  <2> HIDE DEF all, w
  <2> QED BY <2>1, <2>2
<1>9. PICK root : root = r.root /\ (G = 1 => root = k + 1) /\ (G # 1 => root = k + G + 1)
  BY <1>1 DEF Over
<1>10. CASE G = 1
  <2>1. root = k + 1 /\ 1 \in 1 .. G
    BY <1>9, <1>10
  <2>2. PICK ref \in 1 .. Len(blocks) : ref = k + 1 /\ blocks[ref].level = 0
    BY <1>4, <2>1
  <2>3. Seen(new, b, blocks, ref)
    BY <1>2, BlockReads
  <2>4. PICK id : id = IdOf(b, blocks, ref)
    OBVIOUS
  <2>5. id \in DOMAIN new /\ new[id].level = 0
    BY <2>2, <2>3, <2>4 DEF Seen
  <2>6. ReadTree(new, id) = Entries(new, id)
    BY <2>5 DEF ReadTree
  <2>7. Entries(new, id) = {w(gs[1][l]) : l \in 1 .. Len(gs[1])}
    BY <1>5, <2>1, <2>2, <2>4
  <2>8. {w(gs[1][l]) : l \in 1 .. Len(gs[1])} = all
    <3>1. \A g \in 1 .. G : g = 1
      BY <1>10
    <3> HIDE DEF all, w
    <3> QED BY <1>8, <2>1, <3>1
  <2> QED BY <1>1, <1>2, <1>9, <2>1, <2>2, <2>4, <2>6, <2>7, <2>8 DEF AllWritten
<1>11. CASE G # 1
  <2>1. root = k + G + 1 /\ root \in 1 .. Len(blocks)
        /\ blocks[root].level = 1 /\ Len(blocks[root].ents) = G
        /\ \A g \in 1 .. G : blocks[root].ents[g].data = k + g
    <3>1. /\ r.root = k + G + 1 /\ Len(r.blocks) = k + G + 1
          /\ r.blocks[k + G + 1].level = Low("s") + 1
          /\ Len(r.blocks[k + G + 1].ents) = G
          /\ \A g \in 1 .. G : r.blocks[k + G + 1].ents[g].data = k + g
      BY <1>1, <1>11 DEF Over
    <3>2. Low("s") + 1 = 1
      BY DEF Low
    <3>3. k + G + 1 \in 1 .. k + G + 1
      OBVIOUS
    <3> QED BY <1>2, <1>9, <3>1, <3>2, <3>3
  <2>2. Seen(new, b, blocks, root)
    BY <1>2, <2>1, BlockReads
  <2>3. PICK id : id = IdOf(b, blocks, root)
    OBVIOUS
  <2>4. id \in DOMAIN new /\ new[id].level = 1
    BY <2>1, <2>2, <2>3 DEF Seen
  <2>5. ReadTree(new, id) = UNION {Entries(new, e.data) : e \in Entries(new, id)}
    BY <2>4 DEF ReadTree
  <2>6. Entries(new, id) = {w(blocks[root].ents[m]) : m \in 1 .. G}
    <3>1. Entries(new, IdOf(b, blocks, root)) = AllWritten(b, blocks, blocks[root].ents)
      <4>1. Holds(new, b, blocks) /\ root \in 1 .. Len(blocks)
        BY <1>2, <2>1
      <4> QED BY <4>1, EntriesRead
    <3> QED BY <2>1, <2>3, <3>1 DEF AllWritten
  <2>7. \A g \in 1 .. G : w(blocks[root].ents[g]).data = IdOf(b, blocks, k + g)
    BY <2>1 DEF Written1
  <2>8. \A x : x \in ReadTree(new, id) <=>
                 \E g \in 1 .. G : x \in Entries(new, IdOf(b, blocks, k + g))
    <3> HIDE DEF w
    <3> QED BY <2>5, <2>6, <2>7
  <2>9. \A x : x \in ReadTree(new, id) <=> x \in all
    <3>1. \A g \in 1 .. G : Entries(new, IdOf(b, blocks, k + g)) = {w(gs[g][l]) : l \in 1 .. Len(gs[g])}
      BY <1>5
    <3> HIDE DEF all, w
    <3>2. ASSUME NEW x PROVE x \in ReadTree(new, id) <=> x \in all
      <4>1. x \in ReadTree(new, id) <=> \E g \in 1 .. G : x \in Entries(new, IdOf(b, blocks, k + g))
        BY <2>8
      <4>2. x \in all <=> \E g \in 1 .. G : x \in {w(gs[g][l]) : l \in 1 .. Len(gs[g])}
        BY <1>8
      <4> QED BY <3>1, <4>1, <4>2, Zenon
    <3> QED BY <3>2
  <2>10. ReadTree(new, id) = all
    <3> HIDE DEF all
    <3> QED BY <2>9
  <2> QED BY <1>1, <1>2, <1>9, <2>3, <2>10 DEF AllWritten
<1> QED BY <1>10, <1>11

\* The plan u is in the file, and e is the id of its root.
Leads(new, e, u) ==
  \E c \in Nat \ {0} : Holds(new, c, u.blocks) /\ e = IdOf(c, u.blocks, u.root)

\* The id a plan's root is read by is a number.
LEMMA IdTyped ==
  ASSUME NEW b \in Nat \ {0}, NEW p \in Plan
  PROVE  IdOf(b, p.blocks, p.root) \in Nat
<1>1. p.blocks \in Seq(Piece) /\ p.root \in 0 .. Len(p.blocks)
  BY DEF Plan
<1>2. CASE p.root = 0
  BY <1>2 DEF IdOf
<1>3. CASE p.root # 0
  <2>1. PICK r \in 1 .. Len(p.blocks) : r = p.root
    BY <1>1, <1>3
  <2>2. p.blocks[r] \in Piece /\ b + r - 1 \in Nat
    BY <1>1
  <2>3. Id(b + r - 1, p.blocks[r]) \in Nat
    BY <2>2, IdIs
  <2> QED BY <1>3, <2>1, <2>3 DEF IdOf
<1> QED BY <1>2, <1>3

\* A plan that stands in one which is all in the file is all there.
LEMMA WithinLeads ==
  ASSUME NEW b \in Nat \ {0}, NEW q \in Seq(Piece), NEW u \in Plan, NEW k, Within(q, k, u.blocks),
         NEW new, Holds(new, b, q)
  PROVE  Leads(new, IdOf(b, q, Up(u.root, k)), u)
<1>1. k \in Nat /\ u.blocks \in Seq(Piece) /\ Backward(u.blocks) /\ u.root \in 0 .. Len(u.blocks)
  BY DEF Within, Plan
<1>2. Len(q) >= k + Len(u.blocks) /\ \A j \in 1 .. Len(u.blocks) : q[k + j] = Shifted(u.blocks[j], k)
  BY <1>1 DEF Within
<1>3. b \in Nat /\ b + k \in Nat \ {0}
  BY <1>1
<1>4. Holds(new, b + k, u.blocks) /\ IdOf(b, q, Up(u.root, k)) = IdOf(b + k, u.blocks, u.root)
  <2>1. /\ Holds(new, b + k, u.blocks)
        /\ \A ref \in 0 .. Len(u.blocks) : IdOf(b, q, Up(ref, k)) = IdOf(b + k, u.blocks, ref)
    BY <1>1, <1>2, <1>3, BackHolds
  <2> QED BY <1>1, <2>1
<1> QED BY <1>3, <1>4 DEF Leads

\* Of each subnode there is one entry, which leads to its stream and to the plan of its tree.
SubLeads(old, new, subs, below, e) ==
  /\ e.nid \in DOMAIN subs
  /\ SameStream(old, new, e.data, subs[e.nid].data)
  /\ Leads(new, e.sub, below[subs[e.nid].sub])

\* For each subnode there is one entry.
EachOnce(is, subs) ==
  {e.nid : e \in is} = DOMAIN subs /\ Cardinality(is) = Cardinality(DOMAIN subs)

\* Subnodes that were laid out read back: one entry for each, leading to its blocks.
LEMMA SubnodesRead ==
  ASSUME NEW old, Source(old), NEW t \in DOMAIN old.trees, NEW subs, subs = old.trees[t],
         NEW below \in [Trees(old) -> Plan],
         NEW r, r = Subnodes(old, subs, below), ~ r.failed,
         NEW new, 0 \notin DOMAIN new, NEW b \in Nat \ {0}, Holds(new, b, r.blocks),
         NEW is, is = ReadTree(new, IdOf(b, r.blocks, r.root))
  PROVE  EachOnce(is, subs) /\ \A e \in is : SubLeads(old, new, subs, below, e)
<1>1. PICK nids \in Seq(Nat) :
        /\ nids = SortedSet(DOMAIN subs)
        /\ \A j, k \in 1 .. Len(nids) : j # k => nids[j] # nids[k]
        /\ \A k \in 1 .. Len(nids) : nids[k] \in DOMAIN subs /\ subs[nids[k]] \in Sub(old)
        /\ \A x \in DOMAIN subs : \E k \in 1 .. Len(nids) : nids[k] = x
  BY SubsAre
<1>2. PICK n \in Nat : n = Len(nids) /\ n = Cardinality(DOMAIN subs)
  BY <1>1, SubsAre
<1>3. PICK f : Gathering(f, old, subs, nids, below) /\ r = Over1(f[n])
  BY <1>1, <1>2, SubnodesGather
<1>4. PICK all \in Acc : all = f[n] /\ Gathered(all, old, subs, nids, below, n)
  <2>1. nids = SortedSet(DOMAIN subs) /\ Gathering(f, old, subs, nids, below)
    BY <1>1, <1>3
  <2>2. f[Len(nids)] \in Acc /\ Gathered(f[Len(nids)], old, subs, nids, below, Len(nids))
    BY <2>1, GatheredAll
  <2> QED BY <1>2, <2>2
<1>5. ~ all.p.failed => n = Len(all.ents)
  BY <1>4 DEF Gathered
<1>6. r \in Plan /\ ~ all.p.failed
  BY <1>3, <1>4, <1>5, Over1Is
<1>7. PICK p \in Plan, ents \in Seq(Ent) : p = all.p /\ ents = all.ents /\ n = Len(ents)
                                          /\ Below(ents, Len(p.blocks))
  BY <1>5, <1>6 DEF Acc
<1>8. \A m \in 1 .. n :
        /\ ents[m].nid = nids[m]
        /\ Entered(old, p.blocks, ents[m], subs[nids[m]], below[subs[nids[m]].sub])
  BY <1>4, <1>6, <1>7 DEF Gathered
<1> DEFINE w == [m \in 1 .. n |-> Written1(b, r.blocks, ents[m])]
<1>9. is = {w[m] : m \in 1 .. n} /\ Longer(r.blocks, p.blocks)
  <2>1. CASE n = 0
    <3>1. r = p
      BY <1>3, <1>4, <1>6, <1>7, <2>1, Over1Is
    <3>3. r = Nothing
      <4>1. f[0] = NoneYet
        BY <1>3 DEF Gathering
      <4> QED BY <1>4, <1>7, <2>1, <3>1, <4>1 DEF NoneYet
    <3>4. IdOf(b, r.blocks, r.root) = 0
      BY <3>3, NothingTyped DEF IdOf
    <3>5. ReadTree(new, 0) = {}
      BY DEF ReadTree, Entries
    <3>6. Longer(r.blocks, p.blocks)
      BY <1>6, <3>1 DEF Longer, Plan
    <3>7. {w[m] : m \in 1 .. n} = {}
      BY <2>1
    <3> QED BY <3>4, <3>5, <3>6, <3>7
  <2>2. CASE n # 0
    <3>1. PICK gs \in Seq(Seq(Ent)) : /\ \E from : CutUp(gs, ents, FAN["s"], from)
                                      /\ Over(r, p, "s", gs)
      BY <1>3, <1>4, <1>5, <1>6, <1>7, <2>2, Over1Is
    <3>2. PICK from : CutUp(gs, ents, FAN["s"], from)
      BY <3>1
    <3>3. is = {Written1(b, r.blocks, ents[m]) : m \in 1 .. n}
      <4>1. Over(r, p, "s", gs)
        BY <3>1
      <4>2. is = AllWritten(b, r.blocks, ents)
        BY <3>2, <4>1, TreeOverReads
      <4> QED BY <1>7, <4>2 DEF AllWritten
    <3>4. Longer(r.blocks, p.blocks)
      <4>1. PICK k, G, l \in Nat : k = Len(p.blocks) /\ G = Len(gs) /\ l = Len(r.blocks)
        BY <1>6 DEF Plan
      <4>2. l >= k + G /\ \A j \in 1 .. k : r.blocks[j] = p.blocks[j]
        BY <3>1, <4>1 DEF Over
      <4>3. k <= l
        BY <4>2
      <4> QED BY <4>1, <4>2, <4>3 DEF Longer
    <3>5. is = {w[m] : m \in 1 .. n}
      BY <3>3
    <3> QED BY <3>4, <3>5
  <2> QED BY <2>1, <2>2
<1>10. \A m \in 1 .. n : w[m].nid = nids[m]
  BY <1>8 DEF Written1
<1>11. \A j, k \in 1 .. n : j # k => w[j] # w[k]
  <2> HIDE DEF w
  <2>1. ASSUME NEW j \in 1 .. n, NEW k \in 1 .. n, j # k PROVE w[j] # w[k]
    <3>1. nids[j] # nids[k]
      BY <1>1, <1>2, <2>1
    <3> QED BY <1>10, <3>1
  <2> QED BY <2>1
<1>12. Cardinality(is) = n
  <2>1. \A x \in is : \E k \in 1 .. n : x = w[k]
    BY <1>9
  <2>2. \A k \in 1 .. n : w[k] \in is
    BY <1>9
  <2> HIDE DEF w
  <2> QED BY <1>11, <2>1, <2>2, AllDiffer
<1>13. {e.nid : e \in is} = DOMAIN subs
  <2>1. ASSUME NEW e \in is PROVE e.nid \in DOMAIN subs
    <3> HIDE DEF w
    <3>1. PICK m \in 1 .. n : e = w[m]
      BY <1>9
    <3>2. nids[m] \in DOMAIN subs
      BY <1>1, <1>2
    <3> QED BY <1>10, <3>1, <3>2
  <2>2. ASSUME NEW x \in DOMAIN subs PROVE \E e \in is : e.nid = x
    <3> HIDE DEF w
    <3>1. PICK m \in 1 .. n : nids[m] = x
      BY <1>1, <1>2
    <3>2. w[m] \in is /\ w[m].nid = x
      BY <1>9, <1>10, <3>1
    <3> QED BY <3>2
  <2> QED BY <2>1, <2>2
<1>14. ASSUME NEW e \in is PROVE SubLeads(old, new, subs, below, e)
  <2>1. PICK m \in 1 .. n : e = w[m]
    BY <1>9
  <2>2. PICK s \in Sub(old), nid \in DOMAIN subs : nid = nids[m] /\ s = subs[nid]
    BY <1>1, <1>2
  <2>3. PICK u \in Plan : u = below[s.sub]
    BY DEF Sub
  <2>4. PICK x \in Ent : x = ents[m]
    BY <1>7
  <2>5. e.nid = nid /\ e.data = IdOf(b, r.blocks, x.data) /\ e.sub = IdOf(b, r.blocks, x.sub)
    BY <1>8, <2>1, <2>2, <2>4 DEF Written1
  <2>6. Entered(old, p.blocks, x, s, u)
    BY <1>8, <2>2, <2>3, <2>4
  <2>7. p.blocks \in Seq(Piece) /\ r.blocks \in Seq(Piece)
    BY <1>6 DEF Plan
  <2>8. Entered(old, r.blocks, x, s, u)
    BY <1>9, <2>6, <2>7, EnteredLonger
  <2>9. PICK d \in Plan : d = Stream(old, s.data) /\ s.data \in Data(old)
    BY StreamIs DEF Sub
  <2>10. PICK k : Within(r.blocks, k, d.blocks) /\ x.data = Up(d.root, k)
    BY <2>8, <2>9 DEF Entered
  <2>11. PICK l : Within(r.blocks, l, u.blocks) /\ x.sub = Up(u.root, l)
    BY <2>8 DEF Entered
  <2>12. Leads(new, e.data, d)
    <3>1. PICK q \in Seq(Piece) : q = r.blocks
      BY <2>7
    <3>2. Within(q, k, d.blocks) /\ Holds(new, b, q)
      BY <2>10, <3>1
    <3>3. Leads(new, IdOf(b, q, Up(d.root, k)), d)
      BY <3>2, WithinLeads
    <3> QED BY <2>5, <2>10, <3>1, <3>3
  <2>13. Leads(new, e.sub, u)
    <3>1. PICK q \in Seq(Piece) : q = r.blocks
      BY <2>7
    <3>2. Within(q, l, u.blocks) /\ Holds(new, b, q)
      BY <2>11, <3>1
    <3>3. Leads(new, IdOf(b, q, Up(u.root, l)), u)
      BY <3>2, WithinLeads
    <3> QED BY <2>5, <2>11, <3>1, <3>3
  <2>14. ~ d.failed
    <3>1. ~ (\E y \in DOMAIN subs : ~ Good(old, subs[y], below))
      BY SubnodesIs
    <3>2. Sound(old, s.data)
      BY <2>2, <3>1 DEF Good
    <3> QED BY <2>9, <3>2, StreamIs
  <2>15. PICK c \in Nat \ {0} : Holds(new, c, d.blocks) /\ e.data = IdOf(c, d.blocks, d.root)
    BY <2>12 DEF Leads
  <2>16. ReadStream(new, e.data) = Laying(old, s.data)
    <3>1. PICK z \in Data(old) : z = s.data
      BY <2>9
    <3>2. ~ Stream(old, z).failed /\ Holds(new, c, Stream(old, z).blocks)
      BY <2>9, <2>14, <2>15, <3>1
    <3>3. ReadStream(new, IdOf(c, Stream(old, z).blocks, Stream(old, z).root)) = Laying(old, z)
      BY <3>2, StreamReads
    <3> QED BY <2>9, <2>15, <3>1, <3>3
  <2>17. SameStream(old, new, e.data, s.data)
    BY <2>9, <2>16, LayingIsSame
  <2> QED BY <2>2, <2>3, <2>5, <2>13, <2>17 DEF SubLeads
<1>15. EachOnce(is, subs)
  BY <1>2, <1>12, <1>13 DEF EachOnce
<1> QED BY <1>14, <1>15

-----------------------------------------------------------------------------
(* Trees below trees. *)

\* Plans of the trees when nothing may be below, and with one more level below.
Shallow(old) == [t \in Trees(old) |-> IF t = 0 THEN Nothing ELSE Failed]

Deeper(old, below) ==
  [t \in Trees(old) |-> IF t = 0 THEN Nothing
                        ELSE IF t \in old.bad THEN Failed
                        ELSE Subnodes(old, old.trees[t], below)]

\* Plans of a level of trees are made from plans of the level below.
LEMMA DeeperTyped ==
  ASSUME NEW old, Source(old)
  PROVE  /\ Shallow(old) \in [Trees(old) -> Plan]
         /\ \A below \in [Trees(old) -> Plan] : Deeper(old, below) \in [Trees(old) -> Plan]
<1>1. Shallow(old) \in [Trees(old) -> Plan]
  BY NothingTyped DEF Shallow
<1>2. ASSUME NEW below \in [Trees(old) -> Plan] PROVE Deeper(old, below) \in [Trees(old) -> Plan]
  <2>1. ASSUME NEW t \in Trees(old), t # 0 PROVE Subnodes(old, old.trees[t], below) \in Plan
    <3>1. t \in DOMAIN old.trees
      BY <2>1 DEF Trees
    <3> QED BY <3>1, SubnodesIs
  <2> QED BY <2>1, NothingTyped DEF Deeper
<1> QED BY <1>1, <1>2

\* f has the plans of the trees by the levels allowed.
TreePlans(f, old) ==
  /\ f \in [0 .. MAX_NEST + 1 -> [Trees(old) -> Plan]]
  /\ f[0] = Shallow(old)
  /\ \A r \in 1 .. MAX_NEST + 1 : f[r] = Deeper(old, f[r - 1])

\* The recursion of Subtree.
LEMMA SubtreeIs ==
  ASSUME NEW old, Source(old)
  PROVE  \E f : TreePlans(f, old) /\ \A t \in Trees(old) : Subtree(old, t) = f[MAX_NEST + 1][t]
<1> DEFINE N == MAX_NEST + 1
           V == [Trees(old) -> Plan]
           step == [r \in 1 .. N |-> [g \in V |-> Deeper(old, g)]]
           level(w, r) == [t \in {0} \union DOMAIN old.trees |->
                             IF t = 0 THEN Nothing
                             ELSE IF r = 0 \/ t \in old.bad THEN Failed
                             ELSE Subnodes(old, old.trees[t], w[r - 1])]
           Rec(u) == u = [r \in 0 .. MAX_NEST + 1 |-> level(u, r)]
           tree == CHOOSE u : Rec(u)
<1>1. N \in Nat /\ N >= 1
  BY ConvertAssumption
<1>2. Shallow(old) \in V /\ \A g \in V : Deeper(old, g) \in V
  BY DeeperTyped
<1>3. step \in [1 .. N -> [V -> V]]
  <2> HIDE DEF N, V
  <2> QED BY <1>2
<1>4. PICK u : Recurs(u, N, V, Shallow(old), step)
  <2> HIDE DEF step, N, V
  <2> QED BY <1>1, <1>2, <1>3, Recursion
<1>5. \A r \in 1 .. N : u[r] = Deeper(old, u[r - 1])
  <2>1. ASSUME NEW r \in 1 .. N PROVE u[r] = Deeper(old, u[r - 1])
    <3>1. r - 1 \in 0 .. N
      BY <1>1
    <3>2. u[r - 1] \in V
      BY <1>4, <3>1 DEF Recurs
    <3>3. u[r] = step[r][u[r - 1]]
      BY <1>4 DEF Recurs
    <3> HIDE DEF N, V
    <3> QED BY <3>2, <3>3
  <2> QED BY <2>1
<1>6. \A w, r : (r = 0 => Shallow(old) = level(w, r))
                /\ (r # 0 => Deeper(old, w[r - 1]) = level(w, r))
  BY Zenon DEF Shallow, Deeper, Trees
<1>7. \A r \in 0 .. N : r = 0 \/ r \in 1 .. N
  BY <1>1
<1>8. 0 \in 0 .. N /\ \A r \in 1 .. N : r \in 0 .. N /\ r # 0
  BY <1>1
<1>9. Rec(u)
  <2>1. u = [r \in 0 .. N |-> u[r]] /\ u[0] = Shallow(old)
    BY <1>4 DEF Recurs
  <2>2. ASSUME NEW r \in 0 .. N PROVE u[r] = level(u, r)
    <3> HIDE DEF N, level
    <3>1. CASE r = 0
      BY <1>6, <2>1, <3>1
    <3>2. CASE r \in 1 .. N
      <4>1. r # 0 /\ u[r] = Deeper(old, u[r - 1])
        BY <1>5, <1>8, <3>2
      <4> QED BY <1>6, <4>1
    <3> QED BY <1>7, <3>1, <3>2
  <2> HIDE DEF level
  <2> QED BY <2>1, <2>2
<1>10. Rec(tree)
  <2> HIDE DEF Rec
  <2> QED BY <1>9
<1>11. \A t0 : Subtree(old, t0) = tree[N][t0]
  BY DEF Subtree
<1> HIDE DEF tree
<1>12. /\ tree = [r \in 0 .. N |-> tree[r]] /\ tree[0] = Shallow(old)
       /\ \A r \in 1 .. N : tree[r] = Deeper(old, tree[r - 1])
  <2>1. tree = [r \in 0 .. N |-> tree[r]]
    BY <1>10
  <2>2. \A r \in 0 .. N : tree[r] = level(tree, r)
    <3> HIDE DEF level
    <3> QED BY <1>10
  <2> HIDE DEF N, Rec, level
  <2>3. tree[0] = Shallow(old)
    BY <1>6, <1>8, <2>2
  <2>4. ASSUME NEW r \in 1 .. N PROVE tree[r] = Deeper(old, tree[r - 1])
    <3>1. r # 0 /\ tree[r] = level(tree, r)
      BY <1>8, <2>2
    <3> QED BY <1>6, <3>1
  <2> QED BY <2>1, <2>3, <2>4
<1> DEFINE P == {r \in Nat : r <= N => tree[r] \in V}
<1>13. 0 \in P
  <2> HIDE DEF V, N
  <2> QED BY <1>2, <1>12
<1>14. ASSUME NEW r \in Nat, r \in P PROVE r + 1 \in P
  <2> SUFFICES ASSUME r + 1 <= N PROVE tree[r + 1] \in V
    OBVIOUS
  <2>1. tree[r] \in V /\ r + 1 \in 1 .. N /\ (r + 1) - 1 = r
    BY <1>1, <1>14
  <2>2. tree[r + 1] = Deeper(old, tree[r])
    BY <1>12, <2>1
  <2> HIDE DEF V, N, P
  <2> QED BY <1>2, <2>1, <2>2
<1>15. \A r \in 0 .. N : tree[r] \in V
  <2>1. Nat \subseteq P
    <3> HIDE DEF P
    <3> QED BY <1>13, <1>14, Induct
  <2> QED BY <1>1, <2>1
<1>16. tree \in [0 .. N -> V]
  <2> HIDE DEF V, N
  <2> QED BY <1>12, <1>15
<1>17. TreePlans(tree, old)
  BY <1>12, <1>16 DEF TreePlans
<1> QED BY <1>11, <1>17

\* Which trees of the new file are those of the source, when none may have one below it,
\* and with one more level below.
Bare0(old, new) ==
  [t \in Trees(old) |-> [bid \in Nat |-> IF t = 0 THEN ReadTree(new, bid) = {} ELSE FALSE]]

\* The next level: a tree is alike when its entries are, given the trees below.
Likened(old, new, same) ==
  [t \in Trees(old) |-> [bid \in Nat |->
     IF t = 0 THEN ReadTree(new, bid) = {}
     ELSE SameEntries(old, new, ReadTree(new, bid), old.trees[t], same)]]

\* g is the comparison at every depth.
Alike(g, old, new) ==
  /\ g \in [0 .. MAX_NEST + 1 -> [Trees(old) -> [Nat -> BOOLEAN]]]
  /\ g[0] = Bare0(old, new)
  /\ \A r \in 1 .. MAX_NEST + 1 : g[r] = Likened(old, new, g[r - 1])

\* The comparison of trees, level by level, is a table of Booleans.
LEMMA LikenedTyped ==
  ASSUME NEW old, NEW new
  PROVE  /\ Bare0(old, new) \in [Trees(old) -> [Nat -> BOOLEAN]]
         /\ \A same : Likened(old, new, same) \in [Trees(old) -> [Nat -> BOOLEAN]]
<1>1. ASSUME NEW same, NEW t \in Trees(old), NEW bid \in Nat
      PROVE  (IF t = 0 THEN ReadTree(new, bid) = {}
              ELSE SameEntries(old, new, ReadTree(new, bid), old.trees[t], same)) \in BOOLEAN
  BY DEF SameEntries
<1>2. ASSUME NEW t \in Trees(old), NEW bid \in Nat
      PROVE  (IF t = 0 THEN ReadTree(new, bid) = {} ELSE FALSE) \in BOOLEAN
  OBVIOUS
<1>3. Bare0(old, new) \in [Trees(old) -> [Nat -> BOOLEAN]]
  BY <1>2 DEF Bare0
<1>4. ASSUME NEW same PROVE Likened(old, new, same) \in [Trees(old) -> [Nat -> BOOLEAN]]
  BY <1>1 DEF Likened
<1> QED BY <1>3, <1>4

\* The recursion of SameTree.
LEMMA SameTreeIs ==
  ASSUME NEW old, Source(old), NEW new
  PROVE  \E g : Alike(g, old, new)
                /\ \A bid \in Nat : \A t \in Trees(old) :
                     SameTree(old, new, bid, t) = g[MAX_NEST + 1][t][bid]
<1> DEFINE N == MAX_NEST + 1
           V == [Trees(old) -> [Nat -> BOOLEAN]]
           step == [r \in 1 .. N |-> [g \in V |-> Likened(old, new, g)]]
           row(u, r) == [t \in {0} \union DOMAIN old.trees |-> [bid \in Nat |->
               IF t = 0 THEN ReadTree(new, bid) = {}
               ELSE r > 0 /\ SameEntries(old, new, ReadTree(new, bid), old.trees[t], u[r - 1])]]
           Rec(u) == u = [r \in 0 .. MAX_NEST + 1 |-> row(u, r)]
           like == CHOOSE u : Rec(u)
<1>1. N \in Nat /\ N >= 1
  BY ConvertAssumption
<1>2. Bare0(old, new) \in V /\ \A g \in V : Likened(old, new, g) \in V
  BY LikenedTyped
<1>3. step \in [1 .. N -> [V -> V]]
  <2> HIDE DEF N, V
  <2> QED BY <1>2
<1>4. PICK u : Recurs(u, N, V, Bare0(old, new), step)
  <2> HIDE DEF step, N, V
  <2> QED BY <1>1, <1>2, <1>3, Recursion
<1>5. \A r \in 1 .. N : u[r] = Likened(old, new, u[r - 1])
  <2>1. ASSUME NEW r \in 1 .. N PROVE u[r] = Likened(old, new, u[r - 1])
    <3>1. r - 1 \in 0 .. N
      BY <1>1
    <3>2. u[r - 1] \in V
      BY <1>4, <3>1 DEF Recurs
    <3>3. u[r] = step[r][u[r - 1]]
      BY <1>4 DEF Recurs
    <3> HIDE DEF N, V
    <3> QED BY <3>2, <3>3
  <2> QED BY <2>1
<1>6. \A w : row(w, 0) = Bare0(old, new)
  <2>1. ASSUME NEW w PROVE row(w, 0) = Bare0(old, new)
    <3>1. ~ (0 > 0)
      OBVIOUS
    <3> QED BY <3>1 DEF Bare0, Trees
  <2> QED BY <2>1
<1>7. ASSUME NEW w, NEW r \in 1 .. N PROVE row(w, r) = Likened(old, new, w[r - 1])
  <2>1. r > 0
    BY <1>1
  <2>2. ASSUME NEW x, NEW t, NEW bid
        PROVE  (r > 0 /\ SameEntries(old, new, x, t, w[r - 1])) = SameEntries(old, new, x, t, w[r - 1])
    BY <2>1, Zenon DEF SameEntries
  <2> QED BY <2>2 DEF Likened, Trees
<1>8. \A r \in 0 .. N : r = 0 \/ r \in 1 .. N
  BY <1>1
<1>9. 0 \in 0 .. N /\ \A r \in 1 .. N : r \in 0 .. N /\ r # 0
  BY <1>1
<1> HIDE DEF row
<1>10. Rec(u)
  <2>1. u = [r \in 0 .. N |-> u[r]] /\ u[0] = Bare0(old, new)
    BY <1>4 DEF Recurs
  <2>2. \A r \in 0 .. N : u[r] = row(u, r)
    <3> HIDE DEF N
    <3> QED BY <1>5, <1>6, <1>7, <1>8, <2>1
  <2> QED BY <2>1, <2>2
<1>11. Rec(like)
  <2> HIDE DEF Rec
  <2> QED BY <1>10
<1>12. \A bid, t : SameTree(old, new, bid, t) = like[N][t][bid]
  BY DEF SameTree, row
<1> HIDE DEF like
<1>13. /\ like = [r \in 0 .. N |-> like[r]] /\ like[0] = Bare0(old, new)
       /\ \A r \in 1 .. N : like[r] = Likened(old, new, like[r - 1])
  <2>1. like = [r \in 0 .. N |-> like[r]]
    BY <1>11
  <2>2. \A r \in 0 .. N : like[r] = row(like, r)
    BY <1>11
  <2> HIDE DEF N, Rec
  <2> QED BY <1>6, <1>7, <1>9, <2>1, <2>2
<1> DEFINE P == {r \in Nat : r <= N => like[r] \in V}
<1>14. 0 \in P
  <2> HIDE DEF V, N
  <2> QED BY <1>2, <1>13
<1>15. ASSUME NEW r \in Nat, r \in P PROVE r + 1 \in P
  <2> SUFFICES ASSUME r + 1 <= N PROVE like[r + 1] \in V
    OBVIOUS
  <2>1. like[r] \in V /\ r + 1 \in 1 .. N /\ (r + 1) - 1 = r
    BY <1>1, <1>15
  <2>2. like[r + 1] = Likened(old, new, like[r])
    BY <1>13, <2>1
  <2> HIDE DEF V, N, P
  <2> QED BY <1>2, <2>1, <2>2
<1>16. \A r \in 0 .. N : like[r] \in V
  <2>1. Nat \subseteq P
    <3> HIDE DEF P
    <3> QED BY <1>14, <1>15, Induct
  <2> QED BY <1>1, <2>1
<1>17. like \in [0 .. N -> V]
  <2> HIDE DEF V, N
  <2> QED BY <1>13, <1>16
<1>18. Alike(like, old, new)
  BY <1>13, <1>17 DEF Alike
<1> QED BY <1>12, <1>18

\* A tree whose plan, with these levels below, is in the file is read back from it.
ReadsBack(old, new, plans, same) ==
  \A t \in Trees(old) : \A e \in Nat :
    ~ plans[t].failed /\ Leads(new, e, plans[t]) => same[t][e]

\* Where there is no tree a reader finds none.
LEMMA NoTreeReads ==
  ASSUME NEW old, NEW new, 0 \notin DOMAIN new, NEW e, Leads(new, e, Nothing)
  PROVE  ReadTree(new, e) = {}
<1>1. e = 0
  BY NothingTyped DEF Leads, IdOf
<1> QED BY <1>1 DEF ReadTree, Entries

\* At depth zero only the tree that is not there is planned, and it reads back.
LEMMA ReadsBackFirst ==
  ASSUME NEW old, NEW new, 0 \notin DOMAIN new
  PROVE  ReadsBack(old, new, Shallow(old), Bare0(old, new))
<1> SUFFICES ASSUME NEW t \in Trees(old), NEW e \in Nat, ~ Shallow(old)[t].failed,
                    Leads(new, e, Shallow(old)[t])
             PROVE  Bare0(old, new)[t][e]
  BY DEF ReadsBack
<1>1. t = 0 /\ Shallow(old)[t] = Nothing
  BY NothingTyped DEF Shallow
<1>2. ReadTree(new, e) = {}
  BY <1>1, NoTreeReads
<1> QED BY <1>1, <1>2 DEF Bare0

\* If the trees below read back, so do the trees laid out over them.
LEMMA ReadsBackNext ==
  ASSUME NEW old, Source(old), NEW new, 0 \notin DOMAIN new,
         NEW plans \in [Trees(old) -> Plan], NEW same, ReadsBack(old, new, plans, same)
  PROVE  ReadsBack(old, new, Deeper(old, plans), Likened(old, new, same))
<1> SUFFICES ASSUME NEW t \in Trees(old), NEW e \in Nat, ~ Deeper(old, plans)[t].failed,
                    Leads(new, e, Deeper(old, plans)[t])
             PROVE  Likened(old, new, same)[t][e]
  BY DEF ReadsBack
<1>1. CASE t = 0
  <2>1. Deeper(old, plans)[t] = Nothing
    BY <1>1 DEF Deeper
  <2>2. ReadTree(new, e) = {}
    BY <2>1, NoTreeReads
  <2> QED BY <1>1, <2>2 DEF Likened
<1>2. CASE t # 0
  <2>1. t \in DOMAIN old.trees /\ t \notin old.bad
    BY <1>2, NothingTyped DEF Trees, Deeper
  <2>2. PICK subs : subs = old.trees[t]
    OBVIOUS
  <2>3. PICK r \in Plan : r = Subnodes(old, subs, plans) /\ r = Deeper(old, plans)[t]
    BY <1>2, <2>1, <2>2, SubnodesIs DEF Deeper
  <2>4. PICK c \in Nat \ {0} : Holds(new, c, r.blocks) /\ e = IdOf(c, r.blocks, r.root)
    BY <2>3 DEF Leads
  <2>5. PICK is : is = ReadTree(new, e)
    OBVIOUS
  <2>6. ~ r.failed
    BY <2>3
  <2>7. /\ {f.nid : f \in is} = DOMAIN subs
        /\ Cardinality(is) = Cardinality(DOMAIN subs)
        /\ \A f \in is : SubLeads(old, new, subs, plans, f)
    <3>1. t \in DOMAIN old.trees /\ subs = old.trees[t] /\ r = Subnodes(old, subs, plans)
          /\ Holds(new, c, r.blocks) /\ is = ReadTree(new, IdOf(c, r.blocks, r.root))
      BY <2>1, <2>2, <2>3, <2>4, <2>5
    <3>2. EachOnce(is, subs)
      BY <2>6, <3>1, SubnodesRead
    <3>3. \A f \in is : SubLeads(old, new, subs, plans, f)
      BY <2>6, <3>1, SubnodesRead
    <3> QED BY <3>2, <3>3 DEF EachOnce
  <2>8. ASSUME NEW f \in is
        PROVE  /\ SameStream(old, new, f.data, subs[f.nid].data)
               /\ same[subs[f.nid].sub][f.sub]
    <3>1. SubLeads(old, new, subs, plans, f)
      BY <2>7
    <3>2. f.nid \in DOMAIN subs
      BY <3>1 DEF SubLeads
    <3>3. PICK s \in Sub(old) : s = subs[f.nid]
      BY <2>1, <2>2, <3>2 DEF Source, Sub
    <3>4. PICK x \in Trees(old) : x = s.sub
      BY DEF Sub
    <3>5. PICK u \in Plan : u = plans[x]
      OBVIOUS
    <3>6. SameStream(old, new, f.data, s.data) /\ Leads(new, f.sub, u)
      BY <3>1, <3>3, <3>4, <3>5 DEF SubLeads
    <3>7. f.sub \in Nat
      <4>1. PICK d \in Nat \ {0} : f.sub = IdOf(d, u.blocks, u.root)
        BY <3>6 DEF Leads
      <4> QED BY <4>1, IdTyped
    <3>8. ~ u.failed
      <4>1. ~ (\E y \in DOMAIN subs : ~ Good(old, subs[y], plans))
        <5>1. t \in DOMAIN old.trees /\ subs = old.trees[t]
          BY <2>1, <2>2
        <5>2. ~ Subnodes(old, subs, plans).failed
          BY <2>3, <2>6
        <5> QED BY <5>1, <5>2, SubnodesIs
      <4> QED BY <3>2, <3>3, <3>4, <3>5, <4>1 DEF Good
    <3>9. same[x][f.sub]
      BY <3>5, <3>6, <3>7, <3>8 DEF ReadsBack
    <3> QED BY <3>3, <3>4, <3>6, <3>9
  <2>9. SameEntries(old, new, is, subs, same)
    BY <2>7, <2>8 DEF SameEntries
  <2> QED BY <1>2, <2>2, <2>5, <2>9 DEF Likened
<1> QED BY <1>1, <1>2

\* A subnode tree that was laid out is read back as the source has it, at every depth.
LEMMA TreeReads ==
  ASSUME NEW old, Source(old), NEW t \in Trees(old), ~ Subtree(old, t).failed,
         NEW new, 0 \notin DOMAIN new, NEW e \in Nat, Leads(new, e, Subtree(old, t))
  PROVE  SameTree(old, new, e, t)
<1>1. PICK N \in Nat : N = MAX_NEST + 1
  BY ConvertAssumption
<1>2. PICK f : TreePlans(f, old) /\ \A x \in Trees(old) : Subtree(old, x) = f[N][x]
  BY <1>1, SubtreeIs
<1>3. PICK g : Alike(g, old, new) /\ \A bid \in Nat : \A x \in Trees(old) :
                                      SameTree(old, new, bid, x) = g[N][x][bid]
  BY <1>1, SameTreeIs
<1> DEFINE P == {r \in Nat : r <= N => ReadsBack(old, new, f[r], g[r])}
<1>4. 0 \in P
  <2>1. f[0] = Shallow(old) /\ g[0] = Bare0(old, new)
    BY <1>2, <1>3 DEF TreePlans, Alike
  <2>2. ReadsBack(old, new, f[0], g[0])
    BY <2>1, ReadsBackFirst
  <2> QED BY <2>2
<1>5. ASSUME NEW r \in Nat, r \in P PROVE r + 1 \in P
  <2> SUFFICES ASSUME r + 1 <= N PROVE ReadsBack(old, new, f[r + 1], g[r + 1])
    OBVIOUS
  <2>1. r \in 0 .. N /\ r + 1 \in 1 .. N /\ (r + 1) - 1 = r
    OBVIOUS
  <2>2. PICK plans \in [Trees(old) -> Plan] : plans = f[r] /\ f[r + 1] = Deeper(old, plans)
    BY <1>1, <1>2, <2>1 DEF TreePlans
  <2>3. g[r + 1] = Likened(old, new, g[r])
    BY <1>1, <1>3, <2>1 DEF Alike
  <2>4. PICK same : same = g[r]
    OBVIOUS
  <2>5. ReadsBack(old, new, plans, same)
    BY <1>5, <2>1, <2>2, <2>4
  <2> HIDE DEF P
  <2> QED BY <2>2, <2>3, <2>4, <2>5, ReadsBackNext
<1>6. ReadsBack(old, new, f[N], g[N])
  <2>1. N \in P
    <3> HIDE DEF P
    <3> QED BY <1>4, <1>5, Induct
  <2> QED BY <2>1
<1>7. g[N][t][e]
  BY <1>2, <1>6 DEF ReadsBack
<1>8. SameTree(old, new, e, t) = g[N][t][e]
  BY <1>3
<1> QED BY <1>7, <1>8

-----------------------------------------------------------------------------
(* The plan of a node. *)

\* The message store made anew is one small data block.
LEMMA StoreIs ==
  /\ PstStore \in Plan /\ ~ PstStore.failed /\ Len(PstStore.blocks) = 1 /\ PstStore.root = 1
  /\ <<HEAP_SIG>> \in Part /\ PstStore.blocks[1] = DataBlock(<<HEAP_SIG>>)
<1>1. PICK x \in Part : x = <<HEAP_SIG>>
  <2>1. HEAP_SIG \in Nat /\ MAX_DATA \in Nat /\ 1 <= MAX_DATA
    BY ConvertAssumption
  <2>2. <<HEAP_SIG>> \in Seq(Nat) /\ Len(<<HEAP_SIG>>) = 1
    BY <2>1
  <2> QED BY <2>1, <2>2 DEF Part
<1>2. PICK d \in Piece : d = DataBlock(x) /\ d.ents = <<>>
  BY DataBlocksTyped
<1>3. PICK p : p = PstStore
  OBVIOUS
<1>4. p = [blocks |-> <<d>>, root |-> 1, failed |-> FALSE, divided |-> {}]
  BY <1>1, <1>2, <1>3 DEF PstStore, Nothing
<1>5. PICK bs \in Seq(Piece) : bs = <<d>> /\ Len(bs) = 1 /\ bs[1] = d
  <2>1. <<d>> \in Seq(Piece) /\ Len(<<d>>) = 1 /\ <<d>>[1] = d
    OBVIOUS
  <2> QED BY <2>1
<1>6. Backward(bs)
  <2> SUFFICES ASSUME NEW j \in 1 .. Len(bs) PROVE Below(bs[j].ents, j - 1)
    BY DEF Backward
  <2>1. bs[j].ents = <<>>
    BY <1>2, <1>5
  <2> QED BY <2>1 DEF Below
<1>7. p \in Plan
  BY Z3, <1>4, <1>5, <1>6 DEF Plan
<1> QED BY <1>1, <1>2, <1>3, <1>4, <1>5, <1>7

\* A reader finds its one block under its root.
LEMMA StoreReads ==
  ASSUME NEW new, NEW b \in Nat \ {0}, Holds(new, b, PstStore.blocks)
  PROVE  ReadStream(new, IdOf(b, PstStore.blocks, PstStore.root)) = << <<HEAP_SIG>> >>
<1>1. PICK x \in Part : x = <<HEAP_SIG>> /\ PstStore.blocks[1] = DataBlock(x)
  BY StoreIs
<1>2. PstStore.blocks \in Seq(Piece) /\ 1 \in 1 .. Len(PstStore.blocks) /\ PstStore.root = 1
  BY StoreIs DEF Plan
<1>3. ReadStream(new, IdOf(b, PstStore.blocks, 1)) = <<x>>
  BY <1>1, <1>2, OneReads
<1> QED BY <1>1, <1>2, <1>3

\* The plan of a node's data, made anew or laid out again.
DataPlan(old, n) == IF Remade(old, n) THEN PstStore ELSE Stream(old, n.data)

\* Why PlanOf gives a node up.
Cause(old, n) == (~ Remade(old, n) /\ ~ Sound(old, n.data)) \/ Subtree(old, n.sub).failed

\* The plans of whole nodes.
Jobs == {j \in [blocks : Seq(Piece), failed : BOOLEAN, divided : SUBSET Nat, data : Nat, sub : Nat] :
           j.data <= Len(j.blocks) /\ j.sub <= Len(j.blocks)}

\* The plan of a subnode tree is a plan.
LEMMA SubtreeTyped ==
  ASSUME NEW old, Source(old), NEW t \in Trees(old)
  PROVE  Subtree(old, t) \in Plan
<1>1. PICK N \in Nat : N = MAX_NEST + 1
  BY ConvertAssumption
<1>2. PICK f : TreePlans(f, old) /\ \A x \in Trees(old) : Subtree(old, x) = f[N][x]
  BY <1>1, SubtreeIs
<1>3. f[N] \in [Trees(old) -> Plan]
  <2>1. N \in 0 .. N
    OBVIOUS
  <2> QED BY <1>1, <1>2, <2>1 DEF TreePlans
<1> QED BY <1>2, <1>3

\* The plan of a node's data is a plan; it fails when the stream does not read whole.
LEMMA DataPlanIs ==
  ASSUME NEW old, Source(old), NEW n \in Node(old)
  PROVE  /\ DataPlan(old, n) \in Plan
         /\ DataPlan(old, n).failed <=> ~ Remade(old, n) /\ ~ Sound(old, n.data)
<1>1. n.data \in Data(old)
  BY DEF Node
<1>2. CASE Remade(old, n)
  BY <1>2, StoreIs DEF DataPlan
<1>3. CASE ~ Remade(old, n)
  BY <1>1, <1>3, StreamIs DEF DataPlan
<1> QED BY <1>2, <1>3

\* The plan of a node is its data's and then its tree's.
LEMMA PlanOfIs ==
  ASSUME NEW old, Source(old), NEW n \in Node(old)
  PROVE  /\ PlanOf(old, n) \in Jobs /\ PlanOf(old, n) # NoJob
         /\ PlanOf(old, n).failed <=> Cause(old, n)
         /\ ~ PlanOf(old, n).failed =>
              LET d == DataPlan(old, n)
                  q == PlanOf(old, n).blocks
              IN  /\ Longer(q, d.blocks) /\ PlanOf(old, n).data = d.root
                  /\ \E k : /\ Within(q, k, Subtree(old, n.sub).blocks)
                            /\ PlanOf(old, n).sub = Up(Subtree(old, n.sub).root, k)
<1>1. PICK d \in Plan : d = DataPlan(old, n)
                        /\ (d.failed <=> ~ Remade(old, n) /\ ~ Sound(old, n.data))
  BY DataPlanIs
<1>2. PICK t \in Plan : t = Subtree(old, n.sub)
  BY SubtreeTyped DEF Node
<1>3. PICK p \in Plan : p = Then(d, t) /\ (p.failed <=> d.failed \/ t.failed) /\ (d.failed => p = d)
  BY ThenIs
<1>4. PICK task : task = PlanOf(old, n)
  OBVIOUS
<1>5. task = [blocks |-> p.blocks, failed |-> p.failed, divided |-> p.divided,
             data |-> d.root, sub |-> IF d.failed THEN 0 ELSE p.root]
  BY <1>1, <1>2, <1>3, <1>4 DEF PlanOf, DataPlan
<1>6. /\ p.blocks \in Seq(Piece) /\ p.failed \in BOOLEAN /\ p.divided \in SUBSET Nat
      /\ p.root \in Nat /\ p.root <= Len(p.blocks)
      /\ d.root \in Nat /\ d.root <= Len(d.blocks) /\ Len(d.blocks) \in Nat /\ Len(p.blocks) \in Nat
  BY DEF Plan
<1>7. ~ d.failed => Longer(p.blocks, d.blocks) /\ Within(p.blocks, Len(d.blocks), t.blocks)
                    /\ p.root = Up(t.root, Len(d.blocks))
  BY <1>3, ThenWithin
<1>8. Len(d.blocks) <= Len(p.blocks)
  BY <1>3, <1>6, <1>7 DEF Longer
<1>9. d.root <= Len(p.blocks)
  BY <1>6, <1>8
<1>10. PICK s \in Nat : s = (IF d.failed THEN 0 ELSE p.root) /\ s <= Len(p.blocks)
  BY <1>6
<1>11. task \in Jobs /\ task.data <= Len(task.blocks)
  BY <1>5, <1>6, <1>9, <1>10 DEF Jobs
<1>12. task # NoJob
  <2>1. ~ (NoJob.data <= Len(NoJob.blocks))
    BY DEF NoJob
  <2> QED BY <1>11, <2>1
<1>13. task.failed <=> Cause(old, n)
  <2>1. task.failed = p.failed
    BY <1>5
  <2>2. p.failed <=> (~ Remade(old, n) /\ ~ Sound(old, n.data)) \/ t.failed
    BY <1>1, <1>3
  <2> QED BY <1>2, <2>1, <2>2 DEF Cause
<1>14. ASSUME ~ task.failed
       PROVE  /\ Longer(task.blocks, d.blocks) /\ task.data = d.root
              /\ \E k : Within(task.blocks, k, t.blocks) /\ task.sub = Up(t.root, k)
  <2>1. ~ d.failed
    BY <1>3, <1>5, <1>14
  <2>2. task.blocks = p.blocks /\ task.data = d.root /\ task.sub = p.root
    BY <1>5, <2>1
  <2> QED BY <1>7, <2>1, <2>2
<1> QED BY <1>1, <1>2, <1>4, <1>11, <1>12, <1>13, <1>14

\* A node whose blocks are all in the file is read back from them.
Reads(old, new, n, data, sub) ==
  /\ IF Remade(old, n) THEN ReadStream(new, data) = << <<HEAP_SIG>> >>
     ELSE SameStream(old, new, data, n.data)
  /\ SameTree(old, new, sub, n.sub)

\* A node whose blocks are in the new file reads back from it as it was in the old one:
\* the same bytes, and the same subnodes with theirs, all the way down.
LEMMA NodeReads ==
  ASSUME NEW old, Source(old), NEW n \in Node(old), NEW task, task = PlanOf(old, n), ~ task.failed,
         NEW new, 0 \notin DOMAIN new, NEW b \in Nat \ {0}, Holds(new, b, task.blocks)
  PROVE  Reads(old, new, n, IdOf(b, task.blocks, task.data), IdOf(b, task.blocks, task.sub))
<1>1. PICK q \in Seq(Piece) : q = task.blocks
  BY PlanOfIs DEF Jobs
<1>2. PICK d \in Plan : d = DataPlan(old, n)
  BY DataPlanIs
<1>3. PICK t \in Plan : t = Subtree(old, n.sub) /\ n.sub \in Trees(old)
  BY SubtreeTyped DEF Node
<1>4. Longer(q, d.blocks) /\ task.data = d.root
  BY <1>1, <1>2, PlanOfIs
<1>5. PICK k : Within(q, k, t.blocks) /\ task.sub = Up(t.root, k)
  BY <1>1, <1>3, PlanOfIs
<1>6. ~ Cause(old, n)
  BY PlanOfIs
<1>7. /\ Holds(new, b, d.blocks)
      /\ IdOf(b, q, d.root) = IdOf(b, d.blocks, d.root)
  <2>1. d.blocks \in Seq(Piece) /\ Backward(d.blocks) /\ d.root \in 0 .. Len(d.blocks)
    BY DEF Plan
  <2>2. Len(q) >= Len(d.blocks) /\ \A j \in 1 .. Len(d.blocks) : q[j] = d.blocks[j]
    BY <1>1, <1>4, <2>1 DEF Longer
  <2> QED BY <1>1, <2>1, <2>2, FrontHolds
<1>8. IF Remade(old, n) THEN ReadStream(new, IdOf(b, q, d.root)) = << <<HEAP_SIG>> >>
      ELSE SameStream(old, new, IdOf(b, q, d.root), n.data)
  <2>1. CASE Remade(old, n)
    <3>1. d = PstStore
      BY <1>2, <2>1 DEF DataPlan
    <3> QED BY <1>7, <2>1, <3>1, StoreReads
  <2>2. CASE ~ Remade(old, n)
    <3>1. d = Stream(old, n.data) /\ n.data \in Data(old) /\ Sound(old, n.data)
      BY <1>2, <1>6, <2>2 DEF DataPlan, Node, Cause
    <3>2. ~ d.failed
      BY <3>1, StreamIs
    <3>3. ReadStream(new, IdOf(b, d.blocks, d.root)) = Laying(old, n.data)
      BY <1>7, <3>1, <3>2, StreamReads
    <3> QED BY <1>7, <2>2, <3>1, <3>3, LayingIsSame
  <2> QED BY <2>1, <2>2
<1>9. SameTree(old, new, IdOf(b, q, task.sub), n.sub)
  <2>1. Leads(new, IdOf(b, q, Up(t.root, k)), t)
    BY <1>1, <1>5, WithinLeads
  <2>2. PICK e : e = IdOf(b, q, task.sub) /\ Leads(new, e, t)
    BY <1>5, <2>1
  <2>3. e \in Nat
    <3>1. PICK c \in Nat \ {0} : e = IdOf(c, t.blocks, t.root)
      BY <2>2 DEF Leads
    <3> QED BY <3>1, IdTyped
  <2>4. ~ Subtree(old, n.sub).failed
    BY <1>6 DEF Cause
  <2>5. SameTree(old, new, e, n.sub)
    BY <1>3, <2>2, <2>3, <2>4, TreeReads
  <2> QED BY <2>2, <2>5
<1> QED BY <1>1, <1>4, <1>8, <1>9 DEF Reads

-----------------------------------------------------------------------------
(* When a node can be laid out, said level by level as Whole says it. *)

Under(old, t) == {old.trees[t][k] : k \in DOMAIN old.trees[t]}

\* The trees one level down.
Lower(old, T) == (UNION {{s.sub : s \in Under(old, t)} : t \in T}) \ {0}

\* h has the trees of each level.
Levels(h, old, t0) ==
  /\ h \in [0 .. MAX_NEST + 1 -> SUBSET Trees(old)]
  /\ h[0] = {t0} \ {0}
  /\ \A d \in 1 .. MAX_NEST + 1 : h[d] = Lower(old, h[d - 1])

\* A tree that can be read, fits, and has only streams that can be laid out.
Fine(old, t) ==
  /\ t \notin old.bad /\ Roomy(old.trees[t])
  /\ \A s \in Under(old, t) : Sound(old, s.data)

\* What Whole says of the levels.
WholeBy(h, old, n) ==
  LET all == UNION {h[d] : d \in 0 .. MAX_NEST}
      streams == (IF Remade(old, n) THEN {} ELSE {n.data})
                   \union UNION {{s.data : s \in Under(old, t)} : t \in all}
  IN  /\ all \intersect old.bad = {} /\ streams \intersect old.bad = {}
      /\ h[MAX_NEST + 1] = {}
      /\ \A t \in all : Cardinality(DOMAIN old.trees[t]) <= FAN["s"] * TOP_FAN["s"]
      /\ \A s \in streams \ {0} : Len(Cut(old.streams[s])) <= FAN["x"] * TOP_FAN["x"]

\* What hangs under a tree is subnodes of the source.
LEMMA UnderTyped ==
  ASSUME NEW old, Source(old), NEW t \in Trees(old), t # 0
  PROVE  t \in DOMAIN old.trees /\ \A s \in Under(old, t) : s \in Sub(old)
<1>1. t \in DOMAIN old.trees
  BY DEF Trees
<1> QED BY <1>1 DEF Under, Source, Sub

\* A tree one level below is that of a subnode.
LEMMA LowerIs ==
  ASSUME NEW old, NEW T, NEW x
  PROVE  x \in Lower(old, T) <=> x # 0 /\ \E t \in T : \E s \in Under(old, t) : x = s.sub
<1>1. x \in Lower(old, T) <=> x # 0 /\ \E S \in {{s.sub : s \in Under(old, t)} : t \in T} : x \in S
  BY DEF Lower
<1>2. (\E S \in {{s.sub : s \in Under(old, t)} : t \in T} : x \in S)
        <=> \E t \in T : x \in {s.sub : s \in Under(old, t)}
  OBVIOUS
<1>3. \A t : x \in {s.sub : s \in Under(old, t)} <=> \E s \in Under(old, t) : x = s.sub
  OBVIOUS
<1> QED BY <1>1, <1>2, <1>3

\* The trees one level below are trees of the source.
LEMMA LowerTyped ==
  ASSUME NEW old, Source(old), NEW T \in SUBSET Trees(old), 0 \notin T
  PROVE  Lower(old, T) \in SUBSET Trees(old) /\ 0 \notin Lower(old, T)
<1>1. ASSUME NEW t \in T, NEW s \in Under(old, t) PROVE s.sub \in Trees(old)
  <2>1. s \in Sub(old)
    BY UnderTyped
  <2> QED BY <2>1 DEF Sub
<1>2. ASSUME NEW x \in Lower(old, T) PROVE x \in Trees(old) /\ x # 0
  <2>1. \E t \in T : \E s \in Under(old, t) : x = s.sub
    BY LowerIs
  <2>2. x # 0
    BY LowerIs
  <2> QED BY <1>1, <2>1, <2>2
<1> QED BY <1>2

\* The recursion of Whole.
LEMMA WholeIs ==
  ASSUME NEW old, Source(old), NEW n \in Node(old)
  PROVE  \E h : Levels(h, old, n.sub) /\ (Whole(old, n) <=> WholeBy(h, old, n))
                /\ \A d \in 0 .. MAX_NEST + 1 : 0 \notin h[d]
<1> DEFINE N == MAX_NEST + 1
           V == {T \in SUBSET Trees(old) : 0 \notin T}
           first == {n.sub} \ {0}
           step == [d \in 1 .. N |-> [T \in V |-> Lower(old, T)]]
           under(t) == {old.trees[t][k] : k \in DOMAIN old.trees[t]}
           Rec(u) == u = [d \in 0 .. MAX_NEST + 1 |->
                            IF d = 0 THEN {n.sub} \ {0}
                            ELSE (UNION {{s.sub : s \in under(t)} : t \in u[d - 1]}) \ {0}]
           trees == CHOOSE u : Rec(u)
<1>1. N \in Nat /\ N >= 1
  BY ConvertAssumption
<1>2. first \in V /\ \A T \in V : Lower(old, T) \in V
  BY LowerTyped DEF Node
<1>3. step \in [1 .. N -> [V -> V]]
  <2> HIDE DEF N, V
  <2> QED BY <1>2
<1>4. PICK u : Recurs(u, N, V, first, step)
  <2> HIDE DEF step, N, V, first
  <2> QED BY <1>1, <1>2, <1>3, Recursion
<1>5. \A d \in 1 .. N : u[d] = Lower(old, u[d - 1])
  <2>1. ASSUME NEW d \in 1 .. N PROVE u[d] = Lower(old, u[d - 1])
    <3>1. d - 1 \in 0 .. N
      BY <1>1
    <3>2. u[d - 1] \in V
      BY <1>4, <3>1 DEF Recurs
    <3>3. u[d] = step[d][u[d - 1]]
      BY <1>4 DEF Recurs
    <3> HIDE DEF N, V
    <3> QED BY <3>2, <3>3
  <2> QED BY <2>1
<1>6. \A T : Lower(old, T) = (UNION {{s.sub : s \in under(t)} : t \in T}) \ {0}
  BY DEF Lower, Under
<1>7. \A d \in 0 .. N : d = 0 \/ d \in 1 .. N
  BY <1>1
<1>8. 0 \in 0 .. N /\ \A d \in 1 .. N : d \in 0 .. N /\ d # 0
  BY <1>1
<1>9. Rec(u)
  <2>1. u = [d \in 0 .. N |-> u[d]] /\ u[0] = first
    BY <1>4 DEF Recurs
  <2>2. \A d \in 0 .. N : u[d] = IF d = 0 THEN first
                                 ELSE (UNION {{s.sub : s \in under(t)} : t \in u[d - 1]}) \ {0}
    <3> HIDE DEF N, first, under
    <3> QED BY <1>5, <1>6, <1>7, <1>8, <2>1
  <2> HIDE DEF under
  <2> QED BY <2>1, <2>2
<1>10. Rec(trees)
  <2> HIDE DEF Rec
  <2> QED BY <1>9
<1>11. Whole(old, n) <=> WholeBy(trees, old, n)
  BY DEF Whole, WholeBy, Under
<1> HIDE DEF trees
<1>12. /\ trees = [d \in 0 .. N |-> trees[d]] /\ trees[0] = first
       /\ \A d \in 1 .. N : trees[d] = Lower(old, trees[d - 1])
  <2>1. trees = [d \in 0 .. N |-> trees[d]]
    BY <1>10
  <2>2. \A d \in 0 .. N : trees[d] = IF d = 0 THEN first
                                 ELSE (UNION {{s.sub : s \in under(t)} : t \in trees[d - 1]}) \ {0}
    BY <1>10
  <2> HIDE DEF N, Rec, first, under
  <2> QED BY <1>6, <1>8, <2>1, <2>2
<1> DEFINE P == {d \in Nat : d <= N => trees[d] \in V}
<1>13. 0 \in P
  <2> HIDE DEF V, N, first
  <2> QED BY <1>2, <1>12
<1>14. ASSUME NEW d \in Nat, d \in P PROVE d + 1 \in P
  <2> SUFFICES ASSUME d + 1 <= N PROVE trees[d + 1] \in V
    OBVIOUS
  <2>1. trees[d] \in V /\ d + 1 \in 1 .. N /\ (d + 1) - 1 = d
    BY <1>1, <1>14
  <2>2. trees[d + 1] = Lower(old, trees[d])
    BY <1>12, <2>1
  <2> HIDE DEF V, N, P
  <2> QED BY <1>2, <2>1, <2>2
<1>15. \A d \in 0 .. N : trees[d] \in V
  <2>1. Nat \subseteq P
    <3> HIDE DEF P
    <3> QED BY <1>13, <1>14, Induct
  <2> QED BY <1>1, <2>1
<1>16. trees \in [0 .. N -> V]
  <2> HIDE DEF V, N
  <2> QED BY <1>12, <1>15
<1>17. Levels(trees, old, n.sub)
  BY <1>12, <1>16 DEF Levels
<1> QED BY <1>11, <1>15, <1>17

\* Which plans of trees do not fail, by the levels allowed.
LEMMA PlansFail ==
  ASSUME NEW old, Source(old), NEW f, TreePlans(f, old), NEW t \in Trees(old), t # 0
  PROVE  /\ f[0][t].failed
         /\ \A r \in 1 .. MAX_NEST + 1 :
              ~ f[r][t].failed <=>
                Fine(old, t) /\ \A s \in Under(old, t) : ~ f[r - 1][s.sub].failed
<1>1. t \in DOMAIN old.trees
  BY UnderTyped
<1>2. f[0][t].failed
  <2>1. f[0][t] = Failed
    BY DEF TreePlans, Shallow
  <2> QED BY <2>1, NothingTyped
<1>3. ASSUME NEW r \in 1 .. MAX_NEST + 1
      PROVE  ~ f[r][t].failed <=>
               Fine(old, t) /\ \A s \in Under(old, t) : ~ f[r - 1][s.sub].failed
  <2>1. r - 1 \in 0 .. MAX_NEST + 1
    BY ConvertAssumption
  <2>2. PICK g \in [Trees(old) -> Plan] : g = f[r - 1] /\ f[r] = Deeper(old, g)
    BY <2>1 DEF TreePlans
  <2>3. PICK subs : subs = old.trees[t]
    OBVIOUS
  <2>4. CASE t \in old.bad
    <3>1. f[r][t] = Failed
      BY <2>2, <2>4 DEF Deeper
    <3> QED BY <2>4, <3>1, NothingTyped DEF Fine
  <2>5. CASE t \notin old.bad
    <3>1. f[r][t] = Subnodes(old, subs, g)
      BY <2>2, <2>3, <2>5 DEF Deeper
    <3>2. ~ f[r][t].failed <=> (\A x \in DOMAIN subs : Good(old, subs[x], g)) /\ Roomy(subs)
      BY <1>1, <2>3, <3>1, SubnodesIs
    <3>3. (\A x \in DOMAIN subs : Good(old, subs[x], g)) <=> \A s \in Under(old, t) : Good(old, s, g)
      BY <2>3 DEF Under
    <3>4. (\A s \in Under(old, t) : Good(old, s, g)) <=>
            /\ \A s \in Under(old, t) : Sound(old, s.data)
            /\ \A s \in Under(old, t) : ~ g[s.sub].failed
      BY DEF Good
    <3> QED BY <2>2, <2>3, <2>5, <3>2, <3>3, <3>4 DEF Fine
  <2> QED BY <2>4, <2>5
<1> QED BY <1>2, <1>3

\* Down to level d all trees are fine, and at level d the plans with what levels are
\* left do not fail.
DownTo(f, h, old, N, d) ==
  /\ \A e \in 0 .. d - 1 : \A t \in h[e] : Fine(old, t)
  /\ \A t \in h[d] : ~ f[N - d][t].failed

\* The plan of a tree fails just if some tree under it is not fine, or there are too
\* many levels.
LEMMA SubtreeFails ==
  ASSUME NEW old, Source(old), NEW t0 \in Trees(old), NEW h, Levels(h, old, t0),
         \A d \in 0 .. MAX_NEST + 1 : 0 \notin h[d]
  PROVE  ~ Subtree(old, t0).failed <=>
           /\ \A d \in 0 .. MAX_NEST : \A t \in h[d] : Fine(old, t)
           /\ h[MAX_NEST + 1] = {}
<1>1. PICK N \in Nat : N = MAX_NEST + 1 /\ N - 1 = MAX_NEST /\ N - N = 0
  BY ConvertAssumption
<1>2. PICK f : TreePlans(f, old) /\ \A x \in Trees(old) : Subtree(old, x) = f[N][x]
  BY <1>1, SubtreeIs
<1>3. \A d \in 0 .. N : h[d] \in SUBSET Trees(old) /\ 0 \notin h[d]
  BY <1>1 DEF Levels
<1> DEFINE P == {d \in Nat : d <= N => (~ Subtree(old, t0).failed <=> DownTo(f, h, old, N, d))}
<1>4. 0 \in P
  <2>1. h[0] = {t0} \ {0} /\ N - 0 = N
    BY DEF Levels
  <2>2. ~ (\E e \in 0 .. 0 - 1 : TRUE)
    OBVIOUS
  <2>3. t0 = 0 => ~ f[N][t0].failed
    <3>1. ASSUME t0 = 0 PROVE ~ f[N][t0].failed
      <4>1. N \in 1 .. MAX_NEST + 1
        BY <1>1, ConvertAssumption
      <4>2. f[N] = Deeper(old, f[N - 1])
        BY <4>1, <1>2 DEF TreePlans
      <4>3. f[N][t0] = Nothing
        BY <3>1, <4>2 DEF Deeper
      <4> QED BY <4>3, NothingTyped
    <3> QED BY <3>1
  <2>4. ~ Subtree(old, t0).failed <=> ~ f[N][t0].failed
    BY <1>2
  <2>5. (\A t \in h[0] : ~ f[N - 0][t].failed) <=> ~ f[N][t0].failed
    BY <2>1, <2>3
  <2>6. ~ Subtree(old, t0).failed <=> DownTo(f, h, old, N, 0)
    BY <2>2, <2>4, <2>5 DEF DownTo
  <2> QED BY <2>6
<1>5. ASSUME NEW d \in Nat, d \in P PROVE d + 1 \in P
  <2> SUFFICES ASSUME d + 1 <= N
               PROVE  ~ Subtree(old, t0).failed <=> DownTo(f, h, old, N, d + 1)
    OBVIOUS
  <2>1. ~ Subtree(old, t0).failed <=> DownTo(f, h, old, N, d)
    BY <1>5
  <2>2. d \in 0 .. N /\ d + 1 \in 1 .. N /\ (d + 1) - 1 = d /\ N - d \in 1 .. N
        /\ (N - d) - 1 = N - (d + 1)
    OBVIOUS
  <2>3. PICK r \in 1 .. N : r = N - d /\ r - 1 = N - (d + 1)
    BY <2>2
  <2>4. h[d + 1] = Lower(old, h[d])
    BY <1>1, <2>2 DEF Levels
  <2>5. ASSUME NEW t \in h[d]
        PROVE  ~ f[r][t].failed <=>
                 Fine(old, t) /\ \A s \in Under(old, t) : ~ f[r - 1][s.sub].failed
    <3>1. t \in Trees(old) /\ t # 0
      BY <1>3, <2>2
    <3> QED BY <1>1, <1>2, <3>1, PlansFail
  <2>6. ~ f[r - 1][0].failed
    <3>1. r - 1 = 0 \/ r - 1 \in 1 .. N
      OBVIOUS
    <3>2. CASE r - 1 = 0
      BY <1>2, <3>2, NothingTyped DEF TreePlans, Shallow, Trees
    <3>3. CASE r - 1 \in 1 .. N
      <4>1. f[r - 1] = Deeper(old, f[(r - 1) - 1])
        BY <1>1, <1>2, <3>3 DEF TreePlans
      <4>2. 0 \in Trees(old)
        BY DEF Trees
      <4>3. f[r - 1][0] = Nothing
        BY <4>1, <4>2 DEF Deeper
      <4> QED BY <4>3, NothingTyped
    <3> QED BY <3>1, <3>2, <3>3
  <2>7. (\A t \in h[d + 1] : ~ f[r - 1][t].failed) <=>
          \A t \in h[d] : \A s \in Under(old, t) : ~ f[r - 1][s.sub].failed
    <3>1. ASSUME \A t \in h[d + 1] : ~ f[r - 1][t].failed, NEW t \in h[d], NEW s \in Under(old, t)
          PROVE  ~ f[r - 1][s.sub].failed
      <4>1. CASE s.sub = 0
        BY <2>6, <4>1
      <4>2. CASE s.sub # 0
        <5>1. s.sub \in Lower(old, h[d])
          BY <4>2, LowerIs
        <5>2. s.sub \in h[d + 1]
          BY <2>4, <5>1
        <5> QED BY <3>1, <5>2
      <4> QED BY <4>1, <4>2
    <3>2. ASSUME \A t \in h[d] : \A s \in Under(old, t) : ~ f[r - 1][s.sub].failed, NEW t \in h[d + 1]
          PROVE  ~ f[r - 1][t].failed
      <4>1. PICK x \in h[d] : \E s \in Under(old, x) : t = s.sub
        BY <2>4 DEF Lower
      <4> QED BY <3>2, <4>1
    <3> QED BY <3>1, <3>2
  <2>8. DownTo(f, h, old, N, d) <=>
          /\ \A e \in 0 .. d - 1 : \A t \in h[e] : Fine(old, t)
          /\ \A t \in h[d] : Fine(old, t)
          /\ \A t \in h[d + 1] : ~ f[r - 1][t].failed
    BY <2>3, <2>5, <2>7 DEF DownTo
  <2>9. (\A e \in 0 .. (d + 1) - 1 : \A t \in h[e] : Fine(old, t)) <=>
          /\ \A e \in 0 .. d - 1 : \A t \in h[e] : Fine(old, t)
          /\ \A t \in h[d] : Fine(old, t)
    <3>1. \A e : e \in 0 .. (d + 1) - 1 <=> e \in 0 .. d - 1 \/ e = d
      OBVIOUS
    <3> QED BY <3>1, Zenon
  <2>10. DownTo(f, h, old, N, d + 1) <=>
          /\ \A e \in 0 .. (d + 1) - 1 : \A t \in h[e] : Fine(old, t)
          /\ \A t \in h[d + 1] : ~ f[r - 1][t].failed
    BY <2>3 DEF DownTo
  <2> HIDE DEF P
  <2> QED BY <2>1, <2>8, <2>9, <2>10, Zenon
<1>6. N \in P
  <2> HIDE DEF P
  <2> QED BY <1>4, <1>5, Induct
<1>7. ~ Subtree(old, t0).failed <=> DownTo(f, h, old, N, N)
  BY <1>6
<1>8. (\A t \in h[N] : ~ f[N - N][t].failed) <=> h[N] = {}
  <2>1. ASSUME NEW t \in h[N] PROVE f[0][t].failed
    <3>1. t \in Trees(old) /\ t # 0
      BY <1>3
    <3> QED BY <1>2, <3>1, PlansFail
  <2> QED BY <1>1, <2>1
<1> QED BY <1>1, <1>7, <1>8 DEF DownTo

\* What a plan fails for is what Whole excludes.
LEMMA CauseIs ==
  ASSUME NEW old, Source(old), NEW n \in Node(old)
  PROVE  Cause(old, n) <=> ~ Whole(old, n)
<1>1. PICK h : Levels(h, old, n.sub) /\ (Whole(old, n) <=> WholeBy(h, old, n))
               /\ \A d \in 0 .. MAX_NEST + 1 : 0 \notin h[d]
  BY WholeIs
<1>2. PICK N \in Nat : N = MAX_NEST
  BY ConvertAssumption
<1>3. PICK all : all = UNION {h[d] : d \in 0 .. N}
  OBVIOUS
<1>4. ~ Subtree(old, n.sub).failed <=> (\A t \in all : Fine(old, t)) /\ h[MAX_NEST + 1] = {}
  <2>1. n.sub \in Trees(old)
    BY DEF Node
  <2>2. (\A t \in all : Fine(old, t)) <=> \A d \in 0 .. MAX_NEST : \A t \in h[d] : Fine(old, t)
    BY <1>2, <1>3
  <2> QED BY <1>1, <2>1, <2>2, SubtreeFails
<1>5. PICK own : own = IF Remade(old, n) THEN {} ELSE {n.data}
  OBVIOUS
<1>6. PICK lower : lower = UNION {{s.data : s \in Under(old, t)} : t \in all}
  OBVIOUS
<1> DEFINE m == FAN["x"] * TOP_FAN["x"]
           snd(s) == s \notin old.bad /\ (s # 0 => Len(Cut(old.streams[s])) <= m)
<1>7. \A s : Sound(old, s) <=> snd(s)
  BY DEF Sound, Source
<1>8. (\A t \in all : Fine(old, t)) <=>
        /\ all \intersect old.bad = {}
        /\ \A t \in all : Roomy(old.trees[t])
        /\ \A s \in lower : snd(s)
  <2>1. (\A s \in lower : snd(s)) <=> \A t \in all : \A s \in Under(old, t) : snd(s.data)
    <3> HIDE DEF snd
    <3> QED BY <1>6
  <2>2. all \intersect old.bad = {} <=> \A t \in all : t \notin old.bad
    OBVIOUS
  <2>3. \A t \in all : (\A s \in Under(old, t) : Sound(old, s.data)) <=>
                         \A s \in Under(old, t) : snd(s.data)
    <3> HIDE DEF snd
    <3> QED BY <1>7
  <2> HIDE DEF snd
  <2> QED BY <2>1, <2>2, <2>3, Zenon DEF Fine
<1>9. ~ (~ Remade(old, n) /\ ~ Sound(old, n.data)) <=> \A s \in own : snd(s)
  <2> HIDE DEF snd
  <2> QED BY <1>5, <1>7
<1>10. (\A s \in own \union lower : snd(s)) <=>
         /\ (own \union lower) \intersect old.bad = {}
         /\ \A s \in (own \union lower) \ {0} : Len(Cut(old.streams[s])) <= m
  <2> HIDE DEF m
  <2> QED OBVIOUS
<1>11. WholeBy(h, old, n) <=>
         /\ all \intersect old.bad = {} /\ (own \union lower) \intersect old.bad = {}
         /\ h[MAX_NEST + 1] = {}
         /\ \A t \in all : Roomy(old.trees[t])
         /\ \A s \in (own \union lower) \ {0} : Len(Cut(old.streams[s])) <= m
  BY <1>2, <1>3, <1>5, <1>6, Zenon DEF WholeBy, Roomy
<1> HIDE DEF snd, m
<1>12. Cause(old, n) <=> ~ (\A s \in own : snd(s)) \/ Subtree(old, n.sub).failed
  BY <1>9 DEF Cause
<1> QED BY <1>1, <1>4, <1>8, <1>10, <1>11, <1>12

-----------------------------------------------------------------------------
(* The conversion, step by step. *)

\* The leaf entries the conversion makes: of nodes, and of blocks.
NLeaf == [key : Nat, data : Nat, sub : Nat, parent : Nat]
BLeaf == [key : Nat, at : Nat, cb : Nat, cref : {2}]
Leaf == NLeaf \union BLeaf

\* What is handed to the writer.
OutPiece == [kind : {"block"}, at : Nat, bid : Nat, block : Piece]
              \union [kind : {"page"}, at : Nat, page : PageOver(Leaf)]

\* The counter the run starts from and the nodes it takes, in their order.
First == FirstId(src.nodes)
Kept == Keep(src.nodes)

\* The moments of a run that has not failed.
Live == {"create", "nodes", "pages", "header", "done"}
LaidOut == {"pages", "header", "done"}

\* The node in hand is the next one, and the counter says how much of it is written.
InHand ==
  /\ i < Len(src.nodes) /\ job = PlanOf(src, Kept[i + 1])
  /\ base \in Nat /\ First <= base /\ base <= next /\ next - base <= Len(job.blocks)

\* Piece s of the file is a block, written under counter k, and e its entry.
BlockAt(s, e, k) ==
  /\ s.kind = "block" /\ s.at = e.at /\ s.bid = e.key /\ e.key = Id(k, s.block)
  /\ e.cb = Bytes(s.block)

\* While blocks are written: the file is the blocks, in order, each with its entry.
BlocksOut ==
  /\ pos = end /\ next = First + Len(bbt) /\ bbt \in Seq(BLeaf) /\ out \in Seq(OutPiece)
  /\ Len(bbt) <= Len(out)
  /\ \A j \in 1 .. Len(bbt) : BlockAt(out[j], bbt[j], First + j - 1)
  /\ pc \in {"create", "nodes"} => Len(out) = Len(bbt)
  /\ nbt \in Seq(NLeaf)

\* The trees over these entries from x on, and the header over them.
PlanFor(nodes, blocks, x, k) ==
  LET n == BuildTree(nodes, "NBT", [next |-> x, bid |-> 4 * k])
      b == BuildTree(blocks, "BBT", n.cur)
      pages == n.pages \o b.pages
  IN  [pages |-> pages,
       header |-> [eof |-> AlignUp(Last(pages).at + PAGE, BLOCK_ALIGN),
                   NBT |-> [at |-> n.root.at, bid |-> n.root.bid],
                   BBT |-> [at |-> b.root.at, bid |-> b.root.bid],
                   bidNext |-> b.cur.bid],
       missing |-> ESSENTIAL \ {e.key : e \in ToSet(nodes)}]

\* While pages are written: behind the blocks are the first i pages of the layout.
PagesOut ==
  /\ nbt # <<>> /\ bbt # <<>>
  /\ \E x \in Nat : plan = PlanFor(nbt, bbt, x, next)
  /\ i <= Len(plan.pages) /\ Len(out) = Len(bbt) + i
  /\ \A m \in 1 .. i : out[Len(bbt) + m] =
       [kind |-> "page", at |-> plan.pages[m].at, page |-> plan.pages[m]]

\* What holds at every moment of the writing itself.
FileInv ==
  /\ src \in SOURCES /\ i \in Nat /\ next \in Nat /\ pos \in Nat
  /\ pc \in Live \ {"create"} => pos # 0
  /\ pc = "create" => i = 0 /\ pos = 0 /\ ~ broken
  /\ pc # "done" => header = NoHeader
  /\ pc \in {"header", "done"} => ~ broken
  /\ job # NoJob /\ pc \in Live => pc = "nodes" /\ InHand
  /\ First <= next
  /\ pc \in Live /\ ~ broken => BlocksOut
  /\ pc \in LaidOut /\ ~ broken => PagesOut
  /\ pc \in {"header", "done"} => i = Len(plan.pages) /\ flushed = Len(out)
  /\ pc = "done" => header = plan.header

\* The blocks of a plan are in the file, the first under counter b.
Stands(b, blocks, l) ==
  /\ b \in Nat /\ First <= b /\ b + l <= next
  /\ \A j \in 1 .. l : out[b - First + j].block = Resolved(b, blocks, blocks[j])

\* A node dealt with is left out and named, or its blocks and its entry are there.
Dealt(n) ==
  LET t == PlanOf(src, n)
  IN  /\ t.failed => n.nid \in named /\ \A k \in 1 .. Len(nbt) : nbt[k].key # n.nid
      /\ ~ t.failed => /\ n.nid \notin named
                       /\ \E b \in First .. next : \E k \in 1 .. Len(nbt) :
                            /\ Stands(b, t.blocks, Len(t.blocks))
                            /\ nbt[k] = [key |-> n.nid, data |-> IdOf(b, t.blocks, t.data),
                                         sub |-> IdOf(b, t.blocks, t.sub), parent |-> n.parent]

\* How many nodes are dealt with.
DoneWith == IF pc \in LaidOut THEN Len(src.nodes) ELSE i

\* Every node dealt with is named or in the file, and no other has an entry.
NodesInv ==
  pc \in Live /\ ~ broken =>
    /\ DoneWith <= Len(src.nodes)
    /\ Ascending(nbt)
    /\ \A k \in 1 .. Len(nbt) : \E m \in 1 .. DoneWith : nbt[k].key = Kept[m].nid
    /\ \A x \in named : \E m \in 1 .. DoneWith : x = Kept[m].nid
    /\ \A m \in 1 .. DoneWith : Dealt(Kept[m])
    /\ job # NoJob => Stands(base, job.blocks, next - base)

-----------------------------------------------------------------------------
(* What the invariants need of the operators. *)

\* Ids of blocks, by the counter they were written under.
LEMMA IdRange ==
  ASSUME NEW k \in Nat
  PROVE  \A b : Id(k, b) \in Nat /\ 4 * k <= Id(k, b) /\ Id(k, b) < 4 * k + 4
<1>1. \A b : Id(k, b) = 4 * k \/ Id(k, b) = 4 * k + 2
  BY DEF Id
<1>2. 4 * k \in Nat /\ 4 * k + 2 \in Nat
  OBVIOUS
<1>3. TAKE b
<1> QED BY <1>1, <1>2

\* What the nodes of a source name is bounded.
LEMMA NamesBounded ==
  ASSUME NEW old, Source(old)
  PROVE  \E b \in Nat : \A m \in 1 .. Len(old.nodes) :
           old.nodes[m].data <= b /\ old.nodes[m].sub <= b
<1>1. PICK nodes \in Seq(Node(old)) : nodes = old.nodes
  BY DEF Source
<1>2. PICK N \in Nat : N = Len(nodes)
  OBVIOUS
<1>3. \A m \in 1 .. N : nodes[m].data \in Nat /\ nodes[m].sub \in Nat
  <2>1. \A m \in 1 .. N : nodes[m] \in Node(old)
    BY <1>2
  <2> QED BY <2>1 DEF Node, Source
<1> DEFINE Bounds(b, k) == \A m \in 1 .. k : nodes[m].data <= b /\ nodes[m].sub <= b
           P == {k \in Nat : k <= N => \E b \in Nat : Bounds(b, k)}
<1>4. 0 \in P
  <2>1. Bounds(0, 0)
    OBVIOUS
  <2> QED BY <2>1
<1>5. ASSUME NEW k \in Nat, k \in P PROVE k + 1 \in P
  <2> SUFFICES ASSUME k + 1 <= N PROVE \E b \in Nat : Bounds(b, k + 1)
    BY Z3
  <2>1. PICK b \in Nat : Bounds(b, k)
    BY <1>5
  <2>2. PICK c, d \in Nat : c = nodes[k + 1].data /\ d = nodes[k + 1].sub
    <3>1. k + 1 \in 1 .. N
      OBVIOUS
    <3> QED BY <1>3, <3>1
  <2>3. PICK e \in Nat : e = b + c + d /\ b <= e /\ c <= e /\ d <= e
    <3>1. b + c + d \in Nat /\ b <= b + c + d /\ c <= b + c + d /\ d <= b + c + d
      OBVIOUS
    <3> QED BY <3>1
  <2>4. ASSUME NEW m \in 1 .. k + 1 PROVE nodes[m].data <= e /\ nodes[m].sub <= e
    <3>1. CASE m = k + 1
      BY <2>2, <2>3, <3>1
    <3>2. CASE m # k + 1
      <4>1. m \in 1 .. k /\ m \in 1 .. N
        BY <3>2
      <4>2. PICK x, y \in Nat : x = nodes[m].data /\ y = nodes[m].sub
        BY <1>3, <4>1
      <4>3. x <= b /\ y <= b
        BY <2>1, <4>1, <4>2
      <4>4. x <= e /\ y <= e
        BY <2>3, <4>3
      <4> QED BY <4>2, <4>4
    <3> QED BY <3>1, <3>2
  <2> QED BY <2>4
<1>6. N \in P
  <2> HIDE DEF P
  <2>1. \A k \in Nat : k \in P => k + 1 \in P
    BY <1>5
  <2>2. Nat \subseteq P
    BY <1>4, <2>1, Induct
  <2> QED BY <1>2, <2>2
<1>7. \E b \in Nat : Bounds(b, N)
  BY <1>2, <1>6
<1> QED BY <1>1, <1>2, <1>7

\* The counter starts at one at least, and past all that a node of the source names.
LEMMA FirstIs ==
  ASSUME NEW old, Source(old)
  PROVE  /\ FirstId(old.nodes) \in Nat \ {0}
         /\ \A n \in ToSet(old.nodes) :
              n.data < 4 * FirstId(old.nodes) /\ n.sub < 4 * FirstId(old.nodes)
<1>1. PICK nodes \in Seq(Node(old)) : nodes = old.nodes
  BY DEF Source
<1> DEFINE T == {0} \union UNION {{n.data, n.sub} : n \in ToSet(nodes)}
<1>2. PICK b \in Nat : \A n \in ToSet(nodes) : n.data <= b /\ n.sub <= b
  <2>1. PICK b \in Nat : \A m \in 1 .. Len(nodes) : nodes[m].data <= b /\ nodes[m].sub <= b
    BY <1>1, NamesBounded
  <2>2. \A n \in ToSet(nodes) : \E m \in 1 .. Len(nodes) : n = nodes[m]
    BY DEF ToSet
  <2> QED BY <2>1, <2>2
<1>3. \A n \in ToSet(nodes) : n.data \in Nat /\ n.sub \in Nat
  <2>1. \A n \in ToSet(nodes) : n \in Node(old)
    BY DEF ToSet
  <2> QED BY <2>1 DEF Node, Source
<1>4. T \subseteq Nat /\ T # {} /\ \A x \in T : x <= b
  BY <1>2, <1>3
<1>5. PICK x \in T : \A y \in T : y <= x
  <2> HIDE DEF T
  <2> QED BY <1>4, Greatest
<1>6. Max(T) \in T /\ \A y \in T : y <= Max(T)
  <2>1. \A y \in T : x >= y
    <3> HIDE DEF T
    <3> QED BY <1>4, <1>5
  <2>2. Max(T) = CHOOSE z \in T : \A y \in T : z >= y
    BY DEF Max
  <2>3. Max(T) \in T /\ \A y \in T : Max(T) >= y
    <3> HIDE DEF T
    <3> QED BY <2>1, <2>2
  <2> HIDE DEF T
  <2> QED BY <1>4, <2>3
<1>7. PICK z \in Nat : z = Max(T)
  <2> HIDE DEF T
  <2> QED BY <1>4, <1>6
<1>8. PICK q \in Nat, r \in 0 .. 3 : q = z \div 4 /\ z = q * 4 + r
  <2>1. z \div 4 \in Nat /\ z % 4 \in 0 .. 4 - 1 /\ z = (z \div 4) * 4 + (z % 4)
    BY DivMod
  <2>2. PICK q : q = z \div 4
    OBVIOUS
  <2>3. PICK r : r = z % 4
    OBVIOUS
  <2>4. q \in Nat /\ r \in 0 .. 3 /\ z = q * 4 + r
    BY <2>1, <2>2, <2>3
  <2> QED BY <2>2, <2>4
<1>9. FirstId(old.nodes) = q + 1
  BY <1>1, <1>7, <1>8 DEF FirstId
<1>10. \A y \in T : y < 4 * (q + 1)
  <2>1. ASSUME NEW y \in T PROVE y < 4 * (q + 1)
    <3>1. PICK w \in Nat : w = y
      BY <1>4
    <3>2. w <= z
      BY <1>6, <1>7, <3>1
    <3>3. w < 4 * (q + 1)
      BY <1>8, <3>2
    <3> QED BY <3>1, <3>3
  <2> QED BY <2>1
<1>11. \A n \in ToSet(nodes) : n.data \in T /\ n.sub \in T
  OBVIOUS
<1> HIDE DEF T
<1> QED BY <1>1, <1>9, <1>10, <1>11

\* The nodes in the order of their ids.
LEMMA KeptIs ==
  ASSUME NEW old, Source(old)
  PROVE  /\ Keep(old.nodes) \in Seq(Node(old)) /\ Len(Keep(old.nodes)) = Len(old.nodes)
         /\ \E f : SortedFrom(Keep(old.nodes), old.nodes,
                              [k \in DOMAIN old.nodes |-> old.nodes[k].nid], f)
<1>1. PICK nodes \in Seq(Node(old)) : nodes = old.nodes
  BY DEF Source
<1>2. PICK keys : keys = [k \in DOMAIN nodes |-> nodes[k].nid]
  OBVIOUS
<1>3. keys \in [1 .. Len(nodes) -> Int]
  <2>1. \A k \in 1 .. Len(nodes) : nodes[k] \in Node(old)
    OBVIOUS
  <2>2. \A k \in 1 .. Len(nodes) : nodes[k].nid \in Int
    BY <2>1 DEF Node
  <2> QED BY <1>2, <2>2
<1>4. InOrder(nodes, keys) \in Seq(Node(old)) /\ \E f : SortedFrom(InOrder(nodes, keys), nodes, keys, f)
  BY <1>3, SortedIs
<1>5. Keep(old.nodes) = InOrder(nodes, keys)
  BY <1>1, <1>2 DEF Keep
<1>6. Len(Keep(old.nodes)) = Len(nodes)
  BY <1>4, <1>5 DEF SortedFrom
<1>7. \E f : SortedFrom(Keep(old.nodes), old.nodes,
                       [k \in DOMAIN old.nodes |-> old.nodes[k].nid], f)
  BY <1>1, <1>2, <1>4, <1>5, Zenon
<1> QED BY <1>1, <1>4, <1>5, <1>6, <1>7, Zenon

\* What a reference is resolved to.
LEMMA IdOfTyped ==
  ASSUME NEW b \in Nat, NEW blocks, NEW ref \in Nat
  PROVE  IdOf(b, blocks, ref) \in Nat
<1>1. CASE ref = 0
  BY <1>1 DEF IdOf
<1>2. CASE ref # 0
  <2>1. b + ref - 1 \in Nat
    BY <1>2
  <2>2. IdOf(b, blocks, ref) = Id(b + ref - 1, blocks[ref])
    BY <1>2 DEF IdOf
  <2> QED BY <2>1, <2>2, IdRange
<1> QED BY <1>1, <1>2

\* A block of a plan is a block of the file.
LEMMA ResolvedTyped ==
  ASSUME NEW b \in Nat, NEW blocks, NEW x \in Piece
  PROVE  LET y == Resolved(b, blocks, x)
         IN  y \in Piece /\ y.kind = x.kind /\ Bytes(y) = Bytes(x)
<1>1. PICK y : y = Resolved(b, blocks, x)
  OBVIOUS
<1>2. PICK es \in Seq(Ent) : es = x.ents
  BY DEF Piece
<1>3. PICK n \in Nat : n = Len(es)
  OBVIOUS
<1>4. PICK zs : zs = [m \in 1 .. n |-> Written1(b, blocks, es[m])]
  OBVIOUS
<1>5. y = [x EXCEPT !.ents = zs]
  <2>1. DOMAIN x.ents = 1 .. n
    BY <1>2, <1>3
  <2> QED BY <1>1, <1>2, <1>4, <2>1 DEF Resolved, Written1
<1>6. \A m \in 1 .. n : Written1(b, blocks, es[m]) \in Ent
  <2> TAKE m \in 1 .. n
  <2>1. es[m] \in Ent
    BY <1>3
  <2>2. es[m].nid \in Nat /\ es[m].data \in Nat /\ es[m].sub \in Nat
    BY <2>1 DEF Ent
  <2>3. IdOf(b, blocks, es[m].data) \in Nat /\ IdOf(b, blocks, es[m].sub) \in Nat
    BY <2>2, IdOfTyped
  <2> QED BY <2>2, <2>3 DEF Written1, Ent
<1>7. zs \in Seq(Ent) /\ Len(zs) = n
  <2>1. zs \in [1 .. n -> Ent]
    BY <1>4, <1>6
  <2> QED BY <2>1, SeqFrom
<1>8. PICK kind \in {"data", "x", "s"}, level \in 0 .. 2, bytes \in Seq(Nat) :
        x = [kind |-> kind, level |-> level, bytes |-> bytes, ents |-> es]
  BY <1>2 DEF Piece
<1>9. y = [kind |-> kind, level |-> level, bytes |-> bytes, ents |-> zs]
  BY <1>5, <1>8
<1>10. Bytes(y) = Bytes(x)
  BY <1>3, <1>7, <1>8, <1>9 DEF Bytes
<1>11. Small(y)
  <2>1. Small(x)
    BY DEF Piece
  <2> QED BY <1>10, <2>1 DEF Small
<1>12. kind = "data" => zs = <<>> /\ level = 0
  <2>1. kind = "data" => x.ents = <<>> /\ x.level = 0
    BY <1>8 DEF Piece
  <2>2. es = <<>> => n = 0
    BY <1>3
  <2>3. n = 0 => zs = <<>>
    BY <1>7
  <2> QED BY <1>2, <1>8, <2>1, <2>2, <2>3
<1>13. y \in Piece
  BY <1>7, <1>9, <1>11, <1>12 DEF Piece
<1> QED BY <1>1, <1>8, <1>9, <1>10, <1>13

\* p is the layout of both trees over these entries from place x and counter k on.
LayoutOver(p, nodes, blocks, x, k, n, b, y) ==
  /\ n = BuildTree(nodes, "NBT", [next |-> x, bid |-> 4 * k])
  /\ b = BuildTree(blocks, "BBT", n.cur) /\ n.cur \in Cursors
  /\ [next |-> x, bid |-> 4 * k] \in Cursors
  /\ p.pages = n.pages \o b.pages
  /\ n.pages \in Seq(PageOver(Leaf)) /\ b.pages \in Seq(PageOver(Leaf))
  /\ p.pages \in Seq(PageOver(Leaf)) /\ Len(p.pages) >= 1
  /\ PagesLaid(p.pages, x, y, 4 * k)
  /\ p.header.NBT = [at |-> n.root.at, bid |-> n.root.bid]
  /\ p.header.BBT = [at |-> b.root.at, bid |-> b.root.bid]
  /\ p.header.bidNext = 4 * k + 4 * Len(p.pages)
  /\ p.header.eof \in Nat \ {0}
  /\ p.missing = ESSENTIAL \ {e.key : e \in ToSet(nodes)}

\* The leaf entries of both trees are ordered by a key.
LEMMA LeavesKeyed ==
  Keyed(Leaf) /\ NLeaf \subseteq Leaf /\ BLeaf \subseteq Leaf
BY DEF Keyed, Leaf, NLeaf, BLeaf

\* The pages of both trees and the header over them.
LEMMA PlanForIs ==
  ASSUME NEW nodes \in Seq(NLeaf), nodes # <<>>, NEW blocks \in Seq(BLeaf), blocks # <<>>,
         NEW x \in Nat, NEW k \in Nat, NEW p, p = PlanFor(nodes, blocks, x, k)
  PROVE  \E n, b : \E y \in Nat : LayoutOver(p, nodes, blocks, x, k, n, b, y)
<1>1. PICK cur : cur = [next |-> x, bid |-> 4 * k]
  OBVIOUS
<1>2. cur \in Cursors /\ cur.next = x /\ cur.bid = 4 * k
  <2>1. 4 * k \in Nat
    OBVIOUS
  <2> QED BY <1>1, <2>1 DEF Cursors
<1>3. PICK n : n = BuildTree(nodes, "NBT", cur)
  OBVIOUS
<1>4. /\ n.pages \in Seq(PageOver(Leaf)) /\ n.cur \in Cursors
      /\ PagesLaid(n.pages, cur.next, n.cur.next, cur.bid)
      /\ n.cur.bid = cur.bid + 4 * Len(n.pages) /\ Len(n.pages) >= 1
  <2>1. nodes \in Seq(Leaf) /\ Keyed(Leaf)
    BY LeavesKeyed, SeqWider
  <2> QED BY <1>2, <1>3, <2>1, TreeLaid
<1>5. PICK b : b = BuildTree(blocks, "BBT", n.cur)
  OBVIOUS
<1>6. /\ b.pages \in Seq(PageOver(Leaf)) /\ b.cur \in Cursors
      /\ PagesLaid(b.pages, n.cur.next, b.cur.next, n.cur.bid)
      /\ b.cur.bid = n.cur.bid + 4 * Len(b.pages)
      /\ Len(b.pages) >= 1
  <2>1. blocks \in Seq(Leaf) /\ Keyed(Leaf)
    BY LeavesKeyed, SeqWider
  <2> QED BY <1>4, <1>5, <2>1, TreeLaid
<1>7. PICK gs : gs = n.pages \o b.pages
  OBVIOUS
<1>8. PICK ln, lb \in Nat : ln = Len(n.pages) /\ lb = Len(b.pages) /\ ln >= 1 /\ lb >= 1
  BY <1>4, <1>6
<1>18. ln >= 1 /\ lb >= 1
  BY <1>8, Zenon
<1>9. gs \in Seq(PageOver(Leaf)) /\ Len(gs) = ln + lb
  BY <1>4, <1>6, <1>7, <1>8
<1>10. PICK mid, y \in Nat : mid = n.cur.next /\ y = b.cur.next
  BY <1>4, <1>6 DEF Cursors
<1>11. n.cur.bid = 4 * k + 4 * ln /\ b.cur.bid = 4 * k + 4 * (ln + lb)
  <2>1. n.cur.bid = 4 * k + 4 * ln
    BY <1>2, <1>4, <1>8
  <2>2. b.cur.bid = (4 * k + 4 * ln) + 4 * lb
    BY <1>6, <1>8, <2>1
  <2>3. (4 * k + 4 * ln) + 4 * lb = 4 * k + 4 * (ln + lb)
    OBVIOUS
  <2> QED BY <2>1, <2>2, <2>3
<1>12. PagesLaid(gs, x, y, 4 * k)
  <2>1. PagesLaid(n.pages, x, mid, 4 * k)
    BY <1>2, <1>4, <1>10
  <2>2. PagesLaid(b.pages, mid, y, 4 * k + 4 * Len(n.pages))
    BY <1>6, <1>8, <1>10, <1>11
  <2>3. 4 * k \in Nat
    OBVIOUS
  <2> QED BY <1>4, <1>6, <1>7, <2>1, <2>2, <2>3, LaidJoin
<1>13. p = [pages |-> gs,
            header |-> [eof |-> AlignUp(Last(gs).at + PAGE, BLOCK_ALIGN),
                        NBT |-> [at |-> n.root.at, bid |-> n.root.bid],
                        BBT |-> [at |-> b.root.at, bid |-> b.root.bid],
                        bidNext |-> b.cur.bid],
            missing |-> ESSENTIAL \ {e.key : e \in ToSet(nodes)}]
  BY <1>1, <1>3, <1>5, <1>7 DEF PlanFor
<1>14. AlignUp(Last(gs).at + PAGE, BLOCK_ALIGN) \in Nat \ {0}
  <2>1. Len(gs) \in 1 .. Len(gs) /\ Last(gs) = gs[Len(gs)]
    <3>1. Len(gs) \in Nat /\ Len(gs) >= 1
      <4>1. PICK c \in Nat : c = ln + lb /\ c >= 1
        <5>1. ln + lb \in Nat /\ ln + lb >= 1
          BY <1>18
        <5> QED BY <5>1
      <4> QED BY <1>9, <4>1
    <3>2. Last(gs) = gs[Len(gs)]
      BY DEF Last
    <3> QED BY <3>1, <3>2
  <2>2. gs[Len(gs)] \in PageOver(Leaf)
    BY <1>9, <2>1
  <2>3. PICK a \in Nat : a = Last(gs).at
    BY <2>1, <2>2 DEF PageOver
  <2>4. PAGE \in Nat \ {0} /\ BLOCK_ALIGN \in Nat \ {0}
    BY LayoutAssumption
  <2>5. a + PAGE \in Nat /\ a + PAGE >= 1
    BY <2>4
  <2>6. PICK z : z = AlignUp(a + PAGE, BLOCK_ALIGN)
    OBVIOUS
  <2>7. z \in Nat /\ a + PAGE <= z
    BY <2>4, <2>5, <2>6, AlignUpIsLeast
  <2>8. z # 0
    BY <2>4, <2>5, <2>7
  <2> QED BY <2>3, <2>6, <2>7, <2>8
<1>15. b.cur.bid = 4 * k + 4 * Len(gs) /\ Len(gs) >= 1
  <2>1. PICK c \in Nat : c = ln + lb /\ c >= 1
    <3>1. ln + lb \in Nat /\ ln + lb >= 1
      BY <1>18
    <3> QED BY <3>1
  <2>2. Len(gs) = c /\ b.cur.bid = 4 * k + 4 * c
    BY <1>9, <1>11, <2>1
  <2> QED BY <2>1, <2>2
<1>16. /\ p.pages = gs /\ p.header.NBT = [at |-> n.root.at, bid |-> n.root.bid]
       /\ p.header.BBT = [at |-> b.root.at, bid |-> b.root.bid]
       /\ p.header.bidNext = b.cur.bid /\ p.header.eof = AlignUp(Last(gs).at + PAGE, BLOCK_ALIGN)
       /\ p.missing = ESSENTIAL \ {e.key : e \in ToSet(nodes)}
  BY <1>13
<1>17. LayoutOver(p, nodes, blocks, x, k, n, b, y)
  <2>1. [next |-> x, bid |-> 4 * k] \in Cursors /\ n = BuildTree(nodes, "NBT", [next |-> x, bid |-> 4 * k])
    BY <1>1, <1>2, <1>3
  <2> QED BY <1>4, <1>5, <1>6, <1>7, <1>9, <1>12, <1>14, <1>15, <1>16, <2>1, Zenon DEF LayoutOver
<1> QED BY <1>17, <1>10

-----------------------------------------------------------------------------
(* FileInv, action by action. *)

\* It holds at first.
LEMMA FileInit == Init => FileInv
<1> SUFFICES ASSUME Init PROVE FileInv
  OBVIOUS
<1>1. Source(src) /\ src \in SOURCES
  BY SourcesAre DEF Init
<1>2. PICK f \in Nat : f = First
  BY <1>1, FirstIs DEF First
<1>3. next = f
  BY <1>2 DEF Init, First
<1>4. BlocksOut
  <2>1. bbt = <<>> /\ out = <<>> /\ nbt = <<>> /\ pos = 0 /\ end = 0
    BY DEF Init
  <2>2. <<>> \in Seq(BLeaf) /\ <<>> \in Seq(OutPiece) /\ <<>> \in Seq(NLeaf)
    OBVIOUS
  <2>3. \A j \in 1 .. 0 : BlockAt(out[j], bbt[j], First + j - 1)
    OBVIOUS
  <2> QED BY <1>2, <1>3, <2>1, <2>2, <2>3 DEF BlocksOut
<1> QED BY <1>1, <1>2, <1>3, <1>4 DEF Init, FileInv, Live, LaidOut

\* An error changes nothing of the file.
LEMMA FileFails ==
  ASSUME FileInv, pc' \in {"failed", "panicked"}, header = NoHeader,
         UNCHANGED <<src, i, job, base, writer, nbt, named, divided, plan, flushed, header>>
  PROVE  FileInv'
<1>1. First' = First
  BY DEF First
<1> QED BY <1>1 DEF FileInv, Live, LaidOut, writer

\* The first place behind the header is an offset, and not zero.
LEMMA FirstFreeIs == FirstFree \in Nat \ {0}
<1>1. AMAP_FIRST \in Nat /\ AMAP_FIRST # 0 /\ MAP_SLOTS \in Nat /\ PAGE \in Nat
  BY LayoutAssumption, ConvertAssumption
<1>2. PICK m \in Nat : m = MAP_SLOTS * PAGE
  BY <1>1
<1> QED BY <1>1, <1>2 DEF FirstFree

\* Out::create writes nothing but the gap for the header.
LEMMA FileCreates ==
  ASSUME FileInv, Create
  PROVE  FileInv'
<1>1. CASE Fail
  BY <1>1, FileFails DEF Create, Fail, FileInv
<1>2. CASE ~ Fail
  <2>1. /\ pc = "create" /\ pc' = "nodes" /\ pos' = FirstFree /\ end' = FirstFree
        /\ UNCHANGED <<src, i, job, base, out, next, broken, bbt, nbt, named, divided,
                       plan, flushed, header>>
    BY <1>2 DEF Create
  <2>2. First' = First
    BY <2>1 DEF First
  <2>3. FirstFree \in Nat \ {0}
    BY FirstFreeIs
  <2>4. job = NoJob
    BY <2>1 DEF FileInv, Live
  <2>5. BlocksOut'
    <3>1. BlocksOut
      BY <2>1 DEF FileInv, Live
    <3> QED BY <2>1, <2>2, <3>1 DEF BlocksOut
  <2> QED BY <2>1, <2>2, <2>3, <2>4, <2>5 DEF FileInv, Live, LaidOut
<1> QED BY <1>1, <1>2

\* The node after those dealt with.
LEMMA NodeAhead ==
  ASSUME FileInv, i < Len(src.nodes)
  PROVE  /\ Source(src) /\ i + 1 \in 1 .. Len(Kept) /\ Len(Kept) = Len(src.nodes)
         /\ Kept[i + 1] \in Node(src)
<1>1. Source(src)
  BY SourcesAre DEF FileInv
<1>2. Kept \in Seq(Node(src)) /\ Len(Kept) = Len(src.nodes)
  BY <1>1, KeptIs DEF Kept
<1>3. i \in Nat
  BY DEF FileInv
<1> QED BY <1>1, <1>2, <1>3

\* Taking up a node plans it and writes nothing.
LEMMA FileBegins ==
  ASSUME FileInv, Begin
  PROVE  FileInv'
<1>1. /\ pc = "nodes" /\ i < Len(src.nodes) /\ job' = PlanOf(src, Kept[i + 1])
      /\ base' = next
      /\ UNCHANGED <<pc, src, i, out, end, pos, next, broken, bbt, nbt, named, plan, flushed, header>>
  BY DEF Begin, Kept, writer
<1>2. First' = First /\ Kept' = Kept
  BY <1>1 DEF First, Kept
<1>3. PICK task : task = PlanOf(src, Kept[i + 1])
  OBVIOUS
<1>4. task \in Jobs
  BY <1>1, <1>3, NodeAhead, PlanOfIs
<1>5. Len(task.blocks) \in Nat
  BY <1>4 DEF Jobs
<1>6. InHand'
  <2>1. next \in Nat /\ First <= next
    BY DEF FileInv
  <2>2. next - next <= Len(task.blocks) /\ next <= next
    BY <1>5, <2>1
  <2> QED BY <1>1, <1>2, <1>3, <2>1, <2>2 DEF InHand
<1>7. ~ broken => BlocksOut'
  <2>1. ~ broken => BlocksOut
    BY <1>1 DEF FileInv, Live
  <2> QED BY <1>1, <1>2, <2>1 DEF BlocksOut
<1> QED BY <1>1, <1>2, <1>6, <1>7 DEF FileInv, Live, LaidOut

\* The node in hand, and the block of it that comes next.
LEMMA TaskIs ==
  ASSUME FileInv, pc = "nodes", job # NoJob
  PROVE  /\ Source(src) /\ Kept[i + 1] \in Node(src) /\ job = PlanOf(src, Kept[i + 1])
         /\ job \in Jobs /\ i < Len(src.nodes) /\ i + 1 \in 1 .. Len(Kept)
         /\ base \in Nat /\ First \in Nat \ {0} /\ First <= base
         /\ Written \in Nat /\ next = base + Written /\ Written <= Len(job.blocks)
         /\ Written < Len(job.blocks) =>
              /\ job.blocks[Written + 1] \in Piece
              /\ Fits(BlockSpan(Bytes(job.blocks[Written + 1])))
              /\ Bytes(job.blocks[Written + 1]) \in Nat
<1>1. InHand /\ next \in Nat
  BY DEF FileInv, Live
<1>2. /\ Source(src) /\ Kept[i + 1] \in Node(src) /\ job = PlanOf(src, Kept[i + 1])
      /\ i < Len(src.nodes) /\ i + 1 \in 1 .. Len(Kept)
  BY <1>1, NodeAhead DEF InHand
<1>3. job \in Jobs
  BY <1>2, PlanOfIs
<1>4. base \in Nat /\ First <= base /\ base <= next /\ next - base <= Len(job.blocks)
  BY <1>1 DEF InHand
<1>5. First \in Nat \ {0}
  BY <1>2, FirstIs DEF First
<1>6. PICK w : w = next - base
  OBVIOUS
<1>7. w \in Nat /\ next = base + w /\ w <= Len(job.blocks)
  BY <1>1, <1>4, <1>6
<1>8. ASSUME w < Len(job.blocks)
      PROVE  /\ job.blocks[w + 1] \in Piece /\ Fits(BlockSpan(Bytes(job.blocks[w + 1])))
             /\ Bytes(job.blocks[w + 1]) \in Nat
  <2>1. job.blocks \in Seq(Piece)
    BY <1>3 DEF Jobs
  <2>2. job.blocks[w + 1] \in Piece
    BY <1>7, <1>8, <2>1
  <2>3. PICK z \in Piece : z = job.blocks[w + 1]
    BY <2>2
  <2>4. Small(z) /\ z.bytes \in Seq(Nat) /\ z.ents \in Seq(Ent)
    BY DEF Piece
  <2>5. Fits(BlockSpan(Bytes(z)))
    BY <2>4 DEF Small
  <2>6. Bytes(z) \in Nat
    <3>1. PICK m \in Nat : m = Len(z.bytes)
      BY <2>4
    <3>2. PICK k \in Nat : k = Len(z.ents)
      BY <2>4
    <3>3. Bytes(z) = m + k
      BY <3>1, <3>2 DEF Bytes
    <3> QED BY <3>3
  <2> QED BY <2>3, <2>5, <2>6
<1> QED BY <1>2, <1>3, <1>4, <1>5, <1>6, <1>7, <1>8 DEF Written

\* The next block goes on the file and into the block tree.
LEMMA FileGrows ==
  ASSUME FileInv, ~ RECOVERS, WriteBlock
  PROVE  FileInv'
<1>1. pc = "nodes" /\ job # NoJob /\ Written < Len(job.blocks) /\ ~ broken
  BY DEF WriteBlock, WriteOk
<1>2. PICK w : w = Written
  OBVIOUS
<1>3. PICK b : b = job.blocks[w + 1]
  OBVIOUS
<1>4. /\ b \in Piece /\ Fits(BlockSpan(Bytes(b))) /\ Bytes(b) \in Nat
      /\ base \in Nat /\ First \in Nat \ {0} /\ First <= base
      /\ w \in Nat /\ next = base + w /\ w < Len(job.blocks) /\ i < Len(src.nodes)
      /\ job = PlanOf(src, Kept[i + 1]) /\ job \in Jobs
  BY <1>1, <1>2, <1>3, TaskIs
<1>5. PICK span : span = BlockSpan(Bytes(b))
  OBVIOUS
<1>6. span \in Nat \ {0}
  BY <1>4, <1>5 DEF Fits
<1>7. BlocksOut /\ pos \in Nat /\ next \in Nat
  BY <1>1 DEF FileInv, Live
<1>8. PICK at : at = PlaceAligned(pos, span, BLOCK_ALIGN)
  OBVIOUS
<1>9. at \in Nat /\ pos <= at
  BY <1>4, <1>5, <1>7, <1>8, Alignments, PlaceAlignedIs
<1>10. PICK s : s = [kind |-> "block", at |-> end + (at - pos), bid |-> Id(next, b),
                     block |-> Resolved(base, job.blocks, b)]
  OBVIOUS
<1>11. PICK e : e = [key |-> Id(next, b), at |-> at, cb |-> Bytes(b), cref |-> 2]
  OBVIOUS
<1>12. /\ out' = Append(out, s) /\ bbt' = Append(bbt, e)
       /\ end' = end + (at - pos) + span /\ pos' = at + span /\ next' = next + 1
       /\ UNCHANGED <<pc, src, i, job, base, broken, nbt, named, divided, plan, flushed, header>>
  BY <1>2, <1>3, <1>5, <1>8, <1>10, <1>11 DEF WriteBlock
<1>13. First' = First /\ Kept' = Kept
  BY <1>12 DEF First, Kept
<1>14. pos = end /\ end + (at - pos) = at
  BY <1>7, <1>9 DEF BlocksOut
<1>15. PICK c : c = Resolved(base, job.blocks, b)
  OBVIOUS
<1>16. c \in Piece /\ c.kind = b.kind /\ Bytes(c) = Bytes(b)
  BY <1>4, <1>15, ResolvedTyped
<1>17. Id(next, b) \in Nat
  BY <1>7, IdRange
<1>18. s = [kind |-> "block", at |-> at, bid |-> Id(next, b), block |-> c]
  BY <1>10, <1>14, <1>15
<1>19. s \in OutPiece /\ e \in BLeaf /\ BlockAt(s, e, next)
  <2>1. Id(next, c) = Id(next, b)
    BY <1>16 DEF Id
  <2> QED BY <1>4, <1>9, <1>11, <1>16, <1>17, <1>18, <2>1 DEF OutPiece, BLeaf, BlockAt
<1>20. PICK L \in Nat : L = Len(bbt) /\ Len(out) = L
  BY <1>1, <1>7 DEF BlocksOut
<1>21. BlocksOut'
  <2>1. out' \in Seq(OutPiece) /\ bbt' \in Seq(BLeaf) /\ Len(out') = L + 1 /\ Len(bbt') = L + 1
    BY <1>7, <1>12, <1>19, <1>20 DEF BlocksOut
  <2>2. pos' = end'
    BY <1>12, <1>14
  <2>3. next = First + L
    BY <1>7, <1>20 DEF BlocksOut
  <2>4. next' = First + (L + 1)
    BY <1>4, <1>12, <2>3
  <2>5. ASSUME NEW j \in 1 .. L + 1 PROVE BlockAt(out'[j], bbt'[j], First + j - 1)
    <3>1. CASE j = L + 1
      <4>1. out'[j] = s /\ bbt'[j] = e
        BY <1>7, <1>12, <1>20, <3>1 DEF BlocksOut
      <4>2. First + j - 1 = next
        BY <1>4, <2>3, <3>1
      <4> QED BY <1>19, <4>1, <4>2
    <3>2. CASE j # L + 1
      <4>1. j \in 1 .. L
        BY <3>2
      <4>2. out'[j] = out[j] /\ bbt'[j] = bbt[j]
        BY <1>7, <1>12, <1>20, <4>1 DEF BlocksOut
      <4>3. BlockAt(out[j], bbt[j], First + j - 1)
        BY <1>7, <1>20, <4>1 DEF BlocksOut
      <4> QED BY <4>2, <4>3
    <3> QED BY <3>1, <3>2
  <2>6. \A j \in 1 .. Len(bbt') : BlockAt(out'[j], bbt'[j], First' + j - 1)
    BY <1>13, <2>1, <2>5
  <2>7. nbt' \in Seq(NLeaf)
    BY <1>7, <1>12 DEF BlocksOut
  <2>8. Len(bbt') <= Len(out') /\ Len(out') = Len(bbt') /\ next' = First' + Len(bbt')
    BY <1>13, <2>1, <2>4
  <2> QED BY <2>1, <2>2, <2>6, <2>7, <2>8 DEF BlocksOut, BlockAt
<1>22. InHand'
  <2>1. next' - base' = w + 1 /\ w + 1 <= Len(job.blocks) /\ base' <= next'
    <3>1. Len(job.blocks) \in Nat
      BY <1>4 DEF Jobs
    <3> QED BY <1>4, <1>12, <3>1
  <2> QED BY <1>4, <1>12, <1>13, <2>1 DEF InHand
<1>23. pos' \in Nat \ {0} /\ next' \in Nat /\ First' <= next'
  BY <1>4, <1>6, <1>7, <1>9, <1>12, <1>13
<1>24. pc' = "nodes" /\ src' \in SOURCES /\ i' \in Nat /\ header' = NoHeader
  BY <1>1, <1>12 DEF FileInv
<1> QED BY <1>21, <1>22, <1>23, <1>24 DEF FileInv, Live, LaidOut

\* A block that cannot be written ends the run with the file cut short.
LEMMA FileBreaks ==
  ASSUME FileInv, ~ RECOVERS, WriteFails
  PROVE  FileInv'
<1>1. pc = "nodes" /\ job # NoJob /\ Written < Len(job.blocks)
  BY DEF WriteFails
<1>2. PICK w : w = Written
  OBVIOUS
<1>3. PICK b : b = job.blocks[w + 1]
  OBVIOUS
<1>4. Fits(BlockSpan(Bytes(b))) /\ First \in Nat /\ i < Len(src.nodes)
  BY <1>1, <1>2, <1>3, TaskIs
<1>5. PICK at : at = PlaceAligned(pos, BlockSpan(Bytes(b)), BLOCK_ALIGN)
  OBVIOUS
<1>6. pos \in Nat /\ pos # 0 /\ next \in Nat /\ First <= next /\ i \in Nat /\ header = NoHeader
      /\ src \in SOURCES
  BY <1>1 DEF FileInv, Live
<1>7. at \in Nat /\ pos <= at
  BY <1>4, <1>5, <1>6, Alignments, PlaceAlignedIs
<1>8. /\ pos' = at /\ next' = next + 1 /\ broken' = TRUE /\ i' = i + 1 /\ job' = NoJob
      /\ pc' = pc /\ src' = src /\ header' = header
  BY <1>2, <1>3, <1>5 DEF WriteFails, LeaveOut
<1>9. First' = First
  BY <1>8 DEF First
<1>10. pos' \in Nat \ {0} /\ next' \in Nat /\ First' <= next' /\ i' \in Nat
  BY <1>4, <1>6, <1>7, <1>8, <1>9
<1> QED BY <1>1, <1>6, <1>8, <1>10 DEF FileInv, Live, LaidOut

\* Ending a node adds its entry or its name and writes nothing.
LEMMA FileEndsNode ==
  ASSUME FileInv, EndNode
  PROVE  FileInv'
<1>1. /\ pc = "nodes" /\ job # NoJob /\ i' = i + 1 /\ job' = NoJob
      /\ UNCHANGED <<pc, src, base, out, end, pos, next, broken, bbt, plan, flushed, header>>
  BY DEF EndNode, LeaveOut, writer
<1>2. PICK n : n = Kept[i + 1]
  OBVIOUS
<1>3. PICK e : e = [key |-> n.nid, data |-> IdOf(base, job.blocks, job.data),
                    sub |-> IdOf(base, job.blocks, job.sub), parent |-> n.parent]
  OBVIOUS
<1>4. nbt' = nbt \/ nbt' = Append(nbt, e)
  BY <1>2, <1>3 DEF EndNode, LeaveOut, Kept
<1>5. n \in Node(src) /\ job \in Jobs /\ base \in Nat
  BY <1>1, <1>2, TaskIs
<1>6. e \in NLeaf
  <2>1. n.nid \in Nat /\ n.parent \in Nat /\ job.data \in Nat /\ job.sub \in Nat
    BY <1>5 DEF Node, Jobs
  <2>2. IdOf(base, job.blocks, job.data) \in Nat /\ IdOf(base, job.blocks, job.sub) \in Nat
    BY <1>5, <2>1, IdOfTyped
  <2> QED BY <1>3, <2>1, <2>2 DEF NLeaf
<1>7. First' = First
  BY <1>1 DEF First
<1>8. ~ broken => BlocksOut'
  <2> SUFFICES ASSUME ~ broken PROVE BlocksOut'
    OBVIOUS
  <2>1. BlocksOut
    BY <1>1 DEF FileInv, Live
  <2>2. nbt' \in Seq(NLeaf)
    <3>1. nbt \in Seq(NLeaf)
      BY <2>1 DEF BlocksOut
    <3> QED BY <1>4, <1>6, <3>1
  <2> QED BY <1>1, <1>7, <2>1, <2>2 DEF BlocksOut
<1>9. i' \in Nat
  BY <1>1 DEF FileInv
<1> QED BY <1>1, <1>7, <1>8, <1>9 DEF FileInv, Live, LaidOut

\* A file without entries for a tree ends the run before a page is written.
LEMMA FileHasNoTree ==
  ASSUME FileInv, NoTree
  PROVE  FileInv'
<1>1. pc = "nodes" /\ pc' \in {"failed", "panicked"}
      /\ UNCHANGED <<src, i, job, base, writer, nbt, named, divided, plan, flushed, header>>
  BY DEF NoTree
<1>2. header = NoHeader
  BY <1>1 DEF FileInv
<1> QED BY <1>1, <1>2, FileFails

\* Once every node is dealt with, both trees are laid out behind the blocks.
LEMMA FileLaysOut ==
  ASSUME FileInv, LayOut
  PROVE  FileInv'
<1>1. /\ pc = "nodes" /\ job = NoJob /\ nbt # <<>> /\ bbt # <<>>
      /\ plan' = PlanFor(nbt, bbt, pos, next)
      /\ pc' = "pages" /\ i' = 0
      /\ UNCHANGED <<src, job, base, out, end, pos, next, broken, bbt, nbt, named, divided,
                     flushed, header>>
  BY DEF LayOut, PlanFor, writer
<1>2. First' = First
  BY <1>1 DEF First
<1>3. ~ broken => BlocksOut' /\ PagesOut'
  <2> SUFFICES ASSUME ~ broken PROVE BlocksOut' /\ PagesOut'
    OBVIOUS
  <2>1. BlocksOut /\ pos \in Nat /\ next \in Nat
    BY <1>1 DEF FileInv, Live
  <2>2. BlocksOut'
    BY <1>1, <1>2, <2>1 DEF BlocksOut
  <2>3. PICK p : p = PlanFor(nbt, bbt, pos, next)
    OBVIOUS
  <2>4. p.pages \in Seq(PageOver(Leaf))
    <3>1. nbt \in Seq(NLeaf) /\ bbt \in Seq(BLeaf)
      BY <2>1 DEF BlocksOut
    <3>2. \E n, b : \E y \in Nat : LayoutOver(p, nbt, bbt, pos, next, n, b, y)
      BY <1>1, <2>1, <2>3, <3>1, PlanForIs
    <3> QED BY <3>2 DEF LayoutOver
  <2>5. Len(p.pages) \in Nat
    BY <2>4
  <2>6. \E x \in Nat : plan' = PlanFor(nbt', bbt', x, next')
    BY <1>1, <2>1 DEF PlanFor
  <2>7. Len(out') = Len(bbt')
    BY <1>1, <2>1 DEF BlocksOut
  <2>8. Len(bbt') \in Nat
    BY <1>1, <2>1 DEF BlocksOut
  <2>9. i' <= Len(plan'.pages) /\ Len(out') = Len(bbt') + i'
    BY <1>1, <2>3, <2>5, <2>7, <2>8
  <2>10. \A m \in 1 .. i' : FALSE
    BY <1>1
  <2> QED BY <1>1, <2>2, <2>6, <2>9, <2>10 DEF PagesOut
<1> QED BY <1>1, <1>2, <1>3 DEF FileInv, Live, LaidOut

\* One page of the layout.
LEMMA PageAhead ==
  ASSUME PagesOut, BlocksOut, First \in Nat, NEW m \in 1 .. Len(plan.pages)
  PROVE  plan.pages[m] \in PageOver(Leaf) /\ plan.pages[m].at \in Nat
         /\ plan.header.eof \in Nat \ {0} /\ Len(plan.pages) \in Nat
<1>1. PICK x \in Nat : plan = PlanFor(nbt, bbt, x, next)
  BY DEF PagesOut
<1>2. nbt \in Seq(NLeaf) /\ bbt \in Seq(BLeaf) /\ nbt # <<>> /\ bbt # <<>> /\ next \in Nat
  BY DEF PagesOut, BlocksOut
<1>3. PICK n, b : \E y \in Nat : LayoutOver(plan, nbt, bbt, x, next, n, b, y)
  BY <1>1, <1>2, PlanForIs
<1>4. plan.pages \in Seq(PageOver(Leaf)) /\ plan.header.eof \in Nat \ {0}
  BY <1>3 DEF LayoutOver
<1>5. plan.pages[m] \in PageOver(Leaf)
  BY <1>4
<1>6. plan.pages[m].at \in Nat
  BY <1>5 DEF PageOver
<1>7. Len(plan.pages) \in Nat
  BY <1>4
<1> QED BY <1>4, <1>5, <1>6, <1>7

\* There is a page.
LEMMA PagesThere ==
  ASSUME PagesOut, BlocksOut, First \in Nat
  PROVE  plan.header.eof \in Nat \ {0} /\ Len(plan.pages) \in Nat \ {0}
<1>1. PICK x \in Nat : plan = PlanFor(nbt, bbt, x, next)
  BY DEF PagesOut
<1>2. nbt \in Seq(NLeaf) /\ bbt \in Seq(BLeaf) /\ nbt # <<>> /\ bbt # <<>> /\ next \in Nat
  BY DEF PagesOut, BlocksOut
<1>3. PICK n, b : \E y \in Nat : LayoutOver(plan, nbt, bbt, x, next, n, b, y)
  BY <1>1, <1>2, PlanForIs
<1>4. plan.pages \in Seq(PageOver(Leaf)) /\ plan.header.eof \in Nat \ {0} /\ Len(plan.pages) >= 1
  BY <1>3 DEF LayoutOver
<1> QED BY <1>4

\* The run's source is one of the sources, and its first counter value is not zero.
LEMMA FirstInFile ==
  ASSUME FileInv
  PROVE  First \in Nat \ {0} /\ Source(src)
<1>1. Source(src)
  BY SourcesAre DEF FileInv
<1> QED BY <1>1, FirstIs DEF First

\* Each page is written where the layout puts it.
LEMMA FileWritesPage ==
  ASSUME FileInv, ~ RECOVERS, WritePage
  PROVE  FileInv'
<1>1. CASE Fail
  <2>1. header = NoHeader
    BY DEF WritePage, FileInv
  <2> QED BY <1>1, <2>1, FileFails DEF Fail
<1>2. CASE ~ Fail
  <2>1. pc = "pages" /\ i < Len(plan.pages) /\ ~ broken
    BY <1>2 DEF WritePage, WriteOk
  <2>2. PICK g : g = plan.pages[i + 1]
    OBVIOUS
  <2>3. /\ out' = Append(out, [kind |-> "page", at |-> end + (g.at - pos), page |-> g])
        /\ end' = end + (g.at - pos) + PAGE /\ pos' = g.at + PAGE /\ i' = i + 1
        /\ UNCHANGED <<pc, src, job, base, next, broken, bbt, nbt, named, divided, plan,
                       flushed, header>>
    BY <1>2, <2>2 DEF WritePage
  <2>4. BlocksOut /\ PagesOut /\ First \in Nat /\ pos \in Nat /\ i \in Nat
    BY <2>1, FirstInFile DEF FileInv, Live, LaidOut
  <2>5. i + 1 \in 1 .. Len(plan.pages) /\ Len(plan.pages) \in Nat
    BY <2>1, <2>4, PagesThere
  <2>6. g \in PageOver(Leaf) /\ g.at \in Nat
    BY <2>2, <2>4, <2>5, PageAhead
  <2>7. end + (g.at - pos) = g.at /\ end + (g.at - pos) + PAGE = g.at + PAGE
        /\ g.at + PAGE \in Nat \ {0}
    BY <2>4, <2>6, LayoutAssumption DEF BlocksOut
  <2>8. PICK s : s = [kind |-> "page", at |-> g.at, page |-> g]
    OBVIOUS
  <2>9. out' = Append(out, s) /\ s \in OutPiece
    BY <2>3, <2>6, <2>7, <2>8 DEF OutPiece
  <2>10. First' = First
    BY <2>3 DEF First
  <2>11. PICK L \in Nat : L = Len(bbt) /\ Len(out) = L + i
    BY <2>4 DEF BlocksOut, PagesOut
  <2>12. /\ out' \in Seq(OutPiece) /\ Len(out') = L + (i + 1)
         /\ \A j \in 1 .. L + i : out'[j] = out[j]
         /\ out'[L + (i + 1)] = s
    <3>1. PICK o \in Seq(OutPiece), k \in Nat : o = out /\ k = L + i /\ Len(o) = k
      BY <2>4, <2>11 DEF BlocksOut
    <3>2. PICK o1 : o1 = Append(o, s)
      OBVIOUS
    <3>3. o1 \in Seq(OutPiece) /\ Len(o1) = k + 1 /\ o1[k + 1] = s /\ \A j \in 1 .. k : o1[j] = o[j]
      BY <2>9, <3>1, <3>2, SeqGrown
    <3>4. out' = o1 /\ k + 1 = L + (i + 1)
      BY <2>4, <2>9, <3>1, <3>2
    <3> QED BY <3>1, <3>3, <3>4
  <2>13. BlocksOut'
    <3>1. \A j \in 1 .. L : BlockAt(out'[j], bbt[j], First + j - 1)
      <4>1. \A j \in 1 .. L : out'[j] = out[j]
        BY <2>4, <2>11, <2>12
      <4> QED BY <2>4, <2>11, <4>1 DEF BlocksOut
    <3>2. \A j \in 1 .. Len(bbt') : BlockAt(out'[j], bbt'[j], First' + j - 1)
      BY <2>3, <2>10, <2>11, <3>1
    <3>3. pos' = end' /\ next' = First' + Len(bbt') /\ bbt' \in Seq(BLeaf) /\ nbt' \in Seq(NLeaf)
      BY <2>3, <2>4, <2>7, <2>10 DEF BlocksOut
    <3>4. Len(bbt') <= Len(out')
      BY <2>3, <2>4, <2>11, <2>12
    <3> QED BY <2>1, <2>3, <2>12, <3>2, <3>3, <3>4 DEF BlocksOut
  <2>14. PagesOut'
    <3>1. \E x \in Nat : plan' = PlanFor(nbt', bbt', x, next')
      BY <2>3, <2>4 DEF PagesOut, PlanFor
    <3>2. ASSUME NEW m \in 1 .. i + 1
          PROVE  out'[L + m] = [kind |-> "page", at |-> plan.pages[m].at, page |-> plan.pages[m]]
      <4>1. CASE m = i + 1
        <5>1. g = plan.pages[m]
          BY <2>2, <4>1
        <5>2. out'[L + m] = s
          <6>1. L + m = L + (i + 1)
            BY <4>1
          <6> QED BY <2>12, <6>1
        <5> QED BY <2>8, <5>1, <5>2
      <4>2. CASE m # i + 1
        <5>1. m \in 1 .. i /\ L + m \in 1 .. L + i
          BY <2>4, <2>11, <4>2
        <5>2. out'[L + m] = out[L + m]
          BY <2>12, <5>1
        <5>3. out[L + m] = [kind |-> "page", at |-> plan.pages[m].at, page |-> plan.pages[m]]
          BY <2>4, <2>11, <5>1 DEF PagesOut
        <5> QED BY <5>2, <5>3
      <4> QED BY <4>1, <4>2
    <3>3. i + 1 <= Len(plan.pages) /\ nbt # <<>> /\ bbt # <<>>
      BY <2>4, <2>5 DEF PagesOut
    <3> QED BY <2>3, <2>11, <2>12, <3>1, <3>2, <3>3 DEF PagesOut
  <2>15. pos' \in Nat \ {0} /\ i' \in Nat
    BY <2>3, <2>4, <2>7
  <2> QED BY <2>1, <2>3, <2>10, <2>13, <2>14, <2>15 DEF FileInv, Live, LaidOut
<1> QED BY <1>1, <1>2

\* The flush comes when every page is handed over.
LEMMA FileFlushes ==
  ASSUME FileInv, ~ RECOVERS, Flush
  PROVE  FileInv'
<1>1. CASE Fail
  <2>1. header = NoHeader
    BY DEF Flush, FileInv
  <2> QED BY <1>1, <2>1, FileFails DEF Fail
<1>2. CASE ~ Fail
  <2>1. /\ pc = "pages" /\ i = Len(plan.pages) /\ ~ broken
        /\ pos' = plan.header.eof /\ end' = end + (plan.header.eof - pos)
        /\ flushed' = Len(out) /\ pc' = "header"
        /\ UNCHANGED <<src, i, job, base, out, next, broken, bbt, nbt, named, divided,
                       plan, header>>
    BY <1>2 DEF Flush, WriteOk
  <2>2. BlocksOut /\ PagesOut /\ First \in Nat /\ pos \in Nat
    BY <2>1, FirstInFile DEF FileInv, Live, LaidOut
  <2>3. PICK z \in Nat \ {0} : z = plan.header.eof
    BY <2>2, PagesThere
  <2>4. pos' = z /\ end' = z
    BY <2>1, <2>2, <2>3 DEF BlocksOut
  <2>5. First' = First
    BY <2>1 DEF First
  <2>6. BlocksOut'
    BY <2>1, <2>2, <2>4, <2>5 DEF BlocksOut
  <2>7. PagesOut'
    BY <2>1, <2>2 DEF PagesOut, PlanFor
  <2> QED BY <2>1, <2>3, <2>4, <2>5, <2>6, <2>7 DEF FileInv, Live, LaidOut
<1> QED BY <1>1, <1>2

\* The header goes over the gap, last.
LEMMA FileGetsHeader ==
  ASSUME FileInv, WriteHeader
  PROVE  FileInv'
<1>1. CASE Fail
  <2>1. header = NoHeader
    BY DEF WriteHeader, FileInv
  <2> QED BY <1>1, <2>1, FileFails DEF Fail
<1>2. CASE ~ Fail
  <2>1. /\ pc = "header" /\ header' = plan.header /\ pc' = "done"
        /\ UNCHANGED <<src, i, job, base, out, end, pos, next, broken, bbt, nbt, named, divided,
                       plan, flushed>>
    BY <1>2 DEF WriteHeader, writer
  <2>2. BlocksOut /\ PagesOut
    BY <2>1 DEF FileInv, Live, LaidOut
  <2>3. First' = First
    BY <2>1 DEF First
  <2>4. BlocksOut'
    BY <2>1, <2>2, <2>3 DEF BlocksOut
  <2>5. PagesOut'
    BY <2>1, <2>2 DEF PagesOut, PlanFor
  <2> QED BY <2>1, <2>3, <2>4, <2>5 DEF FileInv, Live, LaidOut
<1> QED BY <1>1, <1>2

\* And so it always holds.
LEMMA FileStutters ==
  ASSUME FileInv, UNCHANGED vars
  PROVE  FileInv'
<1>1. UNCHANGED <<pc, src, i, job, base, out, end, pos, next, broken, bbt, nbt, named, divided,
                  plan, flushed, header>>
  BY DEF vars, writer
<1>2. First' = First /\ Kept' = Kept
  BY <1>1 DEF First, Kept
<1> QED BY <1>1, <1>2 DEF FileInv, InHand, BlocksOut, PagesOut, PlanFor

\* Every step of the conversion keeps the file's invariant.
LEMMA FileSteps ==
  ASSUME FileInv, ~ RECOVERS, [Next]_vars
  PROVE  FileInv'
<1>1. CASE UNCHANGED vars
  BY <1>1, FileStutters
<1>2. CASE Create
  BY <1>2, FileCreates
<1>3. CASE Begin
  BY <1>3, FileBegins
<1>4. CASE WriteBlock
  BY <1>4, FileGrows
<1>5. CASE WriteFails
  BY <1>5, FileBreaks
<1>6. CASE EndNode
  BY <1>6, FileEndsNode
<1>7. CASE NoTree
  BY <1>7, FileHasNoTree
<1>8. CASE LayOut
  BY <1>8, FileLaysOut
<1>9. CASE WritePage
  BY <1>9, FileWritesPage
<1>10. CASE Flush
  BY <1>10, FileFlushes
<1>11. CASE WriteHeader
  BY <1>11, FileGetsHeader
<1> QED BY <1>1, <1>2, <1>3, <1>4, <1>5, <1>6, <1>7, <1>8, <1>9, <1>10, <1>11 DEF Next

(* Where everything of the file is, and which of the plan's steps are done. *)
THEOREM ConvertFile == ASSUME ~ RECOVERS PROVE Spec => []FileInv
<1>1. Init => FileInv
  BY FileInit
<1>2. FileInv /\ [Next]_vars => FileInv'
  BY FileSteps
<1> QED BY <1>1, <1>2, PTL DEF Spec

-----------------------------------------------------------------------------
(* What the finished file holds. *)

\* The run is over and has succeeded.
Finished == FileInv /\ pc = "done"

\* The blocks and the pages on disk are those written.
LEMMA DiskIs ==
  ASSUME Finished
  PROVE  /\ BlocksOut /\ PagesOut /\ First \in Nat \ {0} /\ Source(src) /\ next \in Nat
         /\ Len(out) = Len(bbt) + Len(plan.pages)
         /\ Len(bbt) \in Nat \ {0} /\ Len(plan.pages) \in Nat \ {0}
         /\ OnDisk("block") = {out[j] : j \in 1 .. Len(bbt)}
         /\ Pages = ToSet(plan.pages)
<1>1. BlocksOut /\ PagesOut /\ i = Len(plan.pages) /\ flushed = Len(out) /\ next \in Nat
  BY DEF Finished, FileInv, Live, LaidOut
<1>2. First \in Nat \ {0} /\ Source(src)
  BY FirstInFile DEF Finished
<1>3. PICK G \in Nat \ {0} : G = Len(plan.pages)
  BY <1>1, <1>2, PagesThere
<1>4. PICK L \in Nat \ {0} : L = Len(bbt)
  <2>1. bbt \in Seq(BLeaf) /\ bbt # <<>>
    BY <1>1 DEF BlocksOut, PagesOut
  <2> QED BY <2>1
<1>5. Len(out) = L + G /\ out \in Seq(OutPiece)
  BY <1>1, <1>3, <1>4 DEF PagesOut, BlocksOut
<1>6. ToSet(SubSeq(out, 1, flushed)) = {out[j] : j \in 1 .. L + G}
  <2>1. SubSeq(out, 1, flushed) = out
    BY <1>1, <1>5
  <2>2. DOMAIN out = 1 .. L + G
    BY <1>5
  <2> QED BY <2>1, <2>2 DEF ToSet
<1>7. \A j \in 1 .. L : out[j].kind = "block"
  BY <1>1, <1>4 DEF BlocksOut, BlockAt
<1>8. \A m \in 1 .. G : out[L + m] = [kind |-> "page", at |-> plan.pages[m].at,
                                      page |-> plan.pages[m]]
  BY <1>1, <1>3, <1>4 DEF PagesOut
<1>17. \A m \in 1 .. G : /\ out[L + m].kind = "page" /\ out[L + m].at = plan.pages[m].at
                         /\ out[L + m].page = plan.pages[m]
  <2> TAKE m \in 1 .. G
  <2>1. PICK g : g = plan.pages[m]
    OBVIOUS
  <2>2. PICK x : x = g.at
    OBVIOUS
  <2>3. out[L + m] = [kind |-> "page", at |-> x, page |-> g]
    BY <1>8, <2>1, <2>2
  <2> QED BY <2>1, <2>2, <2>3
<1>9. \A j \in 1 .. L + G : j \in 1 .. L \/ \E m \in 1 .. G : j = L + m
  <2> TAKE j \in 1 .. L + G
  <2>1. j <= L \/ j - L \in 1 .. G
    OBVIOUS
  <2>2. j = L + (j - L)
    OBVIOUS
  <2> QED BY <2>1, <2>2
<1>10. (\A j \in 1 .. L : j \in 1 .. L + G) /\ (\A m \in 1 .. G : L + m \in 1 .. L + G)
  OBVIOUS
<1>11. OnDisk("block") = {out[j] : j \in 1 .. L}
  <2>1. \A m \in 1 .. G : out[L + m].kind # "block"
    BY <1>17
  <2>2. ASSUME NEW s \in OnDisk("block") PROVE \E j \in 1 .. L : s = out[j]
    <3>1. s.kind = "block" /\ \E j \in 1 .. L + G : s = out[j]
      BY <1>6 DEF OnDisk
    <3> QED BY <1>9, <2>1, <3>1, Zenon
  <2>3. ASSUME NEW j \in 1 .. L PROVE out[j] \in OnDisk("block")
    <3>1. out[j] \in {out[k] : k \in 1 .. L + G}
      BY <1>10
    <3> QED BY <1>6, <1>7, <3>1 DEF OnDisk
  <2> QED BY <2>2, <2>3
<1>12. OnDisk("page") = {out[L + m] : m \in 1 .. G}
  <2>1. \A j \in 1 .. L : out[j].kind # "page"
    BY <1>7
  <2>2. ASSUME NEW s \in OnDisk("page") PROVE \E m \in 1 .. G : s = out[L + m]
    <3>1. s.kind = "page" /\ \E j \in 1 .. L + G : s = out[j]
      BY <1>6 DEF OnDisk
    <3> QED BY <1>9, <2>1, <3>1, Zenon
  <2>3. ASSUME NEW m \in 1 .. G PROVE out[L + m] \in OnDisk("page")
    <3>1. out[L + m] \in {out[k] : k \in 1 .. L + G}
      BY <1>10
    <3> QED BY <1>6, <1>17, <3>1 DEF OnDisk
  <2> QED BY <2>2, <2>3
<1>13. ToSet(plan.pages) = {plan.pages[m] : m \in 1 .. G}
  <2>1. \E x \in Nat : plan = PlanFor(nbt, bbt, x, next)
    BY <1>1 DEF PagesOut
  <2>2. plan.pages \in Seq(PageOver(Leaf))
    <3>1. PICK x \in Nat : plan = PlanFor(nbt, bbt, x, next)
      BY <2>1
    <3>2. nbt \in Seq(NLeaf) /\ bbt \in Seq(BLeaf) /\ nbt # <<>> /\ bbt # <<>>
      BY <1>1 DEF BlocksOut, PagesOut
    <3>3. PICK n, b : \E y \in Nat : LayoutOver(plan, nbt, bbt, x, next, n, b, y)
      BY <1>1, <3>1, <3>2, PlanForIs
    <3> QED BY <3>3 DEF LayoutOver
  <2>3. DOMAIN plan.pages = 1 .. G
    BY <1>3, <2>2
  <2> QED BY <2>3 DEF ToSet
<1>14. Pages = {plan.pages[m] : m \in 1 .. G}
  <2>1. ASSUME NEW g \in Pages PROVE \E m \in 1 .. G : g = plan.pages[m]
    <3>1. PICK s \in OnDisk("page") : g = s.page
      BY DEF Pages
    <3>2. PICK m \in 1 .. G : s = out[L + m]
      BY <1>12, <3>1
    <3> QED BY <1>17, <3>1, <3>2
  <2>2. ASSUME NEW m \in 1 .. G PROVE plan.pages[m] \in Pages
    <3>1. PICK s \in OnDisk("page") : s = out[L + m]
      BY <1>12
    <3>2. s.page = plan.pages[m] /\ s.at = s.page.at
      BY <1>17, <3>1
    <3> QED BY <3>1, <3>2 DEF Pages
  <2> QED BY <2>1, <2>2
<1> QED BY <1>1, <1>2, <1>3, <1>4, <1>5, <1>11, <1>13, <1>14

\* The layout of the finished file.
LEMMA TreesThere ==
  ASSUME Finished
  PROVE  \E n, b : \E x, y \in Nat : LayoutOver(plan, nbt, bbt, x, next, n, b, y)
<1>1. BlocksOut /\ PagesOut /\ next \in Nat
  BY DiskIs
<1>2. PICK x \in Nat : plan = PlanFor(nbt, bbt, x, next)
  BY <1>1 DEF PagesOut
<1>3. nbt \in Seq(NLeaf) /\ bbt \in Seq(BLeaf) /\ nbt # <<>> /\ bbt # <<>>
  BY <1>1 DEF PagesOut, BlocksOut
<1>4. \E n, b : \E y \in Nat : LayoutOver(plan, nbt, bbt, x, next, n, b, y)
  BY <1>1, <1>2, <1>3, PlanForIs
<1> QED BY <1>4

\* The ids of blocks go up with their places.
LEMMA BlockIdsGrow ==
  ASSUME BlocksOut, First \in Nat
  PROVE  /\ \A j \in 1 .. Len(bbt) : /\ out[j].bid \in Nat /\ bbt[j].key = out[j].bid
                                     /\ 4 * First <= out[j].bid /\ out[j].bid < 4 * next
         /\ \A j, k \in 1 .. Len(bbt) : j < k => out[j].bid < out[k].bid
         /\ Ascending(bbt)
<1>1. PICK f, L \in Nat : f = First /\ L = Len(bbt)
  BY DEF BlocksOut
<1>2. next = f + L
  BY <1>1 DEF BlocksOut
<1>3. \A j \in 1 .. L : /\ out[j].bid = bbt[j].key /\ out[j].bid = Id(f + j - 1, out[j].block)
  BY <1>1 DEF BlocksOut, BlockAt
<1>4. \A j \in 1 .. L : /\ out[j].bid \in Nat /\ 4 * (f + j - 1) <= out[j].bid
                        /\ out[j].bid < 4 * (f + j - 1) + 4
  <2> TAKE j \in 1 .. L
  <2>1. PICK k \in Nat : k = f + j - 1
    BY <1>1
  <2>2. out[j].bid = Id(k, out[j].block)
    BY <1>3, <2>1
  <2> QED BY <2>1, <2>2, IdRange
<1>5. ASSUME NEW j \in 1 .. L PROVE 4 * f <= out[j].bid /\ out[j].bid < 4 * next
  <2>1. PICK x \in Nat : x = out[j].bid /\ 4 * (f + j - 1) <= x /\ x < 4 * (f + j - 1) + 4
    BY <1>4
  <2>2. 4 * f <= x /\ x < 4 * (f + L)
    BY <2>1
  <2> QED BY <1>2, <2>1, <2>2
<1>6. ASSUME NEW j \in 1 .. L, NEW k \in 1 .. L, j < k PROVE out[j].bid < out[k].bid
  <2>1. PICK x \in Nat : x = out[j].bid /\ 4 * (f + j - 1) <= x /\ x < 4 * (f + j - 1) + 4
    BY <1>4
  <2>2. PICK y \in Nat : y = out[k].bid /\ 4 * (f + k - 1) <= y /\ y < 4 * (f + k - 1) + 4
    BY <1>4
  <2>3. x < y
    BY <1>6, <2>1, <2>2
  <2> QED BY <2>1, <2>2, <2>3
<1>7. Ascending(bbt)
  BY <1>1, <1>3, <1>6 DEF Ascending
<1> QED BY <1>1, <1>3, <1>4, <1>5, <1>6, <1>7

\* A finished file has one structure to an id.
LEMMA IdsApart ==
  ASSUME Finished
  PROVE  LET blocks == {s.bid : s \in OnDisk("block")}
             pages == {g.bid : g \in Pages}
             was == UNION {{n.data, n.sub} : n \in ToSet(src.nodes)}
         IN  /\ Cardinality(blocks) + Cardinality(pages) = Len(out)
             /\ blocks \intersect pages = {}
             /\ \A x \in blocks \union pages : x < header.bidNext /\ \A y \in was : y < x
<1> DEFINE blocks == {s.bid : s \in OnDisk("block")}
           pages == {g.bid : g \in Pages}
           was == UNION {{n.data, n.sub} : n \in ToSet(src.nodes)}
<1>1. PICK L, G, f, nx \in Nat : L = Len(bbt) /\ G = Len(plan.pages) /\ f = First /\ nx = next
  BY DiskIs
<1>2. BlocksOut /\ Source(src) /\ Len(out) = L + G
      /\ OnDisk("block") = {out[j] : j \in 1 .. L} /\ Pages = ToSet(plan.pages)
  BY <1>1, DiskIs
<1>3. /\ \A j \in 1 .. L : /\ out[j].bid \in Nat
                           /\ 4 * f <= out[j].bid /\ out[j].bid < 4 * nx
      /\ \A j, k \in 1 .. L : j < k => out[j].bid < out[k].bid
  BY <1>1, <1>2, BlockIdsGrow
<1>4. PICK n, b, x, y : LayoutOver(plan, nbt, bbt, x, next, n, b, y)
  BY TreesThere
<1>5. /\ plan.pages \in Seq(PageOver(Leaf)) /\ PagesLaid(plan.pages, x, y, 4 * nx)
      /\ plan.header.bidNext = 4 * nx + 4 * G
  BY <1>1, <1>4 DEF LayoutOver
<1>6. \A m \in 1 .. G : plan.pages[m].bid = 4 * nx + 4 * (m - 1)
  BY <1>1, <1>5 DEF PagesLaid
<1>7. Pages = {plan.pages[m] : m \in 1 .. G}
  BY <1>1, <1>2, <1>5 DEF ToSet
<1>8. Cardinality(blocks) = L
  <2>1. PICK g : g = [j \in 1 .. L |-> out[j].bid]
    OBVIOUS
  <2>2. \A j, k \in 1 .. L : j # k => g[j] # g[k]
    <3>1. ASSUME NEW j \in 1 .. L, NEW k \in 1 .. L, j < k PROVE g[j] # g[k]
      <4>1. PICK p, q \in Nat : p = out[j].bid /\ q = out[k].bid
        BY <1>3
      <4>2. p < q
        BY <1>3, <3>1, <4>1
      <4>3. p # q
        BY <4>2
      <4> QED BY <2>1, <4>1, <4>3
    <3>2. \A j, k \in 1 .. L : j # k => j < k \/ k < j
      OBVIOUS
    <3> QED BY <3>1, <3>2
  <2>3. \A z \in blocks : \E k \in 1 .. L : z = g[k]
    BY <1>2, <2>1
  <2>4. \A k \in 1 .. L : g[k] \in blocks
    BY <1>2, <2>1
  <2> HIDE DEF blocks
  <2> QED BY <2>2, <2>3, <2>4, AllDiffer
<1>9. Cardinality(pages) = G
  <2>1. PICK g : g = [m \in 1 .. G |-> 4 * nx + 4 * (m - 1)]
    OBVIOUS
  <2>2. \A j, k \in 1 .. G : j # k => g[j] # g[k]
    BY <2>1
  <2>3. \A z \in pages : \E k \in 1 .. G : z = g[k]
    BY <1>6, <1>7, <2>1
  <2>4. \A k \in 1 .. G : g[k] \in pages
    BY <1>6, <1>7, <2>1
  <2> HIDE DEF pages
  <2> QED BY <2>2, <2>3, <2>4, AllDiffer
<1>10. \A z \in blocks : z \in Nat /\ 4 * f <= z /\ z < 4 * nx
  BY <1>2, <1>3
<1>11. f <= nx
  BY <1>1 DEF Finished, FileInv
<1>12. \A z \in pages : z \in Nat /\ 4 * nx <= z /\ z < 4 * nx + 4 * G
  <2>1. \A m \in 1 .. G : LET z == 4 * nx + 4 * (m - 1)
                          IN  z \in Nat /\ 4 * nx <= z /\ z < 4 * nx + 4 * G
    OBVIOUS
  <2> QED BY <1>6, <1>7, <2>1
<1>13. \A w \in was : w \in Nat /\ w < 4 * f
  <2>1. \A k \in ToSet(src.nodes) : k.data < 4 * f /\ k.sub < 4 * f
    BY <1>1, <1>2, FirstIs DEF First
  <2>2. \A k \in ToSet(src.nodes) : k.data \in Nat /\ k.sub \in Nat
    <3>1. \A k \in ToSet(src.nodes) : k \in Node(src)
      BY <1>2 DEF ToSet, Source
    <3> QED BY <1>2, <3>1 DEF Node, Source
  <2> QED BY <2>1, <2>2
<1> HIDE DEF blocks, pages, was
<1>14. blocks \intersect pages = {}
  BY <1>10, <1>12
<1>15. ASSUME NEW z \in blocks \union pages PROVE z < 4 * nx + 4 * G /\ \A w \in was : w < z
  <2>1. z \in Nat /\ 4 * f <= z /\ z < 4 * nx + 4 * G
    BY <1>10, <1>11, <1>12
  <2> QED BY <1>13, <2>1
<1>16. header.bidNext = 4 * nx + 4 * G
  BY <1>5 DEF Finished, FileInv
<1>17. Cardinality(blocks) + Cardinality(pages) = Len(out)
  BY <1>2, <1>8, <1>9
<1> QED BY <1>14, <1>15, <1>16, <1>17 DEF blocks, pages, was

(* No two structures of the file have one id, and none has the id of something
   a node of the source names: IdsFresh, for every source and every layout. *)
THEOREM ConvertIdsFresh == ASSUME ~ RECOVERS PROVE Spec => []IdsFresh
<1>1. FileInv => IdsFresh
  <2>1. FileInv /\ header # NoHeader => Finished
    BY DEF FileInv, Finished
  <2> QED BY <2>1, IdsApart DEF IdsFresh
<1> QED BY <1>1, ConvertFile, PTL

-----------------------------------------------------------------------------
(* NodesInv, action by action. *)

\* No two nodes of a source have one id.
Unique == \A s \in SOURCES : \A j, k \in DOMAIN s.nodes : s.nodes[j].nid = s.nodes[k].nid => j = k

\* The nodes in order are the nodes, and their ids go up.
LEMMA KeptGrow ==
  ASSUME Unique, src \in SOURCES
  PROVE  /\ \A j, k \in 1 .. Len(Kept) : j < k => Kept[j].nid < Kept[k].nid
         /\ \A n \in ToSet(src.nodes) : \E m \in 1 .. Len(src.nodes) : n = Kept[m]
         /\ \A m \in 1 .. Len(src.nodes) : Kept[m] \in ToSet(src.nodes)
<1>1. Source(src)
  BY SourcesAre
<1>2. PICK nodes \in Seq(Node(src)) : nodes = src.nodes
  BY <1>1 DEF Source
<1>3. PICK N \in Nat : N = Len(nodes)
  OBVIOUS
<1>4. PICK keys : keys = [k \in 1 .. N |-> nodes[k].nid]
  OBVIOUS
<1>5. PICK f : SortedFrom(Kept, nodes, keys, f)
  <2>1. \E f : SortedFrom(Kept, nodes, [k \in DOMAIN nodes |-> nodes[k].nid], f)
    BY <1>1, <1>2, KeptIs DEF Kept
  <2>2. DOMAIN nodes = 1 .. N
    BY <1>3
  <2> QED BY <1>4, <2>1, <2>2
<1>6. /\ Len(Kept) = N /\ f \in [1 .. N -> 1 .. N]
      /\ \A k \in 1 .. N : Kept[k] = nodes[f[k]]
      /\ \A j, k \in 1 .. N : j < k => keys[f[j]] <= keys[f[k]] /\ f[j] # f[k]
      /\ \A m \in 1 .. N : \E k \in 1 .. N : f[k] = m
  BY <1>3, <1>5 DEF SortedFrom
<1>7. \A j, k \in 1 .. N : nodes[j].nid = nodes[k].nid => j = k
  BY <1>2, <1>3 DEF Unique
<1>8. ASSUME NEW j \in 1 .. N, NEW k \in 1 .. N, j < k PROVE Kept[j].nid < Kept[k].nid
  <2>1. PICK a, b \in 1 .. N : a = f[j] /\ b = f[k]
    BY <1>6
  <2>2. a # b /\ keys[a] <= keys[b]
    BY <1>6, <1>8, <2>1
  <2>3. PICK p, q \in Nat : p = nodes[a].nid /\ q = nodes[b].nid
    <3>1. nodes[a] \in Node(src) /\ nodes[b] \in Node(src)
      BY <1>3
    <3> QED BY <3>1 DEF Node
  <2>4. p <= q /\ p # q
    BY <1>4, <1>7, <2>2, <2>3
  <2>5. Kept[j].nid = p /\ Kept[k].nid = q
    BY <1>6, <2>1, <2>3
  <2> QED BY <2>3, <2>4, <2>5
<1>9. ASSUME NEW n \in ToSet(src.nodes) PROVE \E m \in 1 .. N : n = Kept[m]
  <2>1. PICK a \in 1 .. N : n = nodes[a]
    BY <1>2, <1>3 DEF ToSet
  <2>2. PICK m \in 1 .. N : f[m] = a
    BY <1>6
  <2> QED BY <1>6, <2>1, <2>2
<1>10. ASSUME NEW m \in 1 .. N PROVE Kept[m] \in ToSet(src.nodes)
  <2>1. PICK a \in 1 .. N : a = f[m]
    BY <1>6
  <2>2. Kept[m] = nodes[a]
    BY <1>6, <2>1
  <2> QED BY <1>2, <1>3, <2>2 DEF ToSet
<1> QED BY <1>2, <1>3, <1>6, <1>8, <1>9, <1>10

\* What is written stays written.
OutGrows ==
  /\ src' = src /\ next' \in Nat /\ next <= next'
  /\ \A j \in 1 .. Len(out) : out'[j] = out[j]

\* Blocks already in the file stay as more is written behind them.
LEMMA StandsStays ==
  ASSUME BlocksOut, First \in Nat, OutGrows, NEW b, NEW blocks, NEW l \in Nat, Stands(b, blocks, l)
  PROVE  Stands(b, blocks, l)'
<1>1. PICK f, L \in Nat : f = First /\ L = Len(bbt) /\ next = f + L
  <2>1. Len(bbt) \in Nat /\ next = First + Len(bbt)
    BY DEF BlocksOut
  <2> QED BY <2>1
<1>2. PICK M \in Nat : M = Len(out) /\ L <= M
  BY <1>1 DEF BlocksOut
<1>3. First' = f
  BY <1>1 DEF OutGrows, First
<1>4. b \in Nat /\ f <= b /\ b + l <= next
  BY <1>1 DEF Stands
<1>5. ASSUME NEW j \in 1 .. l PROVE out'[b - f + j].block = Resolved(b, blocks, blocks[j])
  <2>1. PICK x : x = b - f + j
    OBVIOUS
  <2>2. x \in 1 .. M
    BY <1>1, <1>2, <1>4, <2>1
  <2>3. out'[x] = out[x]
    BY <1>2, <2>2 DEF OutGrows
  <2>4. out[x].block = Resolved(b, blocks, blocks[j])
    BY <1>1, <2>1 DEF Stands
  <2> QED BY <2>1, <2>3, <2>4
<1>6. b + l <= next'
  BY <1>1, <1>4 DEF OutGrows
<1> QED BY <1>3, <1>4, <1>5, <1>6 DEF Stands

\* And so a node dealt with stays dealt with, whatever is said of others.
LEMMA DealtStays ==
  ASSUME BlocksOut, First \in Nat, OutGrows, Source(src), NEW n \in Node(src), Dealt(n),
         n.nid \in named' <=> n.nid \in named,
         \A k \in 1 .. Len(nbt) : k \in 1 .. Len(nbt') /\ nbt'[k] = nbt[k],
         \A k \in 1 .. Len(nbt') : k \in 1 .. Len(nbt) \/ nbt'[k].key # n.nid
  PROVE  Dealt(n)'
<1>1. PICK t : t = PlanOf(src, n)
  OBVIOUS
<1>2. t = PlanOf(src', n)
  BY <1>1 DEF OutGrows
<1>3. CASE t.failed
  <2>1. n.nid \in named /\ \A k \in 1 .. Len(nbt) : nbt[k].key # n.nid
    BY <1>1, <1>3 DEF Dealt
  <2> QED BY <1>2, <1>3, <2>1 DEF Dealt
<1>4. CASE ~ t.failed
  <2>1. n.nid \notin named
    BY <1>1, <1>4 DEF Dealt
  <2>2. PICK b \in First .. next : \E k \in 1 .. Len(nbt) :
           /\ Stands(b, t.blocks, Len(t.blocks))
           /\ nbt[k] = [key |-> n.nid, data |-> IdOf(b, t.blocks, t.data),
                        sub |-> IdOf(b, t.blocks, t.sub), parent |-> n.parent]
    BY <1>1, <1>4 DEF Dealt
  <2>3. PICK k \in 1 .. Len(nbt) :
           /\ Stands(b, t.blocks, Len(t.blocks))
           /\ nbt[k] = [key |-> n.nid, data |-> IdOf(b, t.blocks, t.data),
                        sub |-> IdOf(b, t.blocks, t.sub), parent |-> n.parent]
    BY <2>2
  <2>4. Len(t.blocks) \in Nat
    <3>1. t \in Jobs
      BY <1>1, PlanOfIs
    <3> QED BY <3>1 DEF Jobs
  <2>5. PICK l \in Nat : l = Len(t.blocks)
    BY <2>4
  <2>6. Stands(b, t.blocks, l)
    BY <2>3, <2>5
  <2>7. Stands(b, t.blocks, l)'
    BY <2>5, <2>6, StandsStays
  <2>8. b \in First' .. next'
    <3>1. First' = First
      BY DEF OutGrows, First
    <3>2. next \in Nat
      BY DEF BlocksOut
    <3> QED BY <3>1, <3>2 DEF OutGrows
  <2>9. k \in 1 .. Len(nbt') /\ nbt'[k] = nbt[k]
    OBVIOUS
  <2> QED BY <1>2, <1>4, <2>1, <2>3, <2>5, <2>7, <2>8, <2>9 DEF Dealt
<1> QED BY <1>3, <1>4

\* No node is dealt with at the start.
LEMMA NodesInit == Init => NodesInv
<1> SUFFICES ASSUME Init PROVE NodesInv
  OBVIOUS
<1>1. pc = "create" /\ i = 0 /\ nbt = <<>> /\ named = {} /\ job = NoJob /\ src \in SOURCES
  BY DEF Init
<1>2. DoneWith = 0
  BY <1>1 DEF DoneWith, LaidOut
<1>3. Source(src)
  BY <1>1, SourcesAre
<1>4. 0 <= Len(src.nodes)
  BY <1>3 DEF Source
<1>5. Ascending(nbt)
  BY <1>1 DEF Ascending
<1>6. \A m \in 1 .. 0 : Dealt(Kept[m])
  OBVIOUS
<1>7. \A k \in 1 .. Len(nbt) : FALSE
  BY <1>1
<1> QED BY <1>1, <1>2, <1>4, <1>5, <1>6, <1>7 DEF NodesInv

\* What a step leaves alone when it deals with no node.
NoNodeEnds ==
  /\ pc \in Live /\ ~ broken /\ nbt' = nbt /\ named' = named /\ DoneWith' = DoneWith
  /\ OutGrows

\* A step that ends no node leaves what became of the nodes dealt with.
LEMMA NodesGoOn ==
  ASSUME FileInv, NodesInv, NoNodeEnds,
         job' # NoJob => Stands(base, job.blocks, next - base)'
  PROVE  NodesInv'
<1>1. BlocksOut /\ First \in Nat /\ Source(src) /\ src \in SOURCES
  BY FirstInFile DEF NoNodeEnds, FileInv
<1>2. Kept' = Kept /\ src' = src
  BY DEF Kept, NoNodeEnds, OutGrows
<1>3. PICK d : d = DoneWith /\ d = DoneWith'
  BY DEF NoNodeEnds
<1>4. /\ d <= Len(src.nodes) /\ Ascending(nbt)
      /\ \A k \in 1 .. Len(nbt) : \E m \in 1 .. d : nbt[k].key = Kept[m].nid
      /\ \A x \in named : \E m \in 1 .. d : x = Kept[m].nid
      /\ \A m \in 1 .. d : Dealt(Kept[m])
  BY <1>3 DEF NodesInv, NoNodeEnds
<1>5. ASSUME NEW m \in 1 .. d PROVE Dealt(Kept[m])'
  <2>1. Kept \in Seq(Node(src)) /\ Len(Kept) = Len(src.nodes)
    BY <1>1, KeptIs DEF Kept
  <2>2. d \in Nat
    BY <1>1, <1>3 DEF DoneWith, FileInv, Source
  <2>3. m \in 1 .. Len(Kept)
    BY <1>4, <2>1, <2>2
  <2>4. PICK n \in Node(src) : n = Kept[m]
    BY <2>1, <2>3
  <2>5. Dealt(n)
    BY <1>4, <2>4
  <2>6. Dealt(n)'
    BY <1>1, <2>5, DealtStays DEF NoNodeEnds
  <2>7. Kept'[m] = n
    BY <1>2, <2>4
  <2> QED BY <2>6, <2>7 DEF Dealt
<1> QED BY <1>2, <1>3, <1>4, <1>5 DEF NodesInv, NoNodeEnds, Ascending

\* A run that has failed, or whose file is cut short, promises nothing.
LEMMA NodesFail ==
  ASSUME pc' \notin Live \/ broken'
  PROVE  NodesInv'
BY DEF NodesInv

\* The output as it is.
LEMMA OutStays ==
  ASSUME FileInv, src' = src, out' = out, next' = next
  PROVE  OutGrows
BY DEF OutGrows, FileInv

\* Creating the file deals with no node.
LEMMA NodesCreate ==
  ASSUME FileInv, NodesInv, Create
  PROVE  NodesInv'
<1>1. CASE Fail
  BY <1>1, NodesFail DEF Fail, Live
<1>2. CASE ~ Fail
  <2>1. /\ pc = "create" /\ pc' = "nodes"
        /\ UNCHANGED <<src, i, job, base, out, next, broken, bbt, nbt, named, divided,
                       plan, flushed, header>>
    BY <1>2 DEF Create
  <2>2. job = NoJob /\ ~ broken
    BY <2>1 DEF FileInv, Live
  <2>3. DoneWith' = DoneWith
    BY <2>1 DEF DoneWith, LaidOut
  <2>4. NoNodeEnds
    BY <2>1, <2>2, <2>3, OutStays DEF NoNodeEnds, Live
  <2> QED BY <2>1, <2>2, <2>4, NodesGoOn
<1> QED BY <1>1, <1>2

\* A node whose plan failed is named and left out.
LEMMA NodesBegin ==
  ASSUME FileInv, NodesInv, Begin
  PROVE  NodesInv'
<1>1. CASE broken
  BY <1>1, NodesFail DEF Begin, writer
<1>2. CASE ~ broken
  <2>1. /\ pc = "nodes" /\ base' = next
        /\ UNCHANGED <<pc, src, i, out, end, pos, next, broken, bbt, nbt, named, plan, flushed, header>>
    BY DEF Begin, writer
  <2>2. DoneWith' = DoneWith
    BY <2>1 DEF DoneWith
  <2>3. NoNodeEnds
    BY <1>2, <2>1, <2>2, OutStays DEF NoNodeEnds, Live
  <2>4. next \in Nat /\ First <= next /\ First' = First
    BY <2>1 DEF FileInv, First
  <2>5. Stands(base, job.blocks, next - base)'
    <3>1. next' - base' = 0 /\ base' + 0 <= next' /\ base' \in Nat /\ First' <= base'
      BY <2>1, <2>4
    <3>2. \A j \in 1 .. 0 : out'[base' - First' + j].block = Resolved(base', job'.blocks, job'.blocks[j])
      OBVIOUS
    <3> QED BY <3>1, <3>2 DEF Stands
  <2> QED BY <2>3, <2>5, NodesGoOn
<1> QED BY <1>1, <1>2

\* Writing the blocks of the node in hand disturbs no node before it.
LEMMA NodesGrow ==
  ASSUME FileInv, ~ RECOVERS, NodesInv, WriteBlock
  PROVE  NodesInv'
<1>1. pc = "nodes" /\ job # NoJob /\ Written < Len(job.blocks) /\ ~ broken
  BY DEF WriteBlock, WriteOk
<1>2. PICK w : w = Written
  OBVIOUS
<1>3. PICK s : out' = Append(out, s) /\ s.block = Resolved(base, job.blocks, job.blocks[w + 1])
  BY <1>2 DEF WriteBlock
<1>4. next' = next + 1 /\ UNCHANGED <<pc, src, i, job, base, broken, nbt, named, divided, plan, flushed, header>>
  BY DEF WriteBlock
<1>5. /\ base \in Nat /\ First \in Nat \ {0} /\ First <= base
      /\ w \in Nat /\ next = base + w
  BY <1>1, <1>2, TaskIs
<1>6. BlocksOut /\ next \in Nat
  BY <1>1 DEF FileInv, Live
<1>7. PICK L \in Nat : L = Len(bbt) /\ Len(out) = L /\ next = First + L
  BY <1>1, <1>6 DEF BlocksOut
<1>8. (\A j \in 1 .. L : out'[j] = out[j]) /\ out'[L + 1] = s
  BY <1>3, <1>6, <1>7 DEF BlocksOut
<1>9. OutGrows
  BY <1>4, <1>6, <1>7, <1>8 DEF OutGrows
<1>10. NoNodeEnds
  BY <1>1, <1>4, <1>9 DEF NoNodeEnds, DoneWith, Live
<1>11. PICK blocks : blocks = job.blocks
  OBVIOUS
<1>12. PICK b, f \in Nat : b = base /\ f = First
  BY <1>5
<1>13. Stands(b, blocks, w)'
  <2>1. Stands(base, job.blocks, next - base)
    BY <1>1 DEF NodesInv, Live
  <2>2. next - base = w
    BY <1>5
  <2>3. Stands(b, blocks, w)
    BY <1>11, <1>12, <2>1, <2>2
  <2> QED BY <1>5, <1>6, <1>9, <2>3, StandsStays
<1>14. First' = f
  BY <1>4, <1>12 DEF First
<1>15. ASSUME NEW j \in 1 .. w + 1 PROVE out'[b - f + j].block = Resolved(b, blocks, blocks[j])
  <2>1. CASE j = w + 1
    <3>1. b - f + j = L + 1
      BY <1>5, <1>7, <1>12, <2>1
    <3> QED BY <1>3, <1>8, <1>11, <1>12, <2>1, <3>1
  <2>2. CASE j # w + 1
    <3>1. j \in 1 .. w
      BY <1>5, <2>2
    <3>2. out'[b - First' + j].block = Resolved(b, blocks, blocks[j])
      BY <1>13, <3>1 DEF Stands
    <3> QED BY <1>14, <3>2
  <2> QED BY <2>1, <2>2
<1>16. Stands(base, job.blocks, next - base)'
  <2>1. base' = b /\ job'.blocks = blocks /\ next' - base' = w + 1 /\ b + (w + 1) <= next'
    BY <1>4, <1>5, <1>11, <1>12
  <2>2. f <= b
    BY <1>5, <1>12
  <2> QED BY <1>12, <1>14, <1>15, <2>1, <2>2 DEF Stands
<1> QED BY <1>10, <1>16, NodesGoOn

\* What EndNode does with the node in hand, when no write has failed.
LEMMA NodeEnds ==
  ASSUME FileInv, Unique, NodesInv, EndNode, ~ broken
  PROVE  NodesInv'
<1>1. /\ pc = "nodes" /\ job # NoJob /\ i' = i + 1 /\ job' = NoJob /\ Written = Len(job.blocks)
      /\ UNCHANGED <<pc, src, base, out, end, pos, next, broken, bbt, plan, flushed, header>>
  BY DEF EndNode, LeaveOut, writer
<1>2. PICK task : task = job
  OBVIOUS
<1>3. PICK n : n = Kept[i + 1]
  OBVIOUS
<1>4. PICK b, f, d \in Nat : b = base /\ f = First /\ d = i
  BY <1>1, TaskIs DEF FileInv
<1>5. /\ Source(src) /\ n \in Node(src) /\ task = PlanOf(src, n) /\ task \in Jobs
      /\ d + 1 \in 1 .. Len(Kept) /\ d < Len(src.nodes) /\ f # 0 /\ f <= b
      /\ next = b + Len(task.blocks) /\ n = Kept[d + 1]
  BY <1>1, <1>2, <1>3, <1>4, TaskIs
<1>6. PICK e : e = [key |-> n.nid, data |-> IdOf(b, task.blocks, task.data),
                    sub |-> IdOf(b, task.blocks, task.sub), parent |-> n.parent]
  OBVIOUS
<1>7. \/ task.failed /\ named' = named \union {n.nid} /\ nbt' = nbt
      \/ ~ task.failed /\ named' = named /\ nbt' = Append(nbt, e)
  BY <1>2, <1>3, <1>4, <1>6 DEF EndNode, LeaveOut, Kept
<1>8. BlocksOut /\ src \in SOURCES /\ next \in Nat
  BY <1>1 DEF FileInv, Live
<1>9. OutGrows
  BY <1>1, OutStays
<1>10. Kept' = Kept /\ First' = First
  BY <1>1 DEF Kept, First
<1>11. DoneWith = d /\ DoneWith' = d + 1
  BY <1>1, <1>4 DEF DoneWith, LaidOut
<1>12. /\ Ascending(nbt)
       /\ \A k \in 1 .. Len(nbt) : \E m \in 1 .. d : nbt[k].key = Kept[m].nid
       /\ \A x \in named : \E m \in 1 .. d : x = Kept[m].nid
       /\ \A m \in 1 .. d : Dealt(Kept[m])
       /\ Stands(base, job.blocks, next - base)
  BY <1>1, <1>11 DEF NodesInv, Live
<1>13. \A m \in 1 .. d : /\ m \in 1 .. Len(Kept) /\ Kept[m] \in Node(src)
                         /\ Kept[m].nid \in Nat /\ Kept[m].nid < n.nid
  <2> TAKE m \in 1 .. d
  <2>1. Kept \in Seq(Node(src)) /\ Len(Kept) \in Nat
    BY <1>5, KeptIs DEF Kept
  <2>2. m \in 1 .. Len(Kept) /\ m < d + 1
    BY <1>5, <2>1
  <2>3. Kept[m] \in Node(src)
    BY <2>1, <2>2
  <2>4. Kept[m].nid < Kept[d + 1].nid
    BY <1>5, <1>8, <2>2, KeptGrow
  <2> QED BY <1>5, <2>2, <2>3, <2>4 DEF Node
<1>14. n.nid \in Nat
  BY <1>5 DEF Node
<1>15. \A m \in 1 .. d : Kept[m].nid # n.nid
  <2> TAKE m \in 1 .. d
  <2>1. PICK x, y \in Nat : x = Kept[m].nid /\ y = n.nid
    BY <1>13, <1>14
  <2>2. x < y
    BY <1>13, <2>1
  <2>3. x # y
    BY <2>2
  <2> QED BY <2>1, <2>3
<1>16. PICK K \in Nat : K = Len(nbt) /\ nbt \in Seq(NLeaf)
  BY <1>8 DEF BlocksOut
<1>17. \/ nbt' = nbt /\ Len(nbt') = K
       \/ Len(nbt') = K + 1 /\ nbt'[K + 1] = e /\ \A k \in 1 .. K : nbt'[k] = nbt[k]
  BY <1>7, <1>16
<1>18. \A k \in 1 .. Len(nbt) : k \in 1 .. Len(nbt') /\ nbt'[k] = nbt[k]
  BY <1>16, <1>17
<1>19. \A k \in 1 .. Len(nbt') : k \in 1 .. Len(nbt) \/ (nbt'[k] = e /\ k = K + 1 /\ Len(nbt') = K + 1)
  BY <1>16, <1>17
<1>20. ASSUME NEW m \in 1 .. d PROVE Dealt(Kept[m])'
  <2>1. PICK o \in Node(src) : o = Kept[m]
    BY <1>13
  <2>2. Dealt(o) /\ o.nid # n.nid
    BY <1>12, <1>15, <2>1
  <2>3. o.nid \in named' <=> o.nid \in named
    BY <1>7, <2>2
  <2>4. \A k \in 1 .. Len(nbt') : k \in 1 .. Len(nbt) \/ nbt'[k].key # o.nid
    BY <1>6, <1>19, <2>2
  <2>5. Dealt(o)'
    BY <1>4, <1>5, <1>8, <1>9, <1>18, <2>2, <2>3, <2>4, DealtStays
  <2> QED BY <1>10, <2>1, <2>5 DEF Dealt
<1>21. Dealt(n)'
  <2>1. task = PlanOf(src', n)
    BY <1>1, <1>5
  <2>2. CASE task.failed
    <3>1. \A k \in 1 .. Len(nbt) : nbt[k].key # n.nid
      BY <1>12, <1>15
    <3> QED BY <1>7, <2>1, <2>2, <3>1 DEF Dealt
  <2>3. CASE ~ task.failed
    <3>1. n.nid \notin named'
      BY <1>7, <1>12, <1>15, <2>3
    <3>2. PICK l \in Nat : l = Len(task.blocks)
      BY <1>5 DEF Jobs
    <3>3. Stands(b, task.blocks, l)
      <4>1. next - base = l
        BY <1>4, <1>5, <3>2
      <4> QED BY <1>2, <1>4, <1>12, <4>1
    <3>4. Stands(b, task.blocks, l)'
      BY <1>4, <1>8, <1>9, <3>3, StandsStays
    <3>5. b \in First' .. next'
      BY <1>1, <1>4, <1>5, <1>8, <1>10, <3>2
    <3>6. Len(nbt') = K + 1 /\ nbt'[K + 1] = e
      BY <1>7, <1>16, <2>3
    <3>7. K + 1 \in 1 .. Len(nbt')
      BY <1>16, <3>6
    <3> QED BY <1>6, <2>1, <2>3, <3>1, <3>2, <3>4, <3>5, <3>6, <3>7 DEF Dealt
  <2> QED BY <2>2, <2>3
<1>22. ASSUME NEW m \in 1 .. d + 1 PROVE Dealt(Kept[m])'
  <2>1. CASE m = d + 1
    <3>1. Kept'[m] = n
      BY <1>5, <1>10, <2>1
    <3> QED BY <1>21, <3>1 DEF Dealt
  <2>2. CASE m # d + 1
    <3>1. m \in 1 .. d
      BY <2>2
    <3> QED BY <1>20, <3>1
  <2> QED BY <2>1, <2>2
<1>23. ASSUME NEW k \in 1 .. Len(nbt') PROVE \E m \in 1 .. d + 1 : nbt'[k].key = Kept[m].nid
  <2>1. CASE k \in 1 .. Len(nbt)
    <3>1. PICK m \in 1 .. d : nbt[k].key = Kept[m].nid
      BY <1>12, <2>1
    <3>2. m \in 1 .. d + 1
      OBVIOUS
    <3> QED BY <1>18, <2>1, <3>1, <3>2
  <2>2. CASE nbt'[k] = e
    <3>1. d + 1 \in 1 .. d + 1
      OBVIOUS
    <3> QED BY <1>5, <1>6, <2>2, <3>1
  <2> QED BY <1>19, <2>1, <2>2
<1>24. ASSUME NEW x \in named' PROVE \E m \in 1 .. d + 1 : x = Kept[m].nid
  <2>1. CASE x \in named
    <3>1. PICK m \in 1 .. d : x = Kept[m].nid
      BY <1>12, <2>1
    <3>2. m \in 1 .. d + 1
      OBVIOUS
    <3> QED BY <3>1, <3>2
  <2>2. CASE x = n.nid
    <3>1. d + 1 \in 1 .. d + 1
      OBVIOUS
    <3> QED BY <1>5, <2>2, <3>1
  <2> QED BY <1>7, <2>1, <2>2
<1>25. Ascending(nbt')
  <2>1. ASSUME NEW j \in 1 .. Len(nbt'), NEW k \in 1 .. Len(nbt'), j < k
        PROVE  nbt'[j].key < nbt'[k].key
    <3>1. CASE k \in 1 .. Len(nbt)
      <4>1. j \in 1 .. Len(nbt)
        BY <1>16, <2>1, <3>1
      <4> QED BY <1>12, <1>18, <2>1, <3>1, <4>1 DEF Ascending
    <3>2. CASE nbt'[k] = e /\ k = K + 1 /\ Len(nbt') = K + 1
      <4>1. j \in 1 .. Len(nbt)
        BY <1>16, <2>1, <3>2
      <4>2. PICK m \in 1 .. d : nbt[j].key = Kept[m].nid
        BY <1>12, <4>1
      <4>3. nbt'[j].key = Kept[m].nid /\ nbt'[k].key = n.nid
        BY <1>6, <1>18, <3>2, <4>1, <4>2
      <4> QED BY <1>13, <4>3
    <3> QED BY <1>19, <3>1, <3>2
  <2> QED BY <2>1 DEF Ascending
<1>26. d + 1 <= Len(src.nodes)
  BY <1>5 DEF Source
<1> QED BY <1>1, <1>10, <1>11, <1>22, <1>23, <1>24, <1>25, <1>26 DEF NodesInv

\* The node in hand is dealt with when its entry is added over its blocks.
LEMMA NodesEnd ==
  ASSUME FileInv, Unique, NodesInv, EndNode
  PROVE  NodesInv'
<1>1. CASE broken
  BY <1>1, NodesFail DEF EndNode, writer
<1>2. CASE ~ broken
  BY <1>2, NodeEnds
<1> QED BY <1>1, <1>2

\* Laying out the trees keeps every node.
LEMMA NodesLaidOut ==
  ASSUME FileInv, NodesInv, LayOut
  PROVE  NodesInv'
<1>1. CASE broken
  BY <1>1, NodesFail DEF LayOut, writer
<1>2. CASE ~ broken
  <2>1. /\ pc = "nodes" /\ job = NoJob /\ i = Len(src.nodes)
        /\ pc' = "pages"
        /\ UNCHANGED <<src, job, out, next, broken, bbt, nbt, named>>
    BY DEF LayOut, writer
  <2>2. DoneWith' = DoneWith
    BY <2>1 DEF DoneWith, LaidOut
  <2>3. NoNodeEnds
    BY <1>2, <2>1, <2>2, OutStays DEF NoNodeEnds, Live
  <2> QED BY <2>1, <2>3, NodesGoOn
<1> QED BY <1>1, <1>2

\* Once the trees are laid out no node is in hand.
LEMMA NodesLater ==
  ASSUME FileInv, NodesInv, pc \in LaidOut, pc' \in LaidOut, ~ broken, job' = job,
         nbt' = nbt, named' = named, OutGrows
  PROVE  NodesInv'
<1>1. job = NoJob
  BY DEF FileInv, Live, LaidOut
<1>2. DoneWith' = DoneWith
  BY DEF DoneWith, OutGrows
<1>3. NoNodeEnds
  BY <1>2 DEF NoNodeEnds, Live, LaidOut
<1> QED BY <1>1, <1>3, NodesGoOn

\* Pages are written behind the blocks, never over one.
LEMMA NodesWritePage ==
  ASSUME FileInv, ~ RECOVERS, NodesInv, WritePage
  PROVE  NodesInv'
<1>1. CASE Fail
  BY <1>1, NodesFail DEF Fail, Live
<1>2. CASE ~ Fail
  <2>1. /\ pc = "pages" /\ ~ broken
        /\ UNCHANGED <<pc, src, job, next, nbt, named>>
    BY <1>2 DEF WritePage, WriteOk
  <2>2. PICK s : out' = Append(out, s)
    BY <1>2 DEF WritePage
  <2>3. out \in Seq(OutPiece) /\ next \in Nat
    BY <2>1 DEF FileInv, BlocksOut, Live
  <2>4. \A j \in 1 .. Len(out) : out'[j] = out[j]
    BY <2>2, <2>3
  <2>5. OutGrows
    BY <2>1, <2>3, <2>4 DEF OutGrows
  <2> QED BY <2>1, <2>5, NodesLater DEF LaidOut
<1> QED BY <1>1, <1>2

\* Flushing keeps every node.
LEMMA NodesFlush ==
  ASSUME FileInv, ~ RECOVERS, NodesInv, Flush
  PROVE  NodesInv'
<1>1. CASE Fail
  BY <1>1, NodesFail DEF Fail, Live
<1>2. CASE ~ Fail
  <2>1. /\ pc = "pages" /\ pc' = "header" /\ ~ broken
        /\ UNCHANGED <<src, job, out, next, nbt, named>>
    BY <1>2 DEF Flush, WriteOk
  <2> QED BY <2>1, OutStays, NodesLater DEF LaidOut
<1> QED BY <1>1, <1>2

\* Writing the header keeps every node.
LEMMA NodesGetHeader ==
  ASSUME FileInv, ~ RECOVERS, NodesInv, WriteHeader
  PROVE  NodesInv'
<1>1. CASE Fail
  BY <1>1, NodesFail DEF Fail, Live
<1>2. CASE ~ Fail
  <2>1. /\ pc = "header" /\ pc' = "done" /\ ~ broken
        /\ UNCHANGED <<src, job, out, next, nbt, named>>
    BY <1>2 DEF WriteHeader, WriteOk, writer
  <2> QED BY <2>1, OutStays, NodesLater DEF LaidOut
<1> QED BY <1>1, <1>2

\* Nothing happens to a node when nothing happens.
LEMMA NodesStutter ==
  ASSUME NodesInv, UNCHANGED vars
  PROVE  NodesInv'
<1>1. UNCHANGED <<pc, src, i, job, base, out, end, pos, next, broken, bbt, nbt, named, divided,
                  plan, flushed, header>>
  BY DEF vars, writer
<1>2. First' = First /\ Kept' = Kept /\ DoneWith' = DoneWith
  BY <1>1 DEF First, Kept, DoneWith
<1>3. \A b, blocks, l : Stands(b, blocks, l)' <=> Stands(b, blocks, l)
  BY <1>1, <1>2 DEF Stands
<1>4. \A n : Dealt(n)' <=> Dealt(n)
  BY <1>1, <1>2 DEF Dealt, Stands
<1> QED BY <1>1, <1>2, <1>3, <1>4 DEF NodesInv, Stands, Dealt

\* Every step keeps what has become of the nodes dealt with.
LEMMA NodesSteps ==
  ASSUME FileInv, ~ RECOVERS, Unique, NodesInv, [Next]_vars
  PROVE  NodesInv'
<1>1. CASE UNCHANGED vars
  BY <1>1, NodesStutter
<1>2. CASE Create
  BY <1>2, NodesCreate
<1>3. CASE Begin
  BY <1>3, NodesBegin
<1>4. CASE WriteBlock
  BY <1>4, NodesGrow
<1>5. CASE WriteFails
  BY <1>5, NodesFail DEF WriteFails
<1>6. CASE EndNode
  BY <1>6, NodesEnd
<1>7. CASE NoTree
  BY <1>7, NodesFail DEF NoTree, Live
<1>8. CASE LayOut
  BY <1>8, NodesLaidOut
<1>9. CASE WritePage
  BY <1>9, NodesWritePage
<1>10. CASE Flush
  BY <1>10, NodesFlush
<1>11. CASE WriteHeader
  BY <1>11, NodesGetHeader
<1> QED BY <1>1, <1>2, <1>3, <1>4, <1>5, <1>6, <1>7, <1>8, <1>9, <1>10, <1>11 DEF Next

(* What has become of every node dealt with: named, and then without an entry, or
   all its blocks in the file and an entry that leads to them. *)
THEOREM ConvertNodes == ASSUME ~ RECOVERS, Unique PROVE Spec => [](FileInv /\ NodesInv)
<1>1. Init => FileInv /\ NodesInv
  BY FileInit, NodesInit
<1>2. FileInv /\ NodesInv /\ [Next]_vars => FileInv' /\ NodesInv'
  BY FileSteps, NodesSteps
<1> QED BY <1>1, <1>2, PTL DEF Spec

-----------------------------------------------------------------------------
(* What a reader finds in the finished file. *)

\* Each tree of the file leads to its entries.
LEMMA FoundThere ==
  ASSUME Finished, NodesInv, NEW key \in Nat
  PROVE  Find("NBT", key) = Hits(nbt, key) /\ Find("BBT", key) = Hits(bbt, key)
<1>1. PICK n, b, x, y : LayoutOver(plan, nbt, bbt, x, next, n, b, y)
  BY TreesThere
<1>2. BlocksOut /\ PagesOut /\ First \in Nat /\ next \in Nat /\ Pages = ToSet(plan.pages)
  BY DiskIs
<1>3. /\ n = BuildTree(nbt, "NBT", [next |-> x, bid |-> 4 * next])
      /\ b = BuildTree(bbt, "BBT", n.cur) /\ n.cur \in Cursors
      /\ [next |-> x, bid |-> 4 * next] \in Cursors
      /\ plan.pages = n.pages \o b.pages
      /\ n.pages \in Seq(PageOver(Leaf)) /\ b.pages \in Seq(PageOver(Leaf))
      /\ plan.pages \in Seq(PageOver(Leaf))
      /\ PagesLaid(plan.pages, x, y, 4 * next)
      /\ plan.header.NBT = [at |-> n.root.at, bid |-> n.root.bid]
      /\ plan.header.BBT = [at |-> b.root.at, bid |-> b.root.bid]
  BY <1>1 DEF LayoutOver
<1>4. Pages \subseteq PageOver(Leaf) /\ Apart(Pages)
  <2>1. 4 * next \in Nat
    BY <1>2
  <2> QED BY <1>2, <1>3, <2>1, PagesApart
<1>16. DOMAIN plan.pages = 1 .. Len(plan.pages)
       /\ \A g : g \in Pages <=> \E j \in 1 .. Len(plan.pages) : g = plan.pages[j]
  <2>1. DOMAIN plan.pages = 1 .. Len(plan.pages)
    BY <1>3
  <2>2. Pages = {plan.pages[j] : j \in 1 .. Len(plan.pages)}
    BY <1>2, <2>1 DEF ToSet
  <2> QED BY <2>1, <2>2
<1>17. /\ \A j \in 1 .. Len(n.pages) :
            j \in 1 .. Len(plan.pages) /\ plan.pages[j] = n.pages[j]
       /\ \A j \in 1 .. Len(b.pages) :
            /\ Len(n.pages) + j \in 1 .. Len(plan.pages)
            /\ plan.pages[Len(n.pages) + j] = b.pages[j]
  <2>1. PICK s \in Seq(PageOver(Leaf)), t \in Seq(PageOver(Leaf)) :
          s = n.pages /\ t = b.pages /\ plan.pages = s \o t
    BY <1>3
  <2>2. PICK k, l \in Nat : k = Len(s) /\ l = Len(t)
    OBVIOUS
  <2>3. PICK r : r = s \o t
    OBVIOUS
  <2>4. /\ Len(r) = k + l /\ (\A j \in 1 .. k : r[j] = s[j])
        /\ \A j \in 1 .. l : r[k + j] = t[j]
    BY <2>2, <2>3, SeqJoined
  <2>5. (\A j \in 1 .. k : j \in 1 .. k + l) /\ \A j \in 1 .. l : k + j \in 1 .. k + l
    OBVIOUS
  <2> QED BY <2>1, <2>2, <2>3, <2>4, <2>5
<1>5. PICK N \in Nat : \A p \in Pages : p.level <= N
  <2>1. PICK N \in Nat : \A j \in 1 .. Len(plan.pages) : plan.pages[j].level <= N
    BY <1>3, Bounded
  <2>2. ASSUME NEW g \in Pages PROVE g.level <= N
    <3>1. PICK j \in 1 .. Len(plan.pages) : g = plan.pages[j]
      BY <1>16
    <3> QED BY <2>1, <3>1
  <2> QED BY <2>2
<1>6. HoldsTree(Pages, Leaf, N, n)
  <2>1. \A j \in 1 .. Len(n.pages) : n.pages[j] \in Pages
    <3> TAKE j \in 1 .. Len(n.pages)
    <3>1. j \in 1 .. Len(plan.pages) /\ plan.pages[j] = n.pages[j]
      BY <1>17
    <3> QED BY <1>16, <3>1
  <2> QED BY <1>4, <1>5, <2>1 DEF HoldsTree
<1>7. HoldsTree(Pages, Leaf, N, b)
  <2>1. \A j \in 1 .. Len(b.pages) : b.pages[j] \in Pages
    <3> TAKE j \in 1 .. Len(b.pages)
    <3>1. Len(n.pages) + j \in 1 .. Len(plan.pages) /\ plan.pages[Len(n.pages) + j] = b.pages[j]
      BY <1>17
    <3> QED BY <1>16, <3>1
  <2> QED BY <1>4, <1>5, <2>1 DEF HoldsTree
<1>8. nbt \in Seq(Leaf) /\ bbt \in Seq(Leaf) /\ Keyed(Leaf) /\ nbt # <<>> /\ bbt # <<>>
  <2>1. nbt \in Seq(NLeaf) /\ bbt \in Seq(BLeaf) /\ nbt # <<>> /\ bbt # <<>>
    BY <1>2 DEF BlocksOut, PagesOut
  <2> QED BY <2>1, LeavesKeyed, SeqWider
<1>9. Ascending(nbt)
  BY DEF NodesInv, Finished, FileInv, Live
<1>10. Ascending(bbt)
  BY <1>2, BlockIdsGrow
<1>11. header = plan.header
  BY DEF Finished, FileInv
<1>12. Search(Pages, header.NBT, "NBT", key) = Hits(nbt, key)
  <2>1. header.NBT.at = n.root.at /\ header.NBT.bid = n.root.bid
    BY <1>3, <1>11
  <2> QED BY <1>3, <1>6, <1>8, <1>9, <2>1, SearchFinds
<1>13. Search(Pages, header.BBT, "BBT", key) = Hits(bbt, key)
  <2>1. header.BBT.at = b.root.at /\ header.BBT.bid = b.root.bid
    BY <1>3, <1>11
  <2> QED BY <1>3, <1>7, <1>8, <1>10, <2>1, SearchFinds
<1> QED BY <1>12, <1>13 DEF Find

\* Every block of the file can be read.
LEMMA ReadableIs ==
  ASSUME Finished, NodesInv
  PROVE  /\ DOMAIN Readable = {out[j].bid : j \in 1 .. Len(bbt)}
         /\ \A j \in 1 .. Len(bbt) : Readable[out[j].bid] = out[j].block
         /\ 0 \notin DOMAIN Readable
<1>1. PICK L, f \in Nat : L = Len(bbt) /\ f = First
  BY DiskIs
<1>2. BlocksOut /\ f # 0 /\ OnDisk("block") = {out[j] : j \in 1 .. L}
  BY <1>1, DiskIs
<1>3. /\ \A j \in 1 .. L : /\ out[j].bid \in Nat /\ bbt[j].key = out[j].bid
                           /\ 4 * f <= out[j].bid
      /\ \A j, k \in 1 .. L : j < k => out[j].bid < out[k].bid
  BY <1>1, <1>2, BlockIdsGrow
<1>4. \A j, k \in 1 .. L : out[j].bid = out[k].bid => j = k
  <2>1. ASSUME NEW j \in 1 .. L, NEW k \in 1 .. L, j < k PROVE out[j].bid # out[k].bid
    <3>1. PICK p, q \in Nat : p = out[j].bid /\ q = out[k].bid
      BY <1>3
    <3>2. p < q
      BY <1>3, <2>1, <3>1
    <3>3. p # q
      BY <3>2
    <3> QED BY <3>1, <3>3
  <2>2. \A j, k \in 1 .. L : j = k \/ j < k \/ k < j
    OBVIOUS
  <2> QED BY <2>1, <2>2
<1> DEFINE leads(s) == \E e \in Find("BBT", s.bid) : e.at = s.at /\ e.cb = Bytes(s.block)
           found == {s \in OnDisk("block") : leads(s)}
<1>5. ASSUME NEW j \in 1 .. L PROVE leads(out[j])
  <2>1. Find("BBT", out[j].bid) = Hits(bbt, out[j].bid)
    BY <1>3, FoundThere
  <2>2. bbt[j] \in ToSet(bbt)
    BY Z3, <1>1, <1>2 DEF ToSet, BlocksOut
  <2>3. bbt[j] \in Hits(bbt, out[j].bid)
    BY <1>3, <2>2 DEF Hits
  <2>4. bbt[j].at = out[j].at /\ bbt[j].cb = Bytes(out[j].block)
    BY <1>1, <1>2 DEF BlocksOut, BlockAt
  <2> QED BY <2>1, <2>3, <2>4
<1>6. found = {out[j] : j \in 1 .. L}
  <2> HIDE DEF leads
  <2> QED BY <1>2, <1>5
<1>7. Readable = [bid \in {s.bid : s \in found} |-> (CHOOSE s \in found : s.bid = bid).block]
  BY DEF Readable
<1> HIDE DEF found
<1>8. {s.bid : s \in found} = {out[j].bid : j \in 1 .. L}
  BY <1>6
<1>9. ASSUME NEW j \in 1 .. L PROVE Readable[out[j].bid] = out[j].block
  <2>1. \A s \in found : s.bid = out[j].bid => s = out[j]
    BY <1>4, <1>6
  <2>2. out[j] \in found
    BY <1>6
  <2>3. (CHOOSE s \in found : s.bid = out[j].bid) = out[j]
    BY <2>1, <2>2
  <2> QED BY <1>7, <1>8, <2>3
<1>10. \A j \in 1 .. L : out[j].bid # 0
  <2> TAKE j \in 1 .. L
  <2>1. PICK p \in Nat : p = out[j].bid /\ 4 * f <= p
    BY <1>3
  <2>2. p # 0
    BY <1>2, <2>1
  <2> QED BY <2>1, <2>2
<1> QED BY <1>1, <1>7, <1>8, <1>9, <1>10

\* Blocks that stand in the file are read from it.
LEMMA HoldsThere ==
  ASSUME Finished, NodesInv, NEW blocks \in Seq(Piece), NEW b,
         Stands(b, blocks, Len(blocks))
  PROVE  Holds(Readable, b, blocks) /\ b \in Nat \ {0}
<1>1. PICK L, f \in Nat : L = Len(bbt) /\ f = First
  BY DiskIs
<1>2. BlocksOut /\ f # 0
  BY <1>1, DiskIs
<1>3. PICK l \in Nat : l = Len(blocks)
  OBVIOUS
<1>4. b \in Nat /\ f <= b /\ b + l <= f + L
      /\ \A j \in 1 .. l : out[b - f + j].block = Resolved(b, blocks, blocks[j])
  BY <1>1, <1>2, <1>3 DEF Stands, BlocksOut
<1>5. ASSUME NEW j \in 1 .. l
      PROVE  /\ Id(b + j - 1, blocks[j]) \in DOMAIN Readable
             /\ Readable[Id(b + j - 1, blocks[j])] = Resolved(b, blocks, blocks[j])
  <2>1. PICK x : x = b - f + j
    OBVIOUS
  <2>2. x \in 1 .. L /\ f + x - 1 = b + j - 1
    BY <1>4, <2>1
  <2>3. BlockAt(out[x], bbt[x], f + x - 1)
    BY <1>1, <1>2, <2>2 DEF BlocksOut
  <2>4. out[x].bid = Id(b + j - 1, out[x].block)
    BY <2>2, <2>3 DEF BlockAt
  <2>5. out[x].block = Resolved(b, blocks, blocks[j])
    BY <1>4, <2>1
  <2>6. out[x].block.kind = blocks[j].kind
    <3>1. blocks[j] \in Piece
      BY <1>3
    <3>2. PICK z \in Piece : z = blocks[j]
      BY <3>1
    <3>3. Resolved(b, blocks, z).kind = z.kind
      BY ResolvedIs, Zenon
    <3> QED BY <2>5, <3>2, <3>3
  <2>7. out[x].bid = Id(b + j - 1, blocks[j])
    BY <2>4, <2>6 DEF Id
  <2>8. out[x].bid \in DOMAIN Readable /\ Readable[out[x].bid] = out[x].block
    BY <1>1, <2>2, ReadableIs
  <2> QED BY <2>5, <2>7, <2>8
<1>6. b # 0
  BY <1>2, <1>4
<1> QED BY <1>3, <1>4, <1>5, <1>6 DEF Holds

-----------------------------------------------------------------------------
(* What became of the nodes. *)

\* The file of a run that succeeded, and what became of its nodes.
Closed == Finished /\ NodesInv

\* In a finished file every node of the source is dealt with.
LEMMA AllDealt ==
  ASSUME Closed, Unique, NEW n \in ToSet(src.nodes)
  PROVE  n \in Node(src) /\ Source(src) /\ Dealt(n)
<1>1. Source(src) /\ src \in SOURCES
  BY SourcesAre DEF Closed, Finished, FileInv
<1>2. n \in Node(src)
  BY <1>1 DEF ToSet, Source
<1>3. PICK m \in 1 .. Len(src.nodes) : n = Kept[m]
  BY <1>1, KeptGrow
<1>4. \A k \in 1 .. Len(src.nodes) : Dealt(Kept[k])
  BY DEF Closed, Finished, NodesInv, FileInv, DoneWith, LaidOut, Live
<1> QED BY <1>1, <1>2, <1>3, <1>4

\* A node that nothing speaks against is read back whole.
LEMMA NodeCarried ==
  ASSUME Closed, Unique, NEW n \in ToSet(src.nodes), n.nid \notin named
  PROVE  Carried(src, Readable, n)
<1>1. n \in Node(src) /\ Source(src) /\ Dealt(n)
  BY AllDealt
<1>2. PICK task : task = PlanOf(src, n)
  OBVIOUS
<1>3. ~ task.failed
  BY <1>1, <1>2 DEF Dealt
<1>4. PICK b \in First .. next : \E k \in 1 .. Len(nbt) :
        /\ Stands(b, task.blocks, Len(task.blocks))
        /\ nbt[k] = [key |-> n.nid, data |-> IdOf(b, task.blocks, task.data),
                     sub |-> IdOf(b, task.blocks, task.sub), parent |-> n.parent]
  BY <1>1, <1>2, <1>3 DEF Dealt
<1>5. PICK k \in 1 .. Len(nbt) :
        /\ Stands(b, task.blocks, Len(task.blocks))
        /\ nbt[k] = [key |-> n.nid, data |-> IdOf(b, task.blocks, task.data),
                     sub |-> IdOf(b, task.blocks, task.sub), parent |-> n.parent]
  BY <1>4
<1>6. PICK new : new = Readable
  OBVIOUS
<1>7. task.blocks \in Seq(Piece)
  BY <1>1, <1>2, PlanOfIs DEF Jobs
<1>8. Holds(new, b, task.blocks) /\ b \in Nat \ {0} /\ 0 \notin DOMAIN new
  BY <1>5, <1>6, <1>7, HoldsThere, ReadableIs DEF Closed
<1>9. Reads(src, new, n, IdOf(b, task.blocks, task.data), IdOf(b, task.blocks, task.sub))
  BY <1>1, <1>2, <1>3, <1>8, NodeReads
<1>10. PICK e : e = nbt[k]
  OBVIOUS
<1>11. e.key = n.nid /\ e.parent = n.parent /\ Reads(src, new, n, e.data, e.sub)
  BY <1>5, <1>9, <1>10
<1>12. e \in Find("NBT", n.nid)
  <2>1. e \in ToSet(nbt)
    <3>1. nbt \in Seq(NLeaf)
      BY DiskIs DEF Closed, BlocksOut
    <3> QED BY <1>10, <3>1 DEF ToSet
  <2>2. n.nid \in Nat
    BY <1>1 DEF Node
  <2> QED BY <1>11, <2>1, <2>2, FoundThere DEF Closed, Hits
<1> QED BY <1>6, <1>11, <1>12 DEF Carried, Reads

\* A finished file holds the rest.
LEMMA RestHeld ==
  ASSUME Closed, Unique
  PROVE  HoldsTheRest
BY NodeCarried DEF HoldsTheRest

\* A file opens only when its header is written, and that is the run's last step.
LEMMA OnlyFinishedOpens == FileInv /\ header # NoHeader => Finished
BY DEF FileInv, Finished

(* Whenever the process ends, the file it leaves has no header or holds every
   node that was not left out: its bytes in the same blocks, its subnodes at
   every depth, its parent.  OpensOnlyWhole, for every source whose nodes have
   ids of their own and every shape of the file. *)
THEOREM ConvertOpensOnlyWhole == ASSUME ~ RECOVERS, Unique PROVE Spec => []OpensOnlyWhole
<1>1. FileInv /\ NodesInv => OpensOnlyWhole
  BY OnlyFinishedOpens, RestHeld DEF OpensOnlyWhole, Closed
<1> QED BY <1>1, ConvertNodes, PTL

\* An entry for a node, or none.
LEMMA NoEntry ==
  ASSUME Closed, NEW nid \in Nat
  PROVE  Find("NBT", nid) = {} <=> nid \notin {e.key : e \in ToSet(nbt)}
<1>1. Find("NBT", nid) = Hits(nbt, nid)
  BY FoundThere DEF Closed
<1> QED BY <1>1 DEF Hits

\* Left out and named are the nodes not whole, and only those.
LEMMA LeftOutAre ==
  ASSUME Closed, Unique, NEW n \in ToSet(src.nodes)
  PROVE  /\ n.nid \in named <=> ~ Whole(src, n)
         /\ n.nid \in named => Find("NBT", n.nid) = {}
<1>1. n \in Node(src) /\ Source(src) /\ Dealt(n)
  BY AllDealt
<1>2. PICK task : task = PlanOf(src, n)
  OBVIOUS
<1>3. n.nid \in named <=> task.failed
  BY <1>1, <1>2 DEF Dealt
<1>4. task.failed <=> ~ Whole(src, n)
  BY <1>1, <1>2, PlanOfIs, CauseIs
<1>5. ASSUME n.nid \in named PROVE Find("NBT", n.nid) = {}
  <2>1. \A k \in 1 .. Len(nbt) : nbt[k].key # n.nid
    BY <1>1, <1>2, <1>3, <1>5 DEF Dealt
  <2>2. nbt \in Seq(NLeaf)
    BY DiskIs DEF Closed, BlocksOut
  <2>3. \A e \in ToSet(nbt) : e.key # n.nid
    BY <2>1, <2>2 DEF ToSet
  <2>4. n.nid \in Nat
    BY <1>1 DEF Node
  <2> QED BY <2>3, <2>4, NoEntry
<1> QED BY <1>3, <1>4, <1>5

\* Reported missing are the essential nodes that no entry leads to.
LEMMA MissingAre ==
  ASSUME Closed
  PROVE  plan.missing = {nid \in ESSENTIAL : Find("NBT", nid) = {}}
<1>1. plan.missing = ESSENTIAL \ {e.key : e \in ToSet(nbt)}
  BY TreesThere DEF Closed, LayoutOver
<1>2. \A nid \in ESSENTIAL : Find("NBT", nid) = {} <=> nid \notin {e.key : e \in ToSet(nbt)}
  BY NoEntry, ConvertAssumption
<1> QED BY <1>1, <1>2

(* One node's trouble is not another's: LeftOutForCause, which says without the
   plan what is to be left out. *)
THEOREM ConvertLeftOutForCause == ASSUME ~ RECOVERS, Unique PROVE Spec => []LeftOutForCause
<1>1. FileInv /\ NodesInv => LeftOutForCause
  <2>1. FileInv /\ NodesInv /\ pc = "done" => Closed
    BY DEF Finished, Closed
  <2> QED BY <2>1, LeftOutAre, MissingAre DEF LeftOutForCause
<1> QED BY <1>1, ConvertNodes, PTL

-----------------------------------------------------------------------------
(* The conversion as OutputFile sees it. *)

\* What OutputFile calls the file and the result.
FileAt == IF pos = 0 THEN "absent"
          ELSE IF header # NoHeader /\ HoldsTheRest THEN "whole" ELSE "partial"
FileResult == IF pc = "done" THEN "ok"
              ELSE IF pc \in {"failed", "panicked"} THEN "error" ELSE "none"

\* What they are at each moment.
Shown ==
  /\ pc = "create" => FileAt = "absent" /\ FileResult = "none"
  /\ pc \in {"nodes", "pages", "header"} => FileAt = "partial" /\ FileResult = "none"
  /\ pc = "done" => FileAt = "whole" /\ FileResult = "ok"
  /\ pc # "done" => FileAt = IF pos = 0 THEN "absent" ELSE "partial"

\* At every moment the file is what OutputFile says it is at that moment.
LEMMA ShownIs ==
  ASSUME Unique, FileInv, NodesInv
  PROVE  Shown
<1>1. pc # "done" => header = NoHeader
  BY DEF FileInv
<1>2. pc = "create" => pos = 0
  BY DEF FileInv
<1>3. pc \in {"nodes", "pages", "header", "done"} => pos # 0
  BY DEF FileInv, Live
<1>4. ASSUME pc = "done" PROVE header # NoHeader /\ HoldsTheRest
  <2>1. Closed
    BY <1>4 DEF Closed, Finished
  <2>2. plan.header.eof # 0 /\ header = plan.header
    BY <2>1, TreesThere DEF Closed, Finished, FileInv, LayoutOver
  <2> QED BY <2>1, <2>2, RestHeld DEF NoHeader
<1> QED BY <1>1, <1>2, <1>3, <1>4 DEF Shown, FileAt, FileResult

\* An error shows, and changes nothing else that does.
LEMMA ErrorShows ==
  ASSUME Shown, Shown', pc \in {"create", "nodes", "pages", "header"},
         pc' \in {"failed", "panicked"}, pos' = pos
  PROVE  FileAt' = FileAt /\ FileResult = "none" /\ FileResult' = "error"
BY DEF Shown, FileResult

\* Every step of the conversion is a step of OutputFile, or none.
LEMMA ShownSteps ==
  ASSUME FileInv, FileInv', ~ RECOVERS, Shown, Shown', [Next]_vars
  PROVE  [Output!Next]_(Output!vars)
<1>1. SUFFICES \/ FileAt' = FileAt /\ FileResult' = FileResult
               \/ FileAt = "absent" /\ FileAt' = "partial" /\ FileResult = "none"
                  /\ FileResult' = "none"
               \/ FileAt = "partial" /\ FileAt' = "whole" /\ FileResult = "none"
                  /\ FileResult' = "ok"
               \/ FileAt' = FileAt /\ FileResult = "none" /\ FileResult' = "error"
  BY DEF Output!Next, Output!Start, Output!Complete, Output!Abandon, Output!vars,
         FileAt, FileResult
<1>2. CASE UNCHANGED vars
  <2>1. UNCHANGED <<pc, src, out, pos, named, flushed, header>>
    BY <1>2 DEF vars, writer
  <2>2. Readable' = Readable
    BY <2>1 DEF Readable, Find, Pages, OnDisk
  <2>3. HoldsTheRest' <=> HoldsTheRest
    <3>1. \A new, n : Carried(src, new, n)' <=> Carried(src, new, n)
      BY <2>1 DEF Carried, Find, Pages, OnDisk
    <3> QED BY <2>1, <2>2, <3>1 DEF HoldsTheRest
  <2> QED BY <2>1, <2>3 DEF FileAt, FileResult
<1>3. ASSUME pc \in {"nodes", "pages"}, pc' \in {"nodes", "pages", "header"}
      PROVE  FileAt' = FileAt /\ FileResult' = FileResult
  BY <1>3 DEF Shown
<1>4. ASSUME pc \in {"create", "nodes", "pages", "header"}, pc' \in {"failed", "panicked"}, pos' = pos
      PROVE  FileAt' = FileAt /\ FileResult = "none" /\ FileResult' = "error"
  BY <1>4, ErrorShows
<1>5. CASE Create
  <2>1. CASE Fail
    BY <1>4, <1>5, <2>1 DEF Create, Fail, writer
  <2>2. CASE ~ Fail
    <3>1. pc = "create" /\ pc' = "nodes"
      BY <1>5, <2>2 DEF Create
    <3> QED BY <3>1 DEF Shown
  <2> QED BY <2>1, <2>2
<1>6. CASE Begin
  BY <1>3, <1>6 DEF Begin
<1>7. CASE WriteBlock
  BY <1>3, <1>7 DEF WriteBlock
<1>8. CASE WriteFails
  BY <1>3, <1>8 DEF WriteFails
<1>9. CASE EndNode
  BY <1>3, <1>9 DEF EndNode
<1>10. CASE NoTree
  BY <1>4, <1>10 DEF NoTree, writer
<1>11. CASE LayOut
  BY <1>3, <1>11 DEF LayOut
<1>12. CASE WritePage
  <2>1. CASE Fail
    BY <1>4, <1>12, <2>1 DEF WritePage, Fail, writer
  <2>2. CASE ~ Fail
    BY <1>3, <1>12, <2>2 DEF WritePage
  <2> QED BY <2>1, <2>2
<1>13. CASE Flush
  <2>1. CASE Fail
    BY <1>4, <1>13, <2>1 DEF Flush, Fail, writer
  <2>2. CASE ~ Fail
    BY <1>3, <1>13, <2>2 DEF Flush
  <2> QED BY <2>1, <2>2
<1>14. CASE WriteHeader
  <2>1. CASE Fail
    BY <1>4, <1>14, <2>1 DEF WriteHeader, Fail, writer
  <2>2. CASE ~ Fail
    <3>1. pc = "header" /\ pc' = "done"
      BY <1>14, <2>2 DEF WriteHeader
    <3> QED BY <3>1 DEF Shown
  <2> QED BY <2>1, <2>2
<1> QED BY <1>2, <1>5, <1>6, <1>7, <1>8, <1>9, <1>10, <1>11, <1>12, <1>13, <1>14 DEF Next

(* ImplementsOutput: every step of the conversion is one that OutputFile allows,
   whichever write fails.  An error leaves what was written so far, success is
   said of a file that holds the rest. *)
THEOREM ConvertIsOutput == ASSUME ~ RECOVERS, Unique PROVE Spec => ImplementsOutput
<1>1. ASSUME Init PROVE Output!Init
  BY <1>1 DEF Init, Output!Init
<1>2. FileInv /\ NodesInv => Shown
  BY ShownIs
<1>3. FileInv /\ FileInv' /\ Shown /\ Shown' /\ [Next]_vars => [Output!Next]_(Output!vars)
  BY ShownSteps
<1> QED BY <1>1, <1>2, <1>3, ConvertNodes, PTL DEF Spec, ImplementsOutput, Output!Safety

-----------------------------------------------------------------------------
(* The types, and the order of the entries, after a failed write too. *)

\* The types, and both lists of entries in the order BuildTree asks for.
KeysInv ==
  /\ pc \in {"create", "nodes", "pages", "header", "done", "failed", "panicked"}
  /\ end \in Nat /\ base \in Nat /\ broken \in BOOLEAN
  /\ out \in Seq(OutPiece) /\ flushed \in 0 .. Len(out)
  /\ bbt \in Seq(BLeaf) /\ Ascending(bbt) /\ \A j \in 1 .. Len(bbt) : bbt[j].key < 4 * next
  /\ nbt \in Seq(NLeaf) /\ Ascending(nbt)
  /\ pc \in {"create", "nodes"} =>
       i <= Len(src.nodes) /\ \A k \in 1 .. Len(nbt) : \E m \in 1 .. i : nbt[k].key = Kept[m].nid

\* At the start both lists of entries are empty.
LEMMA KeysInit == Init => KeysInv
<1> SUFFICES ASSUME Init PROVE KeysInv
  OBVIOUS
<1>1. /\ pc = "create" /\ i = 0 /\ nbt = <<>> /\ bbt = <<>> /\ out = <<>> /\ end = 0 /\ base = 0
      /\ broken = FALSE /\ flushed = 0 /\ src \in SOURCES
  BY DEF Init
<1>2. 0 <= Len(src.nodes)
  <2>1. Source(src)
    BY <1>1, SourcesAre
  <2> QED BY <2>1 DEF Source
<1>3. Ascending(nbt) /\ Ascending(bbt)
  BY <1>1 DEF Ascending
<1>4. (\A k \in 1 .. Len(nbt) : FALSE) /\ (\A k \in 1 .. Len(bbt) : FALSE)
  BY <1>1
<1>5. out \in Seq(OutPiece) /\ bbt \in Seq(BLeaf) /\ nbt \in Seq(NLeaf) /\ Len(out) = 0
  BY <1>1
<1>6. end \in Nat /\ base \in Nat /\ broken \in BOOLEAN /\ flushed \in 0 .. Len(out)
  <2>1. end = 0 /\ base = 0 /\ flushed = 0 /\ broken = FALSE
    BY <1>1
  <2>2. broken \in BOOLEAN
    BY <2>1, Zenon
  <2>3. end \in Nat /\ base \in Nat /\ flushed \in 0 .. 0
    BY <2>1, Z3
  <2> QED BY <1>5, <2>2, <2>3
<1>7. i <= Len(src.nodes)
  BY <1>1, <1>2
<1>8. \A j \in 1 .. Len(bbt) : bbt[j].key < 4 * next
  BY <1>4
<1>9. \A k \in 1 .. Len(nbt) : \E m \in 1 .. i : nbt[k].key = Kept[m].nid
  BY <1>4
<1> QED BY <1>1, <1>3, <1>5, <1>6, <1>7, <1>8, <1>9 DEF KeysInv

\* An entry with a higher key goes on at the end.
LEMMA AscendOn ==
  ASSUME NEW L, NEW s \in Seq(L), \A x \in L : x.key \in Nat, Ascending(s), NEW e \in L,
         \A k \in 1 .. Len(s) : s[k].key < e.key
  PROVE  /\ Append(s, e) \in Seq(L) /\ Ascending(Append(s, e))
         /\ \A k \in 1 .. Len(Append(s, e)) :
              \/ k \in 1 .. Len(s) /\ Append(s, e)[k] = s[k]
              \/ k = Len(s) + 1 /\ Append(s, e)[k] = e
<1>1. PICK t : t = Append(s, e)
  OBVIOUS
<1>2. PICK n \in Nat : n = Len(s)
  OBVIOUS
<1>6. t \in Seq(L) /\ Len(t) = n + 1 /\ t[n + 1] = e /\ \A m \in 1 .. n : t[m] = s[m]
  BY <1>1, <1>2, SeqGrown
<1>3. \A k \in 1 .. n + 1 : (k \in 1 .. n /\ t[k] = s[k]) \/ (k = n + 1 /\ t[k] = e)
  <2> TAKE k \in 1 .. n + 1
  <2>1. k = n + 1 \/ k \in 1 .. n
    OBVIOUS
  <2> QED BY <1>6, <2>1
<1>4. ASSUME NEW j \in 1 .. n + 1, NEW k \in 1 .. n + 1, j < k PROVE t[j].key < t[k].key
  <2>1. j \in 1 .. n /\ t[j] = s[j]
    BY <1>2, <1>3, <1>4
  <2>2. CASE k \in 1 .. n /\ t[k] = s[k]
    BY <1>2, <1>4, <2>1, <2>2 DEF Ascending
  <2>3. CASE k = n + 1 /\ t[k] = e
    BY <1>2, <2>1, <2>3
  <2> QED BY <1>3, <2>2, <2>3
<1>5. Ascending(t)
  BY <1>4, <1>6 DEF Ascending
<1> QED BY <1>1, <1>2, <1>3, <1>5, <1>6

\* A step that adds no entry.
KeysAsTheyWere ==
  /\ pc' \in {"create", "nodes", "pages", "header", "done", "failed", "panicked"}
  /\ end' \in Nat /\ base' \in Nat /\ broken' \in BOOLEAN
  /\ out' \in Seq(OutPiece) /\ flushed' \in 0 .. Len(out')
  /\ src' = src /\ bbt' = bbt /\ nbt' = nbt /\ next' \in Nat /\ next <= next'
  /\ pc' \in {"create", "nodes"} =>
       pc \in {"create", "nodes"} /\ i' \in Nat /\ i <= i' /\ i' <= Len(src.nodes)

\* A step that adds no entry keeps the order of both lists.
LEMMA KeysGoOn ==
  ASSUME KeysInv, KeysAsTheyWere, next \in Nat, i \in Nat
  PROVE  KeysInv'
<1>1. ASSUME NEW j \in 1 .. Len(bbt) PROVE bbt[j].key < 4 * next'
  <2>1. bbt[j] \in BLeaf /\ bbt[j].key < 4 * next
    BY DEF KeysInv
  <2>2. PICK x \in Nat : x = bbt[j].key
    BY <2>1 DEF BLeaf
  <2>3. x < 4 * next /\ next' \in Nat /\ next <= next'
    BY <2>1, <2>2 DEF KeysAsTheyWere
  <2>4. PICK k, n \in Nat : k = next' /\ n = next /\ n <= k
    BY <2>3
  <2>5. x < 4 * k
    <3>1. x < 4 * n
      BY <2>3, <2>4
    <3>2. n <= k
      BY <2>4, Zenon
    <3> QED BY <3>1, <3>2
  <2> QED BY <2>2, <2>4, <2>5
<1>2. Kept' = Kept
  BY DEF Kept, KeysAsTheyWere
<1>3. ASSUME pc' \in {"create", "nodes"}, NEW k \in 1 .. Len(nbt)
      PROVE  \E m \in 1 .. i' : nbt[k].key = Kept[m].nid
  <2>1. PICK m \in 1 .. i : nbt[k].key = Kept[m].nid
    BY <1>3 DEF KeysInv, KeysAsTheyWere
  <2>2. m \in 1 .. i'
    BY <1>3 DEF KeysAsTheyWere
  <2> QED BY <2>1, <2>2
<1> QED BY <1>1, <1>2, <1>3 DEF KeysInv, KeysAsTheyWere, Ascending

\* Steps without a new entry, one by one.
LEMMA KeysKept ==
  ASSUME FileInv, FileInv', ~ RECOVERS, KeysInv,
         \/ Create \/ Begin \/ WriteFails \/ NoTree \/ LayOut \/ WritePage \/ Flush \/ WriteHeader
  PROVE  KeysInv'
<1>1. next \in Nat /\ next' \in Nat /\ i \in Nat /\ i' \in Nat /\ pos \in Nat
  BY DEF FileInv
<1>2. SUFFICES KeysAsTheyWere
  BY <1>1, KeysGoOn
<1>3. ASSUME UNCHANGED <<src, i, base, out, end, next, broken, bbt, nbt, flushed>>,
             pc' \in {"nodes", "failed", "panicked"}, pc' = "nodes" => pc \in {"create", "nodes"}
      PROVE  KeysAsTheyWere
  BY <1>1, <1>3 DEF KeysAsTheyWere, KeysInv
<1>4. ASSUME Fail PROVE KeysAsTheyWere
  BY <1>3, <1>4 DEF Fail, writer
<1>5. CASE Create
  <2>1. CASE ~ Fail
    <3>1. FirstFree \in Nat
      BY FirstFreeIs
    <3> QED BY <1>1, <1>5, <2>1, <3>1 DEF Create, KeysAsTheyWere, KeysInv
  <2> QED BY <1>4, <2>1
<1>6. CASE Begin
  BY <1>1, <1>6 DEF Begin, writer, KeysAsTheyWere, KeysInv
<1>7. CASE WriteFails
  <2>1. pc = "nodes" /\ job # NoJob /\ Written < Len(job.blocks)
    BY <1>7 DEF WriteFails
  <2>2. PICK span : span = BlockSpan(Bytes(job.blocks[Written + 1]))
    OBVIOUS
  <2>3. PICK at : at = PlaceAligned(pos, span, BLOCK_ALIGN)
    OBVIOUS
  <2>4. at \in Nat /\ pos <= at /\ i < Len(src.nodes)
    BY <1>1, <2>1, <2>2, <2>3, TaskIs, Alignments, PlaceAlignedIs
  <2>5. (\E got \in 0 .. at - pos - 1 : end' = end + got) \/ end' = end + (at - pos)
    BY <1>7, <2>2, <2>3 DEF WriteFails
  <2>6. end' \in Nat
    <3>1. end \in Nat /\ at - pos \in Nat
      BY <1>1, <2>4 DEF KeysInv
    <3> QED BY <1>1, <2>4, <2>5, <3>1
  <2>7. i' = i + 1 /\ next' = next + 1 /\ broken' = TRUE
        /\ UNCHANGED <<pc, src, base, out, bbt, nbt, divided, plan, flushed, header>>
    BY <1>7 DEF WriteFails, LeaveOut
  <2>8. Len(src.nodes) \in Nat
    BY FirstInFile DEF Source
  <2> QED BY <1>1, <2>1, <2>4, <2>6, <2>7, <2>8 DEF KeysAsTheyWere, KeysInv
<1>8. CASE NoTree
  BY <1>3, <1>8 DEF NoTree, writer
<1>9. CASE LayOut
  BY <1>1, <1>9 DEF LayOut, writer, KeysAsTheyWere, KeysInv
<1>10. CASE WritePage
  <2>1. CASE ~ Fail
    <3>1. PICK s : out' = Append(out, s)
      BY <1>10, <2>1 DEF WritePage
    <3>2. /\ pc = "pages" /\ ~ broken
          /\ UNCHANGED <<pc, src, base, next, broken, bbt, nbt, flushed>>
      BY <1>10, <2>1 DEF WritePage, WriteOk
    <3>3. BlocksOut' /\ pos' \in Nat
      BY <3>2 DEF FileInv, Live
    <3>4. out' \in Seq(OutPiece) /\ end' \in Nat
      BY <3>3 DEF BlocksOut
    <3>5. flushed \in 0 .. Len(out')
      <4>1. out \in Seq(OutPiece) /\ flushed \in 0 .. Len(out)
        BY DEF KeysInv
      <4>2. Len(out') = Len(out) + 1
        BY <3>1, <4>1
      <4> QED BY <4>1, <4>2
    <3> QED BY <1>1, <3>2, <3>4, <3>5 DEF KeysAsTheyWere, KeysInv
  <2> QED BY <1>4, <2>1
<1>11. CASE Flush
  <2>1. CASE ~ Fail
    <3>1. /\ pc' = "header" /\ flushed' = Len(out) /\ ~ broken
          /\ UNCHANGED <<src, base, out, next, broken, bbt, nbt>>
      BY <1>11, <2>1 DEF Flush, WriteOk
    <3>2. BlocksOut' /\ pos' \in Nat
      BY <3>1 DEF FileInv, Live
    <3>3. end' \in Nat
      BY <3>2 DEF BlocksOut
    <3>4. flushed' \in 0 .. Len(out')
      <4>1. Len(out) \in Nat
        BY DEF KeysInv
      <4> QED BY <3>1, <4>1
    <3> QED BY <1>1, <3>1, <3>3, <3>4 DEF KeysAsTheyWere, KeysInv
  <2> QED BY <1>4, <2>1
<1>12. CASE WriteHeader
  <2>1. CASE ~ Fail
    BY <1>1, <1>12, <2>1 DEF WriteHeader, writer, KeysAsTheyWere, KeysInv
  <2> QED BY <1>4, <2>1
<1> QED BY <1>5, <1>6, <1>7, <1>8, <1>9, <1>10, <1>11, <1>12

\* A block's id is above all before it: the counter only goes up.
LEMMA KeysGrow ==
  ASSUME FileInv, FileInv', ~ RECOVERS, KeysInv, WriteBlock
  PROVE  KeysInv'
<1>1. pc = "nodes" /\ job # NoJob /\ Written < Len(job.blocks) /\ ~ broken
  BY DEF WriteBlock, WriteOk
<1>2. PICK b : b = job.blocks[Written + 1]
  OBVIOUS
<1>3. PICK e : e = [key |-> Id(next, b), at |-> PlaceAligned(pos, BlockSpan(Bytes(b)), BLOCK_ALIGN),
                    cb |-> Bytes(b), cref |-> 2]
  OBVIOUS
<1>4. /\ bbt' = Append(bbt, e) /\ next' = next + 1
      /\ UNCHANGED <<pc, src, i, base, broken, nbt, flushed>>
  BY <1>2, <1>3 DEF WriteBlock
<1>5. PICK s : out' = Append(out, s)
  BY DEF WriteBlock
<1>6. pos \in Nat /\ next \in Nat
  BY DEF FileInv
<1>7. Bytes(b) \in Nat /\ PlaceAligned(pos, BlockSpan(Bytes(b)), BLOCK_ALIGN) \in Nat
  BY <1>1, <1>2, <1>6, TaskIs, Alignments, PlaceAlignedIs
<1>8. PICK id \in Nat : id = Id(next, b) /\ 4 * next <= id /\ id < 4 * next + 4
  BY <1>6, IdRange
<1>9. e \in BLeaf /\ e.key = id
  BY <1>3, <1>7, <1>8 DEF BLeaf
<1>10. bbt \in Seq(BLeaf) /\ Ascending(bbt) /\ \A j \in 1 .. Len(bbt) : bbt[j].key < 4 * next
  BY DEF KeysInv
<1>11. \A j \in 1 .. Len(bbt) : bbt[j].key < e.key /\ bbt[j].key < 4 * next'
  <2> TAKE j \in 1 .. Len(bbt)
  <2>1. PICK x \in Nat : x = bbt[j].key
    <3>1. bbt[j] \in BLeaf
      BY <1>10
    <3>2. bbt[j].key \in Nat
      BY <3>1 DEF BLeaf
    <3> QED BY <3>2
  <2>2. x < 4 * next
    BY <1>10, <2>1
  <2>3. x < id /\ x < 4 * (next + 1)
    BY <1>6, <1>8, <2>2
  <2> QED BY <1>4, <1>9, <2>1, <2>3
<1>12. e.key < 4 * next'
  BY <1>4, <1>6, <1>8, <1>9
<1>13. PICK t : t = Append(bbt, e)
  OBVIOUS
<1>14. /\ t \in Seq(BLeaf) /\ Ascending(t)
       /\ \A k \in 1 .. Len(t) : \/ k \in 1 .. Len(bbt) /\ t[k] = bbt[k]
                                 \/ k = Len(bbt) + 1 /\ t[k] = e
  <2>1. \A x \in BLeaf : x.key \in Nat
    BY DEF BLeaf
  <2> QED BY <1>9, <1>10, <1>11, <1>13, <2>1, AscendOn
<1>15. \A k \in 1 .. Len(t) : t[k].key < 4 * next'
  BY <1>11, <1>12, <1>14
<1>16. out' \in Seq(OutPiece) /\ end' \in Nat
  <2>1. BlocksOut' /\ pos' \in Nat
    BY <1>1, <1>4 DEF FileInv, Live
  <2> QED BY <2>1 DEF BlocksOut
<1>17. flushed \in 0 .. Len(out')
  <2>1. out \in Seq(OutPiece) /\ flushed \in 0 .. Len(out)
    BY DEF KeysInv
  <2>2. Len(out') = Len(out) + 1
    BY <1>5, <2>1
  <2> QED BY <2>1, <2>2
<1>18. Kept' = Kept
  BY <1>4 DEF Kept
<1> QED BY <1>4, <1>13, <1>14, <1>15, <1>16, <1>17, <1>18 DEF KeysInv

\* A node's id is above all before it: the nodes are kept in order, one of each id.
LEMMA KeysEnd ==
  ASSUME FileInv, Unique, KeysInv, EndNode
  PROVE  KeysInv'
<1>1. /\ pc = "nodes" /\ job # NoJob /\ i' = i + 1
      /\ UNCHANGED <<pc, src, base, out, end, next, broken, bbt, flushed>>
  BY DEF EndNode, LeaveOut, writer
<1>2. PICK n : n = Kept[i + 1]
  OBVIOUS
<1>3. PICK d \in Nat : d = i
  BY DEF FileInv
<1>4. /\ Source(src) /\ n \in Node(src) /\ job \in Jobs /\ base \in Nat /\ d < Len(src.nodes)
      /\ d + 1 \in 1 .. Len(Kept) /\ n = Kept[d + 1] /\ src \in SOURCES
  BY <1>1, <1>2, <1>3, TaskIs DEF FileInv
<1>5. PICK e : e = [key |-> n.nid, data |-> IdOf(base, job.blocks, job.data),
                    sub |-> IdOf(base, job.blocks, job.sub), parent |-> n.parent]
  OBVIOUS
<1>6. nbt' = nbt \/ nbt' = Append(nbt, e)
  BY <1>2, <1>5 DEF EndNode, LeaveOut, Kept
<1>7. e \in NLeaf /\ e.key = n.nid
  <2>1. n.nid \in Nat /\ n.parent \in Nat /\ job.data \in Nat /\ job.sub \in Nat
    BY <1>4 DEF Node, Jobs
  <2>2. IdOf(base, job.blocks, job.data) \in Nat /\ IdOf(base, job.blocks, job.sub) \in Nat
    BY <1>4, <2>1, IdOfTyped
  <2> QED BY <1>5, <2>1, <2>2 DEF NLeaf
<1>8. /\ nbt \in Seq(NLeaf) /\ Ascending(nbt)
      /\ \A k \in 1 .. Len(nbt) : \E m \in 1 .. d : nbt[k].key = Kept[m].nid
  BY <1>1, <1>3 DEF KeysInv
<1>9. \A m \in 1 .. d : m \in 1 .. Len(Kept) /\ Kept[m].nid < n.nid
  <2> TAKE m \in 1 .. d
  <2>1. Len(Kept) \in Nat
    BY <1>4, KeptIs DEF Kept
  <2>2. m \in 1 .. Len(Kept) /\ m < d + 1
    BY <1>3, <1>4, <2>1
  <2> QED BY <1>4, <2>2, KeptGrow
<1>10. \A k \in 1 .. Len(nbt) : nbt[k].key < e.key
  BY <1>7, <1>8, <1>9
<1>11. PICK t : t = Append(nbt, e)
  OBVIOUS
<1>12. /\ t \in Seq(NLeaf) /\ Ascending(t)
       /\ \A k \in 1 .. Len(t) : \/ k \in 1 .. Len(nbt) /\ t[k] = nbt[k]
                                 \/ k = Len(nbt) + 1 /\ t[k] = e
  <2>1. \A x \in NLeaf : x.key \in Nat
    BY DEF NLeaf
  <2> QED BY <1>7, <1>8, <1>10, <1>11, <2>1, AscendOn
<1>13. ASSUME NEW k \in 1 .. Len(nbt) PROVE \E m \in 1 .. d + 1 : nbt[k].key = Kept[m].nid
  <2>1. PICK m \in 1 .. d : nbt[k].key = Kept[m].nid
    BY <1>8
  <2>2. m \in 1 .. d + 1
    BY <1>3
  <2> QED BY <2>1, <2>2
<1>14. \E m \in 1 .. d + 1 : e.key = Kept[m].nid
  <2>1. d + 1 \in 1 .. d + 1
    BY <1>3
  <2> QED BY <1>4, <1>7, <2>1
<1>15. \A k \in 1 .. Len(t) : \E m \in 1 .. d + 1 : t[k].key = Kept[m].nid
  BY <1>12, <1>13, <1>14
<1>16. Kept' = Kept /\ d + 1 <= Len(src.nodes) /\ i' = d + 1
  BY <1>1, <1>3, <1>4 DEF Kept, Source
<1>17. CASE nbt' = nbt
  BY <1>1, <1>8, <1>13, <1>16, <1>17 DEF KeysInv
<1>18. CASE nbt' = t
  BY <1>1, <1>12, <1>15, <1>16, <1>18 DEF KeysInv
<1> QED BY <1>6, <1>11, <1>17, <1>18

\* Every step keeps the types and the order of the entries.
LEMMA KeysSteps ==
  ASSUME FileInv, FileInv', ~ RECOVERS, Unique, KeysInv, [Next]_vars
  PROVE  KeysInv'
<1>1. CASE UNCHANGED vars
  <2>1. UNCHANGED <<pc, src, i, base, out, end, next, broken, nbt, bbt, flushed>>
    BY <1>1 DEF vars, writer
  <2>2. Kept' = Kept
    BY <2>1 DEF Kept
  <2> QED BY <2>1, <2>2 DEF KeysInv
<1>2. CASE WriteBlock
  BY <1>2, KeysGrow
<1>3. CASE EndNode
  BY <1>3, KeysEnd
<1>4. CASE Next /\ ~ WriteBlock /\ ~ EndNode
  BY <1>4, KeysKept DEF Next
<1> QED BY <1>1, <1>2, <1>3, <1>4

(* The types; and both trees are built over entries that are in the order of their
   ids, which build_tree relies on, even when a write has failed before. *)
THEOREM ConvertTypeOK == ASSUME ~ RECOVERS, Unique PROVE Spec => []TypeOK
<1>1. Init => KeysInv
  BY KeysInit
<1>2. FileInv /\ FileInv' /\ KeysInv /\ [Next]_vars => KeysInv'
  BY KeysSteps
<1>3. FileInv /\ KeysInv => TypeOK
  <2> SUFFICES ASSUME FileInv, KeysInv PROVE TypeOK
    OBVIOUS
  <2>1. nbt \in Seq(NLeaf) /\ bbt \in Seq(BLeaf) /\ Ascending(nbt) /\ Ascending(bbt)
    BY DEF KeysInv
  <2>2. DOMAIN nbt = 1 .. Len(nbt) /\ DOMAIN bbt = 1 .. Len(bbt)
    BY <2>1
  <2>3. \A j, k \in DOMAIN bbt : j < k => bbt[j].key < bbt[k].key
    BY <2>1, <2>2 DEF Ascending
  <2>4. \A j, k \in DOMAIN nbt : j < k => nbt[j].key < nbt[k].key
    BY <2>1, <2>2 DEF Ascending
  <2> QED BY <2>3, <2>4 DEF TypeOK, FileInv, KeysInv
<1> QED BY <1>1, <1>2, <1>3, ConvertFile, PTL DEF Spec

==============================================================================
