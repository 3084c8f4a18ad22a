-------------------------- MODULE RetrievalProofs --------------------------
(***************************************************************************)
(* Proofs about Chunker and Retrieval, for any documents and any sizes.    *)
(*                                                                         *)
(* What the code finds with rfind, strip or join is defined by CHOOSE or   *)
(* by recursion here, so the proofs begin with the numbers: a non-empty    *)
(* set of naturals has a least element, and from that follow that bounded  *)
(* sets have a greatest one and that the recursive sums satisfy their      *)
(* equations.                                                              *)
(***************************************************************************)
EXTENDS Retrieval, SequenceTheorems, WellFoundedInduction, TLAPS

----------------------------------------------------------------------------
(* Numbers.                                                                *)

LEMMA Least ==
    ASSUME NEW S \in SUBSET Nat, S # {}
    PROVE  \E m \in S : \A n \in S : m <= n
<1>1. PICK m \in S : \A n \in S : <<n, m>> \notin OpToRel(<, Nat)
  BY WFMin, NatLessThanWellFounded, Zenon
<1>2. ASSUME NEW n \in S PROVE ~(n < m)
  BY <1>1, Zenon DEF OpToRel
<1> QED BY <1>2

LEMMA Greatest ==
    ASSUME NEW S \in SUBSET Nat, S # {}, NEW b \in Nat, \A n \in S : n <= b
    PROVE  \E m \in S : \A n \in S : n <= m
<1> DEFINE T == {b - n : n \in S}
<1>1. T \in SUBSET Nat /\ T # {}
  <2>1. PICK n \in S : TRUE
    OBVIOUS
  <2>2. b - n \in T
    OBVIOUS
  <2>3. \A m \in S : b - m \in Nat
    OBVIOUS
  <2> QED BY <2>2, <2>3
<1>2. PICK t \in T : \A u \in T : t <= u
  BY <1>1, Least
<1>3. PICK m \in S : t = b - m
  OBVIOUS
<1>4. ASSUME NEW n \in S PROVE n <= m
  <2>1. b - n \in T
    OBVIOUS
  <2>2. b - m <= b - n
    BY <1>2, <1>3, <2>1
  <2> QED BY <2>2
<1> QED BY <1>3, <1>4

----------------------------------------------------------------------------
(* Joined is the sum that its recursive definition says.                   *)

\* g is the table of partial sums of lines from..to.
Sums(g, lines, from, to) ==
    g = [n \in (from - 1)..to |->
            IF n < from THEN 0 ELSE g[n - 1] + lines[n] + (IF n = from THEN 0 ELSE 1)]

LEMMA SumsExist ==
    ASSUME NEW lines \in Seq(Nat), NEW from \in Nat, 1 <= from
    PROVE  \A to \in Nat : (from - 1 <= to /\ to <= Len(lines))
              => \E g : Sums(g, lines, from, to) /\ g \in [(from - 1)..to -> Nat]
<1> DEFINE Has(to) == \E g : Sums(g, lines, from, to) /\ g \in [(from - 1)..to -> Nat]
           Bad == {to \in Nat : from - 1 <= to /\ to <= Len(lines) /\ ~Has(to)}
<1>1. SUFFICES ASSUME Bad # {} PROVE FALSE
  OBVIOUS
<1>2. PICK to \in Bad : \A n \in Bad : to <= n
  BY <1>1, Least
<1>3. to \in Nat /\ from - 1 <= to /\ to <= Len(lines) /\ ~Has(to)
  BY <1>2
<1>4. CASE to = from - 1
  <2> DEFINE g == [n \in (from - 1)..to |-> 0]
  <2>1. Sums(g, lines, from, to)
    BY <1>3, <1>4 DEF Sums
  <2>2. g \in [(from - 1)..to -> Nat]
    OBVIOUS
  <2> QED BY <1>3, <2>1, <2>2, Zenon
<1>5. CASE to # from - 1
  <2>1. to - 1 \in Nat /\ from - 1 <= to - 1 /\ to - 1 <= Len(lines) /\ to \in 1..Len(lines)
    BY <1>3, <1>5
  <2>2. to - 1 \notin Bad
    <3>1. ~(to <= to - 1)
      BY <1>3
    <3> QED BY <1>2, <3>1
  <2>3. Has(to - 1)
    BY <2>1, <2>2
  <2>4. PICK h : Sums(h, lines, from, to - 1) /\ h \in [(from - 1)..(to - 1) -> Nat]
    BY <2>3
  <2>5. lines[to] \in Nat
    BY <2>1
  <2> DEFINE new == h[to - 1] + lines[to] + (IF to = from THEN 0 ELSE 1)
             g == [n \in (from - 1)..to |-> IF n = to THEN new ELSE h[n]]
  <2>6. new \in Nat
    BY <2>1, <2>4, <2>5
  <2>7. g \in [(from - 1)..to -> Nat]
    BY <1>3, <2>4, <2>6
  <2>8. ASSUME NEW n \in (from - 1)..to
        PROVE  g[n] = IF n < from THEN 0
                      ELSE g[n - 1] + lines[n] + (IF n = from THEN 0 ELSE 1)
    <3>1. CASE n = to
      <4>1. g[n - 1] = h[to - 1] /\ ~(n < from)
        BY <1>3, <1>5, <2>1, <3>1
      <4> QED BY <3>1, <4>1
    <3>2. CASE n # to
      <4>1. n \in (from - 1)..(to - 1) /\ g[n] = h[n]
        BY <1>3, <3>2
      <4>2. ~(n < from) => n - 1 \in (from - 1)..(to - 1) /\ g[n - 1] = h[n - 1]
        BY <1>3, <4>1
      <4>3. h[n] = IF n < from THEN 0 ELSE h[n - 1] + lines[n] + (IF n = from THEN 0 ELSE 1)
        BY <2>4, <4>1 DEF Sums
      <4> QED BY <4>1, <4>2, <4>3
    <3> QED BY <3>1, <3>2
  <2>9. Sums(g, lines, from, to)
    <3> HIDE DEF new
    <3>1. g = [n \in (from - 1)..to |-> g[n]]
      OBVIOUS
    <3> HIDE DEF g
    <3> QED BY <2>8, <3>1 DEF Sums
  <2> HIDE DEF g
  <2>10. Has(to)
    BY <2>7, <2>9
  <2> QED BY <1>3, <2>10
<1> QED BY <1>4, <1>5

LEMMA SumsAgree ==
    ASSUME NEW lines, NEW from \in Nat, NEW s \in Nat, NEW t \in Nat, 1 <= from, s <= t,
           NEW g, Sums(g, lines, from, s), NEW h, Sums(h, lines, from, t)
    PROVE  \A n \in (from - 1)..s : g[n] = h[n]
<1> DEFINE Bad == {n \in (from - 1)..s : g[n] # h[n]}
<1>1. SUFFICES ASSUME Bad # {} PROVE FALSE
  OBVIOUS
<1>2. Bad \in SUBSET Nat
  OBVIOUS
<1>3. PICK n \in Bad : \A m \in Bad : n <= m
  BY <1>1, <1>2, Least
<1>4. n \in (from - 1)..s /\ n \in (from - 1)..t /\ g[n] # h[n]
  BY <1>3
<1>5. /\ g[n] = IF n < from THEN 0 ELSE g[n - 1] + lines[n] + (IF n = from THEN 0 ELSE 1)
      /\ h[n] = IF n < from THEN 0 ELSE h[n - 1] + lines[n] + (IF n = from THEN 0 ELSE 1)
  BY <1>4 DEF Sums
<1>6. ~(n < from)
  BY <1>4, <1>5
<1>7. n - 1 \in (from - 1)..s /\ n - 1 \notin Bad
  BY <1>3, <1>4, <1>6
<1>8. g[n - 1] = h[n - 1]
  BY <1>7
<1> QED BY <1>4, <1>5, <1>8

IsSum(g, lines, from, to) ==
    Sums(g, lines, from, to) /\ Joined(lines, from, to) = g[to] /\ g[to] \in Nat

LEMMA JoinedIsSum ==
    ASSUME NEW lines \in Seq(Nat), NEW from \in Nat, NEW to \in Nat,
           1 <= from, from - 1 <= to, to <= Len(lines)
    PROVE  \E g : IsSum(g, lines, from, to)
<1>1. PICK f : Sums(f, lines, from, to) /\ f \in [(from - 1)..to -> Nat]
  BY SumsExist
<1>2. Joined(lines, from, to) = (CHOOSE g : Sums(g, lines, from, to))[to]
  BY DEF Joined, Sums
<1> DEFINE g == CHOOSE g : Sums(g, lines, from, to)
<1>3. Sums(g, lines, from, to)
  BY <1>1, Zenon
<1> HIDE DEF g
<1>4. g[to] = f[to] /\ f[to] \in Nat
  BY <1>1, <1>3, SumsAgree
<1>5. Joined(lines, from, to) = g[to]
  BY <1>2 DEF g
<1> QED BY <1>3, <1>4, <1>5 DEF IsSum

\* A line joined to itself, and one more line joined to others.
LEMMA JoinedOne ==
    ASSUME NEW lines \in Seq(Nat), NEW i \in 1..Len(lines)
    PROVE  Joined(lines, i, i) = lines[i]
<1>1. PICK g : IsSum(g, lines, i, i)
  BY JoinedIsSum
<1>2. g[i - 1] = 0 /\ g[i] = g[i - 1] + lines[i] + 0
  BY <1>1 DEF Sums, IsSum
<1>3. lines[i] \in Nat
  OBVIOUS
<1> QED BY <1>1, <1>2, <1>3 DEF IsSum

LEMMA JoinedNext ==
    ASSUME NEW lines \in Seq(Nat), NEW from \in Nat, NEW to \in Nat,
           1 <= from, from <= to, to < Len(lines)
    PROVE  Joined(lines, from, to + 1) = Joined(lines, from, to) + lines[to + 1] + 1
<1>0. /\ Len(lines) \in Nat /\ from - 1 <= to /\ to <= Len(lines)
      /\ to + 1 \in Nat /\ from - 1 <= to + 1 /\ to + 1 <= Len(lines)
  OBVIOUS
<1>1. PICK g : IsSum(g, lines, from, to)
  BY <1>0, JoinedIsSum
<1>2. PICK h : IsSum(h, lines, from, to + 1)
  BY <1>0, JoinedIsSum
<1>3. g[to] = h[to]
  BY <1>1, <1>2, SumsAgree DEF IsSum
<1>4. h[to + 1] = h[(to + 1) - 1] + lines[to + 1] + 1
  BY <1>2 DEF Sums, IsSum
<1> QED BY <1>1, <1>2, <1>3, <1>4 DEF IsSum

LEMMA JoinedType ==
    ASSUME NEW lines \in Seq(Nat), NEW from \in Nat, NEW to \in Nat,
           1 <= from, from <= to, to <= Len(lines)
    PROVE  Joined(lines, from, to) \in Nat
<1>1. from - 1 <= to
  OBVIOUS
<1> QED BY <1>1, JoinedIsSum DEF IsSum

----------------------------------------------------------------------------
(* What the two cuts do.                                                   *)

LEMMA HalfSize ==
    /\ Size \in Nat /\ Overlap \in Nat /\ Size \div 2 \in Nat
    /\ Overlap < Size \div 2 /\ Size \div 2 <= Size
  BY SizesAssumption

\* A part ends within Size characters, and beyond what the next one repeats.
LEMMA EndOfPart ==
    ASSUME NEW text \in Seq(Chars), NEW s \in Nat
    PROVE  /\ EndOf(text, s) \in Nat
           /\ EndOf(text, s) <= s + Size /\ s + Overlap < EndOf(text, s)
<1> DEFINE spaces == Spaces(text, s + Size \div 2, s + Size)
<1>1. /\ spaces \in SUBSET Nat
      /\ \A i \in spaces : s + Size \div 2 <= i /\ i <= s + Size /\ i \in Nat
  BY HalfSize DEF Spaces
<1>2. CASE ~(s + Size >= Len(text)) /\ \E i \in spaces : i > s
  <2>1. \E i \in spaces : \A j \in spaces : j <= i
    <3>1. s + Size \in Nat /\ spaces # {} /\ \A i \in spaces : i <= s + Size
      BY <1>1, <1>2, HalfSize
    <3> HIDE DEF spaces
    <3> QED BY <1>1, <3>1, Greatest
  <2>2. EndOf(text, s) = CHOOSE i \in spaces : \A j \in spaces : j <= i
    BY <1>2 DEF EndOf
  <2> HIDE DEF spaces
  <2>3. EndOf(text, s) \in spaces
    BY <2>1, <2>2, Zenon
  <2>4. EndOf(text, s) \in Nat /\ s + Size \div 2 <= EndOf(text, s) /\ EndOf(text, s) <= s + Size
    BY <1>1, <2>3
  <2> QED BY <2>4, HalfSize
<1>3. CASE ~(~(s + Size >= Len(text)) /\ \E i \in spaces : i > s)
  <2>1. EndOf(text, s) = s + Size
    BY <1>3 DEF EndOf
  <2> QED BY <2>1, HalfSize
<1> QED BY <1>2, <1>3

ChunkRecs == [block : Nat, from : Nat, to : Nat]
Named(b, from, to) == [block |-> b, from |-> from, to |-> to]

\* c is the part from..to of the text without the white space at its ends.
Trims(c, text, from, to) ==
    /\ c = Named(block, c.from, c.to)
    /\ c.from \in from..to /\ c.to \in from..to /\ c.from <= c.to
    /\ ~White(text, c.from)
    /\ \A i \in from..to : ~White(text, i) => c.from <= i /\ i <= c.to

LEMMA StrippedPart ==
    ASSUME NEW text, NEW from \in Nat, NEW to \in Nat
    PROVE  \/ Stripped(text, from, to) = <<>> /\ \A i \in from..to : White(text, i)
           \/ \E c : Stripped(text, from, to) = <<c>> /\ Trims(c, text, from, to)
<1> DEFINE S == Letters(text, from, to)
<1>1. S \in SUBSET Nat /\ \A i \in S : i <= to
  BY DEF Letters
<1>2. CASE S = {}
  BY <1>2 DEF Stripped, Letters
<1>3. CASE S # {}
  <2> DEFINE lo == CHOOSE i \in S : \A j \in S : i <= j
             hi == CHOOSE i \in S : \A j \in S : j <= i
  <2>1. \E i \in S : \A j \in S : i <= j
    BY <1>1, <1>3, Least
  <2>2. \E i \in S : \A j \in S : j <= i
    BY <1>1, <1>3, Greatest
  <2>3. Stripped(text, from, to) = <<Named(block, lo, hi)>>
    BY <1>3 DEF Stripped, Named
  <2> HIDE DEF S
  <2>4. lo \in S /\ \A j \in S : lo <= j
    BY <2>1, Zenon
  <2>5. hi \in S /\ \A j \in S : j <= hi
    BY <2>2, Zenon
  <2> HIDE DEF lo, hi
  <2>6. lo <= hi
    BY <2>4, <2>5
  <2> DEFINE c == Named(block, lo, hi)
  <2>7. c.from = lo /\ c.to = hi /\ c = Named(block, c.from, c.to)
    BY DEF Named
  <2>8. lo \in from..to /\ hi \in from..to /\ ~White(text, lo)
        /\ \A i \in from..to : ~White(text, i) => i \in S
    BY <2>4, <2>5 DEF S, Letters
  <2>9. Trims(c, text, from, to)
    BY <2>4, <2>5, <2>6, <2>7, <2>8 DEF Trims
  <2> QED BY <2>3, <2>9
<1> QED BY <1>2, <1>3

----------------------------------------------------------------------------
(* The invariant of the chunker.                                           *)

Inked(d, c) ==
    \E i \in c.from..c.to :
        IF d[c.block].kind = "text" THEN ~White(d[c.block].chars, i)
                                    ELSE d[c.block].lines[i] > 0

\* A chunk of the document d lies in its block, is not blank, and fits.
Right(d, c) ==
    /\ c.block \in 1..Len(d)
    /\ 1 <= c.from /\ c.from <= c.to
    /\ IF d[c.block].kind = "text"
       THEN c.to <= Len(d[c.block].chars) /\ c.to - c.from < Size
       ELSE /\ c.to <= Len(d[c.block].lines)
            /\ c.from = c.to \/ Joined(d[c.block].lines, c.from, c.to) <= Size
    /\ Inked(d, c)

\* A passage of a text that must stay whole; that some of the chunks cs holds a
\* passage, and that a line stands in one of them.
Together(text, from, to) ==
    from <= to /\ to - from <= Overlap /\ ~White(text, from) /\ ~White(text, to)
Passage(cs, b, from, to) == \E n \in DOMAIN cs : Holds(cs[n], b, from, to)
Once(cs, b, i) ==
    \E n \in DOMAIN cs : \A m \in DOMAIN cs : Holds(cs[m], b, i, i) <=> m = n

WholeText(text, cs, b, upto) ==
    \A from, to \in 1..Len(text) :
        (Together(text, from, to) /\ to <= upto) => Passage(cs, b, from, to)
WholeRows(lines, cs, b, upto) ==
    \A i \in 1..Len(lines) : (lines[i] > 0 /\ i <= upto) => Once(cs, b, i)
Whole(d, cs, b) ==
    IF d[b].kind = "text" THEN WholeText(d[b].chars, cs, b, Len(d[b].chars))
                          ELSE WholeRows(d[b].lines, cs, b, Len(d[b].lines))

\* _split_text: what the part before has not lost.
TextSoFar == start > 0 => WholeText(Text, chunks, block, start + Overlap)

\* _split_rows: the parts before hold the lines before current, whose length is
\* counted with a newline at its end.
RowsSoFar ==
    /\ line <= Len(Lines) /\ 1 <= first /\ first <= line + 1
    /\ line > 0 => first <= line
    /\ line = 0 => length = 0
    /\ WholeRows(Lines, chunks, block, first - 1)
    /\ \A n \in DOMAIN chunks : chunks[n].block = block => chunks[n].to < first
    /\ first <= line => /\ length = Joined(Lines, first, line) + 1
                        /\ first = line \/ Joined(Lines, first, line) <= Size

CutTypes ==
    /\ document \in Documents
    /\ block \in 1..(Len(document) + 1)
    /\ start \in Nat /\ first \in Nat /\ line \in Nat /\ length \in Nat
    /\ chunks \in Seq(ChunkRecs)

\* The chunks are right, and those of the blocks that are done miss nothing.
ChunksRight ==
    /\ \A n \in DOMAIN chunks : Right(document, chunks[n]) /\ chunks[n].block <= block
    /\ \A b \in 1..(block - 1) : Whole(document, chunks, b)

CutInv ==
    /\ CutTypes /\ ChunksRight
    /\ At("text") => TextSoFar
    /\ At("table") => RowsSoFar

LEMMA BlockTypes ==
    ASSUME CutTypes, NEW b \in 1..Len(document)
    PROVE  /\ Len(document) \in Nat
           /\ document[b].kind \in {"text", "table"}
           /\ document[b].kind = "text" => document[b].chars \in Seq(Chars)
           /\ document[b].kind = "table" => document[b].lines \in Seq(Nat)
<1>1. document \in Seq(Blocks)
  BY DocumentsAssumption DEF CutTypes
<1>2. document[b] \in Blocks
  BY <1>1
<1> QED BY <1>1, <1>2 DEF Blocks

\* What the invariant says of the blocks that are done.
LEMMA CutInvShows ==
    ASSUME CutInv
    PROVE  TypeOK /\ NothingIsLost /\ ChunksFit
<1>1. TypeOK
  BY DEF CutInv, CutTypes, TypeOK, ChunkRecs
<1>2. ChunksFit
  BY DEF CutInv, ChunksRight, Right, ChunksFit
<1>3. ASSUME NEW b \in 1..(block - 1)
      PROVE  b \in 1..Len(document) /\ Whole(document, chunks, b)
  BY <1>3, DocumentsAssumption DEF CutInv, CutTypes, ChunksRight
<1>4. ASSUME NEW b \in 1..(block - 1), document[b].kind = "text"
      PROVE  LET text == document[b].chars IN
             \A from, to \in 1..Len(text) :
                (from <= to /\ to - from <= Overlap
                    /\ ~White(text, from) /\ ~White(text, to))
                => \E n \in DOMAIN chunks : Holds(chunks[n], b, from, to)
  BY <1>3, <1>4 DEF Whole, WholeText, Together, Passage
<1>5. ASSUME NEW b \in 1..(block - 1), document[b].kind # "text"
      PROVE  \A i \in DOMAIN document[b].lines :
                document[b].lines[i] > 0
                => \E n \in DOMAIN chunks :
                      \A m \in DOMAIN chunks : Holds(chunks[m], b, i, i) <=> m = n
  <2>1. document[b].lines \in Seq(Nat)
    BY <1>3, <1>5, BlockTypes DEF CutInv
  <2>2. WholeRows(document[b].lines, chunks, b, Len(document[b].lines))
    BY <1>3, <1>5 DEF Whole
  <2> QED BY <2>1, <2>2 DEF WholeRows, Once
<1> QED BY <1>1, <1>2, <1>4, <1>5 DEF NothingIsLost

----------------------------------------------------------------------------
(* A chunk is added.                                                       *)

LEMMA Appended ==
    ASSUME NEW cs \in Seq(ChunkRecs), NEW c \in ChunkRecs
    PROVE  /\ cs \o <<>> = cs /\ cs \o <<c>> = Append(cs, c)
           /\ Append(cs, c) \in Seq(ChunkRecs)
           /\ Len(cs) \in Nat /\ DOMAIN cs = 1..Len(cs)
           /\ DOMAIN Append(cs, c) = 1..(Len(cs) + 1)
           /\ \A n \in 1..Len(cs) : Append(cs, c)[n] = cs[n]
           /\ Append(cs, c)[Len(cs) + 1] = c
  OBVIOUS

LEMMA Adding ==
    ASSUME NEW cs \in Seq(ChunkRecs), NEW c \in ChunkRecs, NEW b, NEW from, NEW to
    PROVE  /\ Passage(cs, b, from, to) => Passage(Append(cs, c), b, from, to)
           /\ Holds(c, b, from, to) => Passage(Append(cs, c), b, from, to)
           /\ (Once(cs, b, from) /\ ~Holds(c, b, from, from)) => Once(Append(cs, c), b, from)
           /\ (Holds(c, b, from, from) /\ \A n \in DOMAIN cs : ~Holds(cs[n], b, from, from))
                 => Once(Append(cs, c), b, from)
<1> DEFINE more == Append(cs, c)
<1>1. /\ Len(cs) \in Nat /\ DOMAIN cs = 1..Len(cs) /\ DOMAIN more = 1..(Len(cs) + 1)
      /\ \A n \in 1..Len(cs) : more[n] = cs[n]
      /\ more[Len(cs) + 1] = c
  BY Appended
<1> HIDE DEF more
<1>2. /\ Len(cs) + 1 \in DOMAIN more /\ \A n \in DOMAIN cs : n \in DOMAIN more /\ n # Len(cs) + 1
      /\ \A n \in DOMAIN more : n \in DOMAIN cs \/ n = Len(cs) + 1
  BY <1>1
<1>3. Passage(cs, b, from, to) => Passage(more, b, from, to)
  BY <1>1, <1>2 DEF Passage
<1>4. Holds(c, b, from, to) => Passage(more, b, from, to)
  BY <1>1, <1>2 DEF Passage
<1>5. (Once(cs, b, from) /\ ~Holds(c, b, from, from)) => Once(more, b, from)
  <2> SUFFICES ASSUME Once(cs, b, from), ~Holds(c, b, from, from) PROVE Once(more, b, from)
    OBVIOUS
  <2>1. PICK n \in DOMAIN cs : \A m \in DOMAIN cs : Holds(cs[m], b, from, from) <=> m = n
    BY DEF Once
  <2>2. \A m \in DOMAIN more : Holds(more[m], b, from, from) <=> m = n
    BY <1>1, <1>2, <2>1
  <2> QED BY <1>2, <2>1, <2>2 DEF Once
<1>6. (Holds(c, b, from, from) /\ \A n \in DOMAIN cs : ~Holds(cs[n], b, from, from))
         => Once(more, b, from)
  <2> SUFFICES ASSUME Holds(c, b, from, from), \A n \in DOMAIN cs : ~Holds(cs[n], b, from, from)
               PROVE  Once(more, b, from)
    OBVIOUS
  <2>1. \A m \in DOMAIN more : Holds(more[m], b, from, from) <=> m = Len(cs) + 1
    BY <1>1, <1>2
  <2> QED BY <1>2, <2>1 DEF Once
<1> QED BY <1>3, <1>4, <1>5, <1>6 DEF more

\* The cut adds a chunk of its block, or none, and what was whole stays whole.
Adds(c) == /\ chunks' = Append(chunks, c)
           /\ c \in ChunkRecs /\ c.block = block /\ Right(document, c)

LEMMA ChunksStayRight ==
    ASSUME CutInv, ~Cut, document' = document, block' \in {block, block + 1},
           chunks' = chunks \/ \E c : Adds(c)
    PROVE  /\ chunks' \in Seq(ChunkRecs)
           /\ \A n \in DOMAIN chunks' : Right(document', chunks'[n]) /\ chunks'[n].block <= block
           /\ \A b \in 1..(block - 1) : Whole(document', chunks', b)
<1> USE DEF CutInv, CutTypes, ChunksRight
<1>1. CASE chunks' = chunks
  BY <1>1
<1>2. CASE \E c : Adds(c)
  <2>1. PICK c : Adds(c)
    BY <1>2
  <2>2. c \in ChunkRecs /\ chunks' = Append(chunks, c) /\ c.block = block /\ Right(document, c)
    BY <2>1 DEF Adds
  <2>3. /\ chunks' \in Seq(ChunkRecs) /\ block \in Nat
        /\ \A n \in DOMAIN chunks' : (n \in DOMAIN chunks /\ chunks'[n] = chunks[n]) \/ chunks'[n] = c
    BY <2>2, Appended
  <2>4. ASSUME NEW b \in 1..(block - 1) PROVE Whole(document', chunks', b)
    <3>1. Whole(document, chunks, b) /\ b # block
      OBVIOUS
    <3>2. \A from, to : ~Holds(c, b, from, to)
      BY <2>2, <3>1 DEF Holds
    <3>3. /\ \A from, to : Passage(chunks, b, from, to) => Passage(chunks', b, from, to)
          /\ \A i : Once(chunks, b, i) => Once(chunks', b, i)
      BY <2>2, <3>2, Adding
    <3> QED BY <3>1, <3>3 DEF Whole, WholeText, WholeRows
  <2> QED BY <2>2, <2>3, <2>4
<1> QED BY <1>1, <1>2

----------------------------------------------------------------------------
(* The steps of the chunker.                                               *)

LEMMA InBlock ==
    ASSUME CutInv, ~Cut
    PROVE  /\ block \in 1..Len(document) /\ block \in Nat /\ Len(document) \in Nat
           /\ At("text") => Text \in Seq(Chars)
           /\ At("table") => Lines \in Seq(Nat)
           /\ At("text") \/ At("table")
<1>1. Len(document) \in Nat
  BY DocumentsAssumption DEF CutInv, CutTypes
<1>2. block \in 1..Len(document) /\ block \in Nat
  BY <1>1 DEF CutInv, CutTypes, Cut
<1> QED BY <1>1, <1>2, BlockTypes DEF CutInv, At, Text, Lines

LEMMA EndBlock ==
    ASSUME CutInv, ~Cut, NextBlock, document' = document,
           chunks' = chunks \/ \E c : Adds(c), Whole(document, chunks', block)
    PROVE  CutInv'
<1>1. /\ block' = block + 1 /\ block' \in 1..(Len(document) + 1) /\ block \in Nat
      /\ start' = 0 /\ first' = 1 /\ line' = 0 /\ length' = 0
  BY InBlock DEF NextBlock
<1>2. /\ chunks' \in Seq(ChunkRecs)
      /\ \A n \in DOMAIN chunks' : Right(document', chunks'[n]) /\ chunks'[n].block <= block
      /\ \A b \in 1..(block - 1) : Whole(document', chunks', b)
  BY <1>1, ChunksStayRight
<1>3. CutTypes'
  BY <1>1, <1>2 DEF CutTypes, CutInv
<1>4. \A n \in DOMAIN chunks' : chunks'[n].block \in Nat
  <2>1. \A n \in DOMAIN chunks' : chunks'[n] \in ChunkRecs
    BY <1>2
  <2> QED BY <2>1 DEF ChunkRecs
<1>5. ChunksRight'
  <2>1. \A b \in 1..(block' - 1) : b \in 1..(block - 1) \/ b = block
    BY <1>1
  <2> QED BY <1>1, <1>2, <1>4, <2>1 DEF ChunksRight
<1>6. At("text")' => TextSoFar'
  BY <1>1 DEF TextSoFar
<1>7. ASSUME At("table")' PROVE RowsSoFar'
  <2>1. Lines' \in Seq(Nat)
    <3>1. block' \in 1..Len(document) /\ document[block'].kind = "table"
      BY <1>1, <1>7, InBlock DEF At, Cut
    <3>2. document[block'].lines \in Seq(Nat)
      BY <3>1, BlockTypes DEF CutInv
    <3> QED BY <3>2 DEF Lines
  <2>2. Len(Lines') \in Nat
    BY <2>1
  <2>3. WholeRows(Lines', chunks', block', first' - 1)
    BY <1>1, <2>2 DEF WholeRows
  <2> QED BY <1>1, <1>2, <1>4, <2>2, <2>3 DEF RowsSoFar
<1> QED BY <1>3, <1>5, <1>6, <1>7 DEF CutInv

LEMMA KeepTextStep == ASSUME CutInv, KeepText PROVE CutInv'
<1>1. /\ ~Cut /\ At("text") /\ Len(Text) <= Size /\ NextBlock /\ document' = document
      /\ Text \in Seq(Chars) /\ block \in 1..Len(document) /\ document[block].kind = "text"
      /\ Text = document[block].chars /\ Len(Text) \in Nat
  BY InBlock DEF KeepText, At, Text
<1>2. CASE Text = <<>>
  <2>1. chunks' = chunks
    BY <1>2 DEF KeepText
  <2>2. Whole(document, chunks', block)
    BY <1>1, <1>2 DEF Whole, WholeText
  <2> QED BY <1>1, <2>1, <2>2, EndBlock
<1>3. CASE Text # <<>>
  <2> DEFINE c == Named(block, 1, Len(Text))
  <2>1. chunks' = Append(chunks, c) /\ c.block = block /\ c.from = 1 /\ c.to = Len(Text)
    BY <1>3 DEF KeepText, Named
  <2>2. PICK i \in DOMAIN Text : Text[i] = "letter"
    <3>1. document \in Documents /\ block \in DOMAIN document
      BY <1>1, DocumentsAssumption DEF CutInv, CutTypes
    <3> QED BY <1>1, <1>3, <3>1, InkAssumption
  <2>3. i \in 1..Len(Text)
    BY <1>1, <2>2
  <2>4. c \in ChunkRecs
    BY <1>1 DEF Named, ChunkRecs
  <2> HIDE DEF c
  <2>5. Right(document, c)
    <3>1. Inked(document, c)
      BY <1>1, <2>1, <2>2, <2>3 DEF Inked, White
    <3>2. 1 <= Len(Text) /\ Len(Text) - 1 < Size
      BY <1>1, <2>3, HalfSize
    <3> QED BY <1>1, <2>1, <3>1, <3>2 DEF Right
  <2>6. Adds(c)
    BY <2>1, <2>4, <2>5 DEF Adds
  <2>7. ASSUME NEW from \in 1..Len(Text), NEW to \in 1..Len(Text)
        PROVE  Passage(chunks', block, from, to)
    <3>1. Holds(c, block, from, to)
      BY <1>1, <2>1, <2>7 DEF Holds
    <3>2. chunks \in Seq(ChunkRecs)
      BY DEF CutInv, CutTypes
    <3> QED BY <2>1, <2>4, <3>1, <3>2, Adding
  <2>8. Whole(document, chunks', block)
    BY <1>1, <2>7 DEF Whole, WholeText
  <2> QED BY <1>1, <2>6, <2>8, EndBlock
<1> QED BY <1>2, <1>3

\* The part that begins after start characters holds every passage of its own,
\* and with what the part before has not lost, all up to its end.
LEMMA PartStep ==
    ASSUME CutInv, At("text"), document' = document,
           chunks' = chunks \o Stripped(Text, start + 1, PartEnd)
    PROVE  /\ PartEnd \in Nat /\ PartEnd <= Len(Text)
           /\ chunks' = chunks \/ \E c : Adds(c)
           /\ WholeText(Text, chunks', block, PartEnd)
<1>1. /\ ~Cut /\ Text \in Seq(Chars) /\ block \in 1..Len(document) /\ block \in Nat
      /\ document[block].kind = "text" /\ Text = document[block].chars /\ Len(Text) \in Nat
      /\ start \in Nat /\ chunks \in Seq(ChunkRecs)
  BY InBlock DEF At, Text, CutInv, CutTypes
<1>2. PartEnd \in Nat /\ PartEnd <= Len(Text) /\ PartEnd <= start + Size
  <2>1. EndOf(Text, start) \in Nat /\ EndOf(Text, start) <= start + Size
    BY <1>1, EndOfPart
  <2> QED BY <1>1, <2>1, HalfSize DEF PartEnd
<1>3. start + 1 \in Nat
  BY <1>1
<1> DEFINE kept == Stripped(Text, start + 1, PartEnd)
<1>4. ASSUME kept = <<>>, \A i \in (start + 1)..PartEnd : White(Text, i)
      PROVE  /\ chunks' = chunks
             /\ \A from, to \in 1..Len(Text) :
                  ~(Together(Text, from, to) /\ start + 1 <= from /\ to <= PartEnd)
  <2>1. chunks' = chunks
    BY <1>1, <1>4
  <2>2. ASSUME NEW from \in 1..Len(Text), NEW to \in 1..Len(Text),
               Together(Text, from, to), start + 1 <= from, to <= PartEnd
        PROVE  FALSE
    <3>1. from \in (start + 1)..PartEnd
      BY <1>1, <1>2, <2>2 DEF Together
    <3> QED BY <1>4, <2>2, <3>1 DEF Together
  <2> QED BY <2>1, <2>2
<1>5. ASSUME NEW c, kept = <<c>>, Trims(c, Text, start + 1, PartEnd)
      PROVE  /\ Adds(c)
             /\ \A from, to \in 1..Len(Text) :
                  (Together(Text, from, to) /\ start + 1 <= from /\ to <= PartEnd)
                    => Passage(chunks', block, from, to)
  <2>1. /\ c = Named(block, c.from, c.to) /\ c.from \in (start + 1)..PartEnd
        /\ c.to \in (start + 1)..PartEnd /\ c.from <= c.to /\ ~White(Text, c.from)
        /\ \A i \in (start + 1)..PartEnd : ~White(Text, i) => c.from <= i /\ i <= c.to
    BY <1>5 DEF Trims
  <2>2. c.from \in Nat /\ c.to \in Nat /\ c.block = block
    BY <1>1, <1>2, <2>1 DEF Named
  <2>3. c \in ChunkRecs
    BY <1>1, <2>1, <2>2 DEF Named, ChunkRecs
  <2>4. chunks' = Append(chunks, c)
    BY <1>1, <1>5, <2>3, Appended
  <2>5. Right(document, c)
    <3>1. Inked(document, c)
      BY <1>1, <2>1, <2>2 DEF Inked
    <3>2. c.to - c.from < Size /\ 1 <= c.from /\ c.to <= Len(Text)
      BY <1>1, <1>2, <2>1, <2>2, HalfSize
    <3> QED BY <1>1, <2>1, <2>2, <3>1, <3>2 DEF Right
  <2>6. ASSUME NEW from \in 1..Len(Text), NEW to \in 1..Len(Text),
               Together(Text, from, to), start + 1 <= from, to <= PartEnd
        PROVE  Passage(chunks', block, from, to)
    <3>1. from \in (start + 1)..PartEnd /\ to \in (start + 1)..PartEnd
          /\ ~White(Text, from) /\ ~White(Text, to)
      BY <1>1, <1>2, <2>6 DEF Together
    <3>2. Holds(c, block, from, to)
      BY <2>1, <2>2, <3>1 DEF Holds
    <3> QED BY <1>1, <2>3, <2>4, <3>2, Adding
  <2> QED BY <2>2, <2>3, <2>4, <2>5, <2>6 DEF Adds
<1>6. /\ chunks' = chunks \/ \E c : Adds(c)
      /\ \A from, to \in 1..Len(Text) :
           (Together(Text, from, to) /\ start + 1 <= from /\ to <= PartEnd)
             => Passage(chunks', block, from, to)
  <2> HIDE DEF kept
  <2>1. \/ kept = <<>> /\ \A i \in (start + 1)..PartEnd : White(Text, i)
        \/ \E c : kept = <<c>> /\ Trims(c, Text, start + 1, PartEnd)
    BY <1>2, <1>3, StrippedPart DEF kept
  <2> QED BY <2>1, <1>4, <1>5
<1>7. \A from, to : Passage(chunks, block, from, to) => Passage(chunks', block, from, to)
  BY <1>1, <1>6, Adding DEF Adds
<1>8. ASSUME NEW from \in 1..Len(Text), NEW to \in 1..Len(Text),
             Together(Text, from, to), to <= PartEnd
      PROVE  Passage(chunks', block, from, to)
  <2>1. CASE start + 1 <= from
    BY <1>6, <1>8, <2>1
  <2>2. CASE ~(start + 1 <= from)
    <3>1. start > 0 /\ to <= start + Overlap
      BY <1>1, <1>8, <2>2, HalfSize DEF Together
    <3>2. Passage(chunks, block, from, to)
      BY <1>8, <3>1 DEF CutInv, TextSoFar, WholeText
    <3> QED BY <1>7, <3>2
  <2> QED BY <2>1, <2>2
<1> QED BY <1>2, <1>6, <1>8 DEF WholeText

LEMMA CutTextStep == ASSUME CutInv, CutText PROVE CutInv'
<1>1. /\ At("text") /\ ~Cut /\ EndOf(Text, start) < Len(Text) /\ document' = document
      /\ chunks' = chunks \o Stripped(Text, start + 1, PartEnd)
      /\ start' = EndOf(Text, start) - Overlap
      /\ block' = block /\ first' = first /\ line' = line /\ length' = length
  BY DEF CutText, At
<1>2. /\ Text \in Seq(Chars) /\ start \in Nat /\ document[block].kind = "text"
      /\ block \in 1..Len(document)
  BY <1>1, InBlock DEF CutInv, CutTypes, At
<1>3. /\ PartEnd = EndOf(Text, start) /\ start' \in Nat
      /\ start' + Overlap = PartEnd /\ start' > 0
  <2>1. EndOf(Text, start) \in Nat /\ start + Overlap < EndOf(Text, start)
    BY <1>2, EndOfPart
  <2> QED BY <1>1, <1>2, <2>1, HalfSize DEF PartEnd
<1>4. /\ chunks' = chunks \/ \E c : Adds(c)
      /\ WholeText(Text, chunks', block, PartEnd)
  BY <1>1, PartStep
<1>5. /\ chunks' \in Seq(ChunkRecs)
      /\ \A n \in DOMAIN chunks' : Right(document', chunks'[n]) /\ chunks'[n].block <= block
      /\ \A b \in 1..(block - 1) : Whole(document', chunks', b)
  BY <1>1, <1>4, ChunksStayRight
<1>6. CutTypes' /\ ChunksRight'
  BY <1>1, <1>3, <1>5 DEF CutTypes, CutInv, ChunksRight
<1>7. Text' = Text /\ ~At("table")'
  BY <1>1, <1>2 DEF Text, At
<1>8. TextSoFar'
  BY <1>1, <1>3, <1>4, <1>7 DEF TextSoFar
<1> QED BY <1>6, <1>7, <1>8 DEF CutInv

LEMMA CutLastTextStep == ASSUME CutInv, CutLastText PROVE CutInv'
<1>1. /\ At("text") /\ ~Cut /\ EndOf(Text, start) >= Len(Text) /\ document' = document
      /\ chunks' = chunks \o Stripped(Text, start + 1, PartEnd) /\ NextBlock
  BY DEF CutLastText, At
<1>2. /\ Text \in Seq(Chars) /\ start \in Nat /\ Len(Text) \in Nat
      /\ document[block].kind = "text" /\ document[block].chars = Text
  BY <1>1, InBlock DEF CutInv, CutTypes, At, Text
<1>3. PartEnd = Len(Text)
  BY <1>1, <1>2, EndOfPart DEF PartEnd
<1>4. /\ chunks' = chunks \/ \E c : Adds(c)
      /\ WholeText(Text, chunks', block, PartEnd)
  BY <1>1, PartStep
<1>5. Whole(document, chunks', block)
  BY <1>2, <1>3, <1>4 DEF Whole
<1> QED BY <1>1, <1>4, <1>5, EndBlock

\* current becomes a part, or is left out because it is blank.
LEMMA CollectedStep ==
    ASSUME CutInv, At("table"), document' = document, chunks' = chunks \o Collected
    PROVE  /\ chunks' = chunks \/ \E c : Adds(c)
           /\ WholeRows(Lines, chunks', block, line)
           /\ \A n \in DOMAIN chunks' : chunks'[n].block = block => chunks'[n].to < line + 1
<1>1. /\ ~Cut /\ Lines \in Seq(Nat) /\ block \in 1..Len(document) /\ block \in Nat
      /\ document[block].kind = "table" /\ Lines = document[block].lines /\ Len(Lines) \in Nat
      /\ first \in Nat /\ line \in Nat /\ chunks \in Seq(ChunkRecs) /\ RowsSoFar
  BY InBlock DEF At, Lines, CutInv, CutTypes
<1>2. /\ line <= Len(Lines) /\ 1 <= first /\ first <= line + 1
      /\ WholeRows(Lines, chunks, block, first - 1)
      /\ \A n \in DOMAIN chunks : chunks[n].block = block => chunks[n].to < first
      /\ first <= line => first = line \/ Joined(Lines, first, line) <= Size
  BY <1>1 DEF RowsSoFar
<1>3. \A n \in DOMAIN chunks : chunks[n] \in ChunkRecs
  BY <1>1
<1>4. CASE ~ \E i \in first..line : Lines[i] > 0
  <2>1. chunks' = chunks
    BY <1>1, <1>4 DEF Collected
  <2>2. ASSUME NEW i \in 1..Len(Lines), Lines[i] > 0, i <= line
        PROVE  Once(chunks', block, i)
    <3>1. i <= first - 1
      BY <1>1, <1>2, <1>4, <2>2
    <3> QED BY <1>2, <2>1, <2>2, <3>1 DEF WholeRows
  <2>3. \A n \in DOMAIN chunks : chunks[n].block = block => chunks[n].to < line + 1
    BY <1>1, <1>2, <1>3 DEF ChunkRecs
  <2> QED BY <2>1, <2>2, <2>3 DEF WholeRows
<1>5. CASE \E i \in first..line : Lines[i] > 0
  <2> DEFINE c == Named(block, first, line)
  <2>1. c.block = block /\ c.from = first /\ c.to = line /\ c \in ChunkRecs
        /\ Collected = <<c>>
    BY <1>1, <1>5 DEF Named, ChunkRecs, Collected
  <2> HIDE DEF c
  <2>2. chunks' = Append(chunks, c) /\ first <= line
    BY <1>1, <1>5, <2>1, Appended
  <2>3. Right(document, c)
    <3>1. Inked(document, c)
      BY <1>1, <1>5, <2>1 DEF Inked
    <3> QED BY <1>1, <1>2, <2>1, <2>2, <3>1 DEF Right
  <2>4. Adds(c)
    BY <2>1, <2>2, <2>3 DEF Adds
  <2>5. ASSUME NEW i \in 1..Len(Lines), Lines[i] > 0, i <= line
        PROVE  Once(chunks', block, i)
    <3>1. CASE i <= first - 1
      <4>1. Once(chunks, block, i)
        BY <1>2, <2>5, <3>1 DEF WholeRows
      <4>2. ~Holds(c, block, i, i)
        BY <1>1, <2>1, <2>5, <3>1 DEF Holds
      <4> QED BY <1>1, <2>1, <2>2, <4>1, <4>2, Adding
    <3>2. CASE ~(i <= first - 1)
      <4>1. Holds(c, block, i, i)
        BY <1>1, <2>1, <2>5, <3>2 DEF Holds
      <4>2. \A n \in DOMAIN chunks : ~Holds(chunks[n], block, i, i)
        <5>1. \A n \in DOMAIN chunks : chunks[n].to \in Nat
          BY <1>3 DEF ChunkRecs
        <5>2. i \in Nat /\ first <= i
          BY <1>1, <2>5, <3>2
        <5>3. \A n \in DOMAIN chunks : chunks[n].block = block => chunks[n].to < i
          BY <1>1, <1>2, <5>1, <5>2
        <5> QED BY <5>1, <5>2, <5>3 DEF Holds
      <4> QED BY <1>1, <2>1, <2>2, <4>1, <4>2, Adding
    <3> QED BY <3>1, <3>2
  <2>6. ASSUME NEW n \in DOMAIN chunks', chunks'[n].block = block
        PROVE  chunks'[n].to < line + 1
    <3>1. (n \in DOMAIN chunks /\ chunks'[n] = chunks[n]) \/ chunks'[n] = c
      BY <1>1, <2>1, <2>2, <2>6, Appended
    <3>2. ASSUME n \in DOMAIN chunks, chunks'[n] = chunks[n] PROVE chunks'[n].to < line + 1
      <4>1. chunks[n].to < first /\ chunks[n].to \in Nat
        BY <1>2, <1>3, <2>6, <3>2 DEF ChunkRecs
      <4> QED BY <1>1, <2>2, <3>2, <4>1
    <3> QED BY <1>1, <2>1, <3>1, <3>2
  <2> QED BY <2>4, <2>5, <2>6 DEF WholeRows
<1> QED BY <1>4, <1>5

LEMMA EndTableStep == ASSUME CutInv, EndTable PROVE CutInv'
<1>1. /\ At("table") /\ ~Cut /\ line = Len(Lines) /\ document' = document
      /\ chunks' = chunks \o Collected /\ NextBlock
  BY DEF EndTable, At
<1>2. document[block].kind = "table" /\ document[block].lines = Lines
  BY <1>1 DEF At, Lines
<1>3. /\ chunks' = chunks \/ \E c : Adds(c)
      /\ WholeRows(Lines, chunks', block, line)
  BY <1>1, CollectedStep
<1>4. Whole(document, chunks', block)
  BY <1>1, <1>2, <1>3 DEF Whole
<1> QED BY <1>1, <1>3, <1>4, EndBlock

LEMMA TakeLineStep == ASSUME CutInv, TakeLine PROVE CutInv'
<1>1. /\ At("table") /\ ~Cut /\ line < Len(Lines) /\ document' = document
      /\ line' = line + 1 /\ block' = block /\ start' = start
  BY DEF TakeLine, At
<1>2. /\ Lines \in Seq(Nat) /\ Len(Lines) \in Nat /\ block \in 1..Len(document) /\ block \in Nat
      /\ document[block].kind = "table" /\ start \in Nat
      /\ first \in Nat /\ line \in Nat /\ length \in Nat /\ chunks \in Seq(ChunkRecs)
      /\ line + 1 \in 1..Len(Lines)
  BY <1>1, InBlock DEF At, CutInv, CutTypes
<1>3. /\ RowsSoFar /\ ChunksRight
      /\ document \in Documents /\ block \in 1..(Len(document) + 1)
  BY <1>1, InBlock DEF CutInv, CutTypes
<1>4. Lines[line + 1] \in Nat
  BY <1>2
<1>5. /\ 1 <= first /\ first <= line + 1
      /\ (line > 0 => first <= line) /\ (line = 0 => length = 0)
      /\ WholeRows(Lines, chunks, block, first - 1)
      /\ \A n \in DOMAIN chunks : chunks[n].block = block => chunks[n].to < first
      /\ first <= line => /\ length = Joined(Lines, first, line) + 1
                          /\ first = line \/ Joined(Lines, first, line) <= Size
  BY <1>3 DEF RowsSoFar
<1>6. Lines' = Lines /\ ~At("text")'
  BY <1>1, <1>2 DEF Lines, At
<1>7. CASE Full
  <2>1. chunks' = chunks \o Collected /\ first' = line + 1 /\ length' = 0 + Lines[line + 1] + 1
    BY <1>7 DEF TakeLine
  <2>2. /\ chunks' = chunks \/ \E c : Adds(c)
        /\ WholeRows(Lines, chunks', block, line)
        /\ \A n \in DOMAIN chunks' : chunks'[n].block = block => chunks'[n].to < line + 1
    BY <1>1, <2>1, CollectedStep
  <2>3. /\ chunks' \in Seq(ChunkRecs)
        /\ \A n \in DOMAIN chunks' : Right(document', chunks'[n]) /\ chunks'[n].block <= block
        /\ \A b \in 1..(block - 1) : Whole(document', chunks', b)
    BY <1>1, <2>2, ChunksStayRight
  <2>4. CutTypes' /\ ChunksRight'
    <3>1. line' \in Nat /\ first' \in Nat /\ length' \in Nat /\ start' \in Nat
      BY <1>1, <1>2, <1>4, <2>1
    <3>2. CutTypes'
      BY <1>1, <1>3, <2>3, <3>1 DEF CutTypes
    <3> QED BY <1>1, <2>3, <3>2 DEF ChunksRight
  <2>5. Joined(Lines, line + 1, line + 1) = Lines[line + 1]
    BY <1>2, JoinedOne
  <2>6. WholeRows(Lines', chunks', block', first' - 1)
    <3>1. first' - 1 = line
      BY <1>2, <2>1
    <3> QED BY <1>1, <1>6, <2>2, <3>1
  <2>7. line' <= Len(Lines) /\ 1 <= first' /\ first' <= line' /\ line' # 0 /\ first' = line'
    BY <1>1, <1>2, <2>1
  <2>8. length' = Joined(Lines, first', line') + 1
    BY <1>1, <1>4, <2>1, <2>5
  <2>9. \A n \in DOMAIN chunks' : chunks'[n].block = block' => chunks'[n].to < first'
    BY <1>1, <2>1, <2>2
  <2>10. RowsSoFar'
    BY <1>1, <1>2, <1>6, <2>6, <2>7, <2>8, <2>9 DEF RowsSoFar
  <2> QED BY <1>6, <2>4, <2>10 DEF CutInv
<1>8. CASE ~Full
  <2>1. chunks' = chunks /\ first' = first /\ length' = length + Lines[line + 1] + 1
    BY <1>8 DEF TakeLine
  <2>2. CutTypes' /\ ChunksRight'
    <3>1. line' \in Nat /\ first' \in Nat /\ length' \in Nat /\ start' \in Nat
      BY <1>1, <1>2, <1>4, <2>1
    <3>2. CutTypes'
      BY <1>1, <1>2, <1>3, <2>1, <3>1 DEF CutTypes
    <3> QED BY <1>1, <1>3, <2>1, <3>2 DEF ChunksRight
  <2>3. /\ length' = Joined(Lines, first, line + 1) + 1
        /\ first = line + 1 \/ Joined(Lines, first, line + 1) <= Size
    <3>1. CASE first <= line
      <4>0. line <= Len(Lines)
        BY <1>1, <1>2
      <4>1. Joined(Lines, first, line + 1) = Joined(Lines, first, line) + Lines[line + 1] + 1
        BY <1>1, <1>2, <1>5, <3>1, JoinedNext
      <4>2. Joined(Lines, first, line) \in Nat
        BY <1>2, <1>5, <3>1, <4>0, JoinedType
      <4>3. length + Lines[line + 1] <= Size
        <5>1. ~(length + Lines[line + 1] > Size)
          BY <1>8, <3>1 DEF Full
        <5>2. length \in Nat /\ Lines[line + 1] \in Nat
          BY <1>2, <1>4
        <5> HIDE DEF Lines
        <5> QED BY <5>1, <5>2, HalfSize
      <4>4. length = Joined(Lines, first, line) + 1
        BY <1>5, <3>1
      <4> HIDE DEF Lines
      <4> DEFINE J == Joined(Lines, first, line)
                 K == Joined(Lines, first, line + 1)
                 z == Lines[line + 1]
      <4>5. /\ K = J + z + 1 /\ J \in Nat /\ z \in Nat /\ length = J + 1
            /\ length + z <= Size /\ length' = length + z + 1
        BY <1>4, <2>1, <4>1, <4>2, <4>3, <4>4
      <4> HIDE DEF J, K, z
      <4>6. length' = K + 1 /\ K <= Size
        BY <4>5, HalfSize
      <4> QED BY <4>6 DEF K
    <3>2. CASE ~(first <= line)
      <4>1. line = 0 /\ first = 1
        BY <1>2, <1>5, <3>2
      <4>2. length = 0
        BY <1>5, <4>1
      <4> QED BY <1>2, <1>4, <2>1, <4>1, <4>2, JoinedOne
    <3> QED BY <3>1, <3>2
  <2>4. RowsSoFar'
    BY <1>1, <1>2, <1>5, <1>6, <2>1, <2>3 DEF RowsSoFar
  <2> QED BY <1>6, <2>2, <2>4 DEF CutInv
<1> QED BY <1>7, <1>8

LEMMA StepCutInv == ASSUME CutInv, [Next]_cutting PROVE CutInv'
<1>1. CASE ChunkStep
  BY <1>1, KeepTextStep, CutTextStep, CutLastTextStep, TakeLineStep, EndTableStep DEF ChunkStep
<1>2. CASE UNCHANGED cutting
  <2>1. /\ document' = document /\ block' = block /\ start' = start /\ first' = first
        /\ line' = line /\ length' = length /\ chunks' = chunks
    BY <1>2 DEF cutting
  <2> QED BY <2>1 DEF CutInv, CutTypes, ChunksRight, At, Cut, Text, Lines, TextSoFar, RowsSoFar
<1> QED BY <1>1, <1>2 DEF Next

LEMMA InitCutInv == ASSUME Init PROVE CutInv
<1>1. /\ document \in Documents /\ block = 1 /\ start = 0 /\ first = 1 /\ line = 0
      /\ length = 0 /\ chunks = <<>>
  BY DEF Init
<1>2. document \in Seq(Blocks) /\ Len(document) \in Nat
  BY <1>1, DocumentsAssumption
<1>3. CutTypes
  BY <1>1, <1>2 DEF CutTypes
<1>4. ChunksRight
  BY <1>1 DEF ChunksRight
<1>5. TextSoFar
  BY <1>1 DEF TextSoFar
<1>6. ASSUME At("table") PROVE RowsSoFar
  <2>1. Lines \in Seq(Nat) /\ Len(Lines) \in Nat
    BY <1>1, <1>2, <1>3, <1>6, BlockTypes DEF At, Cut, Lines
  <2> QED BY <1>1, <2>1 DEF RowsSoFar, WholeRows
<1> QED BY <1>3, <1>4, <1>5, <1>6 DEF CutInv

\* Whatever is cut, with any sizes: the loops of chunk_blocks keep to their blocks,
\* and the ordinals, block, first and last places of the chunks are numbers.
THEOREM CutTypeCorrect == Spec => []TypeOK
<1>1. Init => CutInv
  BY InitCutInv
<1>2. CutInv /\ [Next]_cutting => CutInv'
  BY StepCutInv
<1>3. CutInv => TypeOK
  BY CutInvShows
<1> QED BY <1>1, <1>2, <1>3, PTL DEF Spec

\* A passage up to one character longer than the overlap stands whole in a chunk,
\* and a line of a table in exactly one (_split_text, _split_rows).
THEOREM NothingLostCorrect == Spec => []NothingIsLost
<1>1. Init => CutInv
  BY InitCutInv
<1>2. CutInv /\ [Next]_cutting => CutInv'
  BY StepCutInv
<1>3. CutInv => NothingIsLost
  BY CutInvShows
<1> QED BY <1>1, <1>2, <1>3, PTL DEF Spec

\* No chunk is longer than CHUNK_SIZE but a single line of a table (_split_text,
\* _split_rows).
THEOREM ChunksFitCorrect == Spec => []ChunksFit
<1>1. Init => CutInv
  BY InitCutInv
<1>2. CutInv /\ [Next]_cutting => CutInv'
  BY StepCutInv
<1>3. CutInv => ChunksFit
  BY CutInvShows
<1> QED BY <1>1, <1>2, <1>3, PTL DEF Spec

\* Every iteration of the two loops comes closer to the end of the document: the
\* next block, the next line of a table, or a later start within the text; a text
\* without spaces, or an overlap, holds none of them back (chunk_blocks).
Forward ==
    \/ block <= Len(document) /\ block' = block + 1
    \/ block' = block /\ start' = start /\ line' = line + 1 /\ line' <= Len(Lines)
    \/ block' = block /\ line' = line /\ start < start' /\ start' < Len(Text)

THEOREM CutAdvances == Spec => [][Forward]_cutting
<1>1. Init => CutInv
  BY InitCutInv
<1>2. CutInv /\ [Next]_cutting => CutInv'
  BY StepCutInv
<1>3. ASSUME CutInv, ChunkStep PROVE Forward
  <2>1. ~Cut
    BY <1>3 DEF ChunkStep, KeepText, CutText, CutLastText, TakeLine, EndTable, At
  <2>2. block \in 1..Len(document) /\ Len(document) \in Nat
    BY <1>3, <2>1, InBlock
  <2>3. CASE NextBlock
    BY <2>2, <2>3 DEF NextBlock, Forward
  <2>4. CASE CutText
    <3>1. /\ Text \in Seq(Chars) /\ start \in Nat /\ EndOf(Text, start) < Len(Text)
          /\ start' = EndOf(Text, start) - Overlap /\ block' = block /\ line' = line
      BY <1>3, <2>1, <2>4, InBlock DEF CutText, CutInv, CutTypes
    <3>2. EndOf(Text, start) \in Nat /\ start + Overlap < EndOf(Text, start)
      BY <3>1, EndOfPart
    <3>3. start < start' /\ start' < Len(Text)
      BY <3>1, <3>2, HalfSize
    <3> QED BY <3>1, <3>3 DEF Forward
  <2>5. CASE TakeLine
    <3>1. /\ Lines \in Seq(Nat) /\ line \in Nat /\ line < Len(Lines) /\ line' = line + 1
          /\ block' = block /\ start' = start
      BY <1>3, <2>1, <2>5, InBlock DEF TakeLine, CutInv, CutTypes
    <3>2. line' <= Len(Lines)
      BY <3>1
    <3> QED BY <3>1, <3>2 DEF Forward
  <2> QED BY <1>3, <2>3, <2>4, <2>5 DEF ChunkStep, KeepText, CutLastText, EndTable
<1>4. CutInv /\ [Next]_cutting => [Forward]_cutting
  BY <1>3 DEF Next
<1> QED BY <1>1, <1>2, <1>4, PTL DEF Spec

----------------------------------------------------------------------------
(* What build_context counts, with the chunks and the document as          *)
(* parameters: they no longer change when a question is asked.             *)

InkIn(cs, d, n) ==
    LET c == cs[n]
        b == d[c.block] IN
    {i \in c.from..c.to : IF b.kind = "text" THEN ~White(b.chars, i) ELSE b.lines[i] > 0}

TextIn(cs, d, n) ==
    LET b == d[cs[n].block] IN
    SubSeq(IF b.kind = "text" THEN b.chars ELSE b.lines, Lower(InkIn(cs, d, n)), Upper(InkIn(cs, d, n)))
PieceIn(cs, d, n) ==
    LET b == d[cs[n].block] IN
    Header + (IF b.kind = "text" THEN Len(TextIn(cs, d, n))
              ELSE Joined(b.lines, Lower(InkIn(cs, d, n)), Upper(InkIn(cs, d, n))))
TotalIn(cs, d, taken) ==
    LET sum[i \in 0..Len(taken)] ==
            IF i = 0 THEN 0 ELSE sum[i - 1] + PieceIn(cs, d, taken[i]) + 2
    IN sum[Len(taken)]

LEMMA SameTexts == \A n : TextOf(n) = TextIn(chunks, document, n)
  BY DEF TextOf, TextIn, InkOf, InkIn

LEMMA SamePieces == \A n : Piece(n) = PieceIn(chunks, document, n)
  BY DEF Piece, PieceIn, LengthOf, TextOf, TextIn, InkOf, InkIn

LEMMA SameTotals == \A taken : Total(taken) = TotalIn(chunks, document, taken)
  BY DEF Total, TotalIn, Piece, PieceIn, LengthOf, TextOf, TextIn, InkOf, InkIn

\* A chunk that is right has a first and a last line or letter, and so a length.
LEMMA PieceType ==
    ASSUME CutInv, NEW n \in DOMAIN chunks
    PROVE  PieceIn(chunks, document, n) \in Nat
<1> DEFINE c == chunks[n]
           b == document[c.block]
           ink == InkIn(chunks, document, n)
           lo == Lower(ink)
           up == Upper(ink)
<1>1. Right(document, c) /\ c \in ChunkRecs /\ CutTypes
  BY DEF CutInv, CutTypes, ChunksRight
<1>2. /\ c.block \in 1..Len(document) /\ c.from \in Nat /\ c.to \in Nat /\ 1 <= c.from
      /\ b.kind = "text" => c.to <= Len(b.chars)
      /\ b.kind # "text" => c.to <= Len(b.lines)
  BY <1>1 DEF Right, ChunkRecs
<1>3. /\ b.kind \in {"text", "table"}
      /\ b.kind = "text" => b.chars \in Seq(Chars)
      /\ b.kind = "table" => b.lines \in Seq(Nat)
  BY <1>1, <1>2, BlockTypes
<1>4. ink \in SUBSET Nat /\ ink # {} /\ \A i \in ink : c.from <= i /\ i <= c.to
  <2>1. PICK i \in c.from..c.to : IF b.kind = "text" THEN ~White(b.chars, i) ELSE b.lines[i] > 0
    BY <1>1 DEF Right, Inked
  <2>2. i \in ink
    BY <2>1 DEF InkIn
  <2>3. \A j \in ink : j \in c.from..c.to
    BY DEF InkIn
  <2> QED BY <1>2, <2>2, <2>3
<1>5. /\ lo \in Nat /\ up \in Nat /\ lo <= up /\ c.from <= lo /\ up <= c.to
  <2>1. \E i \in ink : \A j \in ink : i <= j
    BY <1>4, Least
  <2>2. \E i \in ink : \A j \in ink : j <= i
    BY <1>2, <1>4, Greatest
  <2> HIDE DEF ink
  <2>3. lo \in ink /\ \A j \in ink : lo <= j
    BY <2>1, Zenon DEF Lower
  <2>4. up \in ink /\ \A j \in ink : j <= up
    BY <2>2, Zenon DEF Upper
  <2> HIDE DEF lo, up
  <2> QED BY <1>4, <2>3, <2>4
<1> HIDE DEF lo, up, ink
<1>6. CASE b.kind = "text"
  <2>1. TextIn(chunks, document, n) = SubSeq(b.chars, lo, up)
    BY <1>6 DEF TextIn, lo, up, ink
  <2>2. \A i \in lo..up : b.chars[i] \in Chars
    <3>1. b.chars \in Seq(Chars) /\ up <= Len(b.chars) /\ 1 <= lo
      BY <1>2, <1>3, <1>5, <1>6
    <3> HIDE DEF b
    <3> QED BY <1>5, <3>1
  <2>3. SubSeq(b.chars, lo, up) \in Seq(Chars)
    BY <1>5, <2>2, SubSeqProperties
  <2>4. Len(TextIn(chunks, document, n)) \in Nat
    BY <2>1, <2>3
  <2>5. PieceIn(chunks, document, n) = Header + Len(TextIn(chunks, document, n))
    BY <1>6 DEF PieceIn
  <2> QED BY <2>4, <2>5, LimitsAssumption
<1>7. CASE b.kind # "text"
  <2>1. PieceIn(chunks, document, n) = Header + Joined(b.lines, lo, up)
    BY <1>7 DEF PieceIn, lo, up, ink
  <2>2. b.lines \in Seq(Nat) /\ up <= Len(b.lines) /\ 1 <= lo
    <3>1. b.lines \in Seq(Nat)
      BY <1>3, <1>7
    <3>2. Len(b.lines) \in Nat
      BY <3>1
    <3> QED BY <1>2, <1>5, <1>7, <3>1, <3>2
  <2>3. Joined(b.lines, lo, up) \in Nat
    BY <1>5, <2>2, JoinedType
  <2> QED BY <2>1, <2>3, LimitsAssumption
<1> QED BY <1>6, <1>7

\* g is the table of what the first pieces of taken add up to.
Totals(g, cs, d, taken, n) ==
    g = [i \in 0..n |-> IF i = 0 THEN 0 ELSE g[i - 1] + PieceIn(cs, d, taken[i]) + 2]

LEMMA TotalsExist ==
    ASSUME NEW cs, NEW d, NEW taken, NEW k \in Nat,
           \A i \in 1..k : PieceIn(cs, d, taken[i]) \in Nat
    PROVE  \A n \in Nat : n <= k => \E g : Totals(g, cs, d, taken, n) /\ g \in [0..n -> Nat]
<1> DEFINE Has(n) == \E g : Totals(g, cs, d, taken, n) /\ g \in [0..n -> Nat]
           Bad == {n \in Nat : n <= k /\ ~Has(n)}
<1>1. SUFFICES ASSUME Bad # {} PROVE FALSE
  OBVIOUS
<1>2. PICK n \in Bad : \A m \in Bad : n <= m
  BY <1>1, Least
<1>3. n \in Nat /\ n <= k /\ ~Has(n)
  BY <1>2
<1>4. CASE n = 0
  <2> DEFINE g == [i \in 0..n |-> 0]
  <2>1. Totals(g, cs, d, taken, n)
    BY <1>4 DEF Totals
  <2>2. g \in [0..n -> Nat]
    OBVIOUS
  <2> QED BY <1>3, <2>1, <2>2, Zenon
<1>5. CASE n # 0
  <2>1. n - 1 \in Nat /\ n - 1 <= k /\ n \in 1..k
    BY <1>3, <1>5
  <2>2. n - 1 \notin Bad
    <3>1. ~(n <= n - 1)
      BY <1>3
    <3> QED BY <1>2, <3>1
  <2>3. Has(n - 1)
    BY <2>1, <2>2
  <2>4. PICK h : Totals(h, cs, d, taken, n - 1) /\ h \in [0..(n - 1) -> Nat]
    BY <2>3
  <2> DEFINE new == h[n - 1] + PieceIn(cs, d, taken[n]) + 2
             g == [i \in 0..n |-> IF i = n THEN new ELSE h[i]]
  <2>5. new \in Nat
    BY <2>1, <2>4
  <2>6. g \in [0..n -> Nat]
    BY <1>3, <2>4, <2>5
  <2>7. ASSUME NEW i \in 0..n
        PROVE  g[i] = IF i = 0 THEN 0 ELSE g[i - 1] + PieceIn(cs, d, taken[i]) + 2
    <3>1. CASE i = n
      <4>1. g[i - 1] = h[n - 1] /\ i # 0
        BY <1>3, <1>5, <2>1, <3>1
      <4> QED BY <3>1, <4>1
    <3>2. CASE i # n
      <4>1. i \in 0..(n - 1) /\ g[i] = h[i]
        BY <1>3, <3>2
      <4>2. i # 0 => i - 1 \in 0..(n - 1) /\ g[i - 1] = h[i - 1]
        BY <1>3, <4>1
      <4>3. h[i] = IF i = 0 THEN 0 ELSE h[i - 1] + PieceIn(cs, d, taken[i]) + 2
        BY <2>4, <4>1 DEF Totals
      <4> QED BY <4>1, <4>2, <4>3
    <3> QED BY <3>1, <3>2
  <2>8. Totals(g, cs, d, taken, n)
    <3> HIDE DEF new
    <3>1. g = [i \in 0..n |-> g[i]]
      OBVIOUS
    <3> HIDE DEF g
    <3> QED BY <2>7, <3>1 DEF Totals
  <2> HIDE DEF g
  <2>9. Has(n)
    BY <2>6, <2>8
  <2> QED BY <1>3, <2>9
<1> QED BY <1>4, <1>5

Begins(more, taken, n) == \A i \in 1..n : more[i] = taken[i]

LEMMA TotalsAgree ==
    ASSUME NEW cs, NEW d, NEW taken, NEW more, NEW s \in Nat, NEW t \in Nat, s <= t,
           Begins(more, taken, s),
           NEW g, Totals(g, cs, d, taken, s), NEW h, Totals(h, cs, d, more, t)
    PROVE  \A i \in 0..s : g[i] = h[i]
<1> DEFINE Bad == {i \in 0..s : g[i] # h[i]}
<1>1. SUFFICES ASSUME Bad # {} PROVE FALSE
  OBVIOUS
<1>2. Bad \in SUBSET Nat
  OBVIOUS
<1>3. PICK i \in Bad : \A m \in Bad : i <= m
  BY <1>1, <1>2, Least
<1>4. i \in 0..s /\ i \in 0..t /\ g[i] # h[i]
  BY <1>3
<1>5. /\ g[i] = IF i = 0 THEN 0 ELSE g[i - 1] + PieceIn(cs, d, taken[i]) + 2
      /\ h[i] = IF i = 0 THEN 0 ELSE h[i - 1] + PieceIn(cs, d, more[i]) + 2
  BY <1>4 DEF Totals
<1>6. i # 0
  BY <1>4, <1>5
<1>7. i - 1 \in 0..s /\ i - 1 \notin Bad /\ i \in 1..s
  BY <1>3, <1>4, <1>6
<1>8. g[i - 1] = h[i - 1] /\ more[i] = taken[i]
  BY <1>7 DEF Begins
<1> QED BY <1>4, <1>5, <1>8

IsTotal(g, cs, d, taken) ==
    /\ Totals(g, cs, d, taken, Len(taken))
    /\ TotalIn(cs, d, taken) = g[Len(taken)] /\ g[Len(taken)] \in Nat

LEMMA TotalIsTotal ==
    ASSUME NEW cs, NEW d, NEW taken, Len(taken) \in Nat,
           \A i \in 1..Len(taken) : PieceIn(cs, d, taken[i]) \in Nat
    PROVE  \E g : IsTotal(g, cs, d, taken)
<1> DEFINE n == Len(taken)
<1>1. PICK f : Totals(f, cs, d, taken, n) /\ f \in [0..n -> Nat]
  <2>1. n \in Nat /\ n <= n /\ \A i \in 1..n : PieceIn(cs, d, taken[i]) \in Nat
    OBVIOUS
  <2> HIDE DEF n
  <2>2. \A m \in Nat : m <= n => \E g : Totals(g, cs, d, taken, m) /\ g \in [0..m -> Nat]
    BY <2>1, TotalsExist
  <2> QED BY <2>1, <2>2
<1>2. TotalIn(cs, d, taken) = (CHOOSE g : Totals(g, cs, d, taken, n))[n]
  BY DEF TotalIn, Totals
<1> DEFINE g == CHOOSE g : Totals(g, cs, d, taken, n)
<1>3. Totals(g, cs, d, taken, n)
  BY <1>1, Zenon
<1> HIDE DEF g
<1>4. g[n] = f[n] /\ f[n] \in Nat
  <2>1. Begins(taken, taken, n)
    BY DEF Begins
  <2> QED BY <1>1, <1>3, <2>1, TotalsAgree
<1>5. TotalIn(cs, d, taken) = g[n]
  BY <1>2 DEF g
<1> QED BY <1>3, <1>4, <1>5 DEF IsTotal

\* One more piece adds its length and the blank line before the next.
LEMMA TotalNext ==
    ASSUME NEW cs, NEW d, NEW S, NEW taken \in Seq(S), NEW n \in S,
           \A m \in S : PieceIn(cs, d, m) \in Nat
    PROVE  /\ TotalIn(cs, d, taken) \in Nat
           /\ TotalIn(cs, d, Append(taken, n)) = TotalIn(cs, d, taken) + PieceIn(cs, d, n) + 2
<1> DEFINE more == Append(taken, n)
           k == Len(taken)
<1>1. /\ k \in Nat /\ k + 1 \in Nat /\ k <= k + 1 /\ more \in Seq(S) /\ Len(more) = k + 1
      /\ \A i \in 1..k : more[i] = taken[i] /\ taken[i] \in S
      /\ more[k + 1] = n
  BY AppendProperties
<1> HIDE DEF more
<1>2. \A i \in 1..Len(more) : PieceIn(cs, d, more[i]) \in Nat
  BY <1>1
<1>3. PICK g : IsTotal(g, cs, d, taken)
  BY <1>1, TotalIsTotal
<1>4. PICK h : IsTotal(h, cs, d, more)
  BY <1>1, <1>2, TotalIsTotal
<1>5. /\ Totals(g, cs, d, taken, k) /\ TotalIn(cs, d, taken) = g[k] /\ g[k] \in Nat
      /\ Totals(h, cs, d, more, k + 1) /\ TotalIn(cs, d, more) = h[k + 1]
  BY <1>1, <1>3, <1>4 DEF IsTotal
<1>6. g[k] = h[k]
  <2> DEFINE l == k + 1
  <2>1. k \in Nat /\ l \in Nat /\ k <= l /\ k \in 0..k
    BY <1>1
  <2>2. Begins(more, taken, k)
    BY <1>1 DEF Begins
  <2>3. Totals(g, cs, d, taken, k) /\ Totals(h, cs, d, more, l)
    BY <1>5
  <2> HIDE DEF k, l
  <2>4. \A i \in 0..k : g[i] = h[i]
    BY <2>1, <2>2, <2>3, TotalsAgree
  <2> QED BY <2>1, <2>4
<1>7. h[k + 1] = h[(k + 1) - 1] + PieceIn(cs, d, more[k + 1]) + 2
  BY <1>1, <1>5 DEF Totals
<1> QED BY <1>1, <1>5, <1>6, <1>7 DEF more

----------------------------------------------------------------------------
(* Two rankings and their fusion.                                          *)

\* s lists members of S, none of them twice.
Ranked(s, S) == s \in Seq(S) /\ \A i, j \in 1..Len(s) : s[i] = s[j] => i = j

LEMMA RankingsAre ==
    ASSUME CutInv, NEW S, NEW r \in Rankings(S)
    PROVE  Ranked(r, S)
<1>1. Len(chunks) \in Nat
  BY DEF CutInv, CutTypes
<1>2. PICK n \in 0..Len(chunks) :
        r \in {q \in [1..n -> S] : \A i, j \in 1..n : q[i] = q[j] => i = j}
  BY DEF Rankings
<1>3. n \in Nat /\ r \in [1..n -> S] /\ \A i, j \in 1..n : r[i] = r[j] => i = j
  BY <1>1, <1>2
<1>4. r \in Seq(S)
  BY <1>3, SeqDef
<1>5. Len(r) = n
  <2>1. Len(r) \in Nat /\ DOMAIN r = 1..Len(r) /\ DOMAIN r = 1..n
    BY <1>3, <1>4, LenProperties
  <2> QED BY <1>3, <2>1
<1> QED BY <1>3, <1>4, <1>5 DEF Ranked

\* The first n of s.
LEMMA FirstOf ==
    ASSUME NEW S, NEW s \in Seq(S), NEW n \in Nat
    PROVE  /\ First(s, n) \in Seq(S)
           /\ Len(First(s, n)) = Upto(n, Len(s)) /\ Upto(n, Len(s)) \in 0..Len(s)
           /\ Upto(n, Len(s)) <= n
           /\ \A i \in 1..Upto(n, Len(s)) : First(s, n)[i] = s[i]
           /\ \A c : c \in Elements(First(s, n)) <=> \E i \in 1..Upto(n, Len(s)) : s[i] = c
<1> DEFINE m == Upto(n, Len(s))
<1>1. m \in Nat /\ m \in 0..Len(s) /\ m <= n /\ Len(s) \in Nat
  BY DEF Upto
<1> HIDE DEF m
<1>2. \A i \in 1..m : s[i] \in S
  BY <1>1
<1>3. /\ SubSeq(s, 1, m) \in Seq(S)
      /\ Len(SubSeq(s, 1, m)) = IF 1 <= m THEN m - 1 + 1 ELSE 0
      /\ \A i \in 1..(m - 1 + 1) : SubSeq(s, 1, m)[i] = s[1 + i - 1]
  BY <1>1, <1>2, SubSeqProperties
<1>4. First(s, n) = SubSeq(s, 1, m)
  BY DEF First, m
<1> DEFINE f == First(s, n)
<1>5. /\ f \in Seq(S) /\ Len(f) = m /\ \A i \in 1..m : f[i] = s[i]
  BY <1>1, <1>3, <1>4
<1> HIDE DEF f
<1>6. DOMAIN f = 1..m
  BY <1>5
<1>7. \A c : c \in Elements(f) <=> \E i \in 1..m : s[i] = c
  BY <1>5, <1>6 DEF Elements
<1> QED BY <1>1, <1>5, <1>7 DEF f, m

\* A chunk has a rank in a list if it is among its first Depth.
LEMMA RankOf ==
    ASSUME NEW S, NEW list, Ranked(list, S), topK \in Nat, NEW c
    PROVE  /\ RankIn(list, c) \in Nat /\ RankIn(list, c) <= Depth /\ Depth \in Nat
           /\ RankIn(list, c) > 0 <=> c \in Elements(First(list, Depth))
<1>1. Depth \in Nat /\ list \in Seq(S)
  BY DEF Depth, Ranked
<1> HIDE DEF Depth
<1>2. CASE c \in Elements(First(list, Depth))
  <2> DEFINE m == Upto(Depth, Len(list))
  <2>1. m \in 0..Len(list) /\ m <= Depth /\ Len(list) \in Nat /\ DOMAIN list = 1..Len(list)
    BY <1>1, FirstOf
  <2>2. PICK j \in 1..m : list[j] = c
    BY <1>1, <1>2, FirstOf
  <2> HIDE DEF m
  <2> DEFINE k == CHOOSE i \in DOMAIN list : list[i] = c
  <2>3. j \in DOMAIN list
    BY <2>1, <2>2
  <2>4. k \in DOMAIN list /\ list[k] = c
    BY <2>2, <2>3, Zenon
  <2>5. RankIn(list, c) = k
    BY <1>2 DEF RankIn
  <2> HIDE DEF k
  <2>6. k = j
    BY <2>1, <2>2, <2>3, <2>4 DEF Ranked
  <2>7. k \in Nat /\ k <= Depth /\ k > 0
    BY <1>1, <2>1, <2>2, <2>6
  <2> QED BY <1>1, <1>2, <2>5, <2>7
<1>3. CASE c \notin Elements(First(list, Depth))
  BY <1>1, <1>3 DEF RankIn
<1> QED BY <1>2, <1>3

\* Products keep an order.
LEMMA Larger ==
    ASSUME NEW a \in Nat, NEW b \in Nat, NEW m \in Nat, a < b, m > 0
    PROVE  a * m < b * m /\ a * m \in Nat /\ b * m \in Nat
  OBVIOUS

\* 1/A + 1/B > 1/X + 1/Y if A < X and B < Y.
LEMMA SumsOfTwo ==
    ASSUME NEW A \in Nat, NEW B \in Nat, NEW X \in Nat, NEW Y \in Nat,
           A > 0, B > 0, A < X, B < Y
    PROVE  (1 * Y + 1 * X) * (A * B) < (1 * B + 1 * A) * (X * Y)
<1>1. A * (Y * B) < X * (Y * B)
  BY Larger
<1>2. B * (X * A) < Y * (X * A)
  BY Larger
<1> QED BY <1>1, <1>2

\* 1/A + 1/B > 1/X if A < X.
LEMMA SumOverOne ==
    ASSUME NEW A \in Nat, NEW B \in Nat, NEW X \in Nat, A > 0, B > 0, A < X
    PROVE  1 * (A * B) < (1 * B + 1 * A) * X
<1>1. A * B < X * B
  BY Larger
<1>2. A * X \in Nat
  OBVIOUS
<1> QED BY <1>1, <1>2

\* 1/A + 1/B > 1/X if neither A nor B is as much as twice X.
LEMMA TwoOverOne ==
    ASSUME NEW A \in Nat, NEW B \in Nat, NEW X \in Nat, A > 0, B > 0, A < 2 * X, B < 2 * X
    PROVE  1 * (A * B) < (1 * B + 1 * A) * X
<1>1. A * B < (2 * X) * B
  BY Larger
<1>2. B * A < (2 * X) * A
  BY Larger
<1> QED BY <1>1, <1>2

\* The score of a chunk from its two ranks.
ScoreAt(a, b) == LET v == Share(a)
                     w == Share(b) IN
                 <<v[1] * w[2] + w[1] * v[2], v[2] * w[2]>>

LEMMA ScoresAre ==
    ASSUME NEW a \in Nat, NEW b \in Nat
    PROVE  /\ ScoreAt(0, 0) = <<0, 1>>
           /\ a > 0 => ScoreAt(a, 0) = <<1, RRF + a>>
           /\ b > 0 => ScoreAt(0, b) = <<1, RRF + b>>
           /\ (a > 0 /\ b > 0) =>
                ScoreAt(a, b) = <<1 * (RRF + b) + 1 * (RRF + a), (RRF + a) * (RRF + b)>>
<1>1. RRF \in Nat
  BY TopKsAssumption
<1>2. Share(0) = <<0, 1>> /\ \A n \in Nat : n > 0 => Share(n) = <<1, RRF + n>>
  BY DEF Share
<1>3. ScoreAt(0, 0) = <<0, 1>>
  BY <1>2 DEF ScoreAt
<1>4. ASSUME a > 0 PROVE ScoreAt(a, 0) = <<1, RRF + a>>
  <2>1. Share(a) = <<1, RRF + a>> /\ Share(0) = <<0, 1>>
    BY <1>2, <1>4
  <2>2. ScoreAt(a, 0) = <<1 * 1 + 0 * (RRF + a), (RRF + a) * 1>>
    BY <2>1 DEF ScoreAt
  <2>3. 1 * 1 + 0 * (RRF + a) = 1 /\ (RRF + a) * 1 = RRF + a
    BY <1>1
  <2> QED BY <2>2, <2>3
<1>5. ASSUME b > 0 PROVE ScoreAt(0, b) = <<1, RRF + b>>
  <2>1. Share(b) = <<1, RRF + b>> /\ Share(0) = <<0, 1>>
    BY <1>2, <1>5
  <2>2. ScoreAt(0, b) = <<0 * (RRF + b) + 1 * 1, 1 * (RRF + b)>>
    BY <2>1 DEF ScoreAt
  <2>3. 0 * (RRF + b) + 1 * 1 = 1 /\ 1 * (RRF + b) = RRF + b
    BY <1>1
  <2> QED BY <2>2, <2>3
<1>6. ASSUME a > 0, b > 0
      PROVE  ScoreAt(a, b) = <<1 * (RRF + b) + 1 * (RRF + a), (RRF + a) * (RRF + b)>>
  <2>1. Share(a) = <<1, RRF + a>> /\ Share(b) = <<1, RRF + b>>
    BY <1>2, <1>6
  <2> QED BY <2>1 DEF ScoreAt
<1> QED BY <1>3, <1>4, <1>5, <1>6

\* Ranks a, b that are both better than x, y have the higher score; so have any
\* two ranks when the other chunk has only one and no rank reaches RRF + 2.
LEMMA ScoresCompare ==
    ASSUME NEW a \in Nat, NEW b \in Nat, NEW x \in Nat, NEW y \in Nat, a > 0, b > 0,
           \/ (x = 0 \/ a < x) /\ (y = 0 \/ b < y)
           \/ a < RRF + 2 /\ b < RRF + 2 /\ (x = 0 \/ y = 0)
    PROVE  Less(ScoreAt(x, y), ScoreAt(a, b))
<1> DEFINE A == RRF + a
           B == RRF + b
           X == RRF + x
           Y == RRF + y
<1>1. RRF \in Nat
  BY TopKsAssumption
<1>2. /\ A \in Nat /\ B \in Nat /\ X \in Nat /\ Y \in Nat /\ A > 0 /\ B > 0
      /\ (a < x => A < X) /\ (b < y => B < Y)
      /\ (x > 0 /\ a < RRF + 2 => A < 2 * X) /\ (x > 0 /\ b < RRF + 2 => B < 2 * X)
      /\ (y > 0 /\ a < RRF + 2 => A < 2 * Y) /\ (y > 0 /\ b < RRF + 2 => B < 2 * Y)
  BY <1>1
<1>3. ScoreAt(a, b) = <<1 * B + 1 * A, A * B>>
  BY ScoresAre
<1>4. CASE x = 0 /\ y = 0
  <2>1. ScoreAt(x, y) = <<0, 1>>
    BY <1>4, ScoresAre
  <2> HIDE DEF A, B
  <2>2. A * B \in Nat
    BY <1>2
  <2>3. 0 * (A * B) < (1 * B + 1 * A) * 1
    BY <1>2, <2>2
  <2> QED BY <1>3, <2>1, <2>3 DEF Less
<1>5. CASE x > 0 /\ y = 0
  <2>1. ScoreAt(x, y) = <<1, X>>
    BY <1>5, ScoresAre
  <2>2. A < X \/ (A < 2 * X /\ B < 2 * X)
    BY <1>2, <1>5
  <2> HIDE DEF A, B, X
  <2>3. 1 * (A * B) < (1 * B + 1 * A) * X
    BY <1>2, <2>2, SumOverOne, TwoOverOne
  <2> QED BY <1>3, <2>1, <2>3 DEF Less
<1>6. CASE x = 0 /\ y > 0
  <2>1. ScoreAt(x, y) = <<1, Y>>
    BY <1>6, ScoresAre
  <2>2. B < Y \/ (A < 2 * Y /\ B < 2 * Y)
    BY <1>2, <1>6
  <2> HIDE DEF A, B, Y
  <2>3. 1 * (B * A) < (1 * A + 1 * B) * Y
    BY <1>2, <2>2, SumOverOne, TwoOverOne
  <2>4. 1 * (A * B) < (1 * B + 1 * A) * Y
    BY <1>2, <2>3
  <2> QED BY <1>3, <2>1, <2>4 DEF Less
<1>7. CASE x > 0 /\ y > 0
  <2>1. ScoreAt(x, y) = <<1 * Y + 1 * X, X * Y>>
    BY <1>7, ScoresAre
  <2>2. A < X /\ B < Y
    BY <1>2, <1>7
  <2> HIDE DEF A, B, X, Y
  <2>3. (1 * Y + 1 * X) * (A * B) < (1 * B + 1 * A) * (X * Y)
    BY <1>2, <2>2, SumsOfTwo
  <2> QED BY <1>3, <2>1, <2>3 DEF Less
<1> QED BY <1>4, <1>5, <1>6, <1>7

\* BestHitsFirst of the hits f, with the rankings n and w and top_k as parameters.
RankAt(list, k, c) == IF c \in Elements(First(list, k * 3))
                      THEN CHOOSE i \in DOMAIN list : list[i] = c ELSE 0
DoubleAt(n, w, k, c) == RankAt(n, k, c) > 0 /\ RankAt(w, k, c) > 0
AheadAt(list, k, a, b) ==
    RankAt(list, k, a) > 0 /\ (RankAt(list, k, b) = 0 \/ RankAt(list, k, a) < RankAt(list, k, b))
BestIn(n, w, k, f) ==
    \A i \in DOMAIN f :
        \A c \in (Elements(First(n, k * 3)) \cup Elements(First(w, k * 3))) \ Elements(First(f, i)) :
            /\ ~(AheadAt(n, k, c, f[i]) /\ AheadAt(w, k, c, f[i]))
            /\ (k * 3 < RRF + 2 /\ DoubleAt(n, w, k, c)) => DoubleAt(n, w, k, f[i])

LEMMA SameRanks == \A list, c : RankIn(list, c) = RankAt(list, topK, c)
  BY DEF RankIn, RankAt, Depth

LEMMA SameBest == BestIn(nearest, worded, topK, found) => BestHitsFirst
  BY DEF BestIn, BestHitsFirst, Ahead, AheadAt, Double, DoubleAt, RankIn, RankAt, Depth, Hits

\* The first topK of an order by score put the best hits first.
LEMMA FoundIsBest ==
    ASSUME CutInv, NEW S, Ranked(nearest, S), Ranked(worded, S), topK \in Nat,
           NEW r \in ByScore
    PROVE  BestIn(nearest, worded, topK, First(r, topK))
<1>1. /\ r \in Rankings(Hits) /\ Elements(r) = Hits
      /\ \A i, j \in DOMAIN r : i < j => ~Less(Score(r[i]), Score(r[j]))
  BY DEF ByScore
<1>2. Ranked(r, Hits) /\ r \in Seq(Hits) /\ DOMAIN r = 1..Len(r) /\ Len(r) \in Nat
  BY <1>1, RankingsAre DEF Ranked
<1>3. /\ \A c : RankIn(nearest, c) \in Nat /\ RankIn(nearest, c) <= Depth
      /\ \A c : RankIn(worded, c) \in Nat /\ RankIn(worded, c) <= Depth
      /\ Depth \in Nat
  BY RankOf
<1>4. \A c : Score(c) = ScoreAt(RankIn(nearest, c), RankIn(worded, c))
  BY DEF Score, ScoreAt
<1> DEFINE f == First(r, topK)
           m == Upto(topK, Len(r))
<1>5. /\ f \in Seq(Hits) /\ Len(f) = m /\ m \in 0..Len(r) /\ DOMAIN f = 1..m
      /\ \A i \in 1..m : f[i] = r[i]
  <2>1. /\ f \in Seq(Hits) /\ Len(f) = m /\ m \in 0..Len(r)
        /\ \A i \in 1..m : f[i] = r[i]
    BY <1>2, FirstOf
  <2> HIDE DEF f, m
  <2>2. DOMAIN f = 1..Len(f)
    BY <2>1
  <2> QED BY <2>1, <2>2
<1> HIDE DEF f, m
<1>6. ASSUME NEW i \in DOMAIN f, NEW c \in Hits \ Elements(First(f, i))
      PROVE  ~Less(Score(f[i]), Score(c))
  <2>1. i \in 1..m /\ i \in Nat /\ Upto(i, Len(f)) = i /\ i \in 1..Len(r)
    BY <1>2, <1>5 DEF Upto
  <2>2. ~ \E j \in 1..i : f[j] = c
    BY <1>5, <1>6, <2>1, FirstOf
  <2>3. PICK j \in DOMAIN r : r[j] = c
    BY <1>1, <1>6 DEF Elements
  <2>4. i < j
    <3>1. j \in 1..Len(r) /\ ~(j \in 1..i)
      <4>1. j \in 1..i => f[j] = r[j]
        BY <1>2, <1>5, <2>1
      <4> QED BY <1>2, <2>2, <2>3, <4>1
    <3> QED BY <1>2, <2>1, <3>1
  <2> QED BY <1>1, <1>2, <1>5, <2>1, <2>3, <2>4
<1>7. ASSUME NEW i \in DOMAIN f, NEW c \in Hits \ Elements(First(f, i))
      PROVE  /\ ~(Ahead(nearest, c, f[i]) /\ Ahead(worded, c, f[i]))
             /\ (Depth < RRF + 2 /\ Double(c)) => Double(f[i])
  <2> DEFINE a == RankIn(nearest, c)
             b == RankIn(worded, c)
             x == RankIn(nearest, f[i])
             y == RankIn(worded, f[i])
  <2>1. a \in Nat /\ b \in Nat /\ x \in Nat /\ y \in Nat /\ a <= Depth /\ b <= Depth
        /\ ~Less(ScoreAt(x, y), ScoreAt(a, b))
    BY <1>3, <1>4, <1>6, <1>7
  <2>2. ~(a > 0 /\ b > 0 /\ (x = 0 \/ a < x) /\ (y = 0 \/ b < y))
    <3> HIDE DEF a, b, x, y
    <3> QED BY <2>1, ScoresCompare
  <2>3. ~(a > 0 /\ b > 0 /\ a < RRF + 2 /\ b < RRF + 2 /\ (x = 0 \/ y = 0))
    <3> HIDE DEF a, b, x, y
    <3> QED BY <2>1, ScoresCompare
  <2>4. ~(Ahead(nearest, c, f[i]) /\ Ahead(worded, c, f[i]))
    BY <2>2 DEF Ahead
  <2>5. ASSUME Depth < RRF + 2, Double(c) PROVE Double(f[i])
    <3>1. a > 0 /\ b > 0 /\ a < RRF + 2 /\ b < RRF + 2
      BY <1>3, <2>1, <2>5, TopKsAssumption DEF Double
    <3>2. x # 0 /\ y # 0
      BY <2>3, <3>1
    <3>3. x > 0 /\ y > 0
      BY <2>1, <3>2
    <3> QED BY <3>3 DEF Double
  <2> QED BY <2>4, <2>5
<1>8. BestIn(nearest, worded, topK, f)
  BY <1>7 DEF BestIn, Ahead, AheadAt, Double, DoubleAt, RankIn, RankAt, Depth, Hits
<1> QED BY <1>8 DEF f

----------------------------------------------------------------------------
(* The invariant of a question.                                            *)

\* What holds of the context ctx when s of the chunks f have been looked at.
ContextIn(cs, d, f, s, ctx) ==
    /\ ctx \in Seq(DOMAIN cs) /\ s \in 0..Len(f)
    /\ s = 0 => ctx = <<>>
    /\ s > 0 => ctx # <<>> /\ ctx[1] = f[1]
    /\ \A i, j \in 1..Len(ctx) : TextIn(cs, d, ctx[i]) = TextIn(cs, d, ctx[j]) => i = j
    /\ Len(ctx) > 1 => TotalIn(cs, d, ctx) - 2 <= MaxChars
    /\ \A i \in 1..s : \E n \in Elements(ctx) : TextIn(cs, d, n) = TextIn(cs, d, f[i])

Listed == Ranked(nearest, DOMAIN chunks) /\ Ranked(worded, DOMAIN chunks)
Searched == /\ found \in Seq(DOMAIN chunks)
            /\ BestIn(nearest, worded, topK, found)
            /\ ContextIn(chunks, document, found, seen, context)
            /\ (stage = "built" /\ found # <<>>) => context # <<>>

RInv ==
    /\ CutInv /\ topK \in Nat /\ stage \in {"none", "asked", "found", "built"}
    /\ stage # "none" => Cut /\ Listed
    /\ stage \in {"none", "asked"} => found = <<>> /\ seen = 0 /\ context = <<>>
    /\ stage \in {"found", "built"} => Searched

LEMMA RInvShows ==
    ASSUME RInv
    PROVE  BestHitsFirst /\ ContextHoldsTheBest
<1>1. BestHitsFirst
  <2>1. CASE stage = "found"
    BY <2>1, SameBest DEF RInv, Searched
  <2>2. CASE stage # "found"
    BY <2>2 DEF BestHitsFirst
  <2> QED BY <2>1, <2>2
<1>2. ContextHoldsTheBest
  <2> SUFFICES ASSUME stage = "built" PROVE ContextHoldsTheBest
    BY DEF ContextHoldsTheBest
  <2>1. /\ ContextIn(chunks, document, found, seen, context)
        /\ found # <<>> => context # <<>>
        /\ found \in Seq(DOMAIN chunks)
    BY DEF RInv, Searched
  <2>2. context \in Seq(DOMAIN chunks) /\ DOMAIN context = 1..Len(context)
    BY <2>1 DEF ContextIn
  <2>3. found # <<>> => context # <<>> /\ context[1] = found[1]
    <3>1. seen \in 0..Len(found) /\ Len(found) \in Nat
          /\ (seen = 0 => context = <<>>)
          /\ (seen > 0 => context # <<>> /\ context[1] = found[1])
      BY <2>1 DEF ContextIn
    <3> QED BY <2>1, <3>1
  <2>4. \A i, j \in DOMAIN context : TextOf(context[i]) = TextOf(context[j]) => i = j
    BY <2>1, <2>2, SameTexts DEF ContextIn
  <2>5. Len(context) > 1 => Total(context) - 2 <= MaxChars
    BY <2>1, SameTotals DEF ContextIn
  <2>6. \A i \in 1..seen : \E n \in Elements(context) : TextOf(n) = TextOf(found[i])
    BY <2>1, SameTexts DEF ContextIn
  <2> QED BY <2>3, <2>4, <2>5, <2>6 DEF ContextHoldsTheBest
<1> QED BY <1>1, <1>2

LEMMA EmptyContext ==
    ASSUME NEW cs, NEW d, NEW f, Len(f) \in Nat
    PROVE  ContextIn(cs, d, f, 0, <<>>)
  BY DEF ContextIn

LEMMA CutKept ==
    ASSUME RInv, UNCHANGED cutting
    PROVE  CutInv' /\ document' = document /\ block' = block /\ chunks' = chunks
  BY StepCutInv DEF RInv, cutting

LEMMA ChunkStepRInv ==
    ASSUME RInv, ChunkStep, UNCHANGED <<stage, question, found, seen, context>>
    PROVE  RInv'
<1>1. CutInv'
  BY StepCutInv DEF RInv, Next
<1>2. ~Cut
  BY DEF ChunkStep, KeepText, CutText, CutLastText, TakeLine, EndTable, At
<1>3. stage = "none"
  BY <1>2 DEF RInv
<1>4. /\ stage' = "none" /\ topK' \in Nat
      /\ found' = <<>> /\ seen' = 0 /\ context' = <<>>
  BY <1>3 DEF RInv, question
<1> QED BY <1>1, <1>4 DEF RInv

LEMMA AskRInv == ASSUME RInv, Ask PROVE RInv'
<1>1. /\ Cut /\ stage = "none" /\ stage' = "asked" /\ topK' \in TopKs
      /\ nearest' \in Rankings(DOMAIN chunks) /\ worded' \in Rankings(DOMAIN chunks)
      /\ UNCHANGED cutting /\ found' = found /\ seen' = seen /\ context' = context
  BY DEF Ask
<1>2. CutInv' /\ document' = document /\ block' = block /\ chunks' = chunks
  BY <1>1, CutKept
<1>3. CutInv
  BY DEF RInv
<1>4. Ranked(nearest', DOMAIN chunks) /\ Ranked(worded', DOMAIN chunks)
  BY <1>1, <1>3, RankingsAre
<1>5. topK' \in Nat
  BY <1>1, TopKsAssumption
<1>6. found' = <<>> /\ seen' = 0 /\ context' = <<>>
  BY <1>1 DEF RInv
<1>7. Cut' /\ Listed'
  BY <1>1, <1>2, <1>4 DEF Cut, Listed
<1> QED BY <1>1, <1>2, <1>5, <1>6, <1>7 DEF RInv

LEMMA SearchRInv == ASSUME RInv, SearchHybrid PROVE RInv'
<1>1. /\ stage = "asked" /\ stage' = "found" /\ UNCHANGED cutting
      /\ topK' = topK /\ nearest' = nearest /\ worded' = worded
      /\ seen' = seen /\ context' = context
  BY DEF SearchHybrid, question
<1>2. PICK r \in ByScore : found' = First(r, topK)
  BY DEF SearchHybrid
<1>3. CutInv' /\ document' = document /\ block' = block /\ chunks' = chunks
  BY <1>1, CutKept
<1>4. /\ CutInv /\ topK \in Nat /\ Cut /\ Listed /\ seen = 0 /\ context = <<>>
  BY <1>1 DEF RInv
<1>5. BestIn(nearest, worded, topK, found')
  BY <1>2, <1>4, FoundIsBest DEF Listed
<1>6. found' \in Seq(DOMAIN chunks)
  <2>1. Depth \in Nat
    BY <1>4 DEF Depth
  <2>2. Hits \subseteq DOMAIN chunks
    <3>1. nearest \in Seq(DOMAIN chunks) /\ worded \in Seq(DOMAIN chunks)
      BY <1>4 DEF Listed, Ranked
    <3>2. /\ Elements(First(nearest, Depth)) \subseteq DOMAIN chunks
          /\ Elements(First(worded, Depth)) \subseteq DOMAIN chunks
      <4>1. /\ First(nearest, Depth) \in Seq(DOMAIN chunks)
            /\ First(worded, Depth) \in Seq(DOMAIN chunks)
        BY <2>1, <3>1, FirstOf
      <4> QED BY <4>1 DEF Elements
    <3> QED BY <3>2 DEF Hits
  <2>3. r \in Seq(Hits)
    BY <1>2, <1>4, RankingsAre DEF ByScore, Ranked
  <2>4. First(r, topK) \in Seq(Hits)
    BY <1>4, <2>3, FirstOf
  <2> QED BY <1>2, <2>2, <2>4, SeqMonotonic
<1>7. ContextIn(chunks, document, found', 0, <<>>)
  BY <1>6, EmptyContext
<1>8. Cut' /\ Listed' /\ Searched'
  BY <1>1, <1>3, <1>4, <1>5, <1>6, <1>7 DEF Cut, Listed, Searched
<1> QED BY <1>1, <1>3, <1>4, <1>8 DEF RInv

\* One iteration of build_context.
LEMMA TakeChunkContext ==
    ASSUME RInv, TakeChunk
    PROVE  ContextIn(chunks, document, found, seen + 1, context')
<1> DEFINE n == found[seen + 1]
           T(m) == TextIn(chunks, document, m)
<1>1. /\ stage = "found" /\ seen < Len(found)
      /\ \/ Repeats(n, context) /\ context' = context
         \/ ~Repeats(n, context) /\ Fits(n, context) /\ context' = Append(context, n)
  BY DEF TakeChunk
<1>2. /\ CutInv /\ found \in Seq(DOMAIN chunks)
      /\ ContextIn(chunks, document, found, seen, context)
  BY <1>1 DEF RInv, Searched
<1>3. /\ context \in Seq(DOMAIN chunks) /\ seen \in 0..Len(found) /\ Len(found) \in Nat
      /\ seen \in Nat /\ Len(context) \in Nat /\ DOMAIN context = 1..Len(context)
      /\ seen + 1 \in 1..Len(found)
  BY <1>1, <1>2 DEF ContextIn
<1>4. /\ (seen = 0 => context = <<>>) /\ (seen > 0 => context # <<>> /\ context[1] = found[1])
      /\ \A i, j \in 1..Len(context) : T(context[i]) = T(context[j]) => i = j
      /\ Len(context) > 1 => TotalIn(chunks, document, context) - 2 <= MaxChars
      /\ \A i \in 1..seen : \E m \in Elements(context) : T(m) = T(found[i])
  BY <1>2 DEF ContextIn
<1>5. n \in DOMAIN chunks
  BY <1>2, <1>3
<1>6. Repeats(n, context) <=> \E m \in Elements(context) : m = n \/ T(m) = T(n)
  BY SameTexts DEF Repeats
<1> HIDE DEF n, T
<1>7. CASE Repeats(n, context) /\ context' = context
  <2>1. PICK m \in Elements(context) : T(m) = T(n)
    BY <1>6, <1>7
  <2>2. seen > 0
    <3>1. PICK i \in 1..Len(context) : m = context[i]
      BY <1>3, <2>1 DEF Elements
    <3> QED BY <1>3, <1>4, <3>1
  <2>3. ASSUME NEW i \in 1..(seen + 1)
        PROVE  \E o \in Elements(context) : T(o) = T(found[i])
    <3>1. i \in 1..seen \/ i = seen + 1
      BY <1>3
    <3> QED BY <1>4, <2>1, <3>1 DEF n
  <2>4. seen + 1 \in 0..Len(found) /\ seen + 1 > 0 /\ seen + 1 # 0
    BY <1>3
  <2> QED BY <1>3, <1>4, <1>7, <2>2, <2>3, <2>4 DEF ContextIn, T
<1>8. CASE ~Repeats(n, context) /\ Fits(n, context) /\ context' = Append(context, n)
  <2> DEFINE more == Append(context, n)
  <2>1. /\ more \in Seq(DOMAIN chunks) /\ more # <<>> /\ Len(more) = Len(context) + 1
        /\ \A i \in 1..Len(context) : more[i] = context[i]
        /\ more[Len(context) + 1] = n
    BY <1>3, <1>5, AppendProperties
  <2>2. \A i \in 1..Len(context) : T(context[i]) # T(n)
    BY <1>3, <1>6, <1>8 DEF Elements
  <2>3. Len(more) > 1 => TotalIn(chunks, document, more) - 2 <= MaxChars
    <3> SUFFICES ASSUME Len(more) > 1
                 PROVE  TotalIn(chunks, document, more) - 2 <= MaxChars
      OBVIOUS
    <3>1. context # <<>>
      BY <1>3, <2>1
    <3>2. \A m \in DOMAIN chunks : PieceIn(chunks, document, m) \in Nat
      BY <1>2, PieceType
    <3>3. /\ TotalIn(chunks, document, context) \in Nat
          /\ TotalIn(chunks, document, more)
               = TotalIn(chunks, document, context) + PieceIn(chunks, document, n) + 2
      BY <1>3, <1>5, <3>2, TotalNext
    <3>4. TotalIn(chunks, document, context) + PieceIn(chunks, document, n) <= MaxChars
      BY <1>8, <3>1, SameTotals, SamePieces DEF Fits
    <3>5. PieceIn(chunks, document, n) \in Nat
      BY <1>5, <3>2
    <3> HIDE DEF more
    <3> QED BY <3>3, <3>4, <3>5, LimitsAssumption
  <2> HIDE DEF more
  <2>4. \A i, j \in 1..Len(more) : T(more[i]) = T(more[j]) => i = j
    <3>1. \A i \in 1..Len(more) : i \in 1..Len(context) \/ i = Len(context) + 1
      BY <1>3, <2>1
    <3> QED BY <1>3, <1>4, <2>1, <2>2, <3>1
  <2>5. more[1] = found[1]
    <3>1. CASE seen = 0
      BY <1>3, <1>4, <2>1, <3>1 DEF n
    <3>2. CASE seen > 0
      <4>1. 1 \in 1..Len(context)
        BY <1>3, <1>4, <3>2
      <4> QED BY <1>4, <2>1, <3>2, <4>1
    <3> QED BY <1>3, <3>1, <3>2
  <2>6. /\ n \in Elements(more) /\ \A m \in Elements(context) : m \in Elements(more)
    <3>1. DOMAIN more = 1..(Len(context) + 1)
      BY <2>1
    <3> QED BY <1>3, <2>1, <3>1 DEF Elements
  <2>7. ASSUME NEW i \in 1..(seen + 1)
        PROVE  \E o \in Elements(more) : T(o) = T(found[i])
    <3>1. i \in 1..seen \/ i = seen + 1
      BY <1>3
    <3> QED BY <1>4, <2>6, <3>1 DEF n
  <2>8. seen + 1 \in 0..Len(found) /\ seen + 1 # 0
    BY <1>3
  <2>9. context' = more
    BY <1>8 DEF more
  <2> QED BY <2>1, <2>3, <2>4, <2>5, <2>7, <2>8, <2>9 DEF ContextIn, T
<1> QED BY <1>1, <1>7, <1>8

LEMMA TakeChunkRInv == ASSUME RInv, TakeChunk PROVE RInv'
<1>1. /\ stage = "found" /\ stage' = stage /\ UNCHANGED cutting /\ seen' = seen + 1
      /\ topK' = topK /\ nearest' = nearest /\ worded' = worded /\ found' = found
  BY DEF TakeChunk, question
<1>2. CutInv' /\ document' = document /\ block' = block /\ chunks' = chunks
  BY <1>1, CutKept
<1>3. CutInv /\ topK \in Nat /\ Cut /\ Listed /\ Searched
  BY <1>1 DEF RInv
<1>4. ContextIn(chunks, document, found, seen + 1, context')
  BY TakeChunkContext
<1>5. Cut' /\ Listed' /\ Searched'
  BY <1>1, <1>2, <1>3, <1>4 DEF Cut, Listed, Searched
<1> QED BY <1>1, <1>2, <1>3, <1>5 DEF RInv

LEMMA BuildRInv == ASSUME RInv, BuildContext PROVE RInv'
<1>1. /\ stage = "found" /\ stage' = "built" /\ UNCHANGED cutting /\ seen' = seen
      /\ topK' = topK /\ nearest' = nearest /\ worded' = worded /\ found' = found
      /\ context' = context
      /\ seen < Len(found) => ~Fits(found[seen + 1], context)
  BY DEF BuildContext, question
<1>2. CutInv' /\ document' = document /\ block' = block /\ chunks' = chunks
  BY <1>1, CutKept
<1>3. CutInv /\ topK \in Nat /\ Cut /\ Listed /\ Searched
  BY <1>1 DEF RInv
<1>4. found # <<>> => context # <<>>
  <2>1. /\ found \in Seq(DOMAIN chunks) /\ seen \in 0..Len(found)
        /\ seen > 0 => context # <<>>
    BY <1>3 DEF Searched, ContextIn
  <2>2. context = <<>> => ~(seen < Len(found))
    BY <1>1 DEF Fits
  <2>3. (context = <<>> /\ seen = 0) => Len(found) = 0
    BY <2>1, <2>2
  <2> QED BY <2>1, <2>3
<1>5. Cut' /\ Listed' /\ Searched'
  BY <1>1, <1>2, <1>3, <1>4 DEF Cut, Listed, Searched
<1> QED BY <1>1, <1>2, <1>3, <1>5 DEF RInv

LEMMA StutterRInv == ASSUME RInv, UNCHANGED vars PROVE RInv'
<1>1. /\ stage' = stage /\ UNCHANGED cutting /\ seen' = seen
      /\ topK' = topK /\ nearest' = nearest /\ worded' = worded /\ found' = found
      /\ context' = context
  BY DEF vars, question
<1>2. CutInv' /\ document' = document /\ block' = block /\ chunks' = chunks
  BY <1>1, CutKept
<1> QED BY <1>1, <1>2 DEF RInv, Cut, Listed, Searched

LEMMA StepRInv == RInv /\ [RNext]_vars => RInv'
<1> SUFFICES ASSUME RInv, [RNext]_vars PROVE RInv'
  OBVIOUS
<1> QED BY ChunkStepRInv, AskRInv, SearchRInv, TakeChunkRInv, BuildRInv, StutterRInv DEF RNext

LEMMA InitRInv == RInit => RInv
<1> SUFFICES ASSUME RInit PROVE RInv
  OBVIOUS
<1>1. CutInv
  BY InitCutInv DEF RInit
<1> QED BY <1>1 DEF RInit, RInv

\* Search and context leave the chunks alone: what holds of the cut of a document
\* holds of it while questions are asked (search_hybrid, build_context).
THEOREM RetrievalCuts == RSpec => Spec
<1>1. RInit => Init
  BY DEF RInit
<1>2. [RNext]_vars => [Next]_cutting
  BY DEF RNext, vars, Next, Ask, SearchHybrid, TakeChunk, BuildContext
<1> QED BY <1>1, <1>2, PTL DEF RSpec, Spec

LEMMA RInvHolds == RSpec => []RInv
  BY InitRInv, StepRInv, PTL DEF RSpec

\* The fusion of the two rankings keeps their common order, and a chunk of both
\* precedes a chunk of one while 3 top_k < RRF_K + 2 (search_hybrid).
THEOREM BestFirstCorrect == RSpec => []BestHitsFirst
<1>1. RInv => BestHitsFirst
  BY RInvShows
<1> QED BY <1>1, RInvHolds, PTL

\* The context begins with the best chunk, says nothing twice, keeps within
\* MAX_CONTEXT_CHARS and leaves out no hit but a repeated one (build_context).
THEOREM ContextCorrect == RSpec => []ContextHoldsTheBest
<1>1. RInv => ContextHoldsTheBest
  BY RInvShows
<1> QED BY <1>1, RInvHolds, PTL
=============================================================================
