------------------------------ MODULE Chunker ------------------------------
(***************************************************************************)
(* chunk_blocks: the blocks of a parsed document become the chunks that    *)
(* are searched and cited. A block of text is cut into overlapping parts   *)
(* of at most Size characters, at a space where there is one in the second *)
(* half of the part; the lines of a table are collected into parts without *)
(* tearing one.                                                            *)
(*                                                                         *)
(* A character is a letter, a space or a newline; a line of a table is its *)
(* length, and lines of one length are the same text. Each iteration of    *)
(* the two loops is a step. A chunk names the characters, or the lines, of *)
(* its block from the first to the last one; its ordinal is its place in   *)
(* chunks.                                                                 *)
(***************************************************************************)
EXTENDS Naturals, Sequences

CONSTANTS Size,      \* CHUNK_SIZE, 700 in the code
          Overlap,   \* CHUNK_OVERLAP, 120 in the code
          Documents  \* normalized documents: sequences of blocks

ASSUME SizesAssumption == /\ Size \in Nat /\ Overlap \in Nat
                          /\ Overlap < Size \div 2

Chars  == {"letter", "space", "newline"}
Blocks == [kind : {"text"}, chars : Seq(Chars)] \cup [kind : {"table"}, lines : Seq(Nat)]

ASSUME DocumentsAssumption == Documents \subseteq Seq(Blocks)

\* normalize: a text is stripped, so unless it is empty it has a letter.
ASSUME InkAssumption ==
    \A d \in Documents : \A b \in DOMAIN d :
        (d[b].kind = "text" /\ d[b].chars # <<>>)
        => \E i \in DOMAIN d[b].chars : d[b].chars[i] = "letter"

VARIABLES document,  \* the blocks that are cut
          block,     \* the block the loop of chunk_blocks is at
          start,     \* _split_text: the characters before the part
          first,     \* _split_rows: the first line of current
          line,      \* _split_rows: the last line taken
          length,    \* _split_rows: length
          chunks     \* the chunks so far, in the order of their ordinals

loop == <<start, first, line, length>>
cutting == <<document, block, start, first, line, length, chunks>>

Init == /\ document \in Documents
        /\ block = 1
        /\ start = 0 /\ first = 1 /\ line = 0 /\ length = 0
        /\ chunks = <<>>

Cut  == block > Len(document)
At(kind) == ~Cut /\ document[block].kind = kind
Text  == document[block].chars
Lines == document[block].lines

\* The loop of chunk_blocks goes on to the next block.
NextBlock == /\ block' = block + 1
             /\ start' = 0 /\ first' = 1 /\ line' = 0 /\ length' = 0

----------------------------------------------------------------------------
\* _split_text.

White(text, i) == text[i] # "letter"

\* text.rfind(" ", start + size // 2, end): the places a part may end before.
Spaces(text, from, end) == {i \in from..(end - 1) : text[i + 1] = "space"}

\* Mutant of EndOf: a space in the last two thirds will do.
EndOfEarlier(text, s) ==
    LET spaces == Spaces(text, s + Size \div 3, s + Size) IN
    IF s + Size >= Len(text) THEN s + Size
    ELSE IF \E i \in spaces : i > s
      THEN CHOOSE i \in spaces : \A j \in spaces : j <= i
      ELSE s + Size

\* Where the part that begins after s characters ends.
EndOf(text, s) ==
    LET spaces == Spaces(text, s + Size \div 2, s + Size) IN
    IF s + Size >= Len(text) THEN s + Size
    ELSE IF \E i \in spaces : i > s
      THEN CHOOSE i \in spaces : \A j \in spaces : j <= i
      ELSE s + Size

\* strip: the part without white space at its ends, none if it is all white.
Letters(text, from, to) == {i \in from..to : ~White(text, i)}
Stripped(text, from, to) ==
    IF Letters(text, from, to) = {} THEN <<>>
    ELSE << [ block |-> block,
              from  |-> CHOOSE i \in Letters(text, from, to) :
                            \A j \in Letters(text, from, to) : i <= j,
              to    |-> CHOOSE i \in Letters(text, from, to) :
                            \A j \in Letters(text, from, to) : j <= i ] >>

\* A text that fits is one chunk, and an empty one none.
KeepText ==
    /\ At("text")
    /\ Len(Text) <= Size
    /\ chunks' = IF Text = <<>> THEN chunks
                 ELSE Append(chunks, [block |-> block, from |-> 1, to |-> Len(Text)])
    /\ NextBlock
    /\ UNCHANGED document

\* The part of this iteration: text[start:end].
PartEnd == IF EndOf(Text, start) < Len(Text) THEN EndOf(Text, start) ELSE Len(Text)

\* Mutant of CutText: the parts do not overlap.
CutTextApart ==
    /\ At("text")
    /\ Len(Text) > Size
    /\ EndOf(Text, start) < Len(Text)
    /\ chunks' = chunks \o Stripped(Text, start + 1, PartEnd)
    /\ start' = EndOf(Text, start)
    /\ UNCHANGED <<document, block, first, line, length>>

CutText ==
    /\ At("text")
    /\ Len(Text) > Size
    /\ EndOf(Text, start) < Len(Text)
    /\ chunks' = chunks \o Stripped(Text, start + 1, PartEnd)
    /\ start' = EndOf(Text, start) - Overlap
    /\ UNCHANGED <<document, block, first, line, length>>

CutLastText ==
    /\ At("text")
    /\ Len(Text) > Size
    /\ EndOf(Text, start) >= Len(Text)
    /\ chunks' = chunks \o Stripped(Text, start + 1, PartEnd)
    /\ NextBlock
    /\ UNCHANGED document

----------------------------------------------------------------------------
\* _split_rows.

\* current is first..line; a part that strips to nothing is left out.
Collected == IF \E i \in first..line : Lines[i] > 0
             THEN <<[block |-> block, from |-> first, to |-> line]>> ELSE <<>>
Full == first <= line /\ length + Lines[line + 1] > Size

\* Mutant of TakeLine: the newlines between the lines are not counted.
TakeLineUncounted ==
    /\ At("table")
    /\ line < Len(Lines)
    /\ chunks' = IF Full THEN chunks \o Collected ELSE chunks
    /\ first'  = IF Full THEN line + 1 ELSE first
    /\ length' = (IF Full THEN 0 ELSE length) + Lines[line + 1]
    /\ line'   = line + 1
    /\ UNCHANGED <<document, block, start>>

TakeLine ==
    /\ At("table")
    /\ line < Len(Lines)
    /\ chunks' = IF Full THEN chunks \o Collected ELSE chunks
    /\ first'  = IF Full THEN line + 1 ELSE first
    /\ length' = (IF Full THEN 0 ELSE length) + Lines[line + 1] + 1
    /\ line'   = line + 1
    /\ UNCHANGED <<document, block, start>>

EndTable ==
    /\ At("table")
    /\ line = Len(Lines)
    /\ chunks' = chunks \o Collected
    /\ NextBlock
    /\ UNCHANGED document

----------------------------------------------------------------------------
ChunkStep == \/ KeepText \/ CutText \/ CutLastText
             \/ TakeLine \/ EndTable

Next == ChunkStep \/ (Cut /\ UNCHANGED cutting)

Spec     == Init /\ [][Next]_cutting
FairSpec == Spec /\ WF_cutting(ChunkStep)

----------------------------------------------------------------------------
(* Correctness.                                                            *)

TypeOK ==
    /\ document \in Documents
    /\ block \in 1..(Len(document) + 1)
    /\ start \in Nat /\ first \in Nat /\ line \in Nat /\ length \in Nat
    /\ chunks \in Seq([block : Nat, from : Nat, to : Nat])

Holds(c, b, from, to) == c.block = b /\ c.from <= from /\ to <= c.to

\* Nothing the document says is lost at a cut: a passage of a text that is at most
\* one character longer than the overlap stands whole in some chunk, and every
\* line of a table that is not blank in exactly one (_split_text, _split_rows).
NothingIsLost ==
    \A b \in 1..(block - 1) :
        IF document[b].kind = "text"
        THEN LET text == document[b].chars IN
             \A from, to \in 1..Len(text) :
                (from <= to /\ to - from <= Overlap
                    /\ ~White(text, from) /\ ~White(text, to))
                => \E n \in DOMAIN chunks : Holds(chunks[n], b, from, to)
        ELSE \A i \in DOMAIN document[b].lines :
                document[b].lines[i] > 0
                => \E n \in DOMAIN chunks :
                      \A m \in DOMAIN chunks : Holds(chunks[m], b, i, i) <=> m = n

\* The characters of a table's lines from..to with the newlines between them.
Joined(lines, from, to) ==
    LET sum[n \in (from - 1)..to] ==
            IF n < from THEN 0 ELSE sum[n - 1] + lines[n] + (IF n = from THEN 0 ELSE 1)
    IN sum[to]

\* A chunk has at most Size characters; only a single line of a table, which is
\* never torn, may be longer.
ChunksFit ==
    \A n \in DOMAIN chunks :
        LET c == chunks[n] IN
        IF document[c.block].kind = "text"
        THEN c.to - c.from < Size
        ELSE c.from = c.to \/ Joined(document[c.block].lines, c.from, c.to) <= Size

\* Every document is cut to its end: no text keeps the loop at one place.
CuttingEnds == <>Cut
============================================================================
