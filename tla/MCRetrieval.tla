---------------------------- MODULE MCRetrieval ----------------------------
(***************************************************************************)
(* Instances of Chunker and Retrieval for TLC: parts of six characters     *)
(* that overlap by two.                                                    *)
(***************************************************************************)
EXTENDS Retrieval

CONSTANTS MaxText, MaxLines, MaxLine

\* What clean_text leaves: no white space at the ends, no two spaces in a row.
Clean(t) == /\ \A i \in {1, Len(t)} : ~White(t, i)
            /\ \A i \in 1..(Len(t) - 1) : ~(t[i] = "space" /\ t[i + 1] = "space")

TextBlocks  == { [kind |-> "text", chars |-> t] :
                 t \in { u \in UNION {[1..n -> Chars] : n \in 1..MaxText} : Clean(u) } }

\* The same of a table: no blank line at the ends, no two in a row.
CleanTable(l) == /\ \A i \in {1, Len(l)} : l[i] > 0
                 /\ \A i \in 1..(Len(l) - 1) : l[i] > 0 \/ l[i + 1] > 0

TableBlocks == { [kind |-> "table", lines |-> l] :
                 l \in { r \in UNION {[1..n -> 0..MaxLine] : n \in 1..MaxLines} :
                         CleanTable(r) } }

W == "letter"
S == "space"
Sentence == [kind |-> "text", chars |-> <<W, S, W, W, W, S, W, W, W, W, W, S, W>>]
Table    == [kind |-> "table", lines |-> <<5, 17, 5, 0, 2, 2>>]

\* Every short text, every short table, and documents of several blocks.
MCDocuments == { <<b>> : b \in TextBlocks \cup TableBlocks }
                 \cup { <<Sentence, Table>>, <<Table, Sentence>>, <<Table>>, <<Sentence>> }
MCAsked     == { <<Sentence>>, <<Table>> }
============================================================================
