--------------------------- MODULE MCDocumentIngest ---------------------------
(***************************************************************************)
(* Instances of DocumentIngest for TLC.                                    *)
(***************************************************************************)
EXTENDS DocumentIngest

CONSTANTS d1, d2, c1

\* d1 and d2 are uploads of one file.
OneFile == [d \in Docs |-> c1]
============================================================================
