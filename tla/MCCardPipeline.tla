--------------------------- MODULE MCCardPipeline ---------------------------
(***************************************************************************)
(* Instances of CardPipeline for TLC.                                      *)
(***************************************************************************)
EXTENDS CardPipeline

CONSTANTS c1, c2, c3, g1

\* c1 mentions the chunk a rule matches and an id that belongs to no chunk; the
\* chunk a rule matches mentions the one whose id looks like a phone number.
SomeMentions == [c \in Chunks |-> CASE c = c1 -> {c2, g1}
                                     [] c = c2 -> {c3}
                                     [] OTHER  -> {}]

\* No text looks like a header.
NoMentions == [c \in Chunks |-> {}]
=============================================================================
