----------------------------- MODULE Retrieval -----------------------------
(***************************************************************************)
(* From a question to the context the model is given: search_hybrid ranks  *)
(* the chunks of an indexed document by the similarity of their vectors    *)
(* and by their words and joins the two rankings (reciprocal rank fusion); *)
(* build_context puts the best chunks into a prompt of limited length.     *)
(*                                                                         *)
(* What the vectors and the words say is chosen when a question is asked:  *)
(* nearest lists the chunks that have a vector, the nearest first, and the *)
(* first near of them reach the threshold; worded lists the chunks that    *)
(* match the question's words, the best match first. The filter by         *)
(* document narrows both lists before they are ranked, so it is part of    *)
(* that choice. The service only searches in hybrid mode; brand and        *)
(* articul, which no caller passes, are left out, and so is the guard      *)
(* between search and context, which CardPipeline models.                  *)
(***************************************************************************)
EXTENDS Chunker

CONSTANTS Asked,     \* the documents that questions are asked about
          TopKs,     \* values of top_k, retrieval_top_k in the code
          RRF,       \* RRF_K, 60 in the code
          Header,    \* the length of source_header with its newline
          MaxChars   \* MAX_CONTEXT_CHARS, 6000 in the code

ASSUME AskedAssumption  == Asked \subseteq Documents
ASSUME TopKsAssumption  == TopKs \subseteq Nat \ {0} /\ RRF \in Nat
ASSUME LimitsAssumption == Header \in Nat /\ MaxChars \in Nat

VARIABLES stage,    \* how far the question is
          topK,     \* top_k
          nearest,  \* the chunks by the distance of their vectors
          near,     \* how many of them reach the threshold
          worded,   \* the chunks by ts_rank
          found,    \* what search returned
          seen,     \* how many of them build_context has looked at
          context   \* the chunks whose pieces it has taken

question == <<topK, nearest, near, worded>>
vars     == <<cutting, stage, question, found, seen, context>>

RInit == /\ Init
         /\ stage = "none" /\ topK = 0
         /\ nearest = <<>> /\ near = 0 /\ worded = <<>>
         /\ found = <<>> /\ seen = 0 /\ context = <<>>

Elements(s) == {s[i] : i \in DOMAIN s}
Upto(n, m) == IF n < m THEN n ELSE m
First(s, n) == SubSeq(s, 1, Upto(n, Len(s)))

\* The orders in which any of the members of a set can be listed.
Rankings(S) == UNION { {r \in [1..n -> S] : \A i, j \in 1..n : r[i] = r[j] => i = j}
                       : n \in 0..Len(chunks) }

----------------------------------------------------------------------------
Ask ==
    /\ Cut /\ document \in Asked
    /\ stage = "none"
    /\ stage' = "asked"
    /\ topK' \in TopKs
    /\ nearest' \in Rankings(DOMAIN chunks)
    /\ near' \in 0..Len(nearest')
    /\ worded' \in Rankings(DOMAIN chunks)
    /\ UNCHANGED <<cutting, found, seen, context>>

Depth == topK * 3

\* search_hybrid: the ranks of a chunk in the two lists, 0 where it is in none.
RankIn(list, c) == IF c \in Elements(First(list, Depth))
                   THEN CHOOSE i \in DOMAIN list : list[i] = c ELSE 0
Hits == Elements(First(nearest, Depth)) \cup Elements(First(worded, Depth))

\* Mutant of Share: 1 / rank, without RRF_K.
ShareOfRank(rank) == IF rank = 0 THEN <<0, 1>> ELSE <<1, rank>>

\* COALESCE(1.0 / (RRF_K + rank), 0) as a fraction, and the sum of the two.
Share(rank) == IF rank = 0 THEN <<0, 1>> ELSE <<1, RRF + rank>>
Score(c) == LET v == Share(RankIn(nearest, c))
                w == Share(RankIn(worded, c)) IN
            <<v[1] * w[2] + w[1] * v[2], v[2] * w[2]>>
Less(p, q) == p[1] * q[2] < q[1] * p[2]

\* ORDER BY score DESC: chunks of one score come in any order.
ByScore == {r \in Rankings(Hits) : /\ Elements(r) = Hits
                                   /\ \A i, j \in DOMAIN r :
                                        i < j => ~Less(Score(r[i]), Score(r[j]))}

\* search_hybrid does not use the threshold it is given.
SearchHybrid ==
    /\ stage = "asked"
    /\ \E r \in ByScore : found' = First(r, topK)
    /\ stage' = "found"
    /\ UNCHANGED <<cutting, question, seen, context>>

----------------------------------------------------------------------------
\* build_context.

\* text.strip(): without the blank lines at the ends of a part of a table.
Lower(S) == CHOOSE i \in S : \A j \in S : i <= j
Upper(S) == CHOOSE i \in S : \A j \in S : j <= i
InkOf(n) ==
    LET c == chunks[n]
        b == document[c.block] IN
    {i \in c.from..c.to : IF b.kind = "text" THEN ~White(b.chars, i) ELSE b.lines[i] > 0}

TextOf(n) ==
    LET b == document[chunks[n].block] IN
    SubSeq(IF b.kind = "text" THEN b.chars ELSE b.lines, Lower(InkOf(n)), Upper(InkOf(n)))
LengthOf(n) ==
    LET b == document[chunks[n].block] IN
    IF b.kind = "text" THEN Len(TextOf(n))
    ELSE Joined(b.lines, Lower(InkOf(n)), Upper(InkOf(n)))
Piece(n) == Header + LengthOf(n)

\* The pieces with a blank line between them.
Total(taken) == LET sum[i \in 0..Len(taken)] ==
                        IF i = 0 THEN 0 ELSE sum[i - 1] + Piece(taken[i]) + 2
                IN sum[Len(taken)]

Repeats(n, taken) == \E m \in Elements(taken) : m = n \/ TextOf(m) = TextOf(n)

\* Mutant of Fits: the first piece must fit as well.
FitsAlways(n, taken) == Total(taken) + Piece(n) <= MaxChars

Fits(n, taken) == taken = <<>> \/ Total(taken) + Piece(n) <= MaxChars

\* One iteration: a chunk that repeats another is skipped.
TakeChunk ==
    /\ stage = "found" /\ seen < Len(found)
    /\ LET n == found[seen + 1] IN
          IF Repeats(n, context) THEN context' = context
          ELSE Fits(n, context) /\ context' = Append(context, n)
    /\ seen' = seen + 1
    /\ UNCHANGED <<cutting, stage, question, found>>

\* The chunks are used up, or one does not fit.
BuildContext ==
    /\ stage = "found"
    /\ seen < Len(found) =>
          LET n == found[seen + 1] IN ~Repeats(n, context) /\ ~Fits(n, context)
    /\ stage' = "built"
    /\ UNCHANGED <<cutting, question, found, seen, context>>

----------------------------------------------------------------------------
RNext ==
    \/ ChunkStep /\ UNCHANGED <<stage, question, found, seen, context>>
    \/ Ask \/ SearchHybrid \/ TakeChunk \/ BuildContext
    \/ Cut /\ stage \in {"none", "built"} /\ UNCHANGED vars

RSpec == RInit /\ [][RNext]_vars /\ WF_cutting(ChunkStep)

----------------------------------------------------------------------------
(* Correctness.                                                            *)

Double(c) == RankIn(nearest, c) > 0 /\ RankIn(worded, c) > 0

\* In one list a stands before b, or only a stands in it.
Ahead(list, a, b) ==
    RankIn(list, a) > 0 /\ (RankIn(list, b) = 0 \/ RankIn(list, a) < RankIn(list, b))

\* The order of the two rankings survives their fusion: a chunk that both lists
\* put ahead of another precedes it, a chunk of both lists precedes a chunk of
\* one (for top_k up to 20, with RRF_K = 60), and none of those is left out for
\* the other (search_hybrid).
BestHitsFirst ==
    stage = "found" =>
        \A i \in DOMAIN found :
            \A c \in Hits \ Elements(First(found, i)) :
                /\ ~(Ahead(nearest, c, found[i]) /\ Ahead(worded, c, found[i]))
                /\ (Depth < RRF + 2 /\ Double(c)) => Double(found[i])

\* A question that finds anything has a context; it begins with the best chunk,
\* says nothing twice and keeps within MAX_CONTEXT_CHARS unless that one chunk
\* alone is longer; and a chunk that was found is missing only if it repeats
\* another or comes after one that was too long (build_context).
ContextHoldsTheBest ==
    stage = "built" =>
        /\ found # <<>> => context # <<>> /\ context[1] = found[1]
        /\ \A i, j \in DOMAIN context :
              TextOf(context[i]) = TextOf(context[j]) => i = j
        /\ Len(context) > 1 => Total(context) - 2 <= MaxChars
        /\ \A i \in 1..seen :
              \E n \in Elements(context) : TextOf(n) = TextOf(found[i])

\* docs/decisions.md:34 says that the threshold cuts off plain rubbish: what is
\* put before the model is near enough, or at least has the question's words.
RubbishIsCutOff ==
    \A n \in Elements(context) :
        n \in Elements(First(nearest, near)) \/ n \in Elements(worded)
============================================================================
