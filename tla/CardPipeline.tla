---------------------------- MODULE CardPipeline ----------------------------
(***************************************************************************)
(* One run of run_rag_pipeline: retrieve, guard the context, draft a card  *)
(* until its sources hold, have it criticised, mask the approved one and   *)
(* choose its status. Each call of the model is a point where the chunks   *)
(* table may change under the run, because another document is parsed      *)
(* again.                                                                  *)
(*                                                                         *)
(* A text is what the guards tell of it and the ids it mentions; an answer *)
(* of the model is any draft or something that is none. search returns any *)
(* TopK rows or fewer, and build_context cuts them anywhere, but keeps one. *)
(*                                                                         *)
(* The ids a card may cite are read back from the text of the context, by  *)
(* a pattern that finds the header of each chunk and every line that looks *)
(* like one: what a chunk says can make another chunk citable.             *)
(***************************************************************************)
EXTENDS Naturals, FiniteSets

CONSTANTS Chunks,      \* ids of chunks
          Ghosts,      \* ids that belong to no chunk
          Mentions,    \* the ids that, in the context, begin a line of a chunk's text
                       \* or of its header's own fields the way a header does
          Masked,      \* an id a placeholder was put into
          Ruled,       \* chunks whose text an injection rule matches
          Lookalikes,  \* ids mask_pii takes for a phone or a taxpayer number
          TopK,        \* retrieval_top_k, 5 in the code
          Limit,       \* suspicious_chunk_limit, 2 in the code
          MaxAttempts, \* run_rag_pipeline(max_attempts), 3 in the code
          MaxFixes     \* card_fix_attempts, 2 in the code

ASSUME IdsAssumption ==
    /\ Masked \notin Chunks \cup Ghosts /\ Chunks \cap Ghosts = {}
    /\ Ruled \subseteq Chunks /\ Lookalikes \subseteq Chunks
    /\ IsFiniteSet(Chunks)
ASSUME MentionsAssumption == Mentions \in [Chunks -> SUBSET (Chunks \cup Ghosts)]
ASSUME LimitsAssumption ==
    TopK \in Nat /\ Limit \in Nat /\ MaxAttempts \in Nat \ {0} /\ MaxFixes \in Nat

VARIABLES pc,       \* where the run is
          table,    \* the chunks that exist
          todo,     \* found chunks guard_context has not looked at
          safe,     \* found chunks it has let through
          context,  \* chunks in the context the model is given
          report,   \* GuardReport: suspicious_chunks and output_issues
          attempts, fixes,
          draft, verdict, status,
          calls     \* calls of the model so far

vars == <<pc, table, todo, safe, context, report, attempts, fixes,
          draft, verdict, status, calls>>

----------------------------------------------------------------------------
\* sources: the chunk_ids a card cites; confidence: high when it reaches the
\* threshold; leaks: what guard_output finds in its texts.
Drafts == [ sources    : SUBSET (Chunks \cup Ghosts \cup {Masked}),
            confidence : {"high", "low"},
            leaks      : SUBSET {"pii", "trace"} ]
NoDraft == [sources |-> {}, confidence |-> "low", leaks |-> {}]

Init == /\ pc = "start"
        /\ table \in SUBSET Chunks
        /\ todo = {} /\ safe = {} /\ context = {}
        /\ report = [suspicious |-> {}, issues |-> {}]
        /\ attempts = 0 /\ fixes = 0
        /\ draft = NoDraft
        /\ verdict = "rejected" /\ status = "none"
        /\ calls = 0

\* Another document is parsed again: chunk ids go and do not come back.
ChunksDeleted ==
    /\ pc \notin {"returned", "failed"}
    /\ table # {}
    /\ table' \in SUBSET table \ {table}
    /\ UNCHANGED <<pc, todo, safe, context, report, attempts, fixes,
                   draft, verdict, status, calls>>

----------------------------------------------------------------------------
\* retrieve_context_async.

Search ==
    /\ pc = "start"
    /\ \E found \in SUBSET table : Cardinality(found) <= TopK /\ todo' = found
    /\ pc' = "guarding"
    /\ UNCHANGED <<table, safe, context, report, attempts, fixes,
                   draft, verdict, status, calls>>

\* A chunk no rule matches, or one the detector clears.
LetThrough(c) ==
    /\ pc = "guarding" /\ c \in todo
    /\ todo' = todo \ {c}
    /\ safe' = safe \cup {c}
    /\ calls' = IF c \in Ruled THEN calls + 1 ELSE calls
    /\ UNCHANGED <<pc, table, context, report, attempts, fixes, draft, verdict, status>>

\* Mutant of Block: the chunk is reported, and kept.
BlockAndKeep(c) ==
    /\ pc = "guarding" /\ c \in todo \cap Ruled
    /\ todo' = todo \ {c}
    /\ safe' = safe \cup {c}
    /\ report' = [report EXCEPT !.suspicious = @ \cup {c}]
    /\ calls' = calls + 1
    /\ UNCHANGED <<pc, table, context, attempts, fixes, draft, verdict, status>>

\* The detector confirms the rule, or is unavailable.
Block(c) ==
    /\ pc = "guarding" /\ c \in todo \cap Ruled
    /\ todo' = todo \ {c}
    /\ report' = [report EXCEPT !.suspicious = @ \cup {c}]
    /\ calls' = calls + 1
    /\ UNCHANGED <<pc, table, safe, context, attempts, fixes, draft, verdict, status>>

BuildContext ==
    /\ pc = "guarding" /\ todo = {}
    /\ \E kept \in SUBSET safe : (safe # {} => kept # {}) /\ context' = kept
    /\ pc' = "generating" /\ attempts' = 1 /\ fixes' = 0
    /\ UNCHANGED <<table, todo, safe, report, draft, verdict, status, calls>>

----------------------------------------------------------------------------
\* generate_from_context and critique_with_context.

Mentioned(chunks) == UNION {Mentions[c] : c \in chunks}

\* context_chunk_ids: the ids of the chunks, and those their texts mention.
ContextIds(chunks) == chunks \cup Mentioned(chunks)

\* Mutant of SourcesHold: existence in the table is enough.
SourcesExist(d) == d.sources \subseteq table

\* Mutant of SourcesHold: to stand in the context is enough.
SourcesStand(d) == d.sources \subseteq ContextIds(context)

\* validate_sources: a card without sources passes.
SourcesHold(d) == d.sources \subseteq ContextIds(context) /\ d.sources \subseteq table

Accept ==
    /\ pc = "generating"
    /\ \E d \in Drafts : SourcesHold(d) /\ draft' = d
    /\ pc' = "critiquing" /\ calls' = calls + 1
    /\ UNCHANGED <<table, todo, safe, context, report, attempts, fixes, verdict, status>>

\* Mutant of Reject: the last repair is not counted.
RejectOnceMore ==
    /\ pc = "generating"
    /\ calls' = calls + 1
    /\ IF fixes <= MaxFixes THEN fixes' = fixes + 1 /\ pc' = pc
                            ELSE fixes' = fixes /\ pc' = "failed"
    /\ UNCHANGED <<table, todo, safe, context, report, attempts, draft, verdict, status>>

\* An answer that is no card, or a card whose sources do not hold.
Reject ==
    /\ pc = "generating"
    /\ calls' = calls + 1
    /\ IF fixes < MaxFixes THEN fixes' = fixes + 1 /\ pc' = pc
                           ELSE fixes' = fixes /\ pc' = "failed"
    /\ UNCHANGED <<table, todo, safe, context, report, attempts, draft, verdict, status>>

Approve ==
    /\ pc = "critiquing"
    /\ verdict' = "approved" /\ pc' = "returning" /\ calls' = calls + 1
    /\ UNCHANGED <<table, todo, safe, context, report, attempts, fixes, draft, status>>

\* The critic asks for another draft; the last one is kept after MaxAttempts.
Regenerate ==
    /\ pc = "critiquing"
    /\ calls' = calls + 1
    /\ IF attempts < MaxAttempts
         THEN pc' = "generating" /\ attempts' = attempts + 1 /\ fixes' = 0
         ELSE pc' = "returning" /\ UNCHANGED <<attempts, fixes>>
    /\ UNCHANGED <<table, todo, safe, context, report, draft, verdict, status>>

----------------------------------------------------------------------------
\* The end of run_rag_pipeline: guard_output on the JSON of an approved card,
\* chunk_ids included, and the status.

FoundPii(d) == "pii" \in d.leaks \/ d.sources \cap Lookalikes # {}

Issues(d) == (d.leaks \ {"pii"}) \cup (IF FoundPii(d) THEN {"pii"} ELSE {})

MaskedSources(ids) ==
    IF ids \cap Lookalikes = {} THEN ids ELSE (ids \ Lookalikes) \cup {Masked}

\* Mutant of Mask: only the ids are looked at.
MaskIds(d) == [d EXCEPT !.sources = MaskedSources(@)]

Mask(d) == [ sources    |-> MaskedSources(d.sources),
             confidence |-> d.confidence,
             leaks      |-> d.leaks \ {"pii"} ]

\* Mutant of StatusOf: the gate decides alone.
StatusOfGate(d, issues) == IF d.confidence = "high" THEN "done" ELSE "needs_review"

StatusOf(d, issues) ==
    IF d.confidence = "high" /\ issues = {} /\ Cardinality(report.suspicious) <= Limit
      THEN "done" ELSE "needs_review"

Return ==
    /\ pc = "returning"
    /\ IF verdict = "approved"
         THEN /\ report' = [report EXCEPT !.issues = Issues(draft)]
              /\ draft'  = Mask(draft)
              /\ status' = StatusOf(draft, Issues(draft))
         ELSE status' = "rejected" /\ UNCHANGED <<report, draft>>
    /\ pc' = "returned"
    /\ UNCHANGED <<table, todo, safe, context, attempts, fixes, verdict, calls>>

\* A masked card is validated again and need not pass: a placeholder may make
\* the title too long, or stand where the JSON had a number.
MaskingFails ==
    /\ pc = "returning" /\ verdict = "approved" /\ FoundPii(draft)
    /\ pc' = "failed"
    /\ UNCHANGED <<table, todo, safe, context, report, attempts, fixes,
                   draft, verdict, status, calls>>

\* The model, the database or the announcement of a stage fails, or the critic's
\* answer is no verdict.
Fails ==
    /\ pc \in {"start", "guarding", "generating", "critiquing"}
    /\ pc' = "failed"
    /\ UNCHANGED <<table, todo, safe, context, report, attempts, fixes,
                   draft, verdict, status, calls>>

Next == \/ ChunksDeleted
        \/ Search \/ (\E c \in Chunks : LetThrough(c) \/ Block(c)) \/ BuildContext
        \/ Accept \/ Reject \/ Approve \/ Regenerate
        \/ Return \/ MaskingFails \/ Fails
        \/ pc \in {"returned", "failed"} /\ UNCHANGED vars

Spec == Init /\ [][Next]_vars

----------------------------------------------------------------------------
(* Correctness.                                                            *)

\* Every variable holds a value of its kind.
TypeOK ==
    /\ pc \in {"start", "guarding", "generating", "critiquing",
               "returning", "returned", "failed"}
    /\ table \subseteq Chunks /\ todo \subseteq Chunks
    /\ safe \subseteq Chunks /\ context \subseteq Chunks
    /\ report \in [suspicious : SUBSET Chunks, issues : SUBSET {"pii", "trace"}]
    /\ attempts \in 0..MaxAttempts /\ fixes \in 0..MaxFixes
    /\ draft \in Drafts
    /\ verdict \in {"approved", "rejected"}
    /\ status \in {"none", "done", "needs_review", "rejected"}
    /\ calls \in Nat

\* A card that reaches the critic, and one that is returned without issues,
\* approved or not, cites chunks only, and each of them was given to the model or
\* is mentioned by one that was: no id the model or a text invented, and no chunk
\* that was only found (context_chunk_ids, validate_sources).
CitationsWereGiven ==
    (pc \in {"critiquing", "returning", "returned"} /\ report.issues = {})
        => draft.sources \subseteq Chunks \cap ContextIds(context)

\* No card comes to the critic with a source that was deleted since the search or
\* since the draft before, which may have cited it; and no other step adds a
\* source that is gone, except for the placeholder of masking
\* (generate_from_context, guard_output).
NothingGoneIsCited ==
    [][ /\ (pc # "critiquing" /\ pc' = "critiquing") => draft'.sources \subseteq table
        /\ draft'.sources \ draft.sources \subseteq table \cup {Masked} ]_vars

\* Whatever the detector did, a chunk the guard reported can be cited only if a
\* chunk that was let through into the context mentions it; where no text does,
\* a blocked chunk is never cited (guard_context, context_chunk_ids).
BlockedIsCitedByMentionOnly ==
    draft.sources \cap report.suspicious \subseteq Mentioned(context)

\* A card is done without a human only if it is confident, clean in its texts
\* and its ids, and the guard blocked no more chunks than the limit.
DoneNeedsNoHuman ==
    status = "done" =>
        /\ verdict = "approved" /\ draft.confidence = "high" /\ draft.leaks = {}
        /\ draft.sources \cap (Lookalikes \cup {Masked}) = {}
        /\ Cardinality(report.suspicious) <= Limit

\* An approved card is returned without personal data (guard_output).
ApprovedIsMasked ==
    (pc = "returned" /\ verdict = "approved") => ~FoundPii(draft)

\* Both together: what an approved card is when it leaves run_rag_pipeline.
ApprovedIsSafe == ApprovedIsMasked /\ DoneNeedsNoHuman

\* The model is called once for each chunk a rule matched, and for each draft
\* MaxFixes + 1 times at most and once by the critic.
CallsAreBounded ==
    calls <= Cardinality(Chunks \cap Ruled) + MaxAttempts * (MaxFixes + 2)

\* docs/decisions.md and docs/report.md: each chunk a card cites is in the context
\* it was given, and no other card reaches the result.
ResultCitesItsContext == pc = "returned" => draft.sources \subseteq context
=============================================================================
