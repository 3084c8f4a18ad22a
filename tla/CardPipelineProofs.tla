------------------------- MODULE CardPipelineProofs -------------------------
(***************************************************************************)
(* Proofs about CardPipeline, for any chunks, limits and bounds.           *)
(*                                                                         *)
(* A card cites what stands in the context because validate_sources is the *)
(* only way to a draft and the context is built once; no chunk of the      *)
(* context was reported because guard_context puts each chunk on one side  *)
(* only, and ends before the context is built. What is left is a reported  *)
(* chunk that the text of another one mentions.                            *)
(***************************************************************************)
EXTENDS CardPipeline, FiniteSetTheorems, TLAPS

\* guard_context sorts the chunks: none is both let through and reported, and
\* nothing is cited before it has ended.
Sorted ==
    /\ safe \cap report.suspicious = {}
    /\ todo \cap (safe \cup report.suspicious) = {}
    /\ context \subseteq safe
    /\ pc = "start" => safe = {} /\ report.suspicious = {}
    /\ pc \in {"start", "guarding"} => context = {} /\ draft.sources = {}

\* What a draft cites, before and after masking.
Cited ==
    /\ draft.sources \subseteq (Chunks \cap ContextIds(context)) \cup {Masked}
    /\ pc # "returned" => report.issues = {} /\ status = "none"
    /\ CitationsWereGiven

IInv == TypeOK /\ Sorted /\ Cited /\ DoneNeedsNoHuman /\ ApprovedIsMasked

----------------------------------------------------------------------------
(* The operators of context_chunk_ids and guard_output.                    *)

\* A mentioned id is one of a chunk or of none, and so no placeholder.
LEMMA ContextIdsType ==
    ASSUME NEW chunks \in SUBSET Chunks
    PROVE  /\ Mentioned(chunks) \in SUBSET (Chunks \cup Ghosts)
           /\ ContextIds(chunks) \in SUBSET (Chunks \cup Ghosts)
           /\ Masked \notin ContextIds(chunks)
<1>1. \A c \in chunks : Mentions[c] \in SUBSET (Chunks \cup Ghosts)
  BY MentionsAssumption
<1>2. Mentioned(chunks) \in SUBSET (Chunks \cup Ghosts)
  BY <1>1 DEF Mentioned
<1> QED BY <1>2, IdsAssumption DEF ContextIds

\* Masking gives a draft, touches no confidence, and removes the personal data
\* from the texts and every lookalike from the sources.
LEMMA MaskMasks ==
    ASSUME NEW d \in Drafts
    PROVE  /\ Mask(d) \in Drafts
           /\ ~FoundPii(Mask(d))
           /\ Mask(d).sources \subseteq d.sources \cup {Masked}
           /\ Mask(d).confidence = d.confidence
<1>1. Mask(d).sources = MaskedSources(d.sources)
      /\ Mask(d).confidence = d.confidence /\ Mask(d).leaks = d.leaks \ {"pii"}
  BY DEF Mask
<1>2. MaskedSources(d.sources) \subseteq d.sources \cup {Masked}
  BY DEF MaskedSources
<1>3. d.sources \subseteq Chunks \cup Ghosts \cup {Masked} /\ d.leaks \subseteq {"pii", "trace"}
      /\ d.confidence \in {"high", "low"}
  BY DEF Drafts
<1>4. MaskedSources(d.sources) \cap Lookalikes = {}
  <2>1. Masked \notin Lookalikes
    BY IdsAssumption
  <2> QED BY <2>1 DEF MaskedSources
<1>5. Mask(d) \in Drafts
  <2>1. MaskedSources(d.sources) \in SUBSET (Chunks \cup Ghosts \cup {Masked})
    BY <1>2, <1>3
  <2>2. d.leaks \ {"pii"} \in SUBSET {"pii", "trace"}
    BY <1>3
  <2> QED BY <2>1, <2>2, <1>3 DEF Mask, Drafts
<1> QED BY <1>1, <1>2, <1>4, <1>5 DEF FoundPii

\* A draft without issues is left as it is.
LEMMA CleanIsKept ==
    ASSUME NEW d \in Drafts, Issues(d) = {}
    PROVE  /\ ~FoundPii(d) /\ d.leaks = {}
           /\ Mask(d).sources = d.sources /\ Mask(d).leaks = {}
<1>1. ~FoundPii(d) /\ d.leaks \ {"pii"} = {}
  BY DEF Issues
<1>2. "pii" \notin d.leaks /\ d.sources \cap Lookalikes = {}
  BY <1>1 DEF FoundPii
<1> QED BY <1>1, <1>2 DEF Mask, MaskedSources

LEMMA IssuesType == ASSUME NEW d \in Drafts PROVE Issues(d) \in SUBSET {"pii", "trace"}
  BY DEF Issues, Drafts

----------------------------------------------------------------------------
(* The invariant.                                                          *)

LEMMA NoDraftType == NoDraft \in Drafts
  BY DEF NoDraft, Drafts

LEMMA InitIInv == Init => IInv
<1> SUFFICES ASSUME Init PROVE IInv
  OBVIOUS
<1>1. TypeOK
  BY NoDraftType, LimitsAssumption DEF Init, TypeOK
<1>2. draft.sources = {} /\ report.suspicious = {} /\ report.issues = {}
  BY DEF Init, NoDraft
<1> QED BY <1>1, <1>2 DEF Init, IInv, Sorted, Cited, CitationsWereGiven, DoneNeedsNoHuman,
                         ApprovedIsMasked

\* Every step gives values of their kind.
LEMMA StepType == ASSUME TypeOK, [Next]_vars PROVE TypeOK'
<1> USE DEF TypeOK
<1>1. CASE ChunksDeleted
  BY <1>1 DEF ChunksDeleted
<1>2. CASE Search
  BY <1>2 DEF Search
<1>3. ASSUME NEW c \in Chunks, LetThrough(c) PROVE TypeOK'
  BY <1>3 DEF LetThrough
<1>4. ASSUME NEW c \in Chunks, Block(c) PROVE TypeOK'
  <2>1. report' = [report EXCEPT !.suspicious = @ \cup {c}]
    BY <1>4 DEF Block
  <2>2. report' \in [suspicious : SUBSET Chunks, issues : SUBSET {"pii", "trace"}]
    BY <2>1
  <2> QED BY <1>4, <2>2 DEF Block
<1>5. CASE BuildContext
  BY <1>5, LimitsAssumption DEF BuildContext
<1>6. CASE Accept
  BY <1>6 DEF Accept
<1>7. CASE Reject
  BY <1>7, LimitsAssumption DEF Reject
<1>8. CASE Approve
  BY <1>8 DEF Approve
<1>9. CASE Regenerate
  BY <1>9, LimitsAssumption DEF Regenerate
<1>10. CASE Return
  <2>1. CASE verdict = "approved"
    <3>1. report' = [report EXCEPT !.issues = Issues(draft)] /\ draft' = Mask(draft)
          /\ status' = StatusOf(draft, Issues(draft))
      BY <1>10, <2>1 DEF Return
    <3>2. report' \in [suspicious : SUBSET Chunks, issues : SUBSET {"pii", "trace"}]
      BY <3>1, IssuesType
    <3>3. draft' \in Drafts
      BY <3>1, MaskMasks
    <3>4. status' \in {"done", "needs_review"}
      BY <3>1 DEF StatusOf
    <3> QED BY <1>10, <3>2, <3>3, <3>4 DEF Return
  <2>2. CASE verdict # "approved"
    BY <1>10, <2>2 DEF Return
  <2> QED BY <2>1, <2>2
<1>11. CASE MaskingFails
  BY <1>11 DEF MaskingFails
<1>12. CASE Fails
  BY <1>12 DEF Fails
<1>13. CASE UNCHANGED vars
  BY <1>13 DEF vars
<1> QED BY <1>1, <1>2, <1>3, <1>4, <1>5, <1>6, <1>7, <1>8, <1>9, <1>10, <1>11, <1>12, <1>13
        DEF Next

\* The chunks stay sorted and the context stays on the safe side.
LEMMA StepSorted == ASSUME IInv, [Next]_vars PROVE Sorted'
<1> USE DEF IInv, Sorted
<1>1. CASE ChunksDeleted
  BY <1>1 DEF ChunksDeleted
<1>2. CASE Search
  BY <1>2 DEF Search
<1>3. ASSUME NEW c \in Chunks, LetThrough(c) PROVE Sorted'
  BY <1>3 DEF LetThrough
<1>4. ASSUME NEW c \in Chunks, Block(c) PROVE Sorted'
  <2>1. report'.suspicious = report.suspicious \cup {c}
    BY <1>4 DEF Block, TypeOK
  <2> QED BY <1>4, <2>1 DEF Block
<1>5. CASE BuildContext
  BY <1>5 DEF BuildContext
<1>6. CASE Accept
  BY <1>6 DEF Accept
<1>7. CASE Reject
  BY <1>7 DEF Reject
<1>8. CASE Approve
  BY <1>8 DEF Approve
<1>9. CASE Regenerate
  BY <1>9 DEF Regenerate
<1>10. CASE Return
  <2>1. report'.suspicious = report.suspicious
    BY <1>10 DEF Return, TypeOK
  <2> QED BY <1>10, <2>1 DEF Return
<1>11. CASE MaskingFails
  BY <1>11 DEF MaskingFails
<1>12. CASE Fails
  BY <1>12 DEF Fails
<1>13. CASE UNCHANGED vars
  BY <1>13 DEF vars
<1> QED BY <1>1, <1>2, <1>3, <1>4, <1>5, <1>6, <1>7, <1>8, <1>9, <1>10, <1>11, <1>12, <1>13
        DEF Next

\* What a draft cites stays in the context.
LEMMA StepCited == ASSUME IInv, [Next]_vars PROVE Cited'
<1> USE DEF IInv, Cited, CitationsWereGiven
<1>1. CASE ChunksDeleted
  BY <1>1 DEF ChunksDeleted
<1>2. CASE Search
  BY <1>2 DEF Search
<1>3. ASSUME NEW c \in Chunks, LetThrough(c) PROVE Cited'
  BY <1>3 DEF LetThrough
<1>4. ASSUME NEW c \in Chunks, Block(c) PROVE Cited'
  <2>1. report'.issues = report.issues
    BY <1>4 DEF Block, TypeOK
  <2> QED BY <1>4, <2>1 DEF Block
<1>5. CASE BuildContext
  BY <1>5 DEF BuildContext, Sorted
<1>6. CASE Accept
  BY <1>6 DEF Accept, SourcesHold, TypeOK
<1>7. CASE Reject
  BY <1>7 DEF Reject
<1>8. CASE Approve
  BY <1>8 DEF Approve
<1>9. CASE Regenerate
  BY <1>9 DEF Regenerate
<1>10. CASE Return
  <2>1. draft \in Drafts /\ draft.sources \subseteq Chunks \cap ContextIds(context)
    BY <1>10 DEF Return, TypeOK
  <2>2. CASE verdict = "approved"
    <3>1. report'.issues = Issues(draft) /\ draft' = Mask(draft) /\ context' = context
          /\ pc' = "returned"
      BY <1>10, <2>2 DEF Return, TypeOK
    <3>2. draft'.sources \subseteq (Chunks \cap ContextIds(context)) \cup {Masked}
      BY <2>1, <3>1, MaskMasks
    <3>3. report'.issues = {} => draft'.sources = draft.sources
      BY <2>1, <3>1, CleanIsKept
    <3> QED BY <2>1, <3>1, <3>2, <3>3
  <2>3. CASE verdict # "approved"
    BY <1>10, <2>1, <2>3 DEF Return
  <2> QED BY <2>2, <2>3
<1>11. CASE MaskingFails
  BY <1>11 DEF MaskingFails
<1>12. CASE Fails
  BY <1>12 DEF Fails
<1>13. CASE UNCHANGED vars
  BY <1>13 DEF vars
<1> QED BY <1>1, <1>2, <1>3, <1>4, <1>5, <1>6, <1>7, <1>8, <1>9, <1>10, <1>11, <1>12, <1>13
        DEF Next

\* Only the return of an approved, confident, clean card sets the status done,
\* and it masks the card.
LEMMA StepReturned ==
    ASSUME IInv, [Next]_vars
    PROVE  DoneNeedsNoHuman' /\ ApprovedIsMasked'
<1> USE DEF DoneNeedsNoHuman, ApprovedIsMasked
<1>1. CASE Return /\ verdict = "approved"
  <2>1. draft \in Drafts /\ draft.sources \subseteq Chunks /\ Masked \notin Chunks
    BY <1>1, IdsAssumption DEF Return, IInv, TypeOK, Cited, CitationsWereGiven
  <2>2. report'.suspicious = report.suspicious /\ verdict' = verdict
        /\ draft' = Mask(draft) /\ status' = StatusOf(draft, Issues(draft))
    BY <1>1 DEF Return, IInv, TypeOK
  <2>3. ~FoundPii(draft')
    BY <2>1, <2>2, MaskMasks
  <2>4. ASSUME status' = "done" PROVE DoneNeedsNoHuman'
    <3>1. draft.confidence = "high" /\ Issues(draft) = {}
          /\ Cardinality(report.suspicious) <= Limit
      BY <2>2, <2>4 DEF StatusOf
    <3>2. draft'.sources = draft.sources /\ draft'.leaks = {} /\ ~FoundPii(draft)
          /\ draft'.confidence = draft.confidence
      BY <2>1, <2>2, <3>1, CleanIsKept, MaskMasks
    <3>3. draft'.sources \cap (Lookalikes \cup {Masked}) = {}
      BY <2>1, <3>2 DEF FoundPii
    <3> QED BY <1>1, <2>2, <3>1, <3>2, <3>3
  <2>5. ApprovedIsMasked'
    BY <2>3 DEF FoundPii
  <2> QED BY <2>4, <2>5
<1>2. CASE Return /\ verdict # "approved"
  BY <1>2 DEF Return
<1>3. CASE ~Return /\ Next /\ pc # "returned"
  <2>1. status = "none"
    BY <1>3 DEF IInv, Cited
  <2>2. status' = status /\ pc' # "returned"
    BY <1>3 DEF Next, ChunksDeleted, Search, LetThrough, Block, BuildContext, Accept,
                Reject, Approve, Regenerate, MaskingFails, Fails, vars
  <2> QED BY <2>1, <2>2
<1>4. CASE ~Return /\ Next /\ pc = "returned"
  <2>1. UNCHANGED vars
    BY <1>4 DEF Next, ChunksDeleted, Search, LetThrough, Block, BuildContext, Accept,
                Reject, Approve, Regenerate, MaskingFails, Fails
  <2> QED BY <2>1 DEF vars, IInv, FoundPii
<1>5. CASE UNCHANGED vars
  BY <1>5 DEF vars, IInv, FoundPii
<1> QED BY <1>1, <1>2, <1>3, <1>4, <1>5

LEMMA Inductive == Spec => []IInv
<1>1. IInv /\ [Next]_vars => IInv'
  <2> SUFFICES ASSUME IInv, [Next]_vars PROVE IInv'
    OBVIOUS
  <2>1. TypeOK'
    BY StepType DEF IInv
  <2> QED BY <2>1, StepSorted, StepCited, StepReturned DEF IInv
<1> QED BY <1>1, InitIInv, PTL DEF Spec

----------------------------------------------------------------------------
(* How often the model is called.                                          *)

PerDraft == MaxFixes + 2
Rules    == Cardinality(Chunks \cap Ruled)

\* Each ruled chunk that is still to be looked at has its call to come; a draft
\* has its repairs, the answer that is accepted and the critic's.
Counted ==
    /\ pc = "start" => calls = 0
    /\ pc \in {"start", "guarding"} => calls + Cardinality(todo \cap Ruled) <= Rules
    /\ pc \in {"start", "guarding"} => attempts = 0
    /\ pc \in {"generating", "critiquing"} => attempts >= 1
    /\ pc = "generating" => calls <= Rules + PerDraft * (attempts - 1) + fixes
    /\ pc = "critiquing" => calls <= Rules + PerDraft * (attempts - 1) + fixes + 1
    /\ pc \in {"returning", "returned", "failed"} => calls <= Rules + PerDraft * attempts

LEMMA RuledAreFinite ==
    ASSUME NEW S \in SUBSET Chunks
    PROVE  /\ IsFiniteSet(S \cap Ruled) /\ Cardinality(S \cap Ruled) \in Nat
           /\ Rules \in Nat /\ Cardinality(S \cap Ruled) <= Rules
<1>1. IsFiniteSet(Chunks \cap Ruled)
  BY IdsAssumption, FS_Subset
<1>2. S \cap Ruled \in SUBSET (Chunks \cap Ruled)
  OBVIOUS
<1> QED BY <1>1, <1>2, FS_Subset, FS_CardinalityType DEF Rules

\* The calls of whole drafts, and of one more.
LEMMA Drafting ==
    ASSUME NEW a \in Nat \ {0}
    PROVE  /\ PerDraft * (a - 1) \in Nat /\ PerDraft * a \in Nat
           /\ PerDraft * a = PerDraft * (a - 1) + PerDraft
<1>1. PerDraft \in Nat /\ a - 1 \in Nat /\ a = (a - 1) + 1
  BY LimitsAssumption DEF PerDraft
<1>2. \A p, n \in Nat : p * (n + 1) = p * n + p /\ p * n \in Nat
  OBVIOUS
<1> QED BY <1>1, <1>2

LEMMA Monotone == \A a, b, c \in Nat : a <= b => c * a <= c * b /\ c * b \in Nat
<1> SUFFICES ASSUME NEW a \in Nat, NEW b \in Nat, NEW c \in Nat, a <= b
             PROVE  c * a <= c * b /\ c * b \in Nat
  OBVIOUS
<1> DEFINE d == b - a
<1>1. d \in Nat /\ b = a + d
  OBVIOUS
<1>2. c * b = c * a + c * d /\ c * d \in Nat /\ c * a \in Nat
  BY <1>1
<1> QED BY <1>2

\* A ruled chunk is looked at with one call, any other with none.
LEMMA GuardCounted ==
    ASSUME IInv, Counted, NEW c \in Chunks, LetThrough(c) \/ Block(c)
    PROVE  Counted'
<1>1. /\ pc = "guarding" /\ pc' = "guarding" /\ c \in todo /\ todo' = todo \ {c}
      /\ attempts' = attempts
      /\ calls' = IF c \in Ruled THEN calls + 1 ELSE calls
  BY DEF LetThrough, Block
<1>2. todo \in SUBSET Chunks /\ calls \in Nat
  BY DEF IInv, TypeOK
<1>3. /\ IsFiniteSet(todo \cap Ruled) /\ Cardinality(todo \cap Ruled) \in Nat /\ Rules \in Nat
  BY <1>2, RuledAreFinite
<1>4. CASE c \in Ruled
  <2>1. todo' \cap Ruled = (todo \cap Ruled) \ {c} /\ c \in todo \cap Ruled
    BY <1>1, <1>4
  <2>2. Cardinality(todo' \cap Ruled) = Cardinality(todo \cap Ruled) - 1
    BY <1>3, <2>1, FS_RemoveElement
  <2>3. calls' + Cardinality(todo' \cap Ruled) <= Rules
    BY <1>1, <1>2, <1>3, <1>4, <2>2 DEF Counted
  <2> QED BY <1>1, <2>3 DEF Counted, Rules
<1>5. CASE c \notin Ruled
  <2>1. todo' \cap Ruled = todo \cap Ruled
    BY <1>1, <1>5
  <2> QED BY <1>1, <1>5, <2>1 DEF Counted, Rules
<1> QED BY <1>4, <1>5

LEMMA CountedStep == ASSUME IInv, Counted, [Next]_vars PROVE Counted'
<1>1. CASE UNCHANGED vars
  BY <1>1 DEF vars, Counted, Rules, PerDraft
<1>2. CASE ChunksDeleted
  BY <1>2 DEF ChunksDeleted, Counted, Rules, PerDraft
<1>3. CASE Search
  <2>1. pc = "start" /\ pc' = "guarding" /\ calls' = 0 /\ attempts' = 0 /\ todo' \in SUBSET Chunks
    BY <1>3 DEF Search, Counted, IInv, TypeOK
  <2>2. Cardinality(todo' \cap Ruled) \in Nat /\ Cardinality(todo' \cap Ruled) <= Rules
    BY <2>1, RuledAreFinite
  <2> QED BY <2>1, <2>2 DEF Counted, Rules
<1>4. ASSUME NEW c \in Chunks, LetThrough(c) \/ Block(c) PROVE Counted'
  BY <1>4, GuardCounted
<1>5. CASE BuildContext
  <2>1. /\ pc = "guarding" /\ pc' = "generating" /\ attempts' = 1 /\ fixes' = 0
        /\ calls' = calls /\ todo \in SUBSET Chunks /\ calls \in Nat
    BY <1>5 DEF BuildContext, IInv, TypeOK
  <2>2. Cardinality(todo \cap Ruled) \in Nat /\ Rules \in Nat
    BY <2>1, RuledAreFinite
  <2>3. calls <= Rules
    BY <2>1, <2>2 DEF Counted
  <2>4. PerDraft * (1 - 1) = 0
    BY LimitsAssumption DEF PerDraft
  <2> QED BY <2>1, <2>2, <2>3, <2>4 DEF Counted, Rules, PerDraft
<1>6. CASE Accept \/ Reject \/ Approve \/ Regenerate
  <2>1. /\ pc \in {"generating", "critiquing"} /\ calls' = calls + 1 /\ calls \in Nat
        /\ attempts \in Nat \ {0} /\ fixes \in Nat /\ fixes <= MaxFixes
    BY <1>6, LimitsAssumption DEF Accept, Reject, Approve, Regenerate, Counted, IInv, TypeOK
  <2>2. /\ PerDraft * (attempts - 1) \in Nat /\ PerDraft * attempts \in Nat
        /\ PerDraft * attempts = PerDraft * (attempts - 1) + PerDraft
    BY <2>1, Drafting
  <2>3. Rules \in Nat /\ PerDraft = MaxFixes + 2 /\ MaxFixes \in Nat
    BY RuledAreFinite, LimitsAssumption DEF PerDraft
  <2>4. Rules' = Rules /\ PerDraft' = PerDraft
    BY DEF Rules, PerDraft
  <2>5. CASE Accept
    BY <2>1, <2>2, <2>3, <2>4, <2>5 DEF Accept, Counted
  <2>6. CASE Reject
    BY <2>1, <2>2, <2>3, <2>4, <2>6 DEF Reject, Counted
  <2>7. CASE Approve \/ (Regenerate /\ pc' = "returning")
    BY <2>1, <2>2, <2>3, <2>4, <2>7 DEF Approve, Regenerate, Counted
  <2>8. CASE Regenerate /\ pc' # "returning"
    <3>1. /\ pc = "critiquing" /\ pc' = "generating" /\ attempts' = attempts + 1 /\ fixes' = 0
          /\ attempts' - 1 = attempts
      BY <2>1, <2>8 DEF Regenerate
    <3>2. calls + 1 <= Rules + PerDraft * attempts
      BY <2>1, <2>2, <2>3, <3>1 DEF Counted
    <3> QED BY <2>1, <2>2, <2>3, <2>4, <3>1, <3>2 DEF Counted
  <2> QED BY <1>6, <2>5, <2>6, <2>7, <2>8
<1>7. CASE Return \/ MaskingFails
  BY <1>7 DEF Return, MaskingFails, Counted, Rules, PerDraft
<1>8. CASE Fails
  <2>1. /\ pc' = "failed" /\ calls' = calls /\ attempts' = attempts /\ calls \in Nat
        /\ attempts \in Nat /\ fixes \in Nat /\ fixes <= MaxFixes /\ todo \in SUBSET Chunks
    BY <1>8, LimitsAssumption DEF Fails, IInv, TypeOK
  <2>2. Rules \in Nat /\ Cardinality(todo \cap Ruled) \in Nat
        /\ PerDraft = MaxFixes + 2 /\ MaxFixes \in Nat
    BY <2>1, RuledAreFinite, LimitsAssumption DEF PerDraft
  <2>3. CASE pc \in {"start", "guarding"}
    <3>1. calls <= Rules /\ attempts = 0 /\ PerDraft * 0 = 0
      BY <2>1, <2>2, <2>3 DEF Counted
    <3> QED BY <2>1, <2>2, <3>1 DEF Counted, Rules, PerDraft
  <2>4. CASE pc \in {"generating", "critiquing"}
    <3>1. attempts \in Nat \ {0}
      BY <2>1, <2>4 DEF Counted
    <3>2. /\ PerDraft * (attempts - 1) \in Nat /\ PerDraft * attempts \in Nat
          /\ PerDraft * attempts = PerDraft * (attempts - 1) + PerDraft
      BY <3>1, Drafting
    <3>3. calls <= Rules + PerDraft * attempts
      BY <2>1, <2>2, <2>4, <3>1, <3>2 DEF Counted
    <3> QED BY <2>1, <3>3 DEF Counted, Rules, PerDraft
  <2> QED BY <1>8, <2>3, <2>4 DEF Fails
<1>9. CASE pc \in {"returned", "failed"} /\ UNCHANGED vars
  BY <1>1, <1>9
<1> QED BY <1>1, <1>2, <1>3, <1>4, <1>5, <1>6, <1>7, <1>8, <1>9 DEF Next

LEMMA CountedIsBounded == ASSUME IInv, Counted PROVE CallsAreBounded
<1>1. /\ Rules \in Nat /\ PerDraft = MaxFixes + 2 /\ PerDraft \in Nat /\ calls \in Nat
      /\ MaxAttempts \in Nat /\ attempts \in Nat /\ attempts <= MaxAttempts
      /\ fixes \in Nat /\ fixes <= MaxFixes /\ MaxFixes \in Nat
      /\ todo \in SUBSET Chunks
  <2>1. Rules \in Nat
    BY RuledAreFinite
  <2>2. attempts \in 0..MaxAttempts /\ fixes \in 0..MaxFixes /\ calls \in Nat /\ todo \in SUBSET Chunks
    BY DEF IInv, TypeOK
  <2> QED BY <2>1, <2>2, LimitsAssumption DEF PerDraft
<1>2. PerDraft * attempts <= PerDraft * MaxAttempts
      /\ PerDraft * MaxAttempts \in Nat /\ PerDraft * attempts \in Nat
  BY <1>1, Monotone
<1>3. calls <= Rules + PerDraft * attempts
  <2>1. CASE pc \in {"start", "guarding"}
    BY <1>1, <1>2, <2>1, RuledAreFinite DEF Counted
  <2>2. CASE pc \in {"generating", "critiquing"}
    <3>1. attempts \in Nat \ {0}
      BY <1>1, <2>2 DEF Counted
    <3>2. /\ PerDraft * (attempts - 1) \in Nat
          /\ PerDraft * attempts = PerDraft * (attempts - 1) + PerDraft
      BY <3>1, Drafting
    <3> QED BY <1>1, <1>2, <2>2, <3>2 DEF Counted
  <2>3. CASE pc \in {"returning", "returned", "failed"}
    BY <2>3 DEF Counted
  <2> QED BY <2>1, <2>2, <2>3 DEF IInv, TypeOK
<1>4. PerDraft * MaxAttempts = MaxAttempts * (MaxFixes + 2)
  BY <1>1
<1>5. calls <= Rules + PerDraft * MaxAttempts
  BY <1>1, <1>2, <1>3
<1> QED BY <1>4, <1>5 DEF CallsAreBounded, Rules

----------------------------------------------------------------------------
(* The theorems.                                                           *)

\* Type correctness: every variable of a run keeps its kind (run_rag_pipeline).
THEOREM TypeCorrect == Spec => []TypeOK
  BY Inductive, PTL DEF IInv

\* Whatever the texts mention: a card the critic sees, or that is returned without
\* issues, cites chunks only, each of which was given to the model or is mentioned
\* by one that was (context_chunk_ids, validate_sources).
THEOREM CitationsCorrect == Spec => []CitationsWereGiven
  BY Inductive, PTL DEF IInv, Cited

\* A card that comes to the critic cites only chunks that exist at that moment,
\* and no other step makes it cite one that is gone (validate_sources).
THEOREM NothingGoneCorrect == Spec => NothingGoneIsCited
<1>1. IInv /\ [Next]_vars
        => [ /\ (pc # "critiquing" /\ pc' = "critiquing") => draft'.sources \subseteq table
             /\ draft'.sources \ draft.sources \subseteq table \cup {Masked} ]_vars
  <2> SUFFICES ASSUME IInv, Next
               PROVE  /\ (pc # "critiquing" /\ pc' = "critiquing") => draft'.sources \subseteq table
                      /\ draft'.sources \ draft.sources \subseteq table \cup {Masked}
    OBVIOUS
  <2>1. CASE Accept
    BY <2>1 DEF Accept, SourcesHold
  <2>2. CASE Return
    <3>1. draft \in Drafts /\ pc' = "returned"
          /\ (draft' = draft \/ draft' = Mask(draft))
      BY <2>2 DEF Return, IInv, TypeOK
    <3> QED BY <3>1, MaskMasks
  <2>3. CASE ~Accept /\ ~Return
    <3>1. draft' = draft /\ (pc' = "critiquing" => pc = "critiquing")
      BY <2>3 DEF Next, ChunksDeleted, Search, LetThrough, Block, BuildContext, Reject,
                  Approve, Regenerate, MaskingFails, Fails, vars
    <3> QED BY <3>1
  <2> QED BY <2>1, <2>2, <2>3
<1> QED BY <1>1, Inductive, PTL DEF Spec, NothingGoneIsCited

\* A chunk the guard reported is cited only if a chunk of the context mentions it
\* (guard_context, context_chunk_ids).
THEOREM BlockedCorrect == Spec => []BlockedIsCitedByMentionOnly
<1>1. IInv => BlockedIsCitedByMentionOnly
  <2> SUFFICES ASSUME IInv, NEW c \in draft.sources \cap report.suspicious
               PROVE  c \in Mentioned(context)
    BY DEF BlockedIsCitedByMentionOnly
  <2>1. c \in Chunks /\ c # Masked
    BY IdsAssumption DEF IInv, TypeOK
  <2>2. c \in context \cup Mentioned(context)
    BY <2>1 DEF IInv, Cited, ContextIds
  <2>3. c \notin context
    BY DEF IInv, Sorted
  <2> QED BY <2>2, <2>3
<1> QED BY <1>1, Inductive, PTL

\* So where no text looks like a header, a card cites chunks of its context until
\* masking reports something, and never one the guard reported.
COROLLARY PlainTextCorrect ==
    ASSUME \A c \in Chunks : Mentions[c] = {}
    PROVE  Spec => [](/\ (pc = "critiquing" => draft.sources \subseteq context)
                      /\ draft.sources \cap report.suspicious = {})
<1>1. IInv /\ BlockedIsCitedByMentionOnly
        => /\ (pc = "critiquing" => draft.sources \subseteq context)
           /\ draft.sources \cap report.suspicious = {}
  <2> SUFFICES ASSUME IInv, BlockedIsCitedByMentionOnly
               PROVE  /\ (pc = "critiquing" => draft.sources \subseteq context)
                      /\ draft.sources \cap report.suspicious = {}
    OBVIOUS
  <2>1. Mentioned(context) = {}
    BY DEF IInv, TypeOK, Mentioned
  <2>2. pc = "critiquing" => draft.sources \subseteq context
    BY <2>1 DEF IInv, Cited, CitationsWereGiven, ContextIds
  <2> QED BY <2>1, <2>2 DEF BlockedIsCitedByMentionOnly
<1> QED BY <1>1, Inductive, BlockedCorrect, PTL

\* An approved card is returned without personal data in its texts and without
\* an id that looks like it, and it is done without a human only if nothing spoke
\* against it (guard_output, confidence_gate and the lines after it).
THEOREM SafeCorrect == Spec => []ApprovedIsSafe
  BY Inductive, PTL DEF IInv, ApprovedIsSafe

\* For any chunks and limits: one call for each chunk a rule matches, and for each
\* draft its repairs, its answer and the critic (guard_context, run_rag_pipeline).
THEOREM CallsCorrect == Spec => []CallsAreBounded
<1>1. Init => Counted
  <2> SUFFICES ASSUME Init PROVE Counted
    OBVIOUS
  <2>1. pc = "start" /\ calls = 0 /\ attempts = 0 /\ todo \in SUBSET Chunks /\ todo = {}
    BY DEF Init
  <2>2. Cardinality(todo \cap Ruled) \in Nat /\ Cardinality(todo \cap Ruled) <= Rules
    BY <2>1, RuledAreFinite
  <2> QED BY <2>1, <2>2 DEF Counted
<1>2. IInv /\ Counted /\ [Next]_vars => Counted'
  BY CountedStep
<1>3. IInv /\ Counted => CallsAreBounded
  BY CountedIsBounded
<1> QED BY <1>1, <1>2, <1>3, Inductive, PTL DEF Spec
=============================================================================
