---------------------------- MODULE DraftPipeline ----------------------------
(***************************************************************************)
(* POST /cards: run_pipeline extracts facts, drafts a card, has it         *)
(* criticised, and reworks it, the whole card or the one field the critic  *)
(* names, until it is approved or MaxAttempts drafts were judged.          *)
(* validate_or_retry repairs what is no valid card, and run_agent repeats  *)
(* a request that failed for a while.                                      *)
(*                                                                         *)
(* A prompt is the set of its parts, a draft the values of its fields, and *)
(* an answer of the model is any draft or something that is none.          *)
(***************************************************************************)
EXTENDS Naturals

CONSTANTS Fields,      \* FIXABLE_FIELDS, "confidence" among them
          MaxTries,    \* llm_max_retries, 3 in the code
          MaxAttempts, \* MAX_ATTEMPTS, 3 in the code
          MaxFixes     \* card_fix_attempts, 2 in the code

\* The report, or broken_field, names no field.
NoField == ""

ASSUME FieldsAssumption ==
    "confidence" \in Fields /\ {NoField, "sources"} \cap Fields = {}
ASSUME LimitsAssumption ==
    MaxTries \in Nat \ {0} /\ MaxAttempts \in Nat \ {0} /\ MaxFixes \in Nat

VARIABLES pc,       \* the call run_pipeline waits for
          agent,    \* who is asked next
          prompt,   \* what the prompt holds
          try,      \* run_agent's attempt
          attempts, fixes,
          draft,
          report,   \* the critic's last report
          judged,   \* the draft that report is about
          broken,   \* broken_field
          verdict, status,
          requests  \* requests sent to the model so far

vars == <<pc, agent, prompt, try, attempts, fixes, draft, report, judged,
          broken, verdict, status, requests>>

----------------------------------------------------------------------------
\* A field's value; a confidence of 1 reaches the threshold.
Drafts  == [Fields -> {0, 1}]
NoDraft == [f \in Fields |-> 2]

Reports == [ verdict : {"approve", "regenerate"},
             field   : Fields \cup {NoField, "sources"},
             issues  : {"none", "some"} ]
NoReport == [verdict |-> "none", field |-> NoField, issues |-> "none"]

Asking == {"extracting", "generating", "regenerating", "critiquing"}

Init == /\ pc = "extracting" /\ agent = "Extractor" /\ prompt = {"text"} /\ try = 1
        /\ attempts = 0 /\ fixes = 0
        /\ draft = NoDraft /\ report = NoReport /\ judged = NoDraft /\ broken = NoField
        /\ verdict = "rejected" /\ status = "none"
        /\ requests = 0

\* The next call of run_agent.
Ask(step, who, parts) == pc' = step /\ agent' = who /\ prompt' = parts /\ try' = 1

Answered == requests' = requests + 1

----------------------------------------------------------------------------
\* run_agent: an error that is retryable waits its backoff and tries again.

\* Mutant of Retry: the attempts are counted from zero, and one is too many.
RetryOnceMore ==
    /\ pc \in Asking /\ try <= MaxTries
    /\ try' = try + 1 /\ Answered
    /\ UNCHANGED <<pc, agent, prompt, attempts, fixes, draft, report, judged,
                   broken, verdict, status>>

Retry ==
    /\ pc \in Asking /\ try < MaxTries
    /\ try' = try + 1 /\ Answered
    /\ UNCHANGED <<pc, agent, prompt, attempts, fixes, draft, report, judged,
                   broken, verdict, status>>

\* The last attempt, any other error, wait_for's own timeout, or an answer
\* extract, regenerate_field or critique cannot read: the request ends in a 500.
Fails ==
    /\ pc \in Asking
    /\ pc' = "failed" /\ Answered
    /\ UNCHANGED <<agent, prompt, try, attempts, fixes, draft, report, judged,
                   broken, verdict, status>>

----------------------------------------------------------------------------
\* The loop of run_pipeline.

Feedback(issues) == IF issues = "some" THEN {"feedback"} ELSE {}

Extract ==
    /\ pc = "extracting" /\ Answered
    /\ Ask("generating", "Generator", {"facts"})
    /\ attempts' = 1 /\ fixes' = 0
    /\ UNCHANGED <<draft, report, judged, broken, verdict, status>>

\* A valid card, from validate_or_retry or from regenerate_field.
Accept ==
    /\ pc \in {"generating", "regenerating"} /\ Answered
    /\ \E d \in Drafts : draft' = d
    /\ Ask("critiquing", "Critic", {"facts", "draft"})
    /\ UNCHANGED <<attempts, fixes, report, judged, broken, verdict, status>>

\* confidence_gate.
StatusOf(d) == IF d["confidence"] = 1 THEN "done" ELSE "needs_review"

Approve ==
    /\ pc = "critiquing" /\ Answered
    /\ \E r \in Reports : r.verdict = "approve" /\ report' = r
    /\ judged' = draft
    /\ verdict' = "approved" /\ status' = StatusOf(draft)
    /\ pc' = "returned"
    /\ UNCHANGED <<agent, prompt, try, attempts, fixes, draft, broken>>

\* Mutant of FieldToFix: a report that names no field leaves the last one.
FieldToFixOrLast(r) == IF r.field \in Fields THEN r.field ELSE broken

FieldToFix(r) == IF r.field \in Fields THEN r.field ELSE NoField

\* regenerate_field for the one field, generate otherwise.
Rework(field, issues) ==
    IF field # NoField
      THEN Ask("regenerating", "Fixer", {"draft"} \cup Feedback(issues))
      ELSE Ask("generating", "Generator", {"facts"} \cup Feedback(issues))

\* Mutant of Regenerate: the draft is kept when the last attempt is refused.
RegenerateOrKeep ==
    /\ pc = "critiquing" /\ Answered
    /\ \E r \in Reports :
          /\ r.verdict = "regenerate" /\ report' = r
          /\ judged' = draft /\ broken' = FieldToFix(r)
          /\ IF attempts < MaxAttempts
               THEN /\ attempts' = attempts + 1 /\ fixes' = 0
                    /\ Rework(FieldToFix(r), r.issues)
                    /\ UNCHANGED status
               ELSE /\ pc' = "returned" /\ status' = StatusOf(draft)
                    /\ UNCHANGED <<agent, prompt, try, attempts, fixes>>
    /\ UNCHANGED <<draft, verdict>>

Regenerate ==
    /\ pc = "critiquing" /\ Answered
    /\ \E r \in Reports :
          /\ r.verdict = "regenerate" /\ report' = r
          /\ judged' = draft /\ broken' = FieldToFix(r)
          /\ IF attempts < MaxAttempts
               THEN /\ attempts' = attempts + 1 /\ fixes' = 0
                    /\ Rework(FieldToFix(r), r.issues)
                    /\ UNCHANGED status
               ELSE /\ pc' = "returned" /\ status' = "rejected"
                    /\ UNCHANGED <<agent, prompt, try, attempts, fixes>>
    /\ UNCHANGED <<draft, verdict>>

----------------------------------------------------------------------------
\* validate_or_retry, on an answer that is no valid card.

Exhausted == fixes = MaxFixes

\* _repair_prompt wraps the prompt that was answered.
Repair ==
    /\ pc = "generating" /\ ~Exhausted /\ Answered
    /\ Ask("generating", "Generator", prompt)
    /\ fixes' = fixes + 1
    /\ UNCHANGED <<attempts, draft, report, judged, broken, verdict, status>>

\* One field breaks the contract: the fixer is shown the answer and the error.
FixField ==
    /\ pc = "generating" /\ ~Exhausted /\ Answered
    /\ Ask("generating", "Fixer", {"draft"})
    /\ fixes' = fixes + 1
    /\ UNCHANGED <<attempts, draft, report, judged, broken, verdict, status>>

\* CardValidationError.
GiveUp ==
    /\ pc = "generating" /\ Exhausted /\ Answered
    /\ pc' = "failed"
    /\ UNCHANGED <<agent, prompt, try, attempts, fixes, draft, report, judged,
                   broken, verdict, status>>

Next == \/ Retry \/ Fails
        \/ Extract \/ Accept \/ Approve \/ Regenerate
        \/ Repair \/ FixField \/ GiveUp
        \/ pc \in {"returned", "failed"} /\ UNCHANGED vars

Spec == Init /\ [][Next]_vars

----------------------------------------------------------------------------
(* Correctness.                                                            *)

\* Every variable holds a value of its kind.
TypeOK ==
    /\ pc \in Asking \cup {"returned", "failed"}
    /\ agent \in {"Extractor", "Generator", "Fixer", "Critic"}
    /\ prompt \in SUBSET {"text", "facts", "draft", "feedback"}
    /\ try \in 1..MaxTries /\ attempts \in 0..MaxAttempts /\ fixes \in 0..MaxFixes
    /\ draft \in Drafts \cup {NoDraft} /\ judged \in Drafts \cup {NoDraft}
    /\ report \in Reports \cup {NoReport}
    /\ broken \in Fields \cup {NoField}
    /\ verdict \in {"approved", "rejected"}
    /\ status \in {"none", "done", "needs_review", "rejected"}
    /\ requests \in Nat

\* The card a client is given is the very draft the critic judged last, with his
\* verdict; it is done without a human only if approved and confident, and
\* refused only after the last attempt (run_pipeline).
CardIsTheJudgedOne ==
    pc = "returned" =>
        /\ draft \in Drafts /\ draft = judged
        /\ verdict = "approved" <=> report.verdict = "approve"
        /\ status = "done" => verdict = "approved" /\ draft["confidence"] = 1
        /\ verdict = "rejected" => status = "rejected" /\ attempts = MaxAttempts

\* A rework answers the last report and no older one: the fixer is given the
\* refused draft when that report names a field, and the generator the facts
\* when it names none, both with its issues (run_pipeline, test_pipeline.py).
ReworkHeedsTheReport ==
    /\ pc = "regenerating" =>
          /\ report.field = broken /\ broken \in Fields /\ draft = judged
          /\ prompt = {"draft"} \cup Feedback(report.issues)
    /\ (pc = "generating" /\ fixes = 0) =>
          /\ report.field \notin Fields
          /\ prompt = {"facts"} \cup Feedback(report.issues)

\* Attempts, repairs and retries multiply no further than their three limits.
RequestsAreBounded ==
    requests <= MaxTries * (1 + MaxAttempts * (MaxFixes + 2))

\* generator_instructions ask for a card "of the facts", of "ONLY the facts
\* passed", and _repair_prompt calls what it wraps the original request: the
\* generator is always given the facts.
GeneratorHasTheFacts == (pc = "generating" /\ agent = "Generator") => "facts" \in prompt
=============================================================================
