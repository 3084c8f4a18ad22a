------------------------- MODULE DraftPipelineProofs -------------------------
(***************************************************************************)
(* Proofs about DraftPipeline: for any fields and any limits, the client   *)
(* gets the card the last report is about, a rework follows the last       *)
(* report, and the requests to the model are bounded.                      *)
(***************************************************************************)
EXTENDS DraftPipeline, TLAPS

----------------------------------------------------------------------------
\* Until the critic is heard nothing is decided, and what he is shown is a card.
Undecided ==
    /\ pc \in Asking => verdict = "rejected" /\ status = "none"
    /\ pc = "critiquing" => draft \in Drafts
    /\ pc = "extracting" => report = NoReport /\ attempts = 0 /\ fixes = 0
    /\ pc \in {"generating", "regenerating", "critiquing"} => attempts \in 1..MaxAttempts

IInv == TypeOK /\ Undecided /\ CardIsTheJudgedOne /\ ReworkHeedsTheReport

----------------------------------------------------------------------------
LEMMA InitInv == Init => IInv
  <1> SUFFICES ASSUME Init PROVE IInv
    OBVIOUS
  <1> USE DEF Init
  <1>1. TypeOK
    BY LimitsAssumption DEF TypeOK, Asking
  <1>2. Undecided /\ CardIsTheJudgedOne /\ ReworkHeedsTheReport
    BY DEF Undecided, CardIsTheJudgedOne, ReworkHeedsTheReport, Asking
  <1> QED BY <1>1, <1>2 DEF IInv

LEMMA RetryInv == IInv /\ Retry => IInv'
  <1> SUFFICES ASSUME IInv, Retry PROVE IInv'
    OBVIOUS
  <1>1. TypeOK'
    BY LimitsAssumption DEF IInv, Retry, TypeOK, Answered
  <1>2. Undecided' /\ CardIsTheJudgedOne' /\ ReworkHeedsTheReport'
    BY DEF IInv, Retry, Undecided, CardIsTheJudgedOne, ReworkHeedsTheReport
  <1> QED BY <1>1, <1>2 DEF IInv

\* A run that ends in an error keeps its promises by making none.
LEMMA FailureInv == IInv /\ (Fails \/ GiveUp) => IInv'
  <1> SUFFICES ASSUME IInv, Fails \/ GiveUp PROVE IInv'
    OBVIOUS
  <1> USE DEF Fails, GiveUp
  <1>1. /\ pc' = "failed" /\ requests' = requests + 1
        /\ UNCHANGED <<agent, prompt, try, attempts, fixes, draft, report, judged,
                       broken, verdict, status>>
    BY DEF Answered
  <1>2. TypeOK'
    BY <1>1 DEF IInv, TypeOK
  <1>3. Undecided' /\ CardIsTheJudgedOne' /\ ReworkHeedsTheReport'
    BY DEF Undecided, CardIsTheJudgedOne, ReworkHeedsTheReport, Asking
  <1> QED BY <1>2, <1>3 DEF IInv

LEMMA ExtractInv == IInv /\ Extract => IInv'
  <1> SUFFICES ASSUME IInv, Extract PROVE IInv'
    OBVIOUS
  <1> USE DEF Extract, Ask
  <1>1. TypeOK'
    BY LimitsAssumption DEF IInv, TypeOK, Answered, Asking
  <1>2. Undecided' /\ CardIsTheJudgedOne'
    BY LimitsAssumption DEF IInv, Undecided, CardIsTheJudgedOne, Asking
  <1>3. ReworkHeedsTheReport'
    BY FieldsAssumption DEF IInv, Undecided, ReworkHeedsTheReport, NoReport, Feedback
  <1> QED BY <1>1, <1>2, <1>3 DEF IInv

LEMMA AcceptInv == IInv /\ Accept => IInv'
  <1> SUFFICES ASSUME IInv, Accept PROVE IInv'
    OBVIOUS
  <1> USE DEF Accept, Ask
  <1>1. TypeOK'
    BY LimitsAssumption DEF IInv, TypeOK, Answered, Asking
  <1>2. Undecided' /\ CardIsTheJudgedOne' /\ ReworkHeedsTheReport'
    BY DEF IInv, Undecided, CardIsTheJudgedOne, ReworkHeedsTheReport, Asking
  <1> QED BY <1>1, <1>2 DEF IInv

LEMMA RepairInv == IInv /\ (Repair \/ FixField) => IInv'
  <1> SUFFICES ASSUME IInv, Repair \/ FixField PROVE IInv'
    OBVIOUS
  <1> USE DEF Repair, FixField, Ask
  <1>0. fixes' \in 0..MaxFixes
    BY LimitsAssumption DEF IInv, TypeOK, Exhausted
  <1>1. TypeOK'
    <2>1. /\ pc' = "generating" /\ agent' \in {"Generator", "Fixer"} /\ try' = 1
          /\ prompt' \in {prompt, {"draft"}} /\ requests' = requests + 1
          /\ UNCHANGED <<attempts, draft, report, judged, broken, verdict, status>>
      BY DEF Answered
    <2> QED BY <1>0, <2>1, LimitsAssumption DEF IInv, TypeOK, Asking
  <1>2. Undecided' /\ CardIsTheJudgedOne'
    BY DEF IInv, Undecided, CardIsTheJudgedOne, Asking
  <1>3. fixes' # 0
    BY DEF IInv, TypeOK
  <1>4. ReworkHeedsTheReport'
    BY <1>3 DEF ReworkHeedsTheReport
  <1> QED BY <1>1, <1>2, <1>4 DEF IInv

\* The critic approves: the card is the one he judged, and its status the gate's.
LEMMA ApproveInv == IInv /\ Approve => IInv'
  <1> SUFFICES ASSUME IInv, Approve PROVE IInv'
    OBVIOUS
  <1> USE DEF Approve
  <1>1. TypeOK'
    BY DEF IInv, TypeOK, Answered, Asking, StatusOf
  <1>2. Undecided' /\ ReworkHeedsTheReport'
    BY DEF Undecided, ReworkHeedsTheReport, Asking
  <1>3. CardIsTheJudgedOne'
    BY DEF IInv, Undecided, CardIsTheJudgedOne, StatusOf
  <1> QED BY <1>1, <1>2, <1>3 DEF IInv

\* He refuses: the rework is the one this report asks for, or the run ends.
LEMMA RegenerateInv == IInv /\ Regenerate => IInv'
  <1> SUFFICES ASSUME IInv, Regenerate PROVE IInv'
    OBVIOUS
  <1>1. PICK r \in Reports : 
           /\ r.verdict = "regenerate" /\ report' = r
           /\ judged' = draft /\ broken' = FieldToFix(r)
           /\ IF attempts < MaxAttempts
                THEN /\ attempts' = attempts + 1 /\ fixes' = 0
                     /\ Rework(FieldToFix(r), r.issues)
                     /\ UNCHANGED status
                ELSE /\ pc' = "returned" /\ status' = "rejected"
                     /\ UNCHANGED <<agent, prompt, try, attempts, fixes>>
    BY DEF Regenerate
  <1>2. pc = "critiquing" /\ requests' = requests + 1 /\ UNCHANGED <<draft, verdict>>
    BY DEF Regenerate, Answered
  <1>3. FieldToFix(r) \in Fields \cup {NoField}
    BY DEF FieldToFix
  <1>4. CASE attempts < MaxAttempts
    <2>1. /\ attempts' = attempts + 1 /\ fixes' = 0 /\ status' = status /\ try' = 1
          /\ \/ /\ FieldToFix(r) # NoField /\ pc' = "regenerating" /\ agent' = "Fixer"
                /\ prompt' = {"draft"} \cup Feedback(r.issues)
             \/ /\ FieldToFix(r) = NoField /\ pc' = "generating" /\ agent' = "Generator"
                /\ prompt' = {"facts"} \cup Feedback(r.issues)
      BY <1>1, <1>4 DEF Rework, Ask
    <2>2. attempts' \in 1..MaxAttempts
      BY <2>1, <1>4, LimitsAssumption DEF IInv, TypeOK
    <2>3. Feedback(r.issues) \subseteq {"feedback"}
      BY DEF Feedback
    <2>4. TypeOK'
      BY <1>1, <1>2, <1>3, <2>1, <2>2, <2>3, LimitsAssumption DEF IInv, TypeOK, Asking
    <2>5. Undecided' /\ CardIsTheJudgedOne'
      BY <1>2, <2>1, <2>2 DEF IInv, Undecided, CardIsTheJudgedOne, Asking
    <2>6. ReworkHeedsTheReport'
      BY <1>1, <1>2, <2>1, FieldsAssumption DEF ReworkHeedsTheReport, FieldToFix
    <2> QED BY <2>4, <2>5, <2>6 DEF IInv
  <1>5. CASE ~(attempts < MaxAttempts)
    <2>1. /\ pc' = "returned" /\ status' = "rejected"
          /\ UNCHANGED <<agent, prompt, try, attempts, fixes>>
      BY <1>1, <1>5
    <2>2. TypeOK'
      BY <1>1, <1>2, <1>3, <2>1 DEF IInv, TypeOK
    <2>3. attempts = MaxAttempts
      BY <1>5, LimitsAssumption DEF IInv, TypeOK
    <2>4. CardIsTheJudgedOne'
      BY <1>1, <1>2, <2>1, <2>3 DEF IInv, Undecided, CardIsTheJudgedOne, Asking
    <2>5. Undecided' /\ ReworkHeedsTheReport'
      BY <2>1 DEF Undecided, ReworkHeedsTheReport, Asking
    <2> QED BY <2>2, <2>4, <2>5 DEF IInv
  <1> QED BY <1>4, <1>5

LEMMA Inductive == Spec => []IInv
  <1>1. IInv /\ [Next]_vars => IInv'
    <2> SUFFICES ASSUME IInv, [Next]_vars PROVE IInv'
      OBVIOUS
    <2>1. CASE UNCHANGED vars
      BY <2>1 DEF vars, IInv, TypeOK, Undecided, CardIsTheJudgedOne, ReworkHeedsTheReport
    <2> QED BY <2>1, RetryInv, FailureInv, ExtractInv, AcceptInv, ApproveInv,
               RegenerateInv, RepairInv DEF Next
  <1> QED BY InitInv, <1>1, PTL DEF Spec

----------------------------------------------------------------------------
(* The requests sent to the model.                                         *)

\* Calls of run_agent that a draft may take, with the critic's.
PerDraft == MaxFixes + 2

\* Calls of run_agent that were over before the present one.
Over == CASE pc = "extracting"   -> 0
          [] pc = "generating"   -> 1 + PerDraft * (attempts - 1) + fixes
          [] pc = "regenerating" -> 1 + PerDraft * (attempts - 1)
          [] pc = "critiquing"   -> PerDraft * attempts
          [] OTHER               -> 0

\* The calls of a whole run.
Total == 1 + PerDraft * MaxAttempts

\* Each call that is over took MaxTries requests at most.
Counted == IF pc \in Asking THEN requests <= MaxTries * Over + (try - 1)
                            ELSE requests <= MaxTries * Total

\* What the provers are not asked to find out about multiplication again.
LEMMA Distribute == \A a, b \in Nat : a * (b + 1) = a * b + a
  OBVIOUS

LEMMA Monotone == \A a, b, c \in Nat : a <= b => c * a <= c * b
  <1> SUFFICES ASSUME NEW a \in Nat, NEW b \in Nat, NEW c \in Nat, a <= b
               PROVE  c * a <= c * b
    OBVIOUS
  <1> DEFINE d == b - a
  <1>1. d \in Nat /\ b = a + d
    OBVIOUS
  <1>2. c * b = c * a + c * d /\ c * d \in Nat /\ c * a \in Nat
    BY <1>1
  <1> QED BY <1>2

LEMMA Product == \A a, b \in Nat : a * b \in Nat
  OBVIOUS

LEMMA PerDraftNat == PerDraft \in Nat /\ \A n \in Nat : PerDraft * n \in Nat
  BY LimitsAssumption DEF PerDraft

\* One draft more, and the calls of the one before.
LEMMA NextDraft ==
  ASSUME NEW a \in Nat \ {0} PROVE PerDraft * a = PerDraft * (a - 1) + PerDraft
  <1>1. a - 1 \in Nat /\ a = (a - 1) + 1
    OBVIOUS
  <1> QED BY <1>1, PerDraftNat, Distribute

\* No call begins after the last of a whole run.
LEMMA OverIsBounded ==
  ASSUME IInv, pc \in Asking PROVE Over \in Nat /\ Over + 1 <= Total
  <1>1. CASE pc = "extracting"
    BY <1>1, PerDraftNat, LimitsAssumption DEF Over, Total
  <1>2. CASE pc # "extracting"
    <2>1. attempts \in 1..MaxAttempts
      BY <1>2 DEF IInv, Undecided, Asking
    <2>2. /\ attempts \in Nat \ {0} /\ attempts - 1 \in Nat /\ attempts <= MaxAttempts
          /\ MaxAttempts \in Nat
      BY <2>1, LimitsAssumption
    <2>3. PerDraft * attempts <= PerDraft * MaxAttempts
      BY <2>2, PerDraftNat, Monotone
    <2>4. PerDraft * attempts = PerDraft * (attempts - 1) + PerDraft
      BY <2>2, NextDraft
    <2>5. /\ PerDraft * attempts \in Nat /\ PerDraft * (attempts - 1) \in Nat
          /\ PerDraft * MaxAttempts \in Nat
      BY <2>2, PerDraftNat
    <2>6. fixes \in Nat /\ fixes + 2 <= PerDraft /\ PerDraft \in Nat /\ 2 <= PerDraft
      BY LimitsAssumption DEF IInv, TypeOK, PerDraft
    <2>7. CASE pc = "generating"
      BY <2>3, <2>4, <2>5, <2>6, <2>7 DEF Over, Total
    <2>8. CASE pc = "regenerating"
      BY <2>3, <2>4, <2>5, <2>6, <2>8 DEF Over, Total
    <2>9. CASE pc = "critiquing"
      BY <2>3, <2>5, <2>9 DEF Over, Total
    <2> QED BY <1>2, <2>7, <2>8, <2>9 DEF Asking
  <1> QED BY <1>1, <1>2

\* The request that ends a call is one of MaxTries.
LEMMA LastRequest ==
  ASSUME IInv, Counted, pc \in Asking PROVE requests + 1 <= MaxTries * (Over + 1)
  <1>1. requests <= MaxTries * Over + (try - 1) /\ Over \in Nat
    BY OverIsBounded DEF Counted
  <1>2. try \in Nat /\ try <= MaxTries /\ MaxTries \in Nat /\ requests \in Nat
    BY LimitsAssumption DEF IInv, TypeOK
  <1>3. MaxTries * (Over + 1) = MaxTries * Over + MaxTries /\ MaxTries * Over \in Nat
    BY <1>1, <1>2, Distribute
  <1> QED BY <1>1, <1>2, <1>3

\* A call that answers is followed by one that knows it is over.
LEMMA CallAnswered ==
  ASSUME IInv, Counted, IInv', pc \in Asking, pc' \in Asking, try' = 1,
         requests' = requests + 1, Over' \in Nat, Over + 1 <= Over'
  PROVE  Counted'
  <1>1. requests' <= MaxTries * (Over + 1) /\ Over + 1 \in Nat /\ requests' \in Nat
    BY LastRequest, OverIsBounded DEF IInv, TypeOK
  <1>2. MaxTries \in Nat
    BY LimitsAssumption
  <1>3. MaxTries * (Over + 1) <= MaxTries * Over'
    BY <1>1, <1>2, Monotone
  <1>4. MaxTries * (Over + 1) \in Nat /\ MaxTries * Over' \in Nat
    BY <1>1, <1>2, Product
  <1>5. requests' <= MaxTries * Over'
    BY <1>1, <1>3, <1>4
  <1> QED BY <1>4, <1>5 DEF Counted

\* A call that is the last one leaves the run within its bound.
LEMMA CallEnds ==
  ASSUME IInv, Counted, pc \in Asking, pc' \notin Asking, requests' = requests + 1
  PROVE  Counted'
  <1>1. Over \in Nat /\ Over + 1 <= Total /\ requests' <= MaxTries * (Over + 1)
    BY LastRequest, OverIsBounded
  <1>2. Total \in Nat /\ MaxTries \in Nat /\ Over + 1 \in Nat
    BY <1>1, PerDraftNat, LimitsAssumption DEF Total
  <1>3. MaxTries * (Over + 1) <= MaxTries * Total
    BY <1>1, <1>2, Monotone
  <1>4. /\ MaxTries * (Over + 1) \in Nat /\ MaxTries * Total \in Nat
        /\ requests' \in Nat
    BY <1>2 DEF IInv, TypeOK
  <1>5. requests' <= MaxTries * Total
    BY <1>1, <1>3, <1>4
  <1>6. Total' = Total
    BY DEF Total, PerDraft
  <1> QED BY <1>5, <1>6 DEF Counted

\* What is over after each step that goes on asking.
LEMMA OverSteps ==
  ASSUME IInv, Extract \/ Accept \/ Repair \/ FixField \/ (Regenerate /\ pc' \in Asking)
  PROVE  pc \in Asking /\ pc' \in Asking /\ try' = 1 /\ requests' = requests + 1
            /\ Over' \in Nat /\ Over + 1 <= Over'
  <1>1. PerDraft' = PerDraft /\ PerDraft \in Nat
    BY PerDraftNat DEF PerDraft
  <1>2. CASE Extract
    <2>1. /\ pc = "extracting" /\ pc' = "generating" /\ try' = 1
          /\ requests' = requests + 1 /\ attempts' = 1 /\ fixes' = 0
      BY <1>2 DEF Extract, Ask, Answered
    <2>2. PerDraft * (1 - 1) = 0
      BY <1>1
    <2> QED BY <1>1, <2>1, <2>2 DEF Over, Asking
  <1>3. CASE Accept
    <2>1. /\ pc \in {"generating", "regenerating"} /\ pc' = "critiquing" /\ try' = 1
          /\ requests' = requests + 1 /\ attempts' = attempts
      BY <1>3 DEF Accept, Ask, Answered
    <2>2. attempts \in Nat \ {0} /\ attempts - 1 \in Nat
      BY <2>1, LimitsAssumption DEF IInv, Undecided
    <2>3. /\ PerDraft * attempts \in Nat /\ PerDraft * (attempts - 1) \in Nat
          /\ PerDraft * attempts = PerDraft * (attempts - 1) + PerDraft
      BY <2>2, PerDraftNat, NextDraft
    <2>4. fixes \in Nat /\ fixes + 2 <= PerDraft
      BY LimitsAssumption DEF IInv, TypeOK, PerDraft
    <2>5. Over' = PerDraft * attempts
      BY <1>1, <2>1 DEF Over
    <2>6. Over \in {1 + PerDraft * (attempts - 1) + fixes, 1 + PerDraft * (attempts - 1)}
      BY <2>1 DEF Over
    <2>7. Over + 1 <= Over' /\ Over' \in Nat
      BY <1>1, <2>3, <2>4, <2>5, <2>6
    <2> QED BY <2>1, <2>7 DEF Asking
  <1>4. CASE Repair \/ FixField
    <2>1. /\ pc = "generating" /\ pc' = "generating" /\ try' = 1
          /\ requests' = requests + 1 /\ attempts' = attempts /\ fixes' = fixes + 1
      BY <1>4 DEF Repair, FixField, Ask, Answered
    <2>2. attempts - 1 \in Nat /\ fixes \in Nat
      BY <2>1, LimitsAssumption DEF IInv, TypeOK, Undecided
    <2>3. PerDraft * (attempts - 1) \in Nat
      BY <2>2, PerDraftNat
    <2>4. /\ Over  = 1 + PerDraft * (attempts - 1) + fixes
          /\ Over' = 1 + PerDraft * (attempts - 1) + (fixes + 1)
      BY <1>1, <2>1 DEF Over
    <2> QED BY <2>1, <2>2, <2>3, <2>4 DEF Asking
  <1>5. CASE Regenerate /\ pc' \in Asking
    <2>1. /\ pc = "critiquing" /\ requests' = requests + 1 /\ attempts < MaxAttempts
          /\ attempts' = attempts + 1 /\ fixes' = 0
          /\ try' = 1 /\ pc' \in {"generating", "regenerating"}
      BY <1>5 DEF Regenerate, Rework, Ask, Answered, Asking
    <2>2. attempts \in Nat /\ PerDraft * attempts \in Nat /\ (attempts + 1) - 1 = attempts
      BY <1>1 DEF IInv, TypeOK
    <2> QED BY <1>1, <2>1, <2>2 DEF Over, Asking
  <1> QED BY <1>2, <1>3, <1>4, <1>5

LEMMA CountedStep == ASSUME IInv, IInv', Counted, [Next]_vars PROVE Counted'
  <1>1. CASE UNCHANGED vars
    BY <1>1 DEF vars, Counted, Over, Total, PerDraft
  <1>2. CASE Retry
    BY <1>2, OverIsBounded, LimitsAssumption
       DEF Retry, Answered, Counted, Over, PerDraft, IInv, TypeOK
  <1>3. CASE Fails \/ GiveUp \/ Approve \/ (Regenerate /\ pc' \notin Asking)
    <2>1. pc \in Asking /\ pc' \notin Asking /\ requests' = requests + 1
      BY <1>3 DEF Fails, GiveUp, Approve, Regenerate, Answered, Asking
    <2> QED BY <2>1, CallEnds
  <1>4. CASE Extract \/ Accept \/ Repair \/ FixField \/ (Regenerate /\ pc' \in Asking)
    BY <1>4, OverSteps, CallAnswered
  <1> QED BY <1>1, <1>2, <1>3, <1>4 DEF Next

----------------------------------------------------------------------------
(* The theorems.                                                           *)

\* Type correctness: every variable of a request keeps its kind (run_pipeline).
THEOREM TypeCorrect == Spec => []TypeOK
  BY Inductive, PTL DEF IInv

\* The client gets the card the critic judged last, with his verdict
\* (run_pipeline, create_card).
THEOREM JudgedCorrect == Spec => []CardIsTheJudgedOne
  BY Inductive, PTL DEF IInv

\* A rework follows the last report, whatever the reports before it named.
THEOREM ReworkCorrect == Spec => []ReworkHeedsTheReport
  BY Inductive, PTL DEF IInv

\* For any limits, retries, repairs and attempts send no more requests than the
\* product of the three (run_agent, validate_or_retry, run_pipeline).
THEOREM RequestsCorrect == Spec => []RequestsAreBounded
  <1>1. Init => Counted
    BY LimitsAssumption, PerDraftNat DEF Init, Counted, Over, Asking
  <1>2. IInv /\ Counted => RequestsAreBounded
    <2> SUFFICES ASSUME IInv, Counted PROVE RequestsAreBounded
      OBVIOUS
    <2>1. MaxTries \in Nat /\ Total \in Nat /\ requests \in Nat
      BY LimitsAssumption, PerDraftNat DEF Total, IInv, TypeOK
    <2>2. requests <= MaxTries * Total
      <3>1. CASE pc \in Asking
        <4>1. requests + 1 <= MaxTries * (Over + 1) /\ Over + 1 <= Total /\ Over + 1 \in Nat
          BY <3>1, LastRequest, OverIsBounded
        <4>2. MaxTries * (Over + 1) <= MaxTries * Total
          BY <2>1, <4>1, Monotone
        <4>3. MaxTries * (Over + 1) \in Nat /\ MaxTries * Total \in Nat
          BY <2>1, <4>1, Product
        <4> QED BY <2>1, <4>1, <4>2, <4>3
      <3>2. CASE pc \notin Asking
        BY <3>2 DEF Counted
      <3> QED BY <3>1, <3>2
    <2>3. PerDraft * MaxAttempts = MaxAttempts * (MaxFixes + 2)
      BY LimitsAssumption DEF PerDraft
    <2> QED BY <2>2, <2>3 DEF RequestsAreBounded, Total
  <1>3. IInv /\ IInv' /\ Counted /\ [Next]_vars => Counted'
    BY CountedStep
  <1> QED BY <1>1, <1>2, <1>3, Inductive, PTL DEF Spec
=============================================================================
