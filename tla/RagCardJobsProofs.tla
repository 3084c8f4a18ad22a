------------------------- MODULE RagCardJobsProofs -------------------------
(***************************************************************************)
(* Theorems about RagCardJobs, for any set of requests, any keys and any   *)
(* number of attempts and rounds.                                          *)
(***************************************************************************)
EXTENDS RagCardJobs, TLAPS

----------------------------------------------------------------------------
(* The operators on rows and workflows keep their types.                   *)

\* A row with one column replaced by a value of its type is a row.
LEMMA RowFields ==
    ASSUME NEW row \in Row
    PROVE  /\ \A s \in Statuses : [row EXCEPT !.status = s] \in Row
           /\ \A c \in Cards \cup {NoCard} : [row EXCEPT !.result = c] \in Row
           /\ \A c \in Cards \cup {NoCard} : [row EXCEPT !.guard = c] \in Row
           /\ \A e \in {"none", "text"} : [row EXCEPT !.error = e] \in Row
           /\ \A n \in Nat : [row EXCEPT !.attempts = n] \in Row
  BY DEF Row

\* Every write of a row gives a row.
LEMMA RowWrites ==
    ASSUME NEW row \in Row, NEW stage \in Statuses, NEW card \in Cards \cup {NoCard}
    PROVE  /\ Announced(row, stage) \in Row
           /\ Published(row, stage, card) \in Row
           /\ Failed(row) \in Row
  <1>1. ASSUME NEW s \in Statuses, NEW c \in Cards \cup {NoCard},
               NEW g \in Cards \cup {NoCard}, NEW e \in {"none", "text"},
               NEW n \in Nat
        PROVE  [row EXCEPT !.status = s, !.result = c, !.guard = g,
                           !.error = e, !.attempts = n] \in Row
    <2>1. [row EXCEPT !.status = s] \in Row
      BY RowFields
    <2>2. [[row EXCEPT !.status = s] EXCEPT !.result = c] \in Row
      BY <2>1, RowFields
    <2>3. [[[row EXCEPT !.status = s] EXCEPT !.result = c] EXCEPT !.guard = g] \in Row
      BY <2>2, RowFields
    <2>4. [[[[row EXCEPT !.status = s] EXCEPT !.result = c] EXCEPT !.guard = g]
              EXCEPT !.error = e] \in Row
      BY <2>3, RowFields
    <2>5. [[[[[row EXCEPT !.status = s] EXCEPT !.result = c] EXCEPT !.guard = g]
              EXCEPT !.error = e] EXCEPT !.attempts = n] \in Row
      BY <2>4, RowFields
    <2>. QED BY <2>5
  <1>2. /\ row.result \in Cards \cup {NoCard} /\ row.guard \in Cards \cup {NoCard}
        /\ row.error \in {"none", "text"} /\ row.attempts \in Nat
        /\ row.attempts + 1 \in Nat
    BY DEF Row
  <1>3. ASSUME NEW s \in Statuses, NEW c \in Cards \cup {NoCard},
               NEW e \in {"none", "text"}, NEW b
        PROVE  SetStatus(row, s, c, c, e, b) \in Row
    <2>. DEFINE c2 == IF c = NoCard THEN row.result ELSE c
                g2 == IF c = NoCard THEN row.guard ELSE c
                e2 == IF e = "none" THEN row.error ELSE e
                n2 == IF b THEN row.attempts + 1 ELSE row.attempts
    <2>1. c2 \in Cards \cup {NoCard} /\ g2 \in Cards \cup {NoCard}
      BY <1>2
    <2>2. e2 \in {"none", "text"} /\ n2 \in Nat
      BY <1>2
    <2>3. SetStatus(row, s, c, c, e, b) =
            [row EXCEPT !.status = s, !.result = c2, !.guard = g2,
                        !.error = e2, !.attempts = n2]
      BY DEF SetStatus
    <2>. HIDE DEF c2, g2, e2, n2
    <2>4. [row EXCEPT !.status = s, !.result = c2, !.guard = g2,
                      !.error = e2, !.attempts = n2] \in Row
      BY <1>1, <2>1, <2>2
    <2>. QED BY <2>3, <2>4
  <1>4. Announced(row, stage) \in Row
    BY <1>3 DEF Announced
  <1>5. Published(row, stage, card) \in Row
    BY <1>3 DEF Published
  <1>6. Failed(row) \in Row
    BY <1>3 DEF Failed, Statuses
  <1>. QED BY <1>4, <1>5, <1>6

\* The rows that stand for "no row" and "a new row" are rows.
LEMMA NewRows ==
    /\ NoRow \in Row
    /\ \A key \in Keys \cup {NoKey} : NewRow(key) \in Row
  BY DEF Row, NoRow, NewRow, Statuses, InProgress, Verdicts

\* A workflow with one field replaced by a value of its type is a workflow.
LEMMA WorkflowFields ==
    ASSUME NEW w \in Workflow
    PROVE  /\ \A p \in Steps \cup {"none", "waiting", "completed", "failed"} :
                 [w EXCEPT !.pc = p] \in Workflow
           /\ \A t \in 0..MaxTries : [w EXCEPT !.try = t] \in Workflow
           /\ \A c \in Cards : [w EXCEPT !.card = c] \in Workflow
           /\ \A d \in Decisions : [w EXCEPT !.decision = d] \in Workflow
           /\ \A v \in Verdicts : [w EXCEPT !.final = v] \in Workflow
  BY DEF Workflow

\* Every step of a workflow gives a workflow.
LEMMA WorkflowSteps ==
    ASSUME NEW w \in Workflow
    PROVE  /\ \A s \in Steps : AtStep(w, s) \in Workflow
           /\ w.pc \in Steps => AfterFailure(w) \in Workflow
           /\ \A c \in Cards : WithCard(w, c) \in Workflow
           /\ AfterPublish(w) \in Workflow
           /\ Decided(w) \in Workflow
  <1>1. w.try \in 0..MaxTries /\ 0 \in 0..MaxTries /\ 1 \in 0..MaxTries
    BY BoundsAssumption DEF Workflow
  <1>2. ASSUME NEW p \in Steps \cup {"none", "waiting", "completed", "failed"},
               NEW t \in 0..MaxTries
        PROVE  [w EXCEPT !.pc = p, !.try = t] \in Workflow
    <2>1. [w EXCEPT !.pc = p] \in Workflow
      BY WorkflowFields
    <2>2. [[w EXCEPT !.pc = p] EXCEPT !.try = t] \in Workflow
      BY <2>1, WorkflowFields
    <2>. QED BY <2>2
  <1>3. \A s \in Steps : AtStep(w, s) \in Workflow
    BY <1>1, <1>2 DEF AtStep
  <1>4. w.pc \in Steps => AfterFailure(w) \in Workflow
    <2>1. w.try < MaxTries => w.try + 1 \in 0..MaxTries
      BY <1>1, BoundsAssumption
    <2>2. CASE w.try < MaxTries
      BY <2>1, <2>2, WorkflowFields DEF AfterFailure
    <2>3. CASE ~(w.try < MaxTries)
      BY <1>1, <1>2, <2>3 DEF AfterFailure
    <2>. QED BY <2>2, <2>3
  <1>5. \A c \in Cards : WithCard(w, c) \in Workflow
    BY <1>3, WorkflowFields DEF WithCard, Steps
  <1>6. AfterPublish(w) \in Workflow
    BY <1>1, <1>2 DEF AfterPublish
  <1>7. Decided(w) \in Workflow
    <2>1. AtStep(w, "final") \in Workflow
      BY <1>3 DEF Steps
    <2>2. Verdict(w.decision) \in Verdicts
      BY DEF Verdict, Verdicts
    <2>. QED BY <2>1, <2>2, WorkflowFields DEF Decided
  <1>. QED BY <1>3, <1>4, <1>5, <1>6, <1>7

\* What each step of a workflow writes.
LEMMA WorkflowValues ==
    ASSUME NEW w \in Workflow
    PROVE  /\ \A s \in Steps :
                 /\ AtStep(w, s).pc = s /\ AtStep(w, s).try = 1
                 /\ AtStep(w, s).card = w.card /\ AtStep(w, s).final = w.final
                 /\ AtStep(w, s).decision = w.decision
           /\ AfterFailure(w).pc \in {w.pc, "failed"}
           /\ AfterFailure(w).pc = w.pc =>
                 AfterFailure(w).try = w.try + 1 \/ w.pc = "failed"
           /\ AfterFailure(w).card = w.card /\ AfterFailure(w).final = w.final
           /\ AfterFailure(w).decision = w.decision
           /\ \A c \in Cards :
                 /\ WithCard(w, c).pc = "await" /\ WithCard(w, c).try = 1
                 /\ WithCard(w, c).card = c /\ WithCard(w, c).final = w.final
                 /\ WithCard(w, c).decision = w.decision
           /\ w.pc = "await" => AfterPublish(w).pc = "waiting"
           /\ w.pc # "await" => AfterPublish(w).pc = "completed"
           /\ AfterPublish(w).card = w.card /\ AfterPublish(w).final = w.final
           /\ AfterPublish(w).decision = w.decision
           /\ Decided(w).pc = "final" /\ Decided(w).try = 1
           /\ Decided(w).card = w.card /\ Decided(w).final = Verdict(w.decision)
           /\ Decided(w).decision = w.decision
  BY DEF Workflow, AtStep, AfterFailure, WithCard, AfterPublish, Decided, Steps

\* What each write of a row writes.
LEMMA RowValues ==
    ASSUME NEW row \in Row, NEW stage \in Statuses, NEW card \in Cards \cup {NoCard}
    PROVE  /\ Announced(row, stage).status = stage
           /\ Announced(row, stage).result = row.result
           /\ Announced(row, stage).guard = row.guard
           /\ Announced(row, stage).key = row.key
           /\ Failed(row).status = "failed"
           /\ Failed(row).result = row.result
           /\ Failed(row).guard = row.guard
           /\ Failed(row).key = row.key
           /\ Published(row, stage, card).status = stage
           /\ card # NoCard => /\ Published(row, stage, card).result = card
                               /\ Published(row, stage, card).guard = card
           /\ Published(row, stage, card).key = row.key
  BY DEF Row, Announced, Failed, Published, SetStatus, NoCard, Cards

LEMMA NewRowValues ==
    ASSUME NEW key \in Keys \cup {NoKey}
    PROVE  /\ NewRow(key).key = key /\ NewRow(key).status = "pending"
           /\ NewRow(key).result = NoCard /\ NewRow(key).guard = NoCard
           /\ NoRow.status = "absent" /\ NoRow.result = NoCard
           /\ NoRow.guard = NoCard
  BY DEF NewRow, NoRow

----------------------------------------------------------------------------
(* What a step of the service can do to one job and to one thread. The     *)
(* proofs below argue by job from these facts, not by action.              *)

\* The moves of one workflow.
WorkflowMove(j) ==
    \/ wf'[j] = wf[j]
    \/ /\ api[j] = "starting" /\ api'[j] \in {"answered", "error"}
       /\ wf'[j] = AtStep(wf[j], "rag")
    \/ /\ wf[j].pc \in Steps /\ wf'[j] = AfterFailure(wf[j])
    \/ /\ wf[j].pc = "rag" /\ wf[j].try \in Tries
       /\ wf'[j] = WithCard(wf[j], wf[j].try)
    \/ \E a \in Attempts : /\ a.job = j /\ thread[a] = "wrote" /\ Current(a)
                           /\ wf'[j] = AfterPublish(wf[j])
    \/ \E d \in Decisions : /\ wf[j].pc \notin {"none", "completed", "failed"}
                            /\ wf'[j] = [wf[j] EXCEPT !.decision = d]
                            /\ said'[j] = said[j] \cup {d}
    \/ /\ wf[j].pc = "waiting" /\ wf[j].decision # "none"
       /\ wf'[j] = Decided(wf[j])

\* The writes of one row.
RowMove(j) ==
    \/ jobs'[j] = jobs[j]
    \/ /\ api[j] = "idle" /\ api'[j] = "starting" /\ jobs'[j] = NewRow(KeyOf[j])
       /\ Conflicting(jobs, KeyOf[j]) = {}
       /\ \A i \in Jobs \ {j} : jobs'[i] = jobs[i]
    \/ \E a \in Attempts : /\ a.job = j /\ thread[a] \in RagPoints /\ wf' = wf
                           /\ thread'[a] \in RagPoints \cup {"raised"}
                           /\ \/ \E s \in InProgress : jobs'[j] = Announced(jobs[j], s)
                              \/ jobs'[j] = Failed(jobs[j])
    \/ \E a \in Attempts :
          /\ a.job = j /\ thread[a] = "ready" /\ thread'[a] = "wrote" /\ wf' = wf
          /\ jobs'[j] = Published(jobs[j], StatusAt(a), wf[j].card)

\* The moves of one thread.
ThreadMove(a) ==
    \/ thread'[a] = thread[a]
    \/ /\ thread[a] = "idle" /\ Current(a) /\ wf' = wf /\ jobs' = jobs
       /\ thread'[a] = IF a.step = "rag" THEN "title" ELSE "ready"
    \/ /\ thread[a] \in RagPoints
       /\ thread'[a] \in (RagPoints \ {"title"}) \cup {"raised"}
    \/ /\ thread[a] = "ready" /\ thread'[a] = "wrote" /\ wf' = wf
       /\ jobs'[a.job] = Published(jobs[a.job], StatusAt(a), wf[a.job].card)
    \/ /\ thread[a] \in {"ready", "wrote"} /\ thread'[a] = "raised"
    \/ /\ Live(a) /\ thread'[a] = Ended(a)

\* The moves of one request.
RequestMove(j) ==
    \/ api'[j] = api[j]
    \/ /\ api[j] = "idle"
       /\ \/ api'[j] = "answered" /\ jobs' = jobs
          \/ api'[j] = "starting" /\ jobs'[j] = NewRow(KeyOf[j])
    \/ /\ api[j] = "starting"
       /\ \/ api'[j] = "error"
          \/ api'[j] = "answered" /\ wf'[j] = AtStep(wf[j], "rag")

\* An attempt's job is a job and its step a step.
LEMMA AttemptFields ==
    ASSUME NEW a \in Attempts
    PROVE  a.job \in Jobs /\ a.step \in Steps /\ a.try \in Tries
  BY DEF Attempts

\* Every step of the service moves each workflow in one of these ways.
LEMMA WorkflowMoves ==
    ASSUME TypeOK, ThreadsOK, [Next]_vars, NEW j \in Jobs
    PROVE  WorkflowMove(j)
  <1>. USE DEF TypeOK
  <1>1. ASSUME NEW r \in Jobs, CreateJob(r) PROVE WorkflowMove(j)
    BY <1>1 DEF CreateJob, WorkflowMove
  <1>2. ASSUME NEW r \in Jobs, StartWorkflow(r) PROVE WorkflowMove(j)
    BY <1>2 DEF StartWorkflow, WorkflowMove
  <1>3. ASSUME NEW r \in Jobs, StartFails(r) PROVE WorkflowMove(j)
    BY <1>3 DEF StartFails, WorkflowMove
  <1>4. ASSUME NEW a \in Attempts, Dispatch(a) PROVE WorkflowMove(j)
    BY <1>4 DEF Dispatch, WorkflowMove
  <1>5. ASSUME NEW a \in Attempts, Timeout(a) PROVE WorkflowMove(j)
    BY <1>5, AttemptFields DEF Timeout, WorkflowMove, Current
  <1>6. ASSUME NEW a \in Attempts, ThreadStep(a) PROVE WorkflowMove(j)
    <2>1. CASE AnnounceRetrieving(a) \/ AnnounceGenerating(a) \/ AnnounceCritiquing(a)
                 \/ RagFails(a) \/ FailsSilently(a) \/ PublishStatus(a)
      BY <2>1 DEF AnnounceRetrieving, AnnounceGenerating, AnnounceCritiquing,
                  RagFails, FailsSilently, PublishStatus, WorkflowMove
    <2>2. CASE RagReturns(a)
      <3>1. a.step = "rag" /\ a.job \in Jobs /\ a.try \in Tries
        BY <2>2, AttemptFields DEF RagReturns, ThreadsOK, RagPoints
      <3>. QED BY <2>2, <3>1 DEF RagReturns, WorkflowMove, Current
    <2>3. CASE ReportPublished(a)
      BY <2>3, AttemptFields DEF ReportPublished, WorkflowMove, Current
    <2>4. CASE ReportFailure(a)
      BY <2>4, AttemptFields DEF ReportFailure, WorkflowMove, Current
    <2>. QED BY <1>6, <2>1, <2>2, <2>3, <2>4 DEF ThreadStep
  <1>7. ASSUME NEW i \in Jobs, NEW d \in Decisions, Signal(i, d)
        PROVE  WorkflowMove(j)
    BY <1>7 DEF Signal, WorkflowMove
  <1>8. ASSUME NEW i \in Jobs, WaitOver(i) PROVE WorkflowMove(j)
    BY <1>8 DEF WaitOver, WorkflowMove
  <1>9. CASE WorkerCrash
    BY <1>9 DEF WorkerCrash, WorkflowMove
  <1>10. CASE UNCHANGED vars
    BY <1>10 DEF vars, WorkflowMove
  <1>. QED BY <1>1, <1>2, <1>3, <1>4, <1>5, <1>6, <1>7, <1>8, <1>9, <1>10 DEF Next

\* Every step of the service writes each row in one of these ways.
LEMMA RowMoves ==
    ASSUME TypeOK, [Next]_vars, NEW j \in Jobs
    PROVE  RowMove(j)
  <1>. USE DEF TypeOK
  <1>1. ASSUME NEW r \in Jobs, CreateJob(r) PROVE RowMove(j)
    BY <1>1 DEF CreateJob, RowMove
  <1>2. ASSUME NEW r \in Jobs, StartWorkflow(r) \/ StartFails(r) PROVE RowMove(j)
    BY <1>2 DEF StartWorkflow, StartFails, RowMove
  <1>3. ASSUME NEW a \in Attempts, Dispatch(a) \/ Timeout(a) PROVE RowMove(j)
    BY <1>3 DEF Dispatch, Timeout, RowMove
  <1>4. ASSUME NEW a \in Attempts, ThreadStep(a) PROVE RowMove(j)
    <2>1. CASE AnnounceRetrieving(a)
      BY <2>1, AttemptFields DEF AnnounceRetrieving, RowMove, RagPoints, InProgress
    <2>2. CASE AnnounceGenerating(a)
      BY <2>2, AttemptFields DEF AnnounceGenerating, RowMove, RagPoints, InProgress
    <2>3. CASE AnnounceCritiquing(a)
      BY <2>3, AttemptFields DEF AnnounceCritiquing, RowMove, RagPoints, InProgress
    <2>4. CASE RagFails(a)
      BY <2>4, AttemptFields DEF RagFails, RowMove
    <2>5. CASE PublishStatus(a)
      BY <2>5, AttemptFields DEF PublishStatus, RowMove
    <2>6. CASE RagReturns(a) \/ FailsSilently(a) \/ ReportPublished(a) \/ ReportFailure(a)
      BY <2>6 DEF RagReturns, FailsSilently, ReportPublished, ReportFailure, RowMove
    <2>. QED BY <1>4, <2>1, <2>2, <2>3, <2>4, <2>5, <2>6 DEF ThreadStep
  <1>5. ASSUME NEW i \in Jobs, NEW d \in Decisions, Signal(i, d) PROVE RowMove(j)
    BY <1>5 DEF Signal, RowMove
  <1>6. ASSUME NEW i \in Jobs, WaitOver(i) PROVE RowMove(j)
    BY <1>6 DEF WaitOver, RowMove
  <1>7. CASE WorkerCrash
    BY <1>7 DEF WorkerCrash, RowMove
  <1>8. CASE UNCHANGED vars
    BY <1>8 DEF vars, RowMove
  <1>. QED BY <1>1, <1>2, <1>3, <1>4, <1>5, <1>6, <1>7, <1>8 DEF Next

\* Every step of the service moves each thread in one of these ways.
LEMMA ThreadMoves ==
    ASSUME TypeOK, [Next]_vars, NEW b \in Attempts
    PROVE  ThreadMove(b)
  <1>. USE DEF TypeOK
  <1>1. ASSUME NEW r \in Jobs, CreateJob(r) \/ StartWorkflow(r) \/ StartFails(r)
        PROVE  ThreadMove(b)
    BY <1>1 DEF CreateJob, StartWorkflow, StartFails, ThreadMove
  <1>2. ASSUME NEW a \in Attempts, Dispatch(a) PROVE ThreadMove(b)
    BY <1>2 DEF Dispatch, ThreadMove
  <1>3. ASSUME NEW a \in Attempts, Timeout(a) PROVE ThreadMove(b)
    BY <1>3 DEF Timeout, ThreadMove
  <1>4. ASSUME NEW a \in Attempts, ThreadStep(a) PROVE ThreadMove(b)
    <2>1. CASE AnnounceRetrieving(a) \/ AnnounceGenerating(a) \/ AnnounceCritiquing(a)
                 \/ RagFails(a)
      BY <2>1 DEF AnnounceRetrieving, AnnounceGenerating, AnnounceCritiquing,
                  RagFails, ThreadMove, RagPoints
    <2>2. CASE FailsSilently(a)
      BY <2>2 DEF FailsSilently, ThreadMove
    <2>3. CASE PublishStatus(a)
      BY <2>3, AttemptFields DEF PublishStatus, ThreadMove
    <2>4. CASE RagReturns(a) \/ ReportPublished(a) \/ ReportFailure(a)
      BY <2>4 DEF RagReturns, ReportPublished, ReportFailure, ThreadMove, Live
    <2>. QED BY <1>4, <2>1, <2>2, <2>3, <2>4 DEF ThreadStep
  <1>5. ASSUME NEW i \in Jobs, NEW d \in Decisions, Signal(i, d) PROVE ThreadMove(b)
    BY <1>5 DEF Signal, ThreadMove
  <1>6. ASSUME NEW i \in Jobs, WaitOver(i) PROVE ThreadMove(b)
    BY <1>6 DEF WaitOver, ThreadMove
  <1>7. CASE WorkerCrash
    BY <1>7 DEF WorkerCrash, ThreadMove
  <1>8. CASE UNCHANGED vars
    BY <1>8 DEF vars, ThreadMove
  <1>. QED BY <1>1, <1>2, <1>3, <1>4, <1>5, <1>6, <1>7, <1>8 DEF Next

----------------------------------------------------------------------------
(* Type correctness. A verdict can only be published once it was taken, so *)
(* it leans on ThreadsOK.                                                  *)

\* The status a status activity is about to write is a status.
LEMMA StatusAtType ==
    ASSUME TypeOK, ThreadsOK, NEW a \in Attempts, thread[a] = "ready"
    PROVE  /\ StatusAt(a) \in Statuses /\ StatusAt(a) # "generating"
           /\ a.step = "final" => StatusAt(a) = wf[a.job].final
           /\ a.step = "await" => StatusAt(a) = "awaiting_human"
           /\ a.step \in {"await", "final"}
  <1>1. a.job \in Jobs /\ a.step \in Steps
    BY AttemptFields
  <1>2. wf[a.job].final \in Verdicts \cup {"none"}
    BY <1>1 DEF TypeOK, Workflow
  <1>3. a.step # "rag" /\ (a.step = "final" => wf[a.job].final # "none")
    BY DEF ThreadsOK
  <1>. QED BY <1>1, <1>2, <1>3 DEF StatusAt, Steps, Statuses, Verdicts

LEMMA TypeInit == Init => TypeOK
  <1>. SUFFICES ASSUME Init PROVE TypeOK
    OBVIOUS
  <1>1. NoWorkflow \in Workflow
    BY BoundsAssumption DEF NoWorkflow, Workflow
  <1>2. jobs \in [Jobs -> Row]
    BY NewRows DEF Init
  <1>3. 0 \in 0..MaxRounds
    BY BoundsAssumption
  <1>. QED BY <1>1, <1>2, <1>3 DEF Init, TypeOK, Threads

LEMMA TypeStep ==
    ASSUME TypeOK, ThreadsOK, [Next]_vars
    PROVE  TypeOK'
  <1>. USE DEF TypeOK
  <1>0. /\ \A j \in Jobs : wf[j] \in Workflow /\ jobs[j] \in Row
        /\ \A a \in Attempts : a.job \in Jobs /\ a.step \in Steps /\ a.try \in Tries
        /\ \A a \in Attempts : Ended(a) \in Threads
        /\ RagPoints \subseteq Threads /\ {"ready", "wrote", "raised"} \subseteq Threads
        /\ 0 \in 0..MaxRounds
    BY AttemptFields, BoundsAssumption DEF Ended, Threads
  <1>1. ASSUME NEW r \in Jobs, CreateJob(r) PROVE TypeOK'
    <2>1. NewRow(KeyOf[r]) \in Row
      BY NewRows, KeysAssumption
    <2>. QED BY <1>1, <2>1 DEF CreateJob
  <1>2. ASSUME NEW r \in Jobs, StartWorkflow(r) PROVE TypeOK'
    <2>1. AtStep(wf[r], "rag") \in Workflow
      BY <1>0, WorkflowSteps DEF Steps
    <2>. QED BY <1>2, <2>1 DEF StartWorkflow
  <1>3. ASSUME NEW r \in Jobs, StartFails(r) PROVE TypeOK'
    BY <1>3 DEF StartFails
  <1>4. ASSUME NEW a \in Attempts, Dispatch(a) PROVE TypeOK'
    BY <1>0, <1>4 DEF Dispatch, RagPoints
  <1>5. ASSUME NEW a \in Attempts, Timeout(a) PROVE TypeOK'
    <2>1. AfterFailure(wf[a.job]) \in Workflow
      BY <1>0, <1>5, WorkflowSteps DEF Timeout, Current
    <2>. QED BY <1>0, <1>5, <2>1 DEF Timeout
  <1>6. ASSUME NEW a \in Attempts, ThreadStep(a) PROVE TypeOK'
    <2>1. CASE AnnounceRetrieving(a)
      <3>1. Announced(jobs[a.job], "retrieving") \in Row
        BY <1>0, RowWrites, BoundsAssumption DEF Statuses, InProgress
      <3>. QED BY <1>0, <2>1, <3>1 DEF AnnounceRetrieving, RagPoints
    <2>2. CASE AnnounceGenerating(a)
      <3>1. Announced(jobs[a.job], "generating") \in Row
        BY <1>0, RowWrites, BoundsAssumption DEF Statuses, InProgress
      <3>2. round[a] + 1 \in 0..MaxRounds
        BY <2>2, BoundsAssumption DEF AnnounceGenerating
      <3>. QED BY <1>0, <2>2, <3>1, <3>2 DEF AnnounceGenerating, RagPoints
    <2>3. CASE AnnounceCritiquing(a)
      <3>1. Announced(jobs[a.job], "critiquing") \in Row
        BY <1>0, RowWrites, BoundsAssumption DEF Statuses, InProgress
      <3>. QED BY <1>0, <2>3, <3>1 DEF AnnounceCritiquing, RagPoints
    <2>4. CASE RagReturns(a)
      <3>1. WithCard(wf[a.job], a.try) \in Workflow
        BY <1>0, WorkflowSteps DEF Tries, Cards
      <3>. QED BY <1>0, <2>4, <3>1 DEF RagReturns
    <2>5. CASE RagFails(a)
      <3>1. Failed(jobs[a.job]) \in Row
        BY <1>0, RowWrites, BoundsAssumption DEF Statuses
      <3>. QED BY <1>0, <2>5, <3>1 DEF RagFails
    <2>6. CASE FailsSilently(a)
      BY <1>0, <2>6 DEF FailsSilently
    <2>7. CASE PublishStatus(a)
      <3>1. wf[a.job].card \in Cards \cup {NoCard}
        BY <1>0 DEF Workflow
      <3>2. Published(jobs[a.job], StatusAt(a), wf[a.job].card) \in Row
        BY <1>0, <2>7, <3>1, RowWrites, StatusAtType DEF PublishStatus
      <3>. QED BY <1>0, <2>7, <3>2 DEF PublishStatus
    <2>8. CASE ReportPublished(a)
      <3>1. AfterPublish(wf[a.job]) \in Workflow
        BY <1>0, WorkflowSteps
      <3>. QED BY <1>0, <2>8, <3>1 DEF ReportPublished
    <2>9. CASE ReportFailure(a)
      <3>1. Current(a) => AfterFailure(wf[a.job]) \in Workflow
        BY <1>0, WorkflowSteps DEF Current
      <3>. QED BY <1>0, <2>9, <3>1 DEF ReportFailure
    <2>. QED BY <1>6, <2>1, <2>2, <2>3, <2>4, <2>5, <2>6, <2>7, <2>8, <2>9 DEF ThreadStep
  <1>7. ASSUME NEW j \in Jobs, NEW d \in Decisions, Signal(j, d) PROVE TypeOK'
    <2>1. [wf[j] EXCEPT !.decision = d] \in Workflow
      BY <1>0, WorkflowFields
    <2>2. wf' \in [Jobs -> Workflow]
      BY <1>7, <2>1 DEF Signal
    <2>3. said' \in [Jobs -> SUBSET Decisions]
      BY <1>7 DEF Signal
    <2>. QED BY <1>7, <2>2, <2>3 DEF Signal
  <1>8. ASSUME NEW j \in Jobs, WaitOver(j) PROVE TypeOK'
    <2>1. Decided(wf[j]) \in Workflow
      BY <1>0, WorkflowSteps
    <2>. QED BY <1>8, <2>1 DEF WaitOver
  <1>9. CASE WorkerCrash
    BY <1>0, <1>9 DEF WorkerCrash
  <1>10. CASE UNCHANGED vars
    BY <1>10 DEF vars
  <1>. QED BY <1>1, <1>2, <1>3, <1>4, <1>5, <1>6, <1>7, <1>8, <1>9, <1>10 DEF Next

----------------------------------------------------------------------------
(* The rest of the inductive invariant, conjunct by conjunct.              *)

\* Every step moves each request in one of these ways and forgets no signal.
LEMMA RequestMoves ==
    ASSUME TypeOK, [Next]_vars, NEW j \in Jobs
    PROVE  RequestMove(j) /\ said[j] \subseteq said'[j]
  <1>. USE DEF TypeOK
  <1>1. ASSUME NEW r \in Jobs, CreateJob(r) \/ StartWorkflow(r) \/ StartFails(r)
        PROVE  RequestMove(j) /\ said[j] \subseteq said'[j]
    BY <1>1 DEF CreateJob, StartWorkflow, StartFails, RequestMove
  <1>2. ASSUME NEW a \in Attempts, Dispatch(a) \/ Timeout(a) \/ ThreadStep(a)
        PROVE  RequestMove(j) /\ said[j] \subseteq said'[j]
    BY <1>2 DEF Dispatch, Timeout, ThreadStep, AnnounceRetrieving,
                AnnounceGenerating, AnnounceCritiquing, RagReturns, RagFails,
                FailsSilently, PublishStatus, ReportPublished, ReportFailure,
                RequestMove
  <1>3. ASSUME NEW i \in Jobs, NEW d \in Decisions, Signal(i, d)
        PROVE  RequestMove(j) /\ said[j] \subseteq said'[j]
    BY <1>3 DEF Signal, RequestMove
  <1>4. ASSUME NEW i \in Jobs, WaitOver(i)
        PROVE  RequestMove(j) /\ said[j] \subseteq said'[j]
    BY <1>4 DEF WaitOver, RequestMove
  <1>5. CASE WorkerCrash
    BY <1>5 DEF WorkerCrash, RequestMove
  <1>6. CASE UNCHANGED vars
    BY <1>6 DEF vars, RequestMove
  <1>. QED BY <1>1, <1>2, <1>3, <1>4, <1>5, <1>6 DEF Next

\* What the proofs read off the moves of job j and its records.
LEMMA JobTypes ==
    ASSUME TypeOK, NEW j \in Jobs
    PROVE  /\ wf[j] \in Workflow /\ jobs[j] \in Row
           /\ wf[j].card \in Cards \cup {NoCard}
           /\ wf[j].final \in Verdicts \cup {"none"}
           /\ wf[j].decision \in Decisions \cup {"none"}
           /\ wf[j].pc \in Steps \cup {"none", "waiting", "completed", "failed"}
           /\ NoCard \notin Cards /\ Tries = Cards
           /\ KeyOf[j] \in Keys \cup {NoKey}
  BY KeysAssumption DEF TypeOK, Workflow, Cards, NoCard, Tries

\* The possible outcomes of a step for the fields of one workflow.
LEMMA WorkflowFates ==
    ASSUME TypeOK, ThreadsOK, FlowOK, RowsOK, [Next]_vars, NEW j \in Jobs
    PROVE  \/ wf'[j] = wf[j]
           \/ /\ api[j] = "starting" /\ api'[j] # "starting" /\ wf[j].pc = "none"
              /\ wf'[j].pc = "rag" /\ wf'[j].try = 1 /\ wf'[j].card = wf[j].card
              /\ wf'[j].final = wf[j].final /\ wf'[j].decision = wf[j].decision
           \/ /\ wf[j].pc \in Steps
              /\ \/ wf'[j].pc = "failed"
                 \/ wf'[j].pc = wf[j].pc /\ wf'[j].try = wf[j].try + 1
              /\ wf'[j].card = wf[j].card
              /\ wf'[j].final = wf[j].final /\ wf'[j].decision = wf[j].decision
           \/ /\ wf[j].pc = "rag" /\ wf'[j].pc = "await" /\ wf'[j].try = 1
              /\ wf'[j].card \in Cards
              /\ wf'[j].final = wf[j].final /\ wf'[j].decision = wf[j].decision
           \/ /\ \E a \in Attempts : a.job = j /\ thread[a] = "wrote" /\ Current(a)
              /\ \/ wf[j].pc = "await" /\ wf'[j].pc = "waiting"
                 \/ wf[j].pc = "final" /\ wf'[j].pc = "completed"
              /\ wf'[j].card = wf[j].card
              /\ wf'[j].final = wf[j].final /\ wf'[j].decision = wf[j].decision
           \/ /\ wf[j].pc \notin {"none", "completed", "failed"}
              /\ wf'[j].pc = wf[j].pc /\ wf'[j].try = wf[j].try
              /\ wf'[j].card = wf[j].card /\ wf'[j].final = wf[j].final
              /\ wf'[j].decision \in Decisions /\ wf'[j].decision \in said'[j]
           \/ /\ wf[j].pc = "waiting" /\ wf[j].decision # "none"
              /\ wf'[j].pc = "final" /\ wf'[j].try = 1
              /\ wf'[j].card = wf[j].card /\ wf'[j].decision = wf[j].decision
              /\ wf'[j].final = Verdict(wf[j].decision)
  <1>. DEFINE w == wf[j]
              v == wf'[j]
  <1>0. wf[j] \in Workflow /\ Tries = Cards
    BY JobTypes
  <1>1. WorkflowMove(j)
    BY WorkflowMoves
  <1>2. CASE api[j] = "starting" /\ api'[j] \in {"answered", "error"} /\ v = AtStep(w, "rag")
    BY <1>0, <1>2, WorkflowValues DEF RowsOK, Steps
  <1>3. CASE w.pc \in Steps /\ v = AfterFailure(w)
    <2>1. w.pc # "failed"
      BY <1>3 DEF Steps
    <2>. QED BY <1>0, <1>3, <2>1, WorkflowValues
  <1>4. CASE w.pc = "rag" /\ w.try \in Tries /\ v = WithCard(w, w.try)
    BY <1>0, <1>4, WorkflowValues
  <1>5. ASSUME NEW a \in Attempts, a.job = j, thread[a] = "wrote", Current(a),
               v = AfterPublish(w)
        PROVE  /\ \E b \in Attempts : b.job = j /\ thread[b] = "wrote" /\ Current(b)
               /\ \/ w.pc = "await" /\ v.pc = "waiting"
                  \/ w.pc = "final" /\ v.pc = "completed"
               /\ v.card = w.card /\ v.final = w.final /\ v.decision = w.decision
    <2>1. w.pc \in {"await", "final"}
      BY <1>5, AttemptFields DEF Current, ThreadsOK, Steps
    <2>. QED BY <1>0, <1>5, <2>1, WorkflowValues
  <1>6. ASSUME NEW d \in Decisions, w.pc \notin {"none", "completed", "failed"},
               v = [w EXCEPT !.decision = d], said'[j] = said[j] \cup {d}
        PROVE  /\ v.pc = w.pc /\ v.try = w.try /\ v.card = w.card /\ v.final = w.final
               /\ v.decision \in Decisions /\ v.decision \in said'[j]
    BY <1>0, <1>6 DEF Workflow
  <1>7. CASE w.pc = "waiting" /\ w.decision # "none" /\ v = Decided(w)
    BY <1>0, <1>7, WorkflowValues
  <1>. QED BY <1>1, <1>2, <1>3, <1>4, <1>5, <1>6, <1>7 DEF WorkflowMove

\* The possible outcomes of a step for the columns of one row.
LEMMA RowFates ==
    ASSUME TypeOK, ThreadsOK, [Next]_vars, NEW j \in Jobs
    PROVE  \/ jobs'[j] = jobs[j]
           \/ /\ api[j] = "idle" /\ api'[j] = "starting"
              /\ jobs'[j].key = KeyOf[j] /\ jobs'[j].status = "pending"
              /\ jobs'[j].result = NoCard /\ jobs'[j].guard = NoCard
              /\ Conflicting(jobs, KeyOf[j]) = {}
              /\ \A i \in Jobs \ {j} : jobs'[i] = jobs[i]
           \/ /\ \E a \in Attempts : /\ a.job = j /\ thread[a] \in RagPoints
                                     /\ thread'[a] \in RagPoints \cup {"raised"}
              /\ wf' = wf
              /\ jobs'[j].status \in InProgress \cup {"failed"}
              /\ jobs'[j].key = jobs[j].key
              /\ jobs'[j].result = jobs[j].result /\ jobs'[j].guard = jobs[j].guard
           \/ /\ \E a \in Attempts : /\ a.job = j /\ thread[a] = "ready"
                                     /\ thread'[a] = "wrote"
                                     /\ jobs'[j].status = StatusAt(a)
                                     /\ StatusAt(a) \in {"awaiting_human", wf[j].final}
                                     /\ StatusAt(a) \in Statuses
              /\ wf' = wf
              /\ jobs'[j].key = jobs[j].key
              /\ wf[j].card # NoCard =>
                    jobs'[j].result = wf[j].card /\ jobs'[j].guard = wf[j].card
  <1>0. jobs[j] \in Row /\ wf[j].card \in Cards \cup {NoCard} /\ KeyOf[j] \in Keys \cup {NoKey}
    BY JobTypes
  <1>1. RowMove(j)
    BY RowMoves
  <1>2. CASE /\ api[j] = "idle" /\ api'[j] = "starting" /\ jobs'[j] = NewRow(KeyOf[j])
             /\ Conflicting(jobs, KeyOf[j]) = {}
             /\ \A i \in Jobs \ {j} : jobs'[i] = jobs[i]
    BY <1>0, <1>2, NewRowValues
  <1>3. ASSUME NEW a \in Attempts, a.job = j, thread[a] \in RagPoints,
               thread'[a] \in RagPoints \cup {"raised"}, wf' = wf,
               NEW s \in InProgress, jobs'[j] = Announced(jobs[j], s)
        PROVE  /\ jobs'[j].status \in InProgress \cup {"failed"}
               /\ jobs'[j].key = jobs[j].key
               /\ jobs'[j].result = jobs[j].result /\ jobs'[j].guard = jobs[j].guard
    <2>1. s \in Statuses
      BY DEF Statuses
    <2>. QED BY <1>0, <1>3, <2>1, RowValues
  <1>4. ASSUME jobs'[j] = Failed(jobs[j])
        PROVE  /\ jobs'[j].status \in InProgress \cup {"failed"}
               /\ jobs'[j].key = jobs[j].key
               /\ jobs'[j].result = jobs[j].result /\ jobs'[j].guard = jobs[j].guard
    BY <1>0, <1>4, RowValues DEF Statuses
  <1>5. ASSUME NEW a \in Attempts, a.job = j, thread[a] = "ready", wf' = wf,
               jobs'[j] = Published(jobs[j], StatusAt(a), wf[j].card)
        PROVE  /\ jobs'[j].status = StatusAt(a)
               /\ StatusAt(a) \in {"awaiting_human", wf[j].final}
               /\ StatusAt(a) \in Statuses
               /\ jobs'[j].key = jobs[j].key
               /\ wf[j].card # NoCard =>
                     jobs'[j].result = wf[j].card /\ jobs'[j].guard = wf[j].card
    <2>1. /\ StatusAt(a) \in Statuses
          /\ StatusAt(a) = "awaiting_human" \/ StatusAt(a) = wf[j].final
      BY <1>5, StatusAtType
    <2>. QED BY <1>0, <1>5, <2>1, RowValues
  <1>. QED BY <1>1, <1>2, <1>3, <1>4, <1>5 DEF RowMove

LEMMA RowsStep ==
    ASSUME TypeOK, RowsOK, FlowOK, ThreadsOK, [Next]_vars
    PROVE  RowsOK'
  <1>. SUFFICES ASSUME NEW j \in Jobs
                PROVE  /\ api'[j] = "idle" => jobs'[j] = NoRow
                       /\ api'[j] = "starting" => /\ jobs'[j].status # "absent"
                                                  /\ wf'[j].pc = "none"
                       /\ wf'[j].pc # "none" => jobs'[j].status # "absent"
    BY DEF RowsOK, Exists
  <1>0. NoRow.status = "absent"
    BY DEF NoRow
  <1>1. \A a \in Attempts : (a.job = j /\ thread[a] # "idle") => wf[j].pc # "none"
    BY DEF ThreadsOK
  <1>2. jobs[j].status # "absent" => jobs'[j].status # "absent"
    BY RowFates DEF Statuses, InProgress, Verdicts
  <1>3. api'[j] = "idle" => jobs'[j] = NoRow
    <2>. SUFFICES ASSUME api'[j] = "idle" PROVE jobs'[j] = NoRow
      OBVIOUS
    <2>1. api[j] = "idle" /\ jobs[j] = NoRow /\ wf[j].pc = "none"
      BY <1>0, RequestMoves DEF RequestMove, RowsOK, Exists
    <2>2. \A a \in Attempts : a.job = j => thread[a] = "idle"
      BY <1>1, <2>1
    <2>. QED BY <2>1, <2>2, RowFates DEF RagPoints
  <1>4. api'[j] = "starting" => jobs'[j].status # "absent" /\ wf'[j].pc = "none"
    <2>. SUFFICES ASSUME api'[j] = "starting"
                  PROVE  jobs'[j].status # "absent" /\ wf'[j].pc = "none"
      OBVIOUS
    <2>1. wf[j].pc = "none"
      BY <1>0, RequestMoves DEF RequestMove, RowsOK, Exists
    <2>2. jobs'[j].status # "absent"
      BY <1>2, RequestMoves, NewRowValues, JobTypes DEF RequestMove, RowsOK, Exists
    <2>3. api[j] = "idle" => jobs[j] = NoRow
      BY DEF RowsOK
    <2>4. wf'[j].pc = "none"
      BY <2>1, <2>3, WorkflowFates DEF Steps
    <2>. QED BY <2>2, <2>4
  <1>5. wf'[j].pc # "none" => jobs'[j].status # "absent"
    <2>1. wf'[j].pc # "none" => wf[j].pc # "none" \/ api[j] = "starting"
      BY WorkflowFates DEF Steps
    <2>2. wf[j].pc # "none" \/ api[j] = "starting" => jobs[j].status # "absent"
      BY DEF RowsOK, Exists
    <2>. QED BY <1>2, <2>1, <2>2
  <1>. QED BY <1>3, <1>4, <1>5

LEMMA FlowStep ==
    ASSUME TypeOK, RowsOK, FlowOK, ThreadsOK, TypeOK', [Next]_vars
    PROVE  FlowOK'
  <1>. SUFFICES ASSUME NEW j \in Jobs
                PROVE  /\ wf'[j].pc \in {"none", "rag"} => wf'[j].card = NoCard
                       /\ wf'[j].pc \in {"none", "rag", "await", "waiting"}
                             => wf'[j].final = "none"
                       /\ wf'[j].pc \in {"await", "waiting", "final", "completed"}
                             => wf'[j].card # NoCard
                       /\ wf'[j].pc \in {"final", "completed"} => wf'[j].final # "none"
                       /\ wf'[j].final # "none" => wf'[j].card # NoCard
                       /\ wf'[j].pc \in Steps => wf'[j].try \in Tries
    BY DEF FlowOK
  <1>1. /\ wf[j].pc \in {"none", "rag"} => wf[j].card = NoCard
        /\ wf[j].pc \in {"none", "rag", "await", "waiting"} => wf[j].final = "none"
        /\ wf[j].pc \in {"await", "waiting", "final", "completed"}
              => wf[j].card # NoCard
        /\ wf[j].pc \in {"final", "completed"} => wf[j].final # "none"
        /\ wf[j].final # "none" => wf[j].card # NoCard
        /\ wf[j].pc \in Steps => wf[j].try \in Tries
    BY DEF FlowOK
  <1>2. NoCard \notin Cards /\ wf[j] \in Workflow
    BY JobTypes
  <1>3. wf'[j].try \in 0..MaxTries
    BY DEF TypeOK, Workflow
  <1>4. 1 \in Tries /\ \A n \in Tries : n + 1 \in 0..MaxTries => n + 1 \in Tries
    BY BoundsAssumption DEF Tries
  <1>5. Verdict(wf[j].decision) # "none"
    BY DEF Verdict
  <1>. QED BY <1>1, <1>2, <1>3, <1>4, <1>5, WorkflowFates DEF Steps

LEMMA HumanStep ==
    ASSUME TypeOK, RowsOK, FlowOK, ThreadsOK, HumanOK, [Next]_vars
    PROVE  HumanOK'
  <1>. SUFFICES ASSUME NEW j \in Jobs
                PROVE  /\ wf'[j].decision # "none" => wf'[j].decision \in said'[j]
                       /\ wf'[j].final = "approved" => "approve" \in said'[j]
                       /\ wf'[j].final = "rejected" => "request_changes" \in said'[j]
    BY DEF HumanOK
  <1>1. /\ wf[j].decision # "none" => wf[j].decision \in said[j]
        /\ wf[j].final = "approved" => "approve" \in said[j]
        /\ wf[j].final = "rejected" => "request_changes" \in said[j]
        /\ said[j] \subseteq said'[j]
    BY RequestMoves DEF HumanOK
  <1>2. wf[j].decision \in {"approve", "request_changes", "none"}
    BY JobTypes DEF Decisions
  <1>3. /\ wf[j].decision = "approve" => Verdict(wf[j].decision) = "approved"
        /\ wf[j].decision = "request_changes" => Verdict(wf[j].decision) = "rejected"
    BY DEF Verdict
  <1>. QED BY <1>1, <1>2, <1>3, WorkflowFates

LEMMA ThreadsStep ==
    ASSUME TypeOK, RowsOK, FlowOK, ThreadsOK, TypeOK', [Next]_vars
    PROVE  ThreadsOK'
  <1>. SUFFICES ASSUME NEW a \in Attempts
                PROVE  /\ thread'[a] \in RagPoints => a.step = "rag"
                       /\ thread'[a] \in {"ready", "wrote"} => a.step # "rag"
                       /\ thread'[a] # "idle" =>
                            /\ wf'[a.job].pc # "none"
                            /\ a.step = "await" => wf'[a.job].card # NoCard
                            /\ a.step = "final" => wf'[a.job].final # "none"
                            /\ a.step = wf'[a.job].pc => a.try <= wf'[a.job].try
    BY DEF ThreadsOK
  <1>. DEFINE j == a.job
  <1>1. j \in Jobs /\ a.step \in Steps /\ a.try \in Tries /\ a.try \in Nat
    BY AttemptFields, BoundsAssumption DEF Tries
  <1>2. ThreadMove(a)
    BY ThreadMoves
  <1>3. /\ thread[a] \in RagPoints => a.step = "rag"
        /\ thread[a] \in {"ready", "wrote"} => a.step # "rag"
        /\ thread[a] # "idle" => /\ wf[j].pc # "none"
                                 /\ a.step = "await" => wf[j].card # NoCard
                                 /\ a.step = "final" => wf[j].final # "none"
                                 /\ a.step = wf[j].pc => a.try <= wf[j].try
    BY DEF ThreadsOK
  <1>4. Ended(a) \in {"gone", "late"}
    BY DEF Ended
  <1>5. /\ thread'[a] \in RagPoints => a.step = "rag"
        /\ thread'[a] \in {"ready", "wrote"} => a.step # "rag"
    BY <1>2, <1>3, <1>4 DEF ThreadMove, RagPoints
  <1>6. ASSUME thread[a] # "idle"
        PROVE  /\ wf'[j].pc # "none"
               /\ a.step = "await" => wf'[j].card # NoCard
               /\ a.step = "final" => wf'[j].final # "none"
               /\ a.step = wf'[j].pc => a.try <= wf'[j].try
    <2>1. /\ wf[j].pc # "none"
          /\ a.step = "await" => wf[j].card # NoCard
          /\ a.step = "final" => wf[j].final # "none"
          /\ a.step = wf[j].pc => a.try <= wf[j].try
      BY <1>3, <1>6
    <2>2. /\ wf[j].pc = "rag" => wf[j].card = NoCard
          /\ wf[j].pc = "waiting" => wf[j].final = "none"
      BY <1>1 DEF FlowOK
    <2>3. wf[j].try \in Nat /\ NoCard \notin Cards
      BY <1>1, JobTypes, BoundsAssumption DEF Workflow
    <2>4. Verdict(wf[j].decision) # "none"
      BY DEF Verdict
    <2>. HIDE DEF j
    <2>. QED BY <1>1, <2>1, <2>2, <2>3, <2>4, WorkflowFates DEF Steps
  <1>7. ASSUME thread[a] = "idle", thread'[a] # "idle"
        PROVE  /\ wf'[j].pc # "none"
               /\ a.step = "await" => wf'[j].card # NoCard
               /\ a.step = "final" => wf'[j].final # "none"
               /\ a.step = wf'[j].pc => a.try <= wf'[j].try
    <2>1. Current(a) /\ wf' = wf
      BY <1>2, <1>7 DEF ThreadMove, Live, RagPoints
    <2>2. wf[j].pc = a.step /\ wf[j].try = a.try
      BY <2>1 DEF Current
    <2>. QED BY <1>1, <2>1, <2>2 DEF FlowOK, Steps
  <1>. QED BY <1>5, <1>6, <1>7

\* A card once recorded stays the workflow's, and a row that shows it keeps it.
LEMMA CardStays ==
    ASSUME TypeOK, RowsOK, FlowOK, ThreadsOK, [Next]_vars, NEW j \in Jobs,
           wf[j].card # NoCard
    PROVE  /\ wf'[j].card = wf[j].card
           /\ jobs[j].result = wf[j].card => jobs'[j].result = wf[j].card
           /\ jobs[j].guard = wf[j].card => jobs'[j].guard = wf[j].card
  <1>1. wf[j].pc \notin {"none", "rag"}
    BY DEF FlowOK
  <1>2. wf'[j].card = wf[j].card
    BY <1>1, WorkflowFates
  <1>3. api[j] # "idle"
    BY <1>1 DEF RowsOK, Exists, NoRow
  <1>. QED BY <1>2, <1>3, RowFates

LEMMA CardStep ==
    ASSUME TypeOK, RowsOK, FlowOK, ThreadsOK, PublishedCardIsTheWorkflows, [Next]_vars
    PROVE  PublishedCardIsTheWorkflows'
  <1>. SUFFICES ASSUME NEW j \in Jobs
                PROVE  \/ jobs'[j].result = NoCard /\ jobs'[j].guard = NoCard
                       \/ /\ jobs'[j].result = wf'[j].card
                          /\ jobs'[j].guard = wf'[j].card
    BY DEF PublishedCardIsTheWorkflows
  <1>1. \/ jobs[j].result = NoCard /\ jobs[j].guard = NoCard
        \/ jobs[j].result = wf[j].card /\ jobs[j].guard = wf[j].card
    BY DEF PublishedCardIsTheWorkflows
  <1>2. CASE wf[j].card # NoCard
    <2>1. /\ wf'[j].card = wf[j].card
          /\ jobs[j].result = wf[j].card => jobs'[j].result = wf[j].card
          /\ jobs[j].guard = wf[j].card => jobs'[j].guard = wf[j].card
      BY <1>2, CardStays
    <2>. QED BY <1>1, <1>2, <2>1, RowFates
  <1>3. CASE wf[j].card = NoCard
    <2>1. jobs[j].result = NoCard /\ jobs[j].guard = NoCard
      BY <1>1, <1>3
    <2>2. \A a \in Attempts : a.job = j => thread[a] # "ready"
      <3>. SUFFICES ASSUME NEW a \in Attempts, a.job = j, thread[a] = "ready"
                    PROVE  FALSE
        OBVIOUS
      <3>1. a.step \in {"await", "final"}
        BY AttemptFields DEF ThreadsOK, Steps
      <3>2. wf[j].card # NoCard
        BY <3>1 DEF ThreadsOK, FlowOK
      <3>. QED BY <1>3, <3>2
    <2>. QED BY <2>1, <2>2, RowFates
  <1>. QED BY <1>2, <1>3

LEMMA ShownStep ==
    ASSUME TypeOK, RowsOK, FlowOK, ThreadsOK, ShownOK, [Next]_vars
    PROVE  ShownOK'
  <1>1. ASSUME NEW a \in Attempts, thread'[a] = "wrote"
        PROVE  jobs'[a.job].result = wf'[a.job].card
    <2>1. a.job \in Jobs /\ a.step \in Steps
      BY AttemptFields
    <2>2. thread[a] \in {"ready", "wrote"}
      BY <1>1, ThreadMoves DEF ThreadMove, RagPoints, Ended
    <2>3. wf[a.job].card # NoCard
      BY <2>1, <2>2 DEF ThreadsOK, FlowOK, Steps
    <2>4. wf'[a.job].card = wf[a.job].card
      BY <2>1, <2>3, CardStays
    <2>5. CASE thread[a] = "wrote"
      BY <2>1, <2>3, <2>4, <2>5, CardStays DEF ShownOK
    <2>6. CASE thread[a] = "ready"
      <3>1. jobs'[a.job] = Published(jobs[a.job], StatusAt(a), wf[a.job].card)
        BY <1>1, <2>6, ThreadMoves DEF ThreadMove, RagPoints, Ended
      <3>2. jobs'[a.job].result = wf[a.job].card
        BY <2>1, <2>3, <2>6, <3>1, RowValues, StatusAtType, JobTypes
      <3>. QED BY <2>4, <3>2
    <2>. QED BY <2>2, <2>5, <2>6
  <1>2. ASSUME NEW j \in Jobs
        PROVE  /\ wf'[j].pc = "waiting" => jobs'[j].result = wf'[j].card
               /\ wf'[j].final # "none" => jobs'[j].result = wf'[j].card
    <2>1. /\ wf[j].pc = "waiting" => jobs[j].result = wf[j].card /\ wf[j].card # NoCard
          /\ wf[j].final # "none" => jobs[j].result = wf[j].card /\ wf[j].card # NoCard
      BY DEF ShownOK, FlowOK
    <2>2. \A a \in Attempts : (a.job = j /\ thread[a] = "wrote" /\ Current(a))
             => jobs[j].result = wf[j].card /\ wf[j].card # NoCard
      BY AttemptFields DEF ShownOK, ThreadsOK, FlowOK, Current, Steps
    <2>3. wf'[j].pc = "waiting" \/ wf'[j].final # "none"
             => jobs[j].result = wf[j].card /\ wf[j].card # NoCard
      BY <2>1, <2>2, WorkflowFates DEF Steps
    <2>. QED BY <2>3, CardStays
  <1>3. ASSUME NEW j \in Jobs, jobs'[j].status \in Verdicts
        PROVE  jobs'[j].status = wf'[j].final
    <2>1. jobs[j].status \in Verdicts => jobs[j].status = wf[j].final
      BY DEF ShownOK
    <2>2. wf[j].final # "none" => wf[j].pc \notin {"none", "rag", "await", "waiting"}
      BY DEF FlowOK
    <2>3. wf[j].final # "none" => wf'[j].final = wf[j].final
      BY <2>2, WorkflowFates
    <2>4. CASE jobs'[j] = jobs[j]
      BY <1>3, <2>1, <2>3, <2>4 DEF Verdicts
    <2>5. CASE jobs'[j] # jobs[j]
      <3>1. wf' = wf /\ jobs'[j].status \in {"awaiting_human", wf[j].final}
        BY <1>3, <2>5, RowFates DEF Verdicts, InProgress
      <3>. QED BY <1>3, <3>1 DEF Verdicts
    <2>. QED BY <2>4, <2>5
  <1>. QED BY <1>1, <1>2, <1>3 DEF ShownOK

----------------------------------------------------------------------------
(* The inductive invariant and the theorems that follow from it.           *)

LEMMA InvInit == Init => IInv
  <1>. SUFFICES ASSUME Init PROVE IInv
    OBVIOUS
  <1>1. TypeOK
    BY TypeInit
  <1>2. \A j \in Jobs : jobs[j] = NoRow /\ api[j] = "idle" /\ wf[j] = NoWorkflow
    BY DEF Init
  <1>3. \A a \in Attempts : thread[a] = "idle"
    BY DEF Init
  <1>4. /\ NoRow.result = NoCard /\ NoRow.guard = NoCard /\ NoRow.status = "absent"
        /\ NoWorkflow.pc = "none" /\ NoWorkflow.card = NoCard
        /\ NoWorkflow.final = "none" /\ NoWorkflow.decision = "none"
    BY DEF NoRow, NoWorkflow, NoCard
  <1>. QED
    BY <1>1, <1>2, <1>3, <1>4
    DEF IInv, RowsOK, FlowOK, HumanOK, ThreadsOK, ShownOK,
        PublishedCardIsTheWorkflows, RagPoints, Verdicts, Steps

LEMMA InvStep == IInv /\ [Next]_vars => IInv'
  <1>. SUFFICES ASSUME IInv, [Next]_vars PROVE IInv'
    OBVIOUS
  <1>. USE DEF IInv
  <1>1. TypeOK'
    BY TypeStep
  <1>. QED BY <1>1, RowsStep, FlowStep, HumanStep, ThreadsStep, ShownStep, CardStep

LEMMA Invariance == Spec => []IInv
  BY InvInit, InvStep, PTL DEF Spec

\* Type correctness: no interleaving of requests, threads, timeouts and crashes
\* takes a row, a workflow or a thread out of its type.
THEOREM TypeCorrect == Spec => []TypeOK
  <1>1. IInv => TypeOK
    BY DEF IInv
  <1>. QED BY <1>1, Invariance, PTL

\* However many attempts of the pipeline overlap, the card and the guard report
\* a job shows come from the one attempt its workflow recorded.
THEOREM PublishedCardCorrect == Spec => []PublishedCardIsTheWorkflows
  <1>1. IInv => PublishedCardIsTheWorkflows
    BY DEF IInv
  <1>. QED BY <1>1, Invariance, PTL

\* No verdict without the human's signal for it, and no row that shows another.
THEOREM VerdictIsHumansCorrect == Spec => []VerdictIsHumans
  <1>1. IInv => VerdictIsHumans
    BY DEF IInv, VerdictIsHumans, ShownOK, HumanOK
  <1>. QED BY <1>1, Invariance, PTL

\* The verdict is about a card the row already shows.
THEOREM VerdictIsOnVisibleCardCorrect == Spec => []VerdictIsOnVisibleCard
  <1>1. IInv => VerdictIsOnVisibleCard
    BY DEF IInv, VerdictIsOnVisibleCard, ShownOK, FlowOK
  <1>. QED BY <1>1, Invariance, PTL

\* A visible card is never replaced.
THEOREM VisibleCardIsFinalCorrect == Spec => VisibleCardIsFinal
  <1>1. ASSUME IInv, [Next]_vars, NEW j \in Jobs, jobs[j].result # NoCard
        PROVE  jobs'[j].result = jobs[j].result
    <2>1. jobs[j].result = wf[j].card
      BY <1>1 DEF IInv, PublishedCardIsTheWorkflows
    <2>. QED BY <1>1, <2>1, CardStays DEF IInv
  <1>2. IInv /\ [Next]_vars
          => [\A j \in Jobs : jobs[j].result # NoCard
                 => jobs'[j].result = jobs[j].result]_vars
    BY <1>1
  <1>. QED BY <1>2, Invariance, PTL DEF Spec, VisibleCardIsFinal

----------------------------------------------------------------------------
(* Idempotency: who has a row, and who stands behind it.                   *)

LEMMA KeyStep ==
    ASSUME IInv, OneJobPerKey, [Next]_vars
    PROVE  OneJobPerKey'
  <1>. USE DEF IInv
  <1>. SUFFICES ASSUME NEW i \in Jobs, NEW j \in Jobs, i # j,
                       jobs'[i].status # "absent", jobs'[j].status # "absent",
                       jobs'[i].key = jobs'[j].key
                PROVE  jobs'[i].key = NoKey
    BY DEF OneJobPerKey, Exists
  <1>1. ASSUME NEW k \in Jobs, jobs'[k].status # "absent"
        PROVE  \/ jobs[k].status # "absent" /\ jobs'[k].key = jobs[k].key
               \/ /\ jobs'[k].key = KeyOf[k] /\ Conflicting(jobs, KeyOf[k]) = {}
                  /\ \A i2 \in Jobs \ {k} : jobs'[i2] = jobs[i2]
    <2>1. \A a \in Attempts : (a.job = k /\ thread[a] # "idle") => jobs[k].status # "absent"
      BY DEF ThreadsOK, RowsOK, Exists
    <2>. QED BY <1>1, <2>1, RowFates DEF RagPoints
  <1>2. CASE jobs[i].status # "absent" /\ jobs[j].status # "absent"
             /\ jobs'[i].key = jobs[i].key /\ jobs'[j].key = jobs[j].key
    BY <1>2 DEF OneJobPerKey, Exists
  <1>3. ASSUME NEW k \in Jobs, NEW m \in Jobs, k # m, jobs'[m].status # "absent",
               jobs'[k].key = jobs'[m].key,
               jobs'[k].key = KeyOf[k], Conflicting(jobs, KeyOf[k]) = {},
               \A i2 \in Jobs \ {k} : jobs'[i2] = jobs[i2]
        PROVE  jobs'[k].key = NoKey
    <2>1. jobs[m].status # "absent" /\ jobs[m].key = KeyOf[k]
      BY <1>3
    <2>2. m \notin Conflicting(jobs, KeyOf[k])
      BY <1>3
    <2>. QED BY <1>3, <2>1, <2>2 DEF Conflicting, Exists
  <1>. QED BY <1>1, <1>2, <1>3

\* Requests with one key never get two rows.
THEOREM OneJobPerKeyCorrect == Spec => []OneJobPerKey
  <1>1. Init => OneJobPerKey
    BY DEF Init, OneJobPerKey, Exists, NoRow
  <1>2. IInv /\ OneJobPerKey /\ [Next]_vars => OneJobPerKey'
    BY KeyStep
  <1>. QED BY <1>1, <1>2, Invariance, PTL DEF Spec

\* A row without a workflow belongs to a request still starting it, or failed.
THEOREM StrandedOnlyByItsCreatorCorrect == Spec => []StrandedOnlyByItsCreator
  <1>1. Init => StrandedOnlyByItsCreator
    BY DEF Init, StrandedOnlyByItsCreator, Exists, NoRow
  <1>2. IInv /\ StrandedOnlyByItsCreator /\ [Next]_vars => StrandedOnlyByItsCreator'
    <2>. SUFFICES ASSUME IInv, StrandedOnlyByItsCreator, [Next]_vars, NEW j \in Jobs,
                         jobs'[j].status # "absent", wf'[j].pc = "none"
                  PROVE  api'[j] \in {"starting", "error"}
      BY DEF StrandedOnlyByItsCreator, Exists
    <2>. USE DEF IInv
    <2>1. wf[j].pc = "none"
      BY WorkflowFates DEF Steps
    <2>2. \A a \in Attempts : a.job = j => thread[a] = "idle"
      BY <2>1 DEF ThreadsOK
    <2>3. jobs[j].status # "absent" \/ api'[j] = "starting"
      BY <2>2, RowFates DEF RagPoints
    <2>4. jobs[j].status # "absent" => api[j] \in {"starting", "error"}
      BY <2>1 DEF StrandedOnlyByItsCreator, Exists
    <2>5. wf[j] \in Workflow
      BY JobTypes
    <2>6. wf'[j] # AtStep(wf[j], "rag")
      BY <2>5, WorkflowValues DEF Steps
    <2>. QED BY <2>3, <2>4, <2>6, RequestMoves DEF RequestMove
  <1>. QED BY <1>1, <1>2, Invariance, PTL DEF Spec

----------------------------------------------------------------------------
(* While no attempt outlives its timeout, the row and the workflow agree.  *)

\* An attempt that outlived its timeout is never forgotten.
LEMMA OverranStays ==
    ASSUME IInv, [Next]_vars, NEW j \in Jobs, Overran(j)
    PROVE  Overran(j)'
  <1>. USE DEF IInv
  <1>1. PICK a \in Attempts : a.job = j /\ (thread[a] = "late" \/ (Live(a) /\ ~Current(a)))
    BY DEF Overran
  <1>2. a.step \in Steps /\ a.try \in Tries
    BY AttemptFields
  <1>3. CASE thread[a] = "late"
    <2>1. thread'[a] = "late"
      BY <1>3, ThreadMoves DEF ThreadMove, RagPoints, Live
    <2>. QED BY <1>1, <2>1 DEF Overran
  <1>4. CASE Live(a) /\ ~Current(a)
    <2>1. thread[a] # "idle" /\ thread'[a] # "idle" /\ thread'[a] # "gone"
      BY <1>4, ThreadMoves DEF ThreadMove, RagPoints, Live, Ended
    <2>2. /\ wf[j].pc # "none"
          /\ a.step = "await" => wf[j].card # NoCard
          /\ a.step = "final" => wf[j].final # "none"
          /\ a.step = wf[j].pc => a.try <= wf[j].try
      BY <1>1, <2>1 DEF ThreadsOK
    <2>3. /\ wf[j].pc = "rag" => wf[j].card = NoCard
          /\ wf[j].pc = "waiting" => wf[j].final = "none"
      BY DEF FlowOK
    <2>4. ~(wf[j].pc = a.step /\ wf[j].try = a.try)
      BY <1>1, <1>4 DEF Current
    <2>5. wf[j].try \in Nat /\ a.try \in Nat
      BY <1>2, JobTypes, BoundsAssumption DEF Workflow, Tries
    <2>6. ~(wf'[j].pc = a.step /\ wf'[j].try = a.try)
      BY <1>2, <2>2, <2>3, <2>4, <2>5, WorkflowFates DEF Steps
    <2>. QED BY <1>1, <2>1, <2>6 DEF Overran, Live, Current
  <1>. QED BY <1>1, <1>3, <1>4

\* Without an overrun a live thread is the one its workflow waits for.
LEMMA OnTime ==
    ASSUME NEW j \in Jobs, ~Overran(j)', NEW a \in Attempts, a.job = j,
           thread'[a] \notin {"idle", "gone", "late"}
    PROVE  wf'[j].pc = a.step /\ wf'[j].try = a.try
  BY DEF Overran, Live, Current

LEMMA InTimeStep ==
    ASSUME IInv, InTime, [Next]_vars
    PROVE  InTime'
  <1>. USE DEF IInv
  <1>. SUFFICES ASSUME NEW a \in Attempts, thread'[a] = "wrote", ~Overran(a.job)'
                PROVE  jobs'[a.job].status = StatusAt(a)'
    BY DEF InTime
  <1>. DEFINE j == a.job
  <1>1. j \in Jobs /\ a.step \in Steps
    BY AttemptFields
  <1>2. ~Overran(j)
    BY <1>1, OverranStays
  <1>3. thread[a] \in {"ready", "wrote"}
    BY ThreadMoves DEF ThreadMove, RagPoints, Ended
  <1>4. /\ a.step # "rag" /\ wf[j].pc # "none"
        /\ a.step = "final" => wf[j].final # "none"
    BY <1>3 DEF ThreadsOK
  <1>5. a.step = "final" => wf'[j].final = wf[j].final
    <2>1. wf[j].final # "none" => wf[j].pc # "waiting"
      BY <1>1 DEF FlowOK
    <2>. QED BY <1>1, <1>4, <2>1, WorkflowFates
  <1>6. StatusAt(a)' = StatusAt(a)
    BY <1>1, <1>4, <1>5 DEF StatusAt, Steps
  <1>7. CASE thread[a] = "ready"
    <2>1. jobs'[j] = Published(jobs[j], StatusAt(a), wf[j].card)
      BY <1>7, ThreadMoves DEF ThreadMove, RagPoints, Ended
    <2>. QED BY <1>1, <1>6, <1>7, <2>1, RowValues, StatusAtType, JobTypes
  <1>8. CASE thread[a] = "wrote"
    <2>1. jobs[j].status = StatusAt(a)
      BY <1>2, <1>8 DEF InTime
    <2>2. api[j] # "idle"
      BY <1>1, <1>4 DEF RowsOK, Exists, NoRow
    <2>3. wf'[j].pc = a.step
      BY <1>1, OnTime
    <2>4. ASSUME NEW b \in Attempts, b.job = j,
                 thread'[b] \in RagPoints \cup {"raised", "wrote"}
          PROVE  b.step = a.step
      BY <1>1, <2>3, <2>4, OnTime DEF RagPoints
    <2>5. \A b \in Attempts : ~(/\ b.job = j /\ thread[b] \in RagPoints
                               /\ thread'[b] \in RagPoints \cup {"raised"})
      BY <1>4, <2>4 DEF ThreadsOK
    <2>6. \A b \in Attempts : (b.job = j /\ thread'[b] = "wrote")
             => StatusAt(b) = StatusAt(a)
      BY <2>4 DEF StatusAt
    <2>7. CASE jobs'[j] = jobs[j]
      BY <1>6, <2>1, <2>7
    <2>8. CASE jobs'[j] # jobs[j]
      <3>1. PICK b \in Attempts : b.job = j /\ thread'[b] = "wrote"
                                  /\ jobs'[j].status = StatusAt(b)
        BY <1>1, <2>2, <2>5, <2>8, RowFates
      <3>. QED BY <1>6, <2>6, <3>1
    <2>. QED BY <2>7, <2>8
  <1>. QED BY <1>3, <1>7, <1>8

LEMMA RestingStep ==
    ASSUME IInv, InTime, RestingRowAgrees, [Next]_vars
    PROVE  RestingRowAgrees'
  <1>. USE DEF IInv
  <1>. SUFFICES ASSUME NEW j \in Jobs, ~Overran(j)',
                       wf'[j].pc \in {"waiting", "completed"}
                PROVE  /\ wf'[j].pc = "waiting"   => jobs'[j].status = "awaiting_human"
                       /\ wf'[j].pc = "completed" => jobs'[j].status = wf'[j].final
    BY DEF RestingRowAgrees
  <1>1. ~Overran(j)
    BY OverranStays
  <1>2. \A a \in Attempts : a.job = j => thread'[a] \in {"idle", "gone", "late"}
    BY AttemptFields, OnTime DEF Steps
  <1>3. wf[j].pc \notin {"none", "rag"}
    BY WorkflowFates DEF Steps
  <1>4. api[j] # "idle"
    BY <1>3 DEF RowsOK, Exists, NoRow
  <1>5. jobs'[j] = jobs[j]
    <2>1. \A a \in Attempts : a.job = j
             => thread'[a] \notin RagPoints \cup {"raised", "wrote"}
      BY <1>2 DEF RagPoints
    <2>. QED BY <1>4, <2>1, RowFates
  <1>6. /\ wf[j].pc = "waiting"   => jobs[j].status = "awaiting_human"
        /\ wf[j].pc = "completed" => jobs[j].status = wf[j].final
    BY <1>1 DEF RestingRowAgrees
  <1>7. \A a \in Attempts : (a.job = j /\ thread[a] = "wrote" /\ Current(a)) =>
           jobs[j].status = IF wf[j].pc = "await" THEN "awaiting_human" ELSE wf[j].final
    BY <1>1 DEF InTime, StatusAt, Current
  <1>. QED BY <1>5, <1>6, <1>7, WorkflowFates DEF Steps

\* Unless an attempt outlived its timeout, GET /jobs says what the workflow
\* knows whenever the workflow waits for the human or has completed.
THEOREM RestingRowAgreesCorrect == Spec => []RestingRowAgrees
  <1>1. Init => InTimeInv
    <2>. SUFFICES ASSUME Init PROVE InTimeInv
      OBVIOUS
    <2>1. \A j \in Jobs : wf[j].pc = "none"
      BY DEF Init, NoWorkflow
    <2>. QED BY <2>1 DEF Init, InTimeInv, InTime, RestingRowAgrees
  <1>2. IInv /\ InTimeInv /\ [Next]_vars => InTimeInv'
    BY InTimeStep, RestingStep DEF InTimeInv
  <1>3. InTimeInv => RestingRowAgrees
    BY DEF InTimeInv
  <1>. QED BY <1>1, <1>2, <1>3, Invariance, PTL DEF Spec

----------------------------------------------------------------------------
(* RagCardJobs implements JobLifecycle.                                    *)

\* A step of the service touches the row and the workflow of one job at most.
LEMMA OneJobAtATime ==
    ASSUME TypeOK, [Next]_vars
    PROVE  \/ jobs' = jobs /\ wf' = wf
           \/ \E j \in Jobs : \A k \in Jobs \ {j} : jobs'[k] = jobs[k] /\ wf'[k] = wf[k]
  <1>. DEFINE Here == \/ jobs' = jobs /\ wf' = wf
                      \/ \E j \in Jobs : \A k \in Jobs \ {j} :
                            jobs'[k] = jobs[k] /\ wf'[k] = wf[k]
  <1>. USE DEF TypeOK
  <1>1. ASSUME NEW r \in Jobs, CreateJob(r) \/ StartWorkflow(r) \/ StartFails(r)
        PROVE  Here
    BY <1>1 DEF CreateJob, StartWorkflow, StartFails
  <1>2. ASSUME NEW a \in Attempts, Dispatch(a) \/ Timeout(a) PROVE Here
    BY <1>2, AttemptFields DEF Dispatch, Timeout
  <1>3. ASSUME NEW a \in Attempts, ThreadStep(a) PROVE Here
    <2>1. CASE AnnounceRetrieving(a) \/ AnnounceGenerating(a) \/ AnnounceCritiquing(a)
                 \/ RagFails(a) \/ PublishStatus(a)
      BY <2>1, AttemptFields DEF AnnounceRetrieving, AnnounceGenerating,
         AnnounceCritiquing, RagFails, PublishStatus
    <2>2. CASE RagReturns(a) \/ FailsSilently(a) \/ ReportPublished(a) \/ ReportFailure(a)
      BY <2>2, AttemptFields DEF RagReturns, FailsSilently, ReportPublished, ReportFailure
    <2>. QED BY <1>3, <2>1, <2>2 DEF ThreadStep
  <1>4. ASSUME NEW i \in Jobs, NEW d \in Decisions, Signal(i, d) PROVE Here
    BY <1>4 DEF Signal
  <1>5. ASSUME NEW i \in Jobs, WaitOver(i) PROVE Here
    BY <1>5 DEF WaitOver
  <1>6. CASE WorkerCrash \/ UNCHANGED vars
    BY <1>6 DEF WorkerCrash, vars
  <1>. QED BY <1>1, <1>2, <1>3, <1>4, <1>5, <1>6 DEF Next

\* What a reader can see of one job changes as JobLifecycle allows.
LEMMA VisibleMoves ==
    ASSUME IInv, [Next]_vars, NEW j \in Jobs
    PROVE  LET p == PhaseOf(j)              q == PhaseOf(j)'
               c == jobs[j].result          d == jobs'[j].result
               v == wf[j].final             w == wf'[j].final
               s == wf[j].decision          t == wf'[j].decision
           IN  \/ q = p /\ d = c /\ w = v /\ t = s
               \/ p = "absent" /\ q = "accepted" /\ d = c /\ w = v /\ t = s
               \/ p = "accepted" /\ q = "running" /\ d = c /\ w = v /\ t = s
               \/ p \in {"running", "failed"} /\ q = p /\ c = 0 /\ d \in 1..MaxTries
                     /\ w = v /\ t = s
               \/ p = "running" /\ q = p /\ d = c /\ w = v /\ t \in Decisions
               \/ p = "running" /\ q = p /\ d = c /\ c # 0 /\ t = s /\ v = "none"
                     /\ s # "none" /\ w = Verdict(s)
               \/ p = "running" /\ q = "completed" /\ d = c /\ w = v /\ t = s /\ v # "none"
               \/ p = "running" /\ q = "failed" /\ d = c /\ w = v /\ t = s
  <1>. USE DEF IInv
  <1>1. /\ wf[j].card \in Cards \cup {NoCard} /\ NoCard \notin Cards
        /\ wf[j].pc \in Steps \cup {"none", "waiting", "completed", "failed"}
    BY JobTypes
  <1>2. /\ wf[j].pc \in {"none", "rag"} => wf[j].card = NoCard
        /\ wf[j].pc = "waiting" => wf[j].final = "none" /\ wf[j].card # NoCard
        /\ wf[j].pc \in {"final", "completed"} => wf[j].final # "none"
        /\ wf[j].pc = "waiting" \/ wf[j].final # "none" => jobs[j].result = wf[j].card
        /\ wf[j].final # "none" => wf[j].card # NoCard
        /\ jobs[j].result = NoCard \/ jobs[j].result = wf[j].card
    BY DEF FlowOK, ShownOK, PublishedCardIsTheWorkflows
  <1>3. /\ api[j] = "idle" => jobs[j].status = "absent" /\ jobs[j].result = NoCard
        /\ api[j] = "starting" => jobs[j].status # "absent"
        /\ wf[j].pc # "none" => jobs[j].status # "absent"
    BY DEF RowsOK, Exists, NoRow
  <1>4. \A a \in Attempts : (a.job = j /\ thread[a] # "idle") => wf[j].pc # "none"
    BY DEF ThreadsOK
  <1>5. PhaseOf(j) = IF jobs[j].status = "absent" THEN "absent"
                     ELSE IF wf[j].pc = "none" THEN "accepted"
                     ELSE IF wf[j].pc \in {"completed", "failed"} THEN wf[j].pc
                     ELSE "running"
    BY DEF PhaseOf, Exists
  <1>6. PhaseOf(j)' = IF jobs'[j].status = "absent" THEN "absent"
                      ELSE IF wf'[j].pc = "none" THEN "accepted"
                      ELSE IF wf'[j].pc \in {"completed", "failed"} THEN wf'[j].pc
                      ELSE "running"
    BY DEF PhaseOf, Exists
  <1>7. CASE wf'[j] = wf[j]
    <2>1. CASE jobs'[j] = jobs[j]
      BY <1>5, <1>6, <1>7, <2>1
    <2>2. CASE /\ api[j] = "idle" /\ jobs'[j].status = "pending"
               /\ jobs'[j].result = NoCard
      BY <1>3, <1>5, <1>6, <1>7, <2>2
    <2>3. CASE /\ \E a \in Attempts : a.job = j /\ thread[a] # "idle"
               /\ jobs'[j].status \in Statuses /\ jobs'[j].result = jobs[j].result
      <3>1. jobs'[j].status # "absent"
        BY <2>3 DEF Statuses, InProgress, Verdicts
      <3>. QED BY <1>3, <1>4, <1>5, <1>6, <1>7, <2>3, <3>1
    <2>4. CASE /\ \E a \in Attempts : a.job = j /\ thread[a] = "ready"
               /\ jobs'[j].status \in Statuses
               /\ wf[j].card # NoCard => jobs'[j].result = wf[j].card
      <3>1. jobs'[j].status # "absent"
        BY <2>4 DEF Statuses, InProgress, Verdicts
      <3>2. wf[j].card # NoCard /\ wf[j].pc # "none"
        BY <2>4 DEF ThreadsOK, FlowOK, Attempts, Steps
      <3>3. jobs'[j].result = wf[j].card /\ wf[j].card \in 1..MaxTries
        BY <1>1, <2>4, <3>2 DEF Cards
      <3>. QED BY <1>2, <1>3, <1>5, <1>6, <1>7, <3>1, <3>2, <3>3 DEF NoCard
    <2>. QED BY <2>1, <2>2, <2>3, <2>4, RowFates DEF RagPoints, Statuses
  <1>8. CASE wf'[j] # wf[j]
    <2>1. jobs'[j] = jobs[j]
      <3>1. api[j] # "idle"
        BY <1>3, <1>8, WorkflowFates DEF Steps
      <3>. QED BY <1>8, <3>1, RowFates
    <2>. QED BY <1>1, <1>2, <1>3, <1>5, <1>6, <1>8, <2>1, WorkflowFates DEF Steps, NoCard
  <1>. QED BY <1>7, <1>8

LEMMA LifecycleInit == Init => Lifecycle!AInit
  BY DEF Init, Lifecycle!AInit, PhaseOf, Exists, NoRow, NoWorkflow, NoCard

LEMMA LifecycleStep ==
    ASSUME IInv, [Next]_vars
    PROVE  [Lifecycle!ANext]_(Lifecycle!avars)
  <1>. DEFINE ph == [k \in Jobs |-> PhaseOf(k)]
              cd == [k \in Jobs |-> jobs[k].result]
              wd == [k \in Jobs |-> wf[k].decision]
              vd == [k \in Jobs |-> wf[k].final]
  <1>1. CASE jobs' = jobs /\ wf' = wf
    <2>1. ph' = ph /\ cd' = cd /\ wd' = wd /\ vd' = vd
      BY <1>1 DEF PhaseOf, Exists
    <2>. QED BY <2>1 DEF Lifecycle!avars
  <1>2. ASSUME NEW j \in Jobs,
               \A k \in Jobs \ {j} : jobs'[k] = jobs[k] /\ wf'[k] = wf[k]
        PROVE  [Lifecycle!ANext]_(Lifecycle!avars)
    <2>. DEFINE p == PhaseOf(j)              q == PhaseOf(j)'
                c == jobs[j].result          d == jobs'[j].result
                v == wf[j].final             w == wf'[j].final
                s == wf[j].decision          t == wf'[j].decision
    <2>1. /\ ph' = [ph EXCEPT ![j] = q]
          /\ cd' = [cd EXCEPT ![j] = d]
          /\ wd' = [wd EXCEPT ![j] = t]
          /\ vd' = [vd EXCEPT ![j] = w]
      BY <1>2 DEF PhaseOf, Exists
    <2>2. /\ ph[j] = p /\ cd[j] = c /\ wd[j] = s /\ vd[j] = v
          /\ q = p => ph' = ph
          /\ d = c => cd' = cd
          /\ t = s => wd' = wd
          /\ w = v => vd' = vd
      BY <2>1
    <2>3. s \in Decisions \cup {"none"}
      BY JobTypes DEF IInv
    <2>4. \/ q = p /\ d = c /\ w = v /\ t = s
          \/ p = "absent" /\ q = "accepted" /\ d = c /\ w = v /\ t = s
          \/ p = "accepted" /\ q = "running" /\ d = c /\ w = v /\ t = s
          \/ p \in {"running", "failed"} /\ q = p /\ c = 0 /\ d \in 1..MaxTries
                /\ w = v /\ t = s
          \/ p = "running" /\ q = p /\ d = c /\ w = v /\ t \in Decisions
          \/ p = "running" /\ q = p /\ d = c /\ c # 0 /\ t = s /\ v = "none"
                /\ s # "none" /\ w = Verdict(s)
          \/ p = "running" /\ q = "completed" /\ d = c /\ w = v /\ t = s /\ v # "none"
          \/ p = "running" /\ q = "failed" /\ d = c /\ w = v /\ t = s
      BY VisibleMoves
    <2>. HIDE DEF ph, cd, wd, vd, p, q, c, d, v, w, s, t
    <2>5. CASE q = p /\ d = c /\ w = v /\ t = s
      BY <2>2, <2>5 DEF Lifecycle!avars, ph, cd, wd, vd
    <2>6. CASE p = "absent" /\ q = "accepted" /\ d = c /\ w = v /\ t = s
      <3>1. Lifecycle!Accept(j)
        BY <2>1, <2>2, <2>6 DEF Lifecycle!Accept, ph, cd, wd, vd
      <3>. QED BY <3>1 DEF Lifecycle!ANext
    <2>7. CASE p = "accepted" /\ q = "running" /\ d = c /\ w = v /\ t = s
      <3>1. Lifecycle!Start(j)
        BY <2>1, <2>2, <2>7 DEF Lifecycle!Start, ph, cd, wd, vd
      <3>. QED BY <3>1 DEF Lifecycle!ANext
    <2>8. CASE p \in {"running", "failed"} /\ q = p /\ c = 0 /\ d \in 1..MaxTries
                 /\ w = v /\ t = s
      <3>1. Lifecycle!Show(j)
        BY <2>1, <2>2, <2>8 DEF Lifecycle!Show, ph, cd, wd, vd
      <3>. QED BY <3>1 DEF Lifecycle!ANext
    <2>9. CASE p = "running" /\ q = p /\ d = c /\ w = v /\ t \in Decisions
      <3>1. Lifecycle!Speak(j)
        BY <2>1, <2>2, <2>9 DEF Lifecycle!Speak, Decisions, ph, cd, wd, vd
      <3>. QED BY <3>1 DEF Lifecycle!ANext
    <2>10. CASE p = "running" /\ q = p /\ d = c /\ c # 0 /\ t = s /\ v = "none"
                  /\ s # "none" /\ w = Verdict(s)
      <3>1. \/ s = "approve" /\ w = "approved"
            \/ s = "request_changes" /\ w = "rejected"
        BY <2>3, <2>10 DEF Verdict, Decisions
      <3>2. Lifecycle!Decide(j)
        BY <2>1, <2>2, <2>10, <3>1 DEF Lifecycle!Decide, ph, cd, wd, vd
      <3>. QED BY <3>2 DEF Lifecycle!ANext
    <2>11. CASE p = "running" /\ q = "completed" /\ d = c /\ w = v /\ t = s /\ v # "none"
      <3>1. Lifecycle!Complete(j)
        BY <2>1, <2>2, <2>11 DEF Lifecycle!Complete, ph, cd, wd, vd
      <3>. QED BY <3>1 DEF Lifecycle!ANext
    <2>12. CASE p = "running" /\ q = "failed" /\ d = c /\ w = v /\ t = s
      <3>1. Lifecycle!Fail(j)
        BY <2>1, <2>2, <2>12 DEF Lifecycle!Fail, ph, cd, wd, vd
      <3>. QED BY <3>1 DEF Lifecycle!ANext
    <2>. QED BY <2>4, <2>5, <2>6, <2>7, <2>8, <2>9, <2>10, <2>11, <2>12
  <1>. QED BY <1>1, <1>2, OneJobAtATime DEF IInv

\* Requests, threads, retries, crashes and lost answers together do nothing a
\* reader of a job could tell from JobLifecycle.
THEOREM Implementation == Spec => ImplementsLifecycle
  <1>1. Init => Lifecycle!AInit
    BY LifecycleInit
  <1>2. IInv /\ [Next]_vars => [Lifecycle!ANext]_(Lifecycle!avars)
    BY LifecycleStep
  <1>. QED BY <1>1, <1>2, Invariance, PTL DEF Spec, ImplementsLifecycle, Lifecycle!ASpec
============================================================================
