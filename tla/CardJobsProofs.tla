--------------------------- MODULE CardJobsProofs ---------------------------
(***************************************************************************)
(* Theorems about CardJobs, for any set of requests, any keys and any      *)
(* number of attempts and rounds.                                          *)
(***************************************************************************)
EXTENDS CardJobs, TLAPS

----------------------------------------------------------------------------
(* The inductive invariant: what the parties know of each other.           *)

\* A row is there before its workflow.
RowsOK ==
    \A j \in Jobs :
        /\ api[j] = "idle" => jobs[j] = NoRow
        /\ api[j] = "starting" => Exists(jobs[j]) /\ wf[j].pc = "none"
        /\ wf[j].pc # "none" => Exists(jobs[j])

\* What a workflow has at each of its steps.
Flow(w) ==
    /\ w.pc \in {"none", "extracting", "extract"} => w.round = 0 /\ w.card = NoCard
    /\ w.pc \in {"generating", "generate"} => w.card < w.round
    /\ w.pc \in {"critiquing", "critique", "await", "waiting", "final", "completed"} =>
          w.card = w.round /\ w.round # 0
    /\ w.pc \notin {"final", "completed", "failed"} => w.final = "none"
    /\ w.pc \in {"final", "completed"} => w.final # "none"
    /\ w.final # "none" => w.card = w.round /\ w.round # 0
    /\ w.card <= w.round
    /\ w.pc \in Publishing \cup Modelling => w.try \in Tries
FlowOK == \A j \in Jobs : Flow(wf[j])

\* The workflow has come to the publish.
Reached(w, publish) ==
    /\ publish[1] = "extracting" => w.pc # "none"
    /\ publish[1] = "generating" => publish[2] <= w.round
    /\ publish[1] = "critiquing" => publish[2] <= w.card
    /\ publish[1] = "await" => /\ w.card = w.round /\ w.round # 0
                               /\ w.pc \in {"await", "waiting", "final", "completed", "failed"}
    /\ publish[1] = "final" => w.final # "none"

\* An attempt that runs was scheduled, and the server waits for one that has
\* written and not been given up.
ThreadsOK ==
    \A a \in Attempts :
        /\ thread[a] # "idle" =>
              /\ Reached(wf[a.job], a.publish)
              /\ wf[a.job].pc \in Publishing /\ a.publish = PublishOf(wf[a.job])
                    => a.try <= wf[a.job].try
        /\ thread[a] = "wrote" => Current(a)

\* What the row shows, and when.
ShownOK ==
    /\ \A j \in Jobs :
          /\ wf[j].pc = "waiting" \/ wf[j].final # "none" => jobs[j].result = wf[j].card
          /\ jobs[j].status \in Verdicts => jobs[j].status = wf[j].final
    /\ \A a \in Attempts :
          thread[a] = "wrote" /\ a.publish[1] = "await" =>
              jobs[a.job].result = wf[a.job].card

\* A round is counted when it is announced, and its draft is asked for after.
CountOK ==
    \A j \in Jobs :
        /\ wf[j].round <= jobs[j].attempts + 1
        /\ wf[j].card <= jobs[j].attempts
        /\ wf[j].pc \in {"generate", "critiquing", "critique", "await", "waiting", "final",
                         "completed"} => wf[j].round <= jobs[j].attempts
        /\ \A a \in Attempts :
              a.job = j /\ thread[a] = "wrote" /\ a.publish[1] = "generating"
                 => wf[j].round <= jobs[j].attempts

\* While no publish has outlived its timeout, the one that runs is the one the
\* workflow waits for, and what it wrote still stands.
InTime ==
    \A a \in Attempts : a.job \notin overran =>
        /\ thread[a] = "ready" => Current(a)
        /\ thread[a] = "wrote" => jobs[a.job].status = StatusOf(a)

IInv == /\ TypeOK /\ RowsOK /\ FlowOK /\ ThreadsOK
        /\ ShownOK /\ OnlyTheLastDraftShows /\ CountOK
InTimeInv == InTime /\ StageIsShown

----------------------------------------------------------------------------
(* The operators on rows and workflows: types and values.                  *)

\* A row with one column replaced by a value of its type is a row.
LEMMA RowFields ==
    ASSUME NEW row \in Row
    PROVE  /\ \A s \in Statuses : [row EXCEPT !.status = s] \in Row
           /\ \A c \in Cards \cup {NoCard} : [row EXCEPT !.result = c] \in Row
           /\ \A n \in Nat : [row EXCEPT !.attempts = n] \in Row
  BY DEF Row

\* The row after a publish of status s with card c.
WithStatus(row, s, c) == SetStatus(row, s, c, NoCard, "none", s = "generating")

\* set_job_status_activity writes a row, and never takes a card or a count back.
LEMMA Written ==
    ASSUME NEW row \in Row, NEW s \in Statuses, NEW c \in Cards \cup {NoCard}
    PROVE  LET new == WithStatus(row, s, c)
           IN  /\ new \in Row
               /\ new.status = s
               /\ new.result = IF c = NoCard THEN row.result ELSE c
               /\ new.attempts = IF s = "generating" THEN row.attempts + 1 ELSE row.attempts
  <1>. DEFINE c2 == IF c = NoCard THEN row.result ELSE c
              n2 == IF s = "generating" THEN row.attempts + 1 ELSE row.attempts
  <1>1. /\ row.result \in Cards \cup {NoCard} /\ row.attempts \in Nat
        /\ row = [key |-> row.key, status |-> row.status, attempts |-> row.attempts,
                  result |-> row.result, guard |-> row.guard, error |-> row.error]
    BY DEF Row
  <1>2. WithStatus(row, s, c) =
           [[[row EXCEPT !.status = s] EXCEPT !.result = c2] EXCEPT !.attempts = n2]
    BY <1>1 DEF SetStatus, WithStatus
  <1>3. c2 \in Cards \cup {NoCard} /\ n2 \in Nat
    BY <1>1
  <1>. HIDE DEF c2, n2
  <1>4. [row EXCEPT !.status = s] \in Row
    BY RowFields
  <1>5. [[row EXCEPT !.status = s] EXCEPT !.result = c2] \in Row
    BY <1>3, <1>4, RowFields
  <1>6. [[[row EXCEPT !.status = s] EXCEPT !.result = c2] EXCEPT !.attempts = n2] \in Row
    BY <1>3, <1>5, RowFields
  <1>7. LET new == [[[row EXCEPT !.status = s] EXCEPT !.result = c2] EXCEPT !.attempts = n2]
        IN  new.status = s /\ new.result = c2 /\ new.attempts = n2
    BY <1>1
  <1>. QED BY <1>2, <1>6, <1>7 DEF c2, n2

\* The rows that stand for "no row" and "a new row" are rows.
LEMMA NewRows ==
    /\ NoRow \in Row /\ NoRow.status = "absent" /\ NoRow.result = NoCard
    /\ NoRow.attempts = 0
    /\ \A key \in Keys \cup {NoKey} :
          /\ NewRow(key) \in Row /\ NewRow(key).status = "pending"
          /\ NewRow(key).result = NoCard /\ NewRow(key).attempts = 0
  BY DEF Row, NoRow, NewRow, Statuses, InProgress, Verdicts

\* A workflow with one field replaced by a value of its type is a workflow.
LEMMA WorkflowFields ==
    ASSUME NEW w \in Workflow
    PROVE  /\ \A p \in Publishing \cup Modelling
                          \cup {"none", "waiting", "completed", "failed"} :
                 [w EXCEPT !.pc = p] \in Workflow
           /\ \A t \in 0..MaxTries : [w EXCEPT !.try = t] \in Workflow
           /\ \A n \in 0..MaxRounds : [w EXCEPT !.round = n] \in Workflow
           /\ \A c \in Cards : [w EXCEPT !.card = c] \in Workflow
           /\ \A d \in Decisions : [w EXCEPT !.decision = d] \in Workflow
           /\ \A v \in Verdicts : [w EXCEPT !.final = v] \in Workflow
  BY DEF Workflow

\* What a workflow holds.
LEMMA WorkflowTypes ==
    ASSUME NEW w \in Workflow
    PROVE  /\ w.pc \in Publishing \cup Modelling
                          \cup {"none", "waiting", "completed", "failed"}
           /\ w.try \in 0..MaxTries /\ w.round \in 0..MaxRounds
           /\ w.card \in Cards \cup {NoCard}
           /\ w.round \in Nat /\ w.card \in Nat /\ w.try \in Nat
           /\ w.decision \in Decisions \cup {"none"}
           /\ w.final \in Verdicts \cup {"none"}
           /\ MaxRounds \in Nat /\ MaxTries \in Nat
  BY BoundsAssumption DEF Workflow, Cards, NoCard

\* The workflow goes to a step of its own, or comes to an end.
LEMMA Stepped ==
    ASSUME NEW w \in Workflow
    PROVE  /\ \A p \in Publishing \cup Modelling : AtStep(w, p) \in Workflow
           /\ \A p \in {"waiting", "completed", "failed"} : Closed(w, p) \in Workflow
  <1>1. 0 \in 0..MaxTries /\ 1 \in 0..MaxTries
    BY BoundsAssumption
  <1>2. ASSUME NEW p \in Publishing \cup Modelling
                            \cup {"none", "waiting", "completed", "failed"},
               NEW t \in 0..MaxTries
        PROVE  [w EXCEPT !.pc = p, !.try = t] \in Workflow
    <2>1. [w EXCEPT !.pc = p] \in Workflow
      BY WorkflowFields
    <2>2. [[w EXCEPT !.pc = p] EXCEPT !.try = t] \in Workflow
      BY <2>1, WorkflowFields
    <2>. QED BY <2>2
  <1>. QED BY <1>1, <1>2 DEF AtStep, Closed

\* What the moves of the control write.
LEMMA Moved ==
    ASSUME NEW w \in Workflow, NEW p
    PROVE  /\ AtStep(w, p).pc = p /\ AtStep(w, p).try = 1
           /\ AtStep(w, p).round = w.round /\ AtStep(w, p).card = w.card
           /\ AtStep(w, p).decision = w.decision /\ AtStep(w, p).final = w.final
           /\ Closed(w, p).pc = p /\ Closed(w, p).try = 0
           /\ Closed(w, p).round = w.round /\ Closed(w, p).card = w.card
           /\ Closed(w, p).decision = w.decision /\ Closed(w, p).final = w.final
  BY DEF Workflow, AtStep, Closed

\* A further round is drafted.
LEMMA NextRoundIs ==
    ASSUME NEW w \in Workflow, w.round < MaxRounds
    PROVE  /\ NextRound(w) \in Workflow
           /\ NextRound(w).pc = "generating" /\ NextRound(w).try = 1
           /\ NextRound(w).round = w.round + 1 /\ NextRound(w).card = w.card
           /\ NextRound(w).decision = w.decision /\ NextRound(w).final = w.final
  <1>1. AtStep(w, "generating") \in Workflow
    BY Stepped DEF Publishing, Stages
  <1>2. w.round + 1 \in 0..MaxRounds
    BY WorkflowTypes
  <1>3. NextRound(w) = [AtStep(w, "generating") EXCEPT !.round = w.round + 1]
    BY <1>1, Moved DEF NextRound, Workflow
  <1>4. NextRound(w) \in Workflow
    BY <1>1, <1>2, <1>3, WorkflowFields
  <1>5. ASSUME NEW u \in Workflow, NEW n
        PROVE  LET v == [u EXCEPT !.round = n]
               IN  /\ v.pc = u.pc /\ v.try = u.try /\ v.round = n /\ v.card = u.card
                   /\ v.decision = u.decision /\ v.final = u.final
    BY DEF Workflow
  <1>. QED BY <1>1, <1>3, <1>4, <1>5, Moved

\* A draft is there.
LEMMA DraftedIs ==
    ASSUME NEW w \in Workflow, w.round # 0
    PROVE  LET v == [AtStep(w, "critiquing") EXCEPT !.card = w.round]
           IN  /\ v \in Workflow
               /\ v.pc = "critiquing" /\ v.try = 1
               /\ v.round = w.round /\ v.card = w.round
               /\ v.decision = w.decision /\ v.final = w.final
  <1>1. AtStep(w, "critiquing") \in Workflow
    BY Stepped DEF Publishing, Stages
  <1>2. w.round \in Cards
    BY WorkflowTypes DEF Cards
  <1>3. ASSUME NEW u \in Workflow, NEW n
        PROVE  LET v == [u EXCEPT !.card = n]
               IN  /\ v.pc = u.pc /\ v.try = u.try /\ v.round = u.round /\ v.card = n
                   /\ v.decision = u.decision /\ v.final = u.final
    BY DEF Workflow
  <1>. QED BY <1>1, <1>2, <1>3, Moved, WorkflowFields

\* The wait is over: the verdict is the word of the human.
LEMMA DecidedIs ==
    ASSUME NEW w \in Workflow
    PROVE  /\ Decided(w) \in Workflow
           /\ Decided(w).pc = "final" /\ Decided(w).try = 1
           /\ Decided(w).round = w.round /\ Decided(w).card = w.card
           /\ Decided(w).decision = w.decision
           /\ Decided(w).final = Verdict(w.decision) /\ Verdict(w.decision) # "none"
  <1>1. AtStep(w, "final") \in Workflow
    BY Stepped DEF Publishing
  <1>2. Verdict(w.decision) \in Verdicts /\ Verdict(w.decision) # "none"
    BY DEF Verdict, Verdicts
  <1>3. ASSUME NEW u \in Workflow, NEW n
        PROVE  LET v == [u EXCEPT !.final = n]
               IN  /\ v.pc = u.pc /\ v.try = u.try /\ v.round = u.round /\ v.card = u.card
                   /\ v.decision = u.decision /\ v.final = n
    BY DEF Workflow
  <1>. QED BY <1>1, <1>2, <1>3, Moved, WorkflowFields DEF Decided

\* An attempt failed: another one, or the end.
LEMMA FailedIs ==
    ASSUME NEW w \in Workflow
    PROVE  LET v == AfterFailure(w)
           IN  /\ v \in Workflow
               /\ \/ v.pc = w.pc /\ v.try = w.try + 1 /\ v.try \in Tries
                  \/ v.pc = "failed"
               /\ v.round = w.round /\ v.card = w.card
               /\ v.decision = w.decision /\ v.final = w.final
  <1>1. CASE w.try < MaxTries
    <2>1. w.try + 1 \in 0..MaxTries /\ w.try + 1 \in Tries
      BY <1>1, WorkflowTypes DEF Tries
    <2>2. AfterFailure(w) = [w EXCEPT !.try = w.try + 1]
      BY <1>1 DEF AfterFailure
    <2>3. LET v == [w EXCEPT !.try = w.try + 1]
          IN  /\ v.pc = w.pc /\ v.try = w.try + 1 /\ v.round = w.round /\ v.card = w.card
              /\ v.decision = w.decision /\ v.final = w.final
      BY DEF Workflow
    <2>. QED BY <2>1, <2>2, <2>3, WorkflowFields
  <1>2. CASE ~(w.try < MaxTries)
    <2>1. AfterFailure(w) = Closed(w, "failed")
      BY <1>2 DEF AfterFailure
    <2>. QED BY <2>1, Stepped, Moved
  <1>. QED BY <1>1, <1>2

\* A status was published.
LEMMA PublishedIs ==
    ASSUME NEW w \in Workflow, w.pc \in Publishing
    PROVE  LET v == AfterPublish(w)
           IN  /\ v \in Workflow
               /\ \/ w.pc = "extracting" /\ v.pc = "extract" /\ v.try = 1
                  \/ w.pc = "generating" /\ v.pc = "generate" /\ v.try = 1
                  \/ w.pc = "critiquing" /\ v.pc = "critique" /\ v.try = 1
                  \/ w.pc = "await" /\ v.pc = "waiting"
                  \/ w.pc = "final" /\ v.pc = "completed"
               /\ v.round = w.round /\ v.card = w.card
               /\ v.decision = w.decision /\ v.final = w.final
  <1>1. /\ w.pc = "extracting" => AfterPublish(w) = AtStep(w, "extract")
        /\ w.pc = "generating" => AfterPublish(w) = AtStep(w, "generate")
        /\ w.pc = "critiquing" => AfterPublish(w) = AtStep(w, "critique")
        /\ w.pc = "await" => AfterPublish(w) = Closed(w, "waiting")
        /\ w.pc = "final" => AfterPublish(w) = Closed(w, "completed")
    BY DEF AfterPublish
  <1>2. w.pc \in {"extracting", "generating", "critiquing", "await", "final"}
    BY DEF Publishing, Stages
  <1>3. {"extract", "generate", "critique"} \subseteq Publishing \cup Modelling
    BY DEF Modelling
  <1>. QED BY <1>1, <1>2, <1>3, Stepped, Moved

\* A decision is noted.
LEMMA NotedIs ==
    ASSUME NEW w \in Workflow, NEW d \in Decisions
    PROVE  LET v == [w EXCEPT !.decision = d]
           IN  /\ v \in Workflow
               /\ v.pc = w.pc /\ v.try = w.try /\ v.round = w.round /\ v.card = w.card
               /\ v.decision = d /\ v.final = w.final
  BY WorkflowFields DEF Workflow

----------------------------------------------------------------------------
(* What a step of the service can do to one job and to one thread. The     *)
(* proofs below argue by job from these facts, not by action.              *)

\* No attempt of the job has written, and one that has still to write was known
\* to be late or is now.
NoneStands(j) ==
    /\ jobs' = jobs
    /\ \A a \in Attempts : a.job = j =>
          /\ thread'[a] # "wrote"
          /\ thread'[a] = "ready" => thread[a] = "ready" /\ (Current(a) => j \in overran')

\* The moves of one workflow.
WorkflowMove(j) ==
    \/ wf'[j] = wf[j]
    \/ \E d \in Decisions : /\ wf[j].pc \notin {"none", "completed", "failed"}
                            /\ wf'[j] = [wf[j] EXCEPT !.decision = d]
                            /\ jobs' = jobs /\ thread' = thread
    \/ /\ NoneStands(j)
       /\ \/ /\ api[j] = "starting" /\ api'[j] = "ended"
             /\ wf'[j] = AtStep(wf[j], "extracting")
          \/ wf[j].pc \in Modelling /\ wf'[j] \in AfterModel(wf[j])
          \/ wf[j].pc \in Publishing \cup Modelling /\ wf'[j] = AfterFailure(wf[j])
          \/ \E a \in Attempts : /\ a.job = j /\ thread[a] = "wrote" /\ Current(a)
                                 /\ wf'[j] = AfterPublish(wf[j])
          \/ wf[j].pc = "waiting" /\ wf[j].decision # "none" /\ wf'[j] = Decided(wf[j])

\* What an attempt writes.
WrittenBy(a) == WithStatus(jobs[a.job], StatusOf(a), CardAt(a))

\* The writes of one row.
RowMove(j) ==
    \/ jobs'[j] = jobs[j]
    \/ api[j] = "idle" /\ api'[j] = "starting" /\ jobs'[j] = NewRow(KeyOf[j])
    \/ \E a \in Attempts :
          /\ a.job = j /\ thread[a] = "ready" /\ wf' = wf
          /\ thread'[a] = IF Current(a) THEN "wrote" ELSE "gone"
          /\ jobs'[j] = WrittenBy(a)

\* The moves of one thread.
ThreadMove(a) ==
    \/ thread'[a] = thread[a]
    \/ thread[a] = "idle" /\ Current(a) /\ thread'[a] = "ready" /\ wf' = wf /\ jobs' = jobs
    \/ /\ thread[a] = "ready" /\ Current(a) /\ thread'[a] = "wrote" /\ wf' = wf
       /\ jobs'[a.job] = WrittenBy(a)
    \/ thread[a] # "idle" /\ thread'[a] = "gone"

\* The moves of one request.
RequestMove(j) ==
    \/ api'[j] = api[j]
    \/ /\ api[j] = "idle" /\ api'[j] = "ended"
    \/ api[j] = "idle" /\ api'[j] = "starting" /\ jobs'[j] = NewRow(KeyOf[j])
    \/ api[j] = "starting" /\ api'[j] = "ended"

LEMMA AttemptFields ==
    ASSUME NEW a \in Attempts
    PROVE  /\ a.job \in Jobs /\ a.try \in Tries /\ a.try \in Nat /\ a.publish \in Publishes
           /\ a.publish[1] \in Publishing /\ a.publish[2] \in Nat
           /\ a.publish = <<a.publish[1], a.publish[2]>>
           /\ a.publish[1] \in {"generating", "critiquing"} => a.publish[2] # 0
  <1>1. a.job \in Jobs /\ a.try \in Tries /\ a.publish \in Publishes
    BY DEF Attempts
  <1>2. a.try \in Nat
    BY <1>1, BoundsAssumption DEF Tries
  <1>3. ASSUME NEW p \in {"generating", "critiquing"} \X (1..MaxRounds)
        PROVE  /\ p[1] \in Publishing /\ p[2] \in Nat /\ p = <<p[1], p[2]>> /\ p[2] # 0
    BY BoundsAssumption DEF Publishing, Stages
  <1>4. ASSUME NEW p \in {"extracting", "await", "final"} \X {0}
        PROVE  /\ p[1] \in Publishing /\ p[2] \in Nat /\ p = <<p[1], p[2]>>
               /\ p[1] \notin {"generating", "critiquing"}
    BY DEF Publishing, Stages
  <1>. QED BY <1>1, <1>2, <1>3, <1>4 DEF Publishes

\* The server waits for one attempt of a job at a time.
LEMMA OneIsCurrent ==
    ASSUME NEW a \in Attempts, NEW b \in Attempts, Current(a), Current(b), a.job = b.job
    PROVE  a = b
  <1>1. a.publish = b.publish /\ a.try = b.try
    BY DEF Current
  <1>2. /\ a = [job |-> a.job, publish |-> a.publish, try |-> a.try]
        /\ b = [job |-> b.job, publish |-> b.publish, try |-> b.try]
    BY DEF Attempts
  <1>. QED BY <1>1, <1>2

\* While the workflow does not wait for a publish, none stands.
LEMMA NoneCurrent ==
    ASSUME ThreadsOK, NEW j \in Jobs, wf[j].pc \notin Publishing,
           jobs' = jobs, thread' = thread
    PROVE  NoneStands(j)
  BY DEF ThreadsOK, NoneStands, Current

LEMMA WorkflowMoves ==
    ASSUME TypeOK, RowsOK, ThreadsOK, [Next]_vars, NEW j \in Jobs
    PROVE  WorkflowMove(j)
  <1>. USE DEF TypeOK
  <1>0. /\ {"none", "waiting"} \cap Publishing = {} /\ Modelling \cap Publishing = {}
        /\ \A a \in Attempts : a.job \in Jobs
    BY AttemptFields DEF Publishing, Modelling, Stages
  <1>1. ASSUME NEW r \in Jobs, CreateJob(r) \/ StartFails(r) PROVE WorkflowMove(j)
    BY <1>1 DEF CreateJob, StartFails, WorkflowMove
  <1>2. ASSUME NEW r \in Jobs, StartWorkflow(r) PROVE WorkflowMove(j)
    <2>1. r = j => NoneStands(j)
      BY <1>0, <1>2, NoneCurrent DEF StartWorkflow, RowsOK
    <2>. QED BY <1>2, <2>1 DEF StartWorkflow, WorkflowMove
  <1>3. ASSUME NEW i \in Jobs, ModelReturns(i) PROVE WorkflowMove(j)
    <2>1. i = j => NoneStands(j)
      BY <1>0, <1>3, NoneCurrent DEF ModelReturns
    <2>. QED BY <1>3, <2>1 DEF ModelReturns, WorkflowMove
  <1>4. ASSUME NEW i \in Jobs, ModelFails(i) PROVE WorkflowMove(j)
    <2>1. i = j => NoneStands(j)
      BY <1>0, <1>4, NoneCurrent DEF ModelFails
    <2>. QED BY <1>4, <2>1 DEF ModelFails, WorkflowMove
  <1>5. ASSUME NEW i \in Jobs, WaitOver(i) PROVE WorkflowMove(j)
    <2>1. i = j => NoneStands(j)
      BY <1>0, <1>5, NoneCurrent DEF WaitOver
    <2>. QED BY <1>5, <2>1 DEF WaitOver, WorkflowMove
  <1>6. ASSUME NEW i \in Jobs, NEW d \in Decisions, Signal(i, d) PROVE WorkflowMove(j)
    BY <1>6 DEF Signal, WorkflowMove
  <1>7. ASSUME NEW a \in Attempts, Dispatch(a) \/ PublishStatus(a) PROVE WorkflowMove(j)
    BY <1>7 DEF Dispatch, PublishStatus, WorkflowMove
  <1>8. ASSUME NEW a \in Attempts, Timeout(a) PROVE WorkflowMove(j)
    <2>1. ASSUME NEW b \in Attempts, b.job = a.job
          PROVE  /\ thread'[b] # "wrote"
                 /\ thread'[b] = "ready" =>
                       thread[b] = "ready" /\ (Current(b) => b.job \in overran')
      <3>1. b # a => ~Current(b)
        BY <1>8, <2>1, OneIsCurrent DEF Timeout
      <3>. QED BY <1>8, <2>1, <3>1 DEF Timeout, ThreadsOK
    <2>2. a.job = j => NoneStands(j)
      BY <1>8, <2>1 DEF Timeout, NoneStands
    <2>. QED BY <1>0, <1>8, <2>2 DEF Timeout, WorkflowMove, Current
  <1>9. ASSUME NEW a \in Attempts, PublishFails(a) \/ ReportPublished(a)
        PROVE  WorkflowMove(j)
    <2>1. ASSUME Current(a), NEW b \in Attempts, b.job = a.job
          PROVE  /\ thread'[b] # "wrote"
                 /\ thread'[b] = "ready" => thread[b] = "ready" /\ ~Current(b)
      <3>1. b # a => ~Current(b)
        BY <2>1, OneIsCurrent
      <3>. QED BY <1>9, <2>1, <3>1 DEF PublishFails, ReportPublished, ThreadsOK
    <2>2. a.job = j /\ Current(a) => NoneStands(j)
      BY <1>9, <2>1 DEF PublishFails, ReportPublished, NoneStands
    <2>. QED BY <1>0, <1>9, <2>2 DEF PublishFails, ReportPublished, WorkflowMove, Current
  <1>10. CASE WorkerCrash
    BY <1>10 DEF WorkerCrash, WorkflowMove
  <1>11. CASE UNCHANGED vars
    BY <1>11 DEF vars, WorkflowMove
  <1>. QED
    BY <1>1, <1>2, <1>3, <1>4, <1>5, <1>6, <1>7, <1>8, <1>9, <1>10, <1>11 DEF Next

LEMMA RowMoves ==
    ASSUME TypeOK, [Next]_vars, NEW j \in Jobs
    PROVE  RowMove(j)
  <1>. USE DEF TypeOK
  <1>1. ASSUME NEW r \in Jobs, CreateJob(r) \/ StartWorkflow(r) \/ StartFails(r)
        PROVE  RowMove(j)
    BY <1>1 DEF CreateJob, StartWorkflow, StartFails, RowMove
  <1>2. ASSUME NEW i \in Jobs, ModelReturns(i) \/ ModelFails(i) \/ WaitOver(i)
        PROVE  RowMove(j)
    BY <1>2 DEF ModelReturns, ModelFails, WaitOver, RowMove
  <1>3. ASSUME NEW i \in Jobs, NEW d \in Decisions, Signal(i, d) PROVE RowMove(j)
    BY <1>3 DEF Signal, RowMove
  <1>4. ASSUME NEW a \in Attempts, PublishStatus(a) PROVE RowMove(j)
    BY <1>4, AttemptFields DEF PublishStatus, RowMove, WrittenBy, WithStatus
  <1>5. ASSUME NEW a \in Attempts,
               Dispatch(a) \/ Timeout(a) \/ PublishFails(a) \/ ReportPublished(a)
        PROVE  RowMove(j)
    BY <1>5 DEF Dispatch, Timeout, PublishFails, ReportPublished, RowMove
  <1>6. CASE WorkerCrash \/ UNCHANGED vars
    BY <1>6 DEF WorkerCrash, vars, RowMove
  <1>. QED BY <1>1, <1>2, <1>3, <1>4, <1>5, <1>6 DEF Next

LEMMA ThreadMoves ==
    ASSUME TypeOK, [Next]_vars, NEW b \in Attempts
    PROVE  ThreadMove(b)
  <1>. USE DEF TypeOK
  <1>1. ASSUME NEW r \in Jobs, CreateJob(r) \/ StartWorkflow(r) \/ StartFails(r)
        PROVE  ThreadMove(b)
    BY <1>1 DEF CreateJob, StartWorkflow, StartFails, ThreadMove
  <1>2. ASSUME NEW i \in Jobs, ModelReturns(i) \/ ModelFails(i) \/ WaitOver(i)
        PROVE  ThreadMove(b)
    BY <1>2 DEF ModelReturns, ModelFails, WaitOver, ThreadMove
  <1>3. ASSUME NEW i \in Jobs, NEW d \in Decisions, Signal(i, d) PROVE ThreadMove(b)
    BY <1>3 DEF Signal, ThreadMove
  <1>4. ASSUME NEW a \in Attempts, PublishStatus(a) PROVE ThreadMove(b)
    BY <1>4, AttemptFields DEF PublishStatus, ThreadMove, WrittenBy, WithStatus
  <1>5. ASSUME NEW a \in Attempts,
               Dispatch(a) \/ Timeout(a) \/ PublishFails(a) \/ ReportPublished(a)
        PROVE  ThreadMove(b)
    BY <1>5 DEF Dispatch, Timeout, PublishFails, ReportPublished, ThreadMove
  <1>6. CASE WorkerCrash \/ UNCHANGED vars
    BY <1>6 DEF WorkerCrash, vars, ThreadMove, Live
  <1>. QED BY <1>1, <1>2, <1>3, <1>4, <1>5, <1>6 DEF Next

\* Requests move on, and a job that overran has overrun for good.
LEMMA RequestMoves ==
    ASSUME TypeOK, [Next]_vars, NEW j \in Jobs
    PROVE  RequestMove(j) /\ overran \subseteq overran'
  <1>. USE DEF TypeOK
  <1>1. ASSUME NEW r \in Jobs, CreateJob(r) \/ StartWorkflow(r) \/ StartFails(r)
        PROVE  RequestMove(j) /\ overran \subseteq overran'
    BY <1>1 DEF CreateJob, StartWorkflow, StartFails, RequestMove
  <1>2. ASSUME NEW i \in Jobs, ModelReturns(i) \/ ModelFails(i) \/ WaitOver(i)
        PROVE  RequestMove(j) /\ overran \subseteq overran'
    BY <1>2 DEF ModelReturns, ModelFails, WaitOver, RequestMove
  <1>3. ASSUME NEW i \in Jobs, NEW d \in Decisions, Signal(i, d)
        PROVE  RequestMove(j) /\ overran \subseteq overran'
    BY <1>3 DEF Signal, RequestMove
  <1>4. ASSUME NEW a \in Attempts,
               \/ PublishStatus(a) \/ Dispatch(a) \/ Timeout(a)
               \/ PublishFails(a) \/ ReportPublished(a)
        PROVE  RequestMove(j) /\ overran \subseteq overran'
    BY <1>4 DEF Dispatch, Timeout, PublishStatus, PublishFails, ReportPublished, RequestMove
  <1>5. CASE WorkerCrash \/ UNCHANGED vars
    BY <1>5 DEF WorkerCrash, vars, RequestMove
  <1>. QED BY <1>1, <1>2, <1>3, <1>4, <1>5 DEF Next

\* A step touches the row and the workflow of one job at most.
LEMMA OneJobAtATime ==
    ASSUME TypeOK, [Next]_vars
    PROVE  \/ jobs' = jobs /\ wf' = wf
           \/ \E j \in Jobs : \A k \in Jobs \ {j} : jobs'[k] = jobs[k] /\ wf'[k] = wf[k]
  <1>. DEFINE Here == \/ jobs' = jobs /\ wf' = wf
                      \/ \E j \in Jobs : \A k \in Jobs \ {j} :
                            jobs'[k] = jobs[k] /\ wf'[k] = wf[k]
  <1>. USE DEF TypeOK
  <1>1. ASSUME NEW r \in Jobs, CreateJob(r) \/ StartWorkflow(r) \/ StartFails(r)
        PROVE  Here
    BY <1>1 DEF CreateJob, StartWorkflow, StartFails
  <1>2. ASSUME NEW i \in Jobs, ModelReturns(i) \/ ModelFails(i) \/ WaitOver(i) PROVE Here
    BY <1>2 DEF ModelReturns, ModelFails, WaitOver
  <1>3. ASSUME NEW i \in Jobs, NEW d \in Decisions, Signal(i, d) PROVE Here
    BY <1>3 DEF Signal
  <1>4. ASSUME NEW a \in Attempts,
               \/ PublishStatus(a) \/ Dispatch(a) \/ Timeout(a)
               \/ PublishFails(a) \/ ReportPublished(a)
        PROVE  Here
    BY <1>4, AttemptFields
    DEF Dispatch, Timeout, PublishStatus, PublishFails, ReportPublished
  <1>5. CASE WorkerCrash \/ UNCHANGED vars
    BY <1>5 DEF WorkerCrash, vars
  <1>. QED BY <1>1, <1>2, <1>3, <1>4, <1>5 DEF Next

----------------------------------------------------------------------------
(* The same moves, field by field.                                         *)

\* The workflow goes to p and keeps its round, its card, the word and the verdict.
GoesTo(v, w, p) ==
    v.pc = p /\ v.round = w.round /\ v.card = w.card
    /\ v.decision = w.decision /\ v.final = w.final

Fates(v, w) ==
    \/ w.pc = "none" /\ GoesTo(v, w, "extracting") /\ v.try = 1
    \/ /\ w.pc \in {"extract", "critique"} /\ v.pc = "generating" /\ v.try = 1
       /\ v.round = w.round + 1 /\ v.card = w.card
       /\ v.decision = w.decision /\ v.final = w.final
    \/ /\ w.pc = "generate" /\ v.pc = "critiquing" /\ v.try = 1
       /\ v.round = w.round /\ v.card = w.round
       /\ v.decision = w.decision /\ v.final = w.final
    \/ w.pc = "critique" /\ GoesTo(v, w, "await") /\ v.try = 1
    \/ /\ w.pc \in Publishing \cup Modelling
       /\ \/ GoesTo(v, w, w.pc) /\ v.try = w.try + 1 /\ v.try \in Tries
          \/ GoesTo(v, w, "failed")
    \/ /\ w.pc = "waiting" /\ w.decision # "none" /\ v.pc = "final" /\ v.try = 1
       /\ v.round = w.round /\ v.card = w.card
       /\ v.decision = w.decision /\ v.final = Verdict(w.decision) /\ v.final # "none"

PublishedFates(v, w) ==
    \/ w.pc = "extracting" /\ GoesTo(v, w, "extract") /\ v.try = 1
    \/ w.pc = "generating" /\ GoesTo(v, w, "generate") /\ v.try = 1
    \/ w.pc = "critiquing" /\ GoesTo(v, w, "critique") /\ v.try = 1
    \/ w.pc = "await" /\ GoesTo(v, w, "waiting")
    \/ w.pc = "final" /\ GoesTo(v, w, "completed")

LEMMA JobTypes ==
    ASSUME TypeOK, NEW j \in Jobs
    PROVE  /\ wf[j] \in Workflow /\ jobs[j] \in Row
           /\ jobs[j].attempts \in Nat /\ jobs[j].result \in Cards \cup {NoCard}
           /\ jobs[j].result \in Nat
           /\ KeyOf[j] \in Keys \cup {NoKey}
  BY KeysAssumption, BoundsAssumption DEF TypeOK, Row, Cards, NoCard

LEMMA WorkflowFates ==
    ASSUME TypeOK, RowsOK, FlowOK, ThreadsOK, [Next]_vars, NEW j \in Jobs
    PROVE  /\ wf'[j] \in Workflow
           /\ \/ wf'[j] = wf[j]
              \/ /\ wf[j].pc \notin {"none", "completed", "failed"}
                 /\ wf'[j].pc = wf[j].pc /\ wf'[j].try = wf[j].try
                 /\ wf'[j].round = wf[j].round /\ wf'[j].card = wf[j].card
                 /\ wf'[j].decision \in Decisions /\ wf'[j].final = wf[j].final
                 /\ jobs' = jobs /\ thread' = thread
              \/ NoneStands(j) /\ Fates(wf'[j], wf[j])
              \/ /\ NoneStands(j) /\ PublishedFates(wf'[j], wf[j])
                 /\ \E a \in Attempts : a.job = j /\ thread[a] = "wrote" /\ Current(a)
  <1>. DEFINE w == wf[j]
              v == wf'[j]
  <1>0. w \in Workflow
    BY JobTypes
  <1>1. WorkflowMove(j)
    BY WorkflowMoves
  <1>2. ASSUME NEW d \in Decisions, v = [w EXCEPT !.decision = d]
        PROVE  /\ v \in Workflow /\ v.pc = w.pc /\ v.try = w.try
               /\ v.round = w.round /\ v.card = w.card
               /\ v.decision \in Decisions /\ v.final = w.final
    BY <1>0, <1>2, NotedIs
  <1>3. ASSUME api[j] = "starting", v = AtStep(w, "extracting")
        PROVE  v \in Workflow /\ Fates(v, w)
    <2>1. w.pc = "none"
      BY <1>3 DEF RowsOK
    <2>2. v \in Workflow
      BY <1>0, <1>3, Stepped DEF Publishing, Stages
    <2>3. GoesTo(v, w, "extracting") /\ v.try = 1
      BY <1>0, <1>3, Moved DEF GoesTo
    <2>. QED BY <2>1, <2>2, <2>3 DEF Fates
  <1>4. ASSUME w.pc \in Modelling, v \in AfterModel(w)
        PROVE  v \in Workflow /\ Fates(v, w)
    <2>0. /\ w.pc = "extract" => AfterModel(w) = {NextRound(w)}
          /\ w.pc = "generate" =>
                AfterModel(w) = {[AtStep(w, "critiquing") EXCEPT !.card = w.round]}
          /\ w.pc = "critique" =>
                AfterModel(w) = {AtStep(w, "await")} \cup
                                (IF w.round < MaxRounds THEN {NextRound(w)} ELSE {})
          /\ w.pc \in {"extract", "generate", "critique"}
      BY <1>4 DEF AfterModel, Modelling
    <2>1. CASE w.pc = "extract"
      <3>1. w.round < MaxRounds
        BY <2>1, BoundsAssumption DEF FlowOK, Flow
      <3>2. v = NextRound(w)
        BY <1>4, <2>0, <2>1
      <3>. QED BY <1>0, <2>1, <3>1, <3>2, NextRoundIs DEF Fates
    <2>2. CASE w.pc = "generate"
      <3>1. w.round # 0
        BY <1>0, <2>2, WorkflowTypes DEF FlowOK, Flow
      <3>2. v = [AtStep(w, "critiquing") EXCEPT !.card = w.round]
        BY <1>4, <2>0, <2>2
      <3>. HIDE DEF v, w
      <3>. QED BY <1>0, <2>2, <3>1, <3>2, DraftedIs DEF Fates
    <2>3. CASE w.pc = "critique"
      <3>1. CASE v = AtStep(w, "await")
        <4>1. v \in Workflow
          BY <1>0, <3>1, Stepped DEF Publishing
        <4>2. GoesTo(v, w, "await") /\ v.try = 1
          BY <1>0, <3>1, Moved DEF GoesTo
        <4>. QED BY <2>3, <4>1, <4>2 DEF Fates
      <3>2. CASE w.round < MaxRounds /\ v = NextRound(w)
        BY <1>0, <2>3, <3>2, NextRoundIs DEF Fates
      <3>. QED BY <1>4, <2>0, <2>3, <3>1, <3>2
    <2>. QED BY <2>0, <2>1, <2>2, <2>3
  <1>5. ASSUME w.pc \in Publishing \cup Modelling, v = AfterFailure(w)
        PROVE  v \in Workflow /\ Fates(v, w)
    <2>. HIDE DEF v, w
    <2>. QED BY <1>0, <1>5, FailedIs DEF Fates, GoesTo
  <1>6. ASSUME w.pc \in Publishing, v = AfterPublish(w)
        PROVE  v \in Workflow /\ PublishedFates(v, w)
    <2>. HIDE DEF v, w
    <2>. QED BY <1>0, <1>6, PublishedIs DEF PublishedFates, GoesTo
  <1>7. ASSUME w.pc = "waiting", w.decision # "none", v = Decided(w)
        PROVE  v \in Workflow /\ Fates(v, w)
    <2>. HIDE DEF v, w
    <2>. QED BY <1>0, <1>7, DecidedIs DEF Fates
  <1>. QED BY <1>0, <1>1, <1>2, <1>3, <1>4, <1>5, <1>6, <1>7 DEF WorkflowMove, Current

\* The status and the card an attempt is about to write.
LEMMA ToBeWritten ==
    ASSUME TypeOK, FlowOK, ThreadsOK, NEW a \in Attempts, thread[a] = "ready"
    PROVE  /\ StatusOf(a) \in Statuses /\ CardAt(a) \in Cards \cup {NoCard}
           /\ a.publish[1] \in Stages =>
                 StatusOf(a) = a.publish[1] /\ CardAt(a) = NoCard
           /\ a.publish[1] \notin Stages =>
                 /\ StatusOf(a) = IF a.publish[1] = "await" THEN "awaiting_human"
                                  ELSE wf[a.job].final
                 /\ StatusOf(a) \notin Stages
                 /\ CardAt(a) = wf[a.job].card /\ CardAt(a) # NoCard
                 /\ wf[a.job].card = wf[a.job].round
                 /\ wf[a.job].pc \in {"await", "waiting", "final", "completed", "failed"}
  <1>. DEFINE w == wf[a.job]
              s == a.publish[1]
  <1>1. a.job \in Jobs /\ w \in Workflow
    BY AttemptFields, JobTypes
  <1>2. s \in Stages \cup {"await", "final"}
    BY AttemptFields DEF Publishing
  <1>3. CASE s \in Stages
    <2>1. StatusOf(a) = s /\ CardAt(a) = NoCard
      BY <1>3 DEF StatusOf, CardAt, Stages
    <2>. QED BY <1>3, <2>1 DEF Statuses, InProgress, Stages
  <1>4. CASE s = "await"
    <2>1. StatusOf(a) = "awaiting_human" /\ CardAt(a) = w.card
      BY <1>4 DEF StatusOf, CardAt, Stages
    <2>2. /\ w.card = w.round /\ w.round # 0
          /\ w.pc \in {"await", "waiting", "final", "completed", "failed"}
      BY <1>4 DEF ThreadsOK, Reached
    <2>3. w.card \in Cards \cup {NoCard}
      BY <1>1, WorkflowTypes
    <2>. QED BY <1>4, <2>1, <2>2, <2>3 DEF Statuses, Stages, NoCard
  <1>5. CASE s = "final"
    <2>1. StatusOf(a) = w.final /\ CardAt(a) = w.card
      BY <1>5 DEF StatusOf, CardAt, Stages
    <2>2. w.final # "none"
      BY <1>5 DEF ThreadsOK, Reached
    <2>3. w.card = w.round /\ w.round # 0 /\ w.pc \in {"final", "completed", "failed"}
      BY <1>1, <2>2 DEF FlowOK, Flow
    <2>4. w.card \in Cards \cup {NoCard} /\ w.final \in Verdicts
      BY <1>1, <2>2, WorkflowTypes
    <2>. QED BY <1>5, <2>1, <2>3, <2>4 DEF Statuses, Stages, NoCard, Verdicts
  <1>. QED BY <1>2, <1>3, <1>4, <1>5

\* What an attempt writes, column by column.
LEMMA WrittenIs ==
    ASSUME TypeOK, FlowOK, ThreadsOK, NEW a \in Attempts, thread[a] = "ready"
    PROVE  /\ WrittenBy(a) \in Row
           /\ WrittenBy(a).status = StatusOf(a) /\ StatusOf(a) \in Statuses
           /\ WrittenBy(a).result = IF a.publish[1] \in Stages THEN jobs[a.job].result
                                    ELSE wf[a.job].card
           /\ WrittenBy(a).attempts = IF a.publish[1] = "generating"
                                        THEN jobs[a.job].attempts + 1
                                        ELSE jobs[a.job].attempts
  <1>. DEFINE s == StatusOf(a)
              c == CardAt(a)
  <1>1. /\ s \in Statuses /\ c \in Cards \cup {NoCard}
        /\ a.publish[1] \in Stages => s = a.publish[1] /\ c = NoCard
        /\ a.publish[1] \notin Stages => s \notin Stages /\ c = wf[a.job].card /\ c # NoCard
    BY ToBeWritten
  <1>2. WrittenBy(a) = WithStatus(jobs[a.job], s, c) /\ jobs[a.job] \in Row
    BY AttemptFields, JobTypes DEF WrittenBy
  <1>. HIDE DEF s, c
  <1>3. /\ WrittenBy(a) \in Row /\ WrittenBy(a).status = s
        /\ WrittenBy(a).result = IF c = NoCard THEN jobs[a.job].result ELSE c
        /\ WrittenBy(a).attempts = IF s = "generating" THEN jobs[a.job].attempts + 1
                                   ELSE jobs[a.job].attempts
    BY <1>1, <1>2, Written
  <1>4. "generating" \in Stages
    BY DEF Stages
  <1>. QED BY <1>1, <1>3, <1>4 DEF s

\* The outcomes of a step for one row.
LEMMA RowFates ==
    ASSUME TypeOK, FlowOK, ThreadsOK, [Next]_vars, NEW j \in Jobs
    PROVE  \/ jobs'[j] = jobs[j]
           \/ /\ api[j] = "idle" /\ api'[j] = "starting"
              /\ jobs'[j] \in Row /\ jobs'[j].status = "pending"
              /\ jobs'[j].result = NoCard /\ jobs'[j].attempts = 0
           \/ /\ wf' = wf /\ jobs'[j] \in Row
              /\ \E a \in Attempts :
                    /\ a.job = j /\ thread[a] = "ready"
                    /\ thread'[a] = IF Current(a) THEN "wrote" ELSE "gone"
                    /\ jobs'[j].status = StatusOf(a) /\ StatusOf(a) \in Statuses
                    /\ jobs'[j].result =
                          IF a.publish[1] \in Stages THEN jobs[j].result ELSE wf[j].card
                    /\ jobs'[j].attempts = IF a.publish[1] = "generating"
                                             THEN jobs[j].attempts + 1 ELSE jobs[j].attempts
  <1>1. RowMove(j) /\ jobs[j] \in Row /\ KeyOf[j] \in Keys \cup {NoKey}
    BY RowMoves, JobTypes
  <1>. QED BY <1>1, WrittenIs, NewRows DEF RowMove

----------------------------------------------------------------------------
(* The invariant is inductive, conjunct by conjunct.                       *)

\* A step leaves the tables over the same jobs and attempts.
LEMMA Shapes ==
    ASSUME TypeOK, [Next]_vars
    PROVE  /\ jobs' = [j \in Jobs |-> jobs'[j]] /\ api' = [j \in Jobs |-> api'[j]]
           /\ wf' = [j \in Jobs |-> wf'[j]] /\ thread' = [a \in Attempts |-> thread'[a]]
           /\ overran' \subseteq Jobs
  <1>. DEFINE Shape == /\ jobs' = [j \in Jobs |-> jobs'[j]]
                       /\ api' = [j \in Jobs |-> api'[j]]
                       /\ wf' = [j \in Jobs |-> wf'[j]]
                       /\ thread' = [a \in Attempts |-> thread'[a]]
                       /\ overran' \subseteq Jobs
  <1>. USE DEF TypeOK
  <1>1. ASSUME NEW r \in Jobs, CreateJob(r) \/ StartWorkflow(r) \/ StartFails(r)
        PROVE  Shape
    BY <1>1 DEF CreateJob, StartWorkflow, StartFails
  <1>2. ASSUME NEW i \in Jobs, ModelReturns(i) \/ ModelFails(i) \/ WaitOver(i)
        PROVE  Shape
    BY <1>2 DEF ModelReturns, ModelFails, WaitOver
  <1>3. ASSUME NEW i \in Jobs, NEW d \in Decisions, Signal(i, d) PROVE Shape
    BY <1>3 DEF Signal
  <1>4. ASSUME NEW a \in Attempts,
               \/ PublishStatus(a) \/ Dispatch(a) \/ Timeout(a)
               \/ PublishFails(a) \/ ReportPublished(a)
        PROVE  Shape
    BY <1>4, AttemptFields
    DEF Dispatch, Timeout, PublishStatus, PublishFails, ReportPublished
  <1>5. CASE WorkerCrash \/ UNCHANGED vars
    BY <1>5 DEF WorkerCrash, vars
  <1>. QED BY <1>1, <1>2, <1>3, <1>4, <1>5 DEF Next

LEMMA TypeStep ==
    ASSUME TypeOK, RowsOK, FlowOK, ThreadsOK, [Next]_vars
    PROVE  TypeOK'
  <1>1. ASSUME NEW j \in Jobs
        PROVE  jobs'[j] \in Row /\ wf'[j] \in Workflow
    BY JobTypes, RowFates, WorkflowFates
  <1>2. ASSUME NEW j \in Jobs
        PROVE  api'[j] \in {"idle", "starting", "ended"}
    <2>1. api[j] \in {"idle", "starting", "ended"}
      BY DEF TypeOK
    <2>. QED BY <2>1, RequestMoves DEF RequestMove
  <1>3. ASSUME NEW a \in Attempts
        PROVE  thread'[a] \in Threads
    <2>1. thread[a] \in Threads
      BY DEF TypeOK
    <2>. QED BY <2>1, ThreadMoves DEF ThreadMove, Threads
  <1>. QED BY <1>1, <1>2, <1>3, Shapes DEF TypeOK

\* Only a job with a workflow has attempts that run.
LEMMA Scheduled ==
    ASSUME FlowOK, ThreadsOK, NEW a \in Attempts, thread[a] # "idle"
    PROVE  wf[a.job].pc # "none"
  <1>1. Reached(wf[a.job], a.publish)
    BY DEF ThreadsOK
  <1>2. a.publish[1] \in {"extracting", "generating", "critiquing", "await", "final"}
    BY AttemptFields DEF Publishing, Stages
  <1>3. a.publish[1] \in {"generating", "critiquing"} => a.publish[2] \in Nat \ {0}
    BY AttemptFields
  <1>4. wf[a.job].pc = "none" =>
           wf[a.job].round = 0 /\ wf[a.job].card = 0 /\ wf[a.job].final = "none"
    BY AttemptFields DEF FlowOK, Flow, NoCard
  <1>. QED BY <1>1, <1>2, <1>3, <1>4 DEF Reached

LEMMA RowsStep ==
    ASSUME TypeOK, RowsOK, FlowOK, ThreadsOK, [Next]_vars
    PROVE  RowsOK'
  <1>. SUFFICES ASSUME NEW j \in Jobs
                PROVE  /\ api'[j] = "idle" => jobs'[j] = NoRow
                       /\ api'[j] = "starting" => /\ jobs'[j].status # "absent"
                                                  /\ wf'[j].pc = "none"
                       /\ wf'[j].pc # "none" => jobs'[j].status # "absent"
    BY DEF RowsOK, Exists
  <1>0. /\ api[j] = "idle" => jobs[j] = NoRow
        /\ api[j] = "starting" => jobs[j].status # "absent" /\ wf[j].pc = "none"
        /\ wf[j].pc # "none" => jobs[j].status # "absent"
        /\ NoRow.status = "absent"
    BY NewRows DEF RowsOK, Exists
  <1>1. \A a \in Attempts : (a.job = j /\ thread[a] # "idle") => wf[j].pc # "none"
    BY Scheduled
  <1>2. jobs[j].status # "absent" => jobs'[j].status # "absent"
    BY RowFates DEF Statuses, InProgress, Verdicts
  <1>3. wf'[j].pc # "none" => wf[j].pc # "none" \/ api[j] = "starting"
    <2>1. wf[j].pc = "none" /\ wf'[j].pc # "none" => api[j] = "starting"
      <3>. SUFFICES ASSUME wf[j].pc = "none", wf'[j].pc # "none" PROVE api[j] = "starting"
        OBVIOUS
      <3>1. wf[j].pc \notin Publishing \cup Modelling \cup {"waiting"}
        BY DEF Publishing, Modelling, Stages
      <3>. QED BY <3>1, WorkflowMoves DEF WorkflowMove, Current
    <2>. QED BY <2>1
  <1>4. api'[j] = "idle" => jobs'[j] = NoRow
    <2>. SUFFICES ASSUME api'[j] = "idle" PROVE jobs'[j] = NoRow
      OBVIOUS
    <2>1. api[j] = "idle" /\ jobs[j] = NoRow /\ wf[j].pc = "none"
      BY <1>0, RequestMoves DEF RequestMove
    <2>2. \A a \in Attempts : a.job = j => thread[a] = "idle"
      BY <1>1, <2>1
    <2>. QED BY <2>1, <2>2, RowFates
  <1>5. api'[j] = "starting" => jobs'[j].status # "absent" /\ wf'[j].pc = "none"
    <2>. SUFFICES ASSUME api'[j] = "starting"
                  PROVE  jobs'[j].status # "absent" /\ wf'[j].pc = "none"
      OBVIOUS
    <2>1. \/ api[j] = "starting"
          \/ api[j] = "idle" /\ jobs'[j] = NewRow(KeyOf[j])
      BY RequestMoves DEF RequestMove
    <2>2. jobs'[j].status # "absent"
      BY <1>0, <1>2, <2>1, JobTypes, NewRows
    <2>3. wf[j].pc = "none"
      BY <1>0, <2>1
    <2>4. wf'[j].pc = "none"
      <3>1. wf[j].pc \notin Publishing \cup Modelling \cup {"waiting"}
        BY <2>3 DEF Publishing, Modelling, Stages
      <3>. QED BY <2>3, <3>1, WorkflowMoves DEF WorkflowMove, Current
    <2>. QED BY <2>2, <2>4
  <1>. QED BY <1>0, <1>2, <1>3, <1>4, <1>5

\* Every move of a workflow keeps what it has in order.
LEMMA FlowKept ==
    ASSUME NEW w \in Workflow, NEW v \in Workflow, Flow(w),
           Fates(v, w) \/ PublishedFates(v, w)
    PROVE  Flow(v)
  <1>1. w.round \in Nat /\ w.card \in Nat /\ v.round \in Nat /\ v.card \in Nat
    BY WorkflowTypes
  <1>2. 1 \in Tries
    BY BoundsAssumption DEF Tries
  <1>3. CASE PublishedFates(v, w)
    BY <1>1, <1>2, <1>3
    DEF Flow, PublishedFates, GoesTo, Publishing, Modelling, Stages, NoCard
  <1>4. CASE Fates(v, w)
    BY <1>1, <1>2, <1>4 DEF Flow, Fates, GoesTo, Publishing, Modelling, Stages, NoCard
  <1>. QED BY <1>3, <1>4

LEMMA FlowStep ==
    ASSUME TypeOK, RowsOK, FlowOK, ThreadsOK, [Next]_vars
    PROVE  FlowOK'
  <1>. SUFFICES ASSUME NEW j \in Jobs PROVE Flow(wf'[j])
    BY DEF FlowOK, Flow
  <1>1. wf[j] \in Workflow /\ wf'[j] \in Workflow /\ Flow(wf[j])
    BY JobTypes, WorkflowFates DEF FlowOK
  <1>2. CASE wf'[j] = wf[j]
    BY <1>1, <1>2
  <1>3. CASE /\ wf'[j].pc = wf[j].pc /\ wf'[j].try = wf[j].try
             /\ wf'[j].round = wf[j].round /\ wf'[j].card = wf[j].card
             /\ wf'[j].final = wf[j].final
    BY <1>1, <1>3 DEF Flow
  <1>4. CASE Fates(wf'[j], wf[j]) \/ PublishedFates(wf'[j], wf[j])
    BY <1>1, <1>4, FlowKept
  <1>. QED BY <1>2, <1>3, <1>4, WorkflowFates

\* A publish the workflow has come to stays behind it, and only its later
\* attempts can be waited for.
LEMMA ReachedKept ==
    ASSUME NEW w \in Workflow, NEW v \in Workflow, Flow(w), NEW a \in Attempts,
           Reached(w, a.publish),
           w.pc \in Publishing /\ a.publish = PublishOf(w) => a.try <= w.try,
           Fates(v, w) \/ PublishedFates(v, w)
    PROVE  /\ Reached(v, a.publish)
           /\ v.pc \in Publishing /\ a.publish = PublishOf(v) => a.try <= v.try
  <1>. DEFINE p == a.publish[1]
              n == a.publish[2]
  <1>1. /\ w.round \in Nat /\ w.card \in Nat /\ v.round \in Nat /\ v.card \in Nat
        /\ w.try \in Nat /\ v.try \in Nat
    BY WorkflowTypes
  <1>2. p \in {"extracting", "generating", "critiquing", "await", "final"}
        /\ n \in Nat /\ a.try \in Nat /\ (p \in {"generating", "critiquing"} => n # 0)
    BY AttemptFields DEF Publishing, Stages
  <1>3. /\ a.publish = PublishOf(v) =>
              p = v.pc /\ (p \in {"generating", "critiquing"} => n = v.round)
        /\ w.pc = p /\ (p \in {"generating", "critiquing"} => n = w.round)
              => w.pc \in Publishing /\ a.publish = PublishOf(w)
    <2>1. a.publish = <<p, n>> /\ (p \notin {"generating", "critiquing"} => n = 0)
      BY AttemptFields DEF Publishes
    <2>. QED BY <1>2, <2>1 DEF PublishOf, Publishing, Stages
  <1>4. /\ p = "extracting" => w.pc # "none"
        /\ p = "generating" => n <= w.round
        /\ p = "critiquing" => n <= w.card
        /\ p = "await" => /\ w.card = w.round /\ w.round # 0
                          /\ w.pc \in {"await", "waiting", "final", "completed", "failed"}
        /\ p = "final" => w.final # "none"
    BY DEF Reached
  <1>. HIDE DEF p, n
  <1>5. CASE PublishedFates(v, w)
    <2>1. /\ p = "extracting" => v.pc # "none"
          /\ p = "generating" => n <= v.round
          /\ p = "critiquing" => n <= v.card
          /\ p = "await" => /\ v.card = v.round /\ v.round # 0
                            /\ v.pc \in {"await", "waiting", "final", "completed", "failed"}
          /\ p = "final" => v.final # "none"
      BY <1>1, <1>2, <1>4, <1>5 DEF PublishedFates, GoesTo
    <2>2. v.pc \notin Publishing
      BY <1>5 DEF PublishedFates, GoesTo, Publishing, Stages
    <2>. QED BY <2>1, <2>2 DEF Reached, p, n
  <1>6. CASE Fates(v, w)
    <2>1. /\ p = "extracting" => v.pc # "none"
          /\ p = "generating" => n <= v.round
          /\ p = "critiquing" => n <= v.card
          /\ p = "await" => /\ v.card = v.round /\ v.round # 0
                            /\ v.pc \in {"await", "waiting", "final", "completed", "failed"}
          /\ p = "final" => v.final # "none"
      BY <1>1, <1>2, <1>4, <1>6 DEF Fates, GoesTo, Publishing, Modelling, Stages, Flow
    <2>2. p = v.pc /\ (p \in {"generating", "critiquing"} => n = v.round) => a.try <= v.try
      BY <1>1, <1>2, <1>3, <1>4, <1>6 DEF Fates, GoesTo, Publishing, Modelling, Stages, Flow
    <2>. QED BY <1>3, <2>1, <2>2 DEF Reached, p, n
  <1>. QED BY <1>5, <1>6

LEMMA ThreadsStep ==
    ASSUME TypeOK, RowsOK, FlowOK, ThreadsOK, [Next]_vars
    PROVE  ThreadsOK'
  <1>. SUFFICES ASSUME NEW a \in Attempts
                PROVE  /\ thread'[a] # "idle" =>
                            /\ Reached(wf'[a.job], a.publish)
                            /\ wf'[a.job].pc \in Publishing
                                  /\ a.publish = PublishOf(wf'[a.job])
                                  => a.try <= wf'[a.job].try
                       /\ thread'[a] = "wrote" =>
                            /\ wf'[a.job].pc \in Publishing
                            /\ a.publish = PublishOf(wf'[a.job])
                            /\ a.try = wf'[a.job].try
    BY DEF ThreadsOK, Current, Reached, PublishOf
  <1>. DEFINE j == a.job
  <1>1. /\ j \in Jobs /\ wf[j] \in Workflow /\ wf'[j] \in Workflow /\ Flow(wf[j])
    BY AttemptFields, JobTypes, WorkflowFates DEF FlowOK
  <1>2. \/ wf'[j] = wf[j]
        \/ /\ wf'[j].pc = wf[j].pc /\ wf'[j].try = wf[j].try
           /\ wf'[j].round = wf[j].round /\ wf'[j].card = wf[j].card
           /\ wf'[j].final = wf[j].final
        \/ NoneStands(j) /\ (Fates(wf'[j], wf[j]) \/ PublishedFates(wf'[j], wf[j]))
    BY <1>1, WorkflowFates
  <1>3. ASSUME thread[a] # "idle"
        PROVE  /\ Reached(wf'[j], a.publish)
               /\ wf'[j].pc \in Publishing /\ a.publish = PublishOf(wf'[j])
                     => a.try <= wf'[j].try
    <2>1. /\ Reached(wf[j], a.publish)
          /\ wf[j].pc \in Publishing /\ a.publish = PublishOf(wf[j]) => a.try <= wf[j].try
      BY <1>3 DEF ThreadsOK
    <2>2. CASE Fates(wf'[j], wf[j]) \/ PublishedFates(wf'[j], wf[j])
      BY <1>1, <2>1, <2>2, ReachedKept
    <2>3. CASE /\ wf'[j].pc = wf[j].pc /\ wf'[j].try = wf[j].try
               /\ wf'[j].round = wf[j].round /\ wf'[j].card = wf[j].card
               /\ wf'[j].final = wf[j].final
      BY <2>1, <2>3 DEF Reached, PublishOf
    <2>. QED BY <1>2, <2>1, <2>2, <2>3
  <1>4. ASSUME thread[a] = "idle", thread'[a] # "idle"
        PROVE  /\ Reached(wf'[j], a.publish)
               /\ wf'[j].pc \in Publishing /\ a.publish = PublishOf(wf'[j])
                     => a.try <= wf'[j].try
    <2>1. Current(a) /\ wf' = wf
      BY <1>4, ThreadMoves DEF ThreadMove
    <2>2. a.publish = PublishOf(wf[j]) /\ a.try = wf[j].try /\ wf[j].pc \in Publishing
      BY <2>1 DEF Current
    <2>3. a.publish[1] = wf[j].pc
          /\ (wf[j].pc \in {"generating", "critiquing"} => a.publish[2] = wf[j].round)
      BY <2>2 DEF PublishOf
    <2>4. wf[j].round \in Nat /\ wf[j].card \in Nat /\ wf[j].try \in Nat
      BY <1>1, WorkflowTypes
    <2>5. Reached(wf[j], a.publish)
      BY <1>1, <2>2, <2>3, <2>4 DEF Reached, Flow, Publishing, Stages
    <2>. QED BY <2>1, <2>2, <2>4, <2>5
  <1>5. ASSUME thread'[a] = "wrote"
        PROVE  /\ wf'[j].pc \in Publishing /\ a.publish = PublishOf(wf'[j])
               /\ a.try = wf'[j].try
    <2>1. Current(a)
      BY <1>5, ThreadMoves DEF ThreadMove, ThreadsOK
    <2>2. ~NoneStands(j)
      BY <1>5 DEF NoneStands
    <2>. QED BY <1>2, <2>1, <2>2 DEF Current, PublishOf
  <1>. QED BY <1>3, <1>4, <1>5

\* The outcomes of a step for the row and the workflow of one job together: an
\* attempt writes while the workflow stays where it is.
LEMMA JobFates ==
    ASSUME TypeOK, RowsOK, FlowOK, ThreadsOK, [Next]_vars, NEW j \in Jobs
    PROVE  /\ wf[j] \in Workflow /\ wf'[j] \in Workflow /\ Flow(wf[j])
           /\ \/ /\ jobs'[j] = jobs[j]
                 /\ \/ wf'[j] = wf[j]
                    \/ /\ wf'[j].pc = wf[j].pc /\ wf'[j].try = wf[j].try
                       /\ wf'[j].round = wf[j].round /\ wf'[j].card = wf[j].card
                       /\ wf'[j].final = wf[j].final
                    \/ NoneStands(j) /\ Fates(wf'[j], wf[j])
                    \/ /\ NoneStands(j) /\ PublishedFates(wf'[j], wf[j])
                       /\ \E a \in Attempts : a.job = j /\ thread[a] = "wrote" /\ Current(a)
              \/ /\ wf'[j] = wf[j] /\ wf[j].pc = "none"
                 /\ \A a \in Attempts : a.job = j => thread[a] = "idle"
                 /\ jobs'[j].status = "pending"
                 /\ jobs'[j].result = NoCard /\ jobs'[j].attempts = 0
              \/ /\ wf' = wf
                 /\ \E a \in Attempts :
                       /\ a.job = j /\ thread[a] = "ready"
                       /\ thread'[a] = IF Current(a) THEN "wrote" ELSE "gone"
                       /\ jobs'[j].status = StatusOf(a) /\ StatusOf(a) \in Statuses
                       /\ jobs'[j].result =
                             IF a.publish[1] \in Stages THEN jobs[j].result ELSE wf[j].card
                       /\ jobs'[j].attempts = IF a.publish[1] = "generating"
                                                THEN jobs[j].attempts + 1
                                                ELSE jobs[j].attempts
  <1>1. wf[j] \in Workflow /\ wf'[j] \in Workflow /\ Flow(wf[j])
    BY JobTypes, WorkflowFates DEF FlowOK
  <1>2. CASE jobs'[j] = jobs[j]
    BY <1>1, <1>2, WorkflowFates
  <1>3. CASE /\ api[j] = "idle" /\ jobs'[j] # jobs[j]
             /\ jobs'[j].status = "pending"
             /\ jobs'[j].result = NoCard /\ jobs'[j].attempts = 0
    <2>1. wf[j].pc = "none"
      BY <1>3, NewRows DEF RowsOK, Exists
    <2>2. wf'[j] = wf[j]
      BY <1>3, <2>1, WorkflowFates DEF NoneStands
    <2>3. \A a \in Attempts : a.job = j => thread[a] = "idle"
      BY <2>1, Scheduled
    <2>. QED BY <1>1, <1>3, <2>1, <2>2, <2>3
  <1>. QED BY <1>1, <1>2, <1>3, RowFates

LEMMA OnlyStep ==
    ASSUME TypeOK, RowsOK, FlowOK, ThreadsOK, OnlyTheLastDraftShows, [Next]_vars
    PROVE  OnlyTheLastDraftShows'
  <1>. SUFFICES ASSUME NEW j \in Jobs, jobs'[j].result # NoCard
                PROVE  /\ jobs'[j].result = wf'[j].card /\ wf'[j].card = wf'[j].round
                       /\ wf'[j].pc \in {"await", "waiting", "final", "completed", "failed"}
    BY DEF OnlyTheLastDraftShows
  <1>1. jobs[j].result # NoCard =>
           /\ jobs[j].result = wf[j].card /\ wf[j].card = wf[j].round
           /\ wf[j].pc \in {"await", "waiting", "final", "completed", "failed"}
    BY DEF OnlyTheLastDraftShows
  <1>2. CASE jobs'[j] = jobs[j]
    <2>1. CASE Fates(wf'[j], wf[j])
      BY <1>1, <1>2, <2>1 DEF Fates, GoesTo, Publishing, Modelling, Stages
    <2>2. CASE PublishedFates(wf'[j], wf[j])
      BY <1>1, <1>2, <2>2 DEF PublishedFates, GoesTo
    <2>. QED BY <1>1, <1>2, <2>1, <2>2, JobFates
  <1>3. ASSUME wf' = wf, NEW a \in Attempts, a.job = j, thread[a] = "ready",
               jobs'[j].result =
                  IF a.publish[1] \in Stages THEN jobs[j].result ELSE wf[j].card
        PROVE  /\ jobs'[j].result = wf'[j].card /\ wf'[j].card = wf'[j].round
               /\ wf'[j].pc \in {"await", "waiting", "final", "completed", "failed"}
    BY <1>1, <1>3, ToBeWritten
  <1>. QED BY <1>2, <1>3, JobFates

\* A verdict once taken is never changed.
LEMMA FinalStays ==
    ASSUME TypeOK, RowsOK, FlowOK, ThreadsOK, [Next]_vars, NEW j \in Jobs,
           wf[j].final # "none"
    PROVE  wf'[j].final = wf[j].final /\ wf'[j].card = wf[j].card
  <1>1. wf[j].pc \in {"final", "completed", "failed"}
    BY DEF FlowOK, Flow
  <1>2. ~Fates(wf'[j], wf[j]) \/ (wf'[j].final = wf[j].final /\ wf'[j].card = wf[j].card)
    BY <1>1 DEF Fates, GoesTo
  <1>3. ~PublishedFates(wf'[j], wf[j])
           \/ (wf'[j].final = wf[j].final /\ wf'[j].card = wf[j].card)
    BY DEF PublishedFates, GoesTo
  <1>. QED BY <1>2, <1>3, WorkflowFates

\* An attempt that has written and still stands leaves the workflow in place.
LEMMA StandsStill ==
    ASSUME TypeOK, RowsOK, FlowOK, ThreadsOK, [Next]_vars, NEW a \in Attempts,
           thread'[a] = "wrote"
    PROVE  /\ Current(a) /\ thread[a] \in {"ready", "wrote"}
           /\ wf'[a.job].pc = wf[a.job].pc
           /\ wf'[a.job].round = wf[a.job].round /\ wf'[a.job].card = wf[a.job].card
           /\ wf'[a.job].final = wf[a.job].final
           /\ thread[a] = "ready" => wf' = wf /\ jobs'[a.job] = WrittenBy(a)
  <1>1. Current(a) /\ thread[a] \in {"ready", "wrote"}
        /\ (thread[a] = "ready" => wf' = wf /\ jobs'[a.job] = WrittenBy(a))
    BY ThreadMoves DEF ThreadMove, ThreadsOK
  <1>2. ~NoneStands(a.job)
    BY DEF NoneStands
  <1>. QED BY <1>1, <1>2, AttemptFields, WorkflowFates

LEMMA ShownStep ==
    ASSUME TypeOK, RowsOK, FlowOK, ThreadsOK, ShownOK, [Next]_vars
    PROVE  ShownOK'
  <1>1. ASSUME NEW j \in Jobs
        PROVE  wf'[j].pc = "waiting" \/ wf'[j].final # "none" => jobs'[j].result = wf'[j].card
    <2>1. wf[j].pc = "waiting" \/ wf[j].final # "none" => jobs[j].result = wf[j].card
      BY DEF ShownOK
    <2>2. CASE jobs'[j] = jobs[j]
      <3>1. CASE Fates(wf'[j], wf[j])
        <4>1. wf[j].pc = "generate" => wf[j].final = "none"
          BY DEF FlowOK, Flow
        <4>. QED BY <2>1, <2>2, <3>1, <4>1 DEF Fates, GoesTo, Publishing, Modelling, Stages
      <3>2. ASSUME PublishedFates(wf'[j], wf[j]),
                   NEW a \in Attempts, a.job = j, thread[a] = "wrote", Current(a)
            PROVE  wf'[j].pc = "waiting" \/ wf'[j].final # "none"
                      => jobs'[j].result = wf'[j].card
        <4>1. wf[j].pc = "await" => jobs[j].result = wf[j].card
          BY <3>2 DEF Current, PublishOf, ShownOK
        <4>. QED BY <2>1, <2>2, <3>2, <4>1 DEF PublishedFates, GoesTo
      <3>. QED BY <2>1, <2>2, <3>1, <3>2, JobFates
    <2>3. CASE wf'[j] = wf[j] /\ wf[j].pc = "none"
      BY <2>3 DEF FlowOK, Flow
    <2>4. ASSUME wf' = wf, NEW a \in Attempts,
                 jobs'[j].result =
                    IF a.publish[1] \in Stages THEN jobs[j].result ELSE wf[j].card
          PROVE  wf'[j].pc = "waiting" \/ wf'[j].final # "none" => jobs'[j].result = wf'[j].card
      BY <2>1, <2>4
    <2>. QED BY <2>2, <2>3, <2>4, JobFates
  <1>2. ASSUME NEW j \in Jobs, jobs'[j].status \in Verdicts
        PROVE  jobs'[j].status = wf'[j].final
    <2>1. jobs[j].status \in Verdicts => jobs[j].status = wf[j].final
      BY DEF ShownOK
    <2>2. CASE jobs'[j] = jobs[j]
      <3>1. wf[j].final # "none"
        BY <1>2, <2>1, <2>2 DEF Verdicts
      <3>. QED BY <1>2, <2>1, <2>2, <3>1, FinalStays
    <2>3. ASSUME wf' = wf, NEW a \in Attempts, a.job = j, thread[a] = "ready",
                 jobs'[j].status = StatusOf(a)
          PROVE  jobs'[j].status = wf'[j].final
      BY <1>2, <2>3, ToBeWritten DEF Verdicts, Stages
    <2>4. jobs'[j].status # "pending"
      BY <1>2 DEF Verdicts
    <2>. QED BY <2>2, <2>3, <2>4, JobFates
  <1>3. ASSUME NEW a \in Attempts, thread'[a] = "wrote", a.publish[1] = "await"
        PROVE  jobs'[a.job].result = wf'[a.job].card
    <2>1. /\ thread[a] \in {"ready", "wrote"} /\ wf'[a.job].card = wf[a.job].card
          /\ thread[a] = "ready" => jobs'[a.job] = WrittenBy(a)
          /\ a.job \in Jobs
      BY <1>3, StandsStill, AttemptFields
    <2>2. CASE thread[a] = "ready"
      BY <1>3, <2>1, <2>2, WrittenIs DEF Stages
    <2>3. CASE thread[a] = "wrote"
      <3>1. jobs[a.job].result = wf[a.job].card
        BY <1>3, <2>3 DEF ShownOK
      <3>2. \/ jobs'[a.job] = jobs[a.job]
            \/ jobs'[a.job].result \in {jobs[a.job].result, wf[a.job].card}
        BY <2>1, <2>3, JobFates
      <3>. QED BY <2>1, <3>1, <3>2
    <2>. QED BY <2>1, <2>2, <2>3
  <1>. QED BY <1>1, <1>2, <1>3 DEF ShownOK

LEMMA CountStep ==
    ASSUME TypeOK, RowsOK, FlowOK, ThreadsOK, CountOK, [Next]_vars
    PROVE  CountOK'
  <1>. SUFFICES ASSUME NEW j \in Jobs
       PROVE  /\ wf'[j].round <= jobs'[j].attempts + 1
              /\ wf'[j].card <= jobs'[j].attempts
              /\ wf'[j].pc \in {"generate", "critiquing", "critique", "await", "waiting",
                                "final", "completed"} => wf'[j].round <= jobs'[j].attempts
              /\ \A a \in Attempts :
                    a.job = j /\ thread'[a] = "wrote" /\ a.publish[1] = "generating"
                       => wf'[j].round <= jobs'[j].attempts
    BY DEF CountOK
  <1>1. /\ wf[j].round <= jobs[j].attempts + 1
        /\ wf[j].card <= jobs[j].attempts
        /\ wf[j].pc \in {"generate", "critiquing", "critique", "await", "waiting", "final",
                         "completed"} => wf[j].round <= jobs[j].attempts
        /\ \A a \in Attempts :
              a.job = j /\ thread[a] = "wrote" /\ a.publish[1] = "generating"
                 => wf[j].round <= jobs[j].attempts
    BY DEF CountOK
  <1>2. /\ wf[j].round \in Nat /\ wf[j].card \in Nat /\ wf'[j].round \in Nat
        /\ wf'[j].card \in Nat /\ jobs[j].attempts \in Nat
    BY JobFates, JobTypes, WorkflowTypes
  <1>3. CASE jobs'[j] = jobs[j]
    <2>1. /\ wf'[j].round <= jobs'[j].attempts + 1
          /\ wf'[j].card <= jobs'[j].attempts
          /\ wf'[j].pc \in {"generate", "critiquing", "critique", "await", "waiting",
                            "final", "completed"} => wf'[j].round <= jobs'[j].attempts
      <3>1. CASE Fates(wf'[j], wf[j])
        <4>1. wf[j].pc \in {"none", "extract"} => wf[j].round = 0
          BY DEF FlowOK, Flow
        <4>. QED BY <1>1, <1>2, <1>3, <3>1, <4>1
             DEF Fates, GoesTo, Publishing, Modelling, Stages
      <3>2. ASSUME PublishedFates(wf'[j], wf[j]),
                   NEW a \in Attempts, a.job = j, thread[a] = "wrote", Current(a)
            PROVE  /\ wf'[j].round <= jobs'[j].attempts + 1
                   /\ wf'[j].card <= jobs'[j].attempts
                   /\ wf'[j].pc \in {"generate", "critiquing", "critique", "await", "waiting",
                                     "final", "completed"} => wf'[j].round <= jobs'[j].attempts
        <4>1. wf[j].pc = "generating" => wf[j].round <= jobs[j].attempts
          BY <1>1, <3>2 DEF Current, PublishOf
        <4>. QED BY <1>1, <1>2, <1>3, <3>2, <4>1 DEF PublishedFates, GoesTo
      <3>. QED BY <1>1, <1>3, <3>1, <3>2, JobFates
    <2>2. ASSUME NEW a \in Attempts, a.job = j, thread'[a] = "wrote",
                 a.publish[1] = "generating"
          PROVE  wf'[j].round <= jobs'[j].attempts
      <3>1. /\ thread[a] \in {"ready", "wrote"} /\ wf'[j].round = wf[j].round
            /\ thread[a] = "ready" => jobs'[j] = WrittenBy(a)
        BY <2>2, StandsStill
      <3>2. CASE thread[a] = "wrote"
        BY <1>1, <1>3, <2>2, <3>1, <3>2
      <3>3. CASE thread[a] = "ready"
        <4>1. jobs'[j].attempts = jobs[j].attempts + 1
          BY <2>2, <3>1, <3>3, WrittenIs
        <4>. QED BY <1>1, <3>1, <4>1
      <3>. QED BY <3>1, <3>2, <3>3
    <2>. QED BY <2>1, <2>2
  <1>4. CASE /\ wf'[j] = wf[j] /\ wf[j].pc = "none" /\ jobs'[j].attempts = 0
             /\ \A a \in Attempts : a.job = j => thread[a] = "idle"
    <2>1. wf[j].round = 0 /\ wf[j].card = 0
      BY <1>4 DEF FlowOK, Flow, NoCard
    <2>2. \A a \in Attempts : a.job = j => thread'[a] # "wrote"
      BY <1>4, StandsStill
    <2>. QED BY <1>4, <2>1, <2>2
  <1>5. ASSUME wf' = wf, NEW b \in Attempts, b.job = j, thread[b] = "ready",
               jobs'[j].attempts = IF b.publish[1] = "generating"
                                     THEN jobs[j].attempts + 1 ELSE jobs[j].attempts
        PROVE  /\ wf'[j].round <= jobs'[j].attempts + 1
               /\ wf'[j].card <= jobs'[j].attempts
               /\ wf'[j].pc \in {"generate", "critiquing", "critique", "await", "waiting",
                                 "final", "completed"} => wf'[j].round <= jobs'[j].attempts
               /\ \A a \in Attempts :
                     a.job = j /\ thread'[a] = "wrote" /\ a.publish[1] = "generating"
                        => wf'[j].round <= jobs'[j].attempts
    <2>1. jobs'[j].attempts >= jobs[j].attempts /\ jobs'[j].attempts \in Nat
      BY <1>2, <1>5
    <2>2. ASSUME NEW a \in Attempts, a.job = j, thread'[a] = "wrote",
                 a.publish[1] = "generating"
          PROVE  wf'[j].round <= jobs'[j].attempts
      <3>1. /\ thread[a] \in {"ready", "wrote"}
            /\ thread[a] = "ready" => jobs'[j] = WrittenBy(a)
        BY <2>2, StandsStill
      <3>2. CASE thread[a] = "wrote"
        BY <1>1, <1>2, <1>5, <2>1, <2>2, <3>2
      <3>3. CASE thread[a] = "ready"
        <4>1. jobs'[j].attempts = jobs[j].attempts + 1
          BY <2>2, <3>1, <3>3, WrittenIs
        <4>. QED BY <1>1, <1>5, <4>1
      <3>. QED BY <3>1, <3>2, <3>3
    <2>. QED BY <1>1, <1>2, <1>5, <2>1, <2>2
  <1>. QED BY <1>3, <1>4, <1>5, JobFates

LEMMA InTimeStep ==
    ASSUME TypeOK, RowsOK, FlowOK, ThreadsOK, InTime, [Next]_vars
    PROVE  InTime'
  <1>. SUFFICES ASSUME NEW a \in Attempts, a.job \notin overran'
                PROVE  /\ thread'[a] = "ready" => Current(a)'
                       /\ thread'[a] = "wrote" => jobs'[a.job].status = StatusOf(a)'
    BY DEF InTime
  <1>. DEFINE j == a.job
  <1>1. j \in Jobs /\ j \notin overran
    BY AttemptFields, RequestMoves
  <1>2. ASSUME NEW b \in Attempts, b.job = j
        PROVE  /\ thread[b] = "ready" => Current(b)
               /\ thread[b] = "wrote" => jobs[j].status = StatusOf(b)
    BY <1>1, <1>2 DEF InTime
  <1>3. ASSUME thread'[a] = "ready" PROVE Current(a)'
    <2>1. Current(a)
      BY <1>2, <1>3, ThreadMoves DEF ThreadMove
    <2>2. ~NoneStands(j)
      BY <1>3, <2>1 DEF NoneStands
    <2>3. /\ wf'[j].pc = wf[j].pc /\ wf'[j].try = wf[j].try /\ wf'[j].round = wf[j].round
      BY <1>1, <2>2, WorkflowFates
    <2>. QED BY <2>1, <2>3 DEF Current, PublishOf
  <1>4. ASSUME thread'[a] = "wrote" PROVE jobs'[j].status = StatusOf(a)'
    <2>1. /\ Current(a) /\ thread[a] \in {"ready", "wrote"}
          /\ wf'[j].final = wf[j].final /\ wf'[j].pc = wf[j].pc
          /\ thread[a] = "ready" => jobs'[j] = WrittenBy(a)
      BY <1>4, StandsStill
    <2>2. StatusOf(a)' = StatusOf(a)
      BY <2>1 DEF StatusOf
    <2>3. CASE thread[a] = "ready"
      BY <2>1, <2>2, <2>3, WrittenIs
    <2>4. CASE thread[a] = "wrote"
      <3>1. ASSUME NEW b \in Attempts, b.job = j, thread[b] = "ready"
            PROVE  FALSE
        <4>1. Current(b)
          BY <1>2, <3>1
        <4>2. a = b
          BY <2>1, <3>1, <4>1, OneIsCurrent
        <4>. QED BY <2>4, <3>1, <4>2
      <3>2. jobs'[j] = jobs[j]
        BY <1>1, <2>4, <3>1, JobFates
      <3>. QED BY <1>2, <2>2, <2>4, <3>2
    <2>. QED BY <2>1, <2>3, <2>4
  <1>. QED BY <1>3, <1>4

LEMMA StageStep ==
    ASSUME TypeOK, RowsOK, FlowOK, ThreadsOK, InTime, StageIsShown, [Next]_vars
    PROVE  StageIsShown'
  <1>. SUFFICES ASSUME NEW j \in Jobs, j \notin overran'
       PROVE  /\ wf'[j].pc = "extract"   => jobs'[j].status = "extracting"
              /\ wf'[j].pc = "generate"  => jobs'[j].status = "generating"
              /\ wf'[j].pc = "critique"  => jobs'[j].status = "critiquing"
              /\ wf'[j].pc = "waiting"   => jobs'[j].status = "awaiting_human"
              /\ wf'[j].pc = "completed" => jobs'[j].status = wf'[j].final
    BY DEF StageIsShown
  <1>1. j \notin overran
    BY RequestMoves
  <1>2. /\ wf[j].pc = "extract"   => jobs[j].status = "extracting"
        /\ wf[j].pc = "generate"  => jobs[j].status = "generating"
        /\ wf[j].pc = "critique"  => jobs[j].status = "critiquing"
        /\ wf[j].pc = "waiting"   => jobs[j].status = "awaiting_human"
        /\ wf[j].pc = "completed" => jobs[j].status = wf[j].final
    BY <1>1 DEF StageIsShown
  <1>3. CASE jobs'[j] = jobs[j] /\ Fates(wf'[j], wf[j])
    BY <1>2, <1>3 DEF Fates, GoesTo, Publishing, Modelling, Stages
  <1>4. ASSUME jobs'[j] = jobs[j], PublishedFates(wf'[j], wf[j]),
               NEW a \in Attempts, a.job = j, thread[a] = "wrote", Current(a)
        PROVE  /\ wf'[j].pc = "extract"   => jobs'[j].status = "extracting"
               /\ wf'[j].pc = "generate"  => jobs'[j].status = "generating"
               /\ wf'[j].pc = "critique"  => jobs'[j].status = "critiquing"
               /\ wf'[j].pc = "waiting"   => jobs'[j].status = "awaiting_human"
               /\ wf'[j].pc = "completed" => jobs'[j].status = wf'[j].final
    <2>1. jobs[j].status = StatusOf(a) /\ a.publish[1] = wf[j].pc
      BY <1>1, <1>4 DEF InTime, Current, PublishOf
    <2>2. StatusOf(a) = CASE a.publish[1] = "await" -> "awaiting_human"
                          [] a.publish[1] = "final" -> wf[j].final
                          [] OTHER -> a.publish[1]
      BY <1>4 DEF StatusOf
    <2>. QED BY <1>4, <2>1, <2>2 DEF PublishedFates, GoesTo
  <1>5. CASE wf'[j] = wf[j] /\ wf[j].pc = "none"
    BY <1>5
  <1>6. ASSUME wf' = wf, NEW a \in Attempts, a.job = j, thread[a] = "ready"
        PROVE  wf'[j].pc \notin {"extract", "generate", "critique", "waiting", "completed"}
    <2>1. Current(a)
      BY <1>1, <1>6 DEF InTime
    <2>. QED BY <1>6, <2>1 DEF Current, Publishing, Stages
  <1>. QED BY <1>2, <1>3, <1>4, <1>5, <1>6, JobFates

----------------------------------------------------------------------------
(* The inductive invariant and the theorems that follow from it.           *)

LEMMA InvInit == Init => IInv /\ InTimeInv
  <1>. SUFFICES ASSUME Init PROVE IInv /\ InTimeInv
    OBVIOUS
  <1>1. NoWorkflow \in Workflow
    BY BoundsAssumption DEF NoWorkflow, Workflow
  <1>2. TypeOK
    BY <1>1, NewRows DEF Init, TypeOK, Threads
  <1>3. /\ \A j \in Jobs : jobs[j] = NoRow /\ api[j] = "idle" /\ wf[j] = NoWorkflow
        /\ \A a \in Attempts : thread[a] = "idle"
    BY DEF Init
  <1>4. /\ NoWorkflow.pc = "none" /\ NoWorkflow.round = 0 /\ NoWorkflow.card = NoCard
        /\ NoWorkflow.final = "none"
    BY DEF NoWorkflow
  <1>5. RowsOK /\ FlowOK
    BY <1>3, <1>4 DEF RowsOK, FlowOK, Flow, Publishing, Modelling, Stages, NoCard
  <1>6. ThreadsOK /\ CountOK /\ InTime
    BY <1>3, <1>4, NewRows DEF ThreadsOK, CountOK, InTime, NoCard
  <1>7. ShownOK /\ OnlyTheLastDraftShows /\ StageIsShown
    BY <1>3, <1>4, NewRows DEF ShownOK, OnlyTheLastDraftShows, StageIsShown, Verdicts
  <1>. QED BY <1>2, <1>5, <1>6, <1>7 DEF IInv, InTimeInv

LEMMA InvStep == IInv /\ [Next]_vars => IInv'
  <1>. SUFFICES ASSUME IInv, [Next]_vars PROVE IInv'
    OBVIOUS
  <1>. USE DEF IInv
  <1>. QED BY TypeStep, RowsStep, FlowStep, ThreadsStep, ShownStep, OnlyStep, CountStep

LEMMA Invariance == Spec => []IInv
  BY InvInit, InvStep, PTL DEF Spec

\* Type correctness: no interleaving of requests, publishes, timeouts and crashes
\* takes a row, a workflow or a thread out of its type.
THEOREM TypeCorrect == Spec => []TypeOK
  <1>1. IInv => TypeOK
    BY DEF IInv
  <1>. QED BY <1>1, Invariance, PTL

\* No draft the critic refused while rounds were left is ever shown, however late
\* a publish is written (set_job_status_activity).
THEOREM OnlyTheLastDraftCorrect == Spec => []OnlyTheLastDraftShows
  <1>1. IInv => OnlyTheLastDraftShows
    BY DEF IInv
  <1>. QED BY <1>1, Invariance, PTL

\* A row that shows a verdict shows the card the verdict is about.
THEOREM VerdictShowsItsCardCorrect == Spec => []VerdictShowsItsCard
  <1>1. IInv => VerdictShowsItsCard
    BY DEF IInv, ShownOK, VerdictShowsItsCard, Verdicts
  <1>. QED BY <1>1, Invariance, PTL

\* Every draft is counted before it is asked for, whatever is retried or late.
THEOREM DraftsAreCountedCorrect == Spec => []DraftsAreCounted
  <1>1. IInv => DraftsAreCounted
    BY DEF IInv, CountOK, DraftsAreCounted
  <1>. QED BY <1>1, Invariance, PTL

\* Unless a publish outlived its timeout unwritten, GET /jobs names the stage the
\* workflow is in, and its verdict once it has completed.
THEOREM StageIsShownCorrect == Spec => []StageIsShown
  <1>1. Init => InTimeInv
    BY InvInit
  <1>2. IInv /\ InTimeInv /\ [Next]_vars => InTimeInv'
    BY InTimeStep, StageStep DEF IInv, InTimeInv
  <1>3. InTimeInv => StageIsShown
    BY DEF InTimeInv
  <1>. QED BY <1>1, <1>2, <1>3, Invariance, PTL DEF Spec

----------------------------------------------------------------------------
(* CardJobs implements JobLifecycle.                                       *)

\* What a reader can see of one job changes as JobLifecycle allows.
LEMMA VisibleMoves ==
    ASSUME IInv, [Next]_vars, NEW j \in Jobs
    PROVE  LET p == PhaseOf(j)              q == PhaseOf(j)'
               c == jobs[j].result          d == jobs'[j].result
               v == wf[j].final             w == wf'[j].final
               s == wf[j].decision          t == wf'[j].decision
           IN  \/ q = p /\ d = c /\ w = v /\ t = s
               \/ p = "absent" /\ q = "accepted" /\ d = c /\ w = v /\ t = s
               \/ p = "accepted" /\ q = "running" /\ d = c /\ w = v /\ t = s
               \/ p \in {"running", "failed"} /\ q = p /\ c = 0 /\ d \in 1..MaxRounds
                     /\ w = v /\ t = s
               \/ p = "running" /\ q = p /\ d = c /\ w = v /\ t \in Decisions
               \/ p = "running" /\ q = p /\ d = c /\ c # 0 /\ t = s /\ v = "none"
                     /\ s # "none" /\ w = Verdict(s)
               \/ p = "running" /\ q = "completed" /\ d = c /\ w = v /\ t = s /\ v # "none"
               \/ p = "running" /\ q = "failed" /\ d = c /\ w = v /\ t = s
  <1>. USE DEF IInv
  <1>1. /\ wf[j] \in Workflow /\ wf'[j] \in Workflow /\ Flow(wf[j])
        /\ wf[j].card \in Cards \cup {NoCard} /\ NoCard \notin Cards
    BY JobTypes, WorkflowTypes, WorkflowFates DEF FlowOK, Cards, NoCard
  <1>2. /\ wf[j].pc = "waiting" \/ wf[j].final # "none" => jobs[j].result = wf[j].card
        /\ jobs[j].result # NoCard => jobs[j].result = wf[j].card
    BY DEF ShownOK, OnlyTheLastDraftShows
  <1>3. /\ api[j] = "idle" => jobs[j].status = "absent" /\ jobs[j].result = NoCard
        /\ wf[j].pc # "none" => jobs[j].status # "absent"
    BY NewRows DEF RowsOK, Exists
  <1>4. /\ PhaseOf(j) = IF jobs[j].status = "absent" THEN "absent"
                        ELSE IF wf[j].pc = "none" THEN "accepted"
                        ELSE IF wf[j].pc \in {"completed", "failed"} THEN wf[j].pc
                        ELSE "running"
        /\ PhaseOf(j)' = IF jobs'[j].status = "absent" THEN "absent"
                         ELSE IF wf'[j].pc = "none" THEN "accepted"
                         ELSE IF wf'[j].pc \in {"completed", "failed"} THEN wf'[j].pc
                         ELSE "running"
    BY DEF PhaseOf, Exists
  <1>5. CASE jobs'[j] = jobs[j]
    <2>1. CASE wf'[j] = wf[j]
      BY <1>4, <1>5, <2>1
    <2>2. CASE /\ wf[j].pc \notin {"none", "completed", "failed"}
               /\ wf'[j].pc = wf[j].pc /\ wf'[j].decision \in Decisions
               /\ wf'[j].final = wf[j].final
      BY <1>3, <1>4, <1>5, <2>2
    <2>3. CASE PublishedFates(wf'[j], wf[j])
      BY <1>1, <1>3, <1>4, <1>5, <2>3 DEF PublishedFates, GoesTo, Flow
    <2>4. CASE Fates(wf'[j], wf[j])
      <3>1. jobs[j].status # "absent"
        <4>1. wf[j].pc = "none" => api[j] = "starting"
          <5>1. CASE wf[j].pc = "none"
            <6>1. wf'[j] # wf[j]
              BY <2>4, <5>1 DEF Fates, GoesTo, Publishing, Modelling, Stages
            <6>2. wf[j].pc \notin Publishing \cup Modelling \cup {"waiting"}
              BY <5>1 DEF Publishing, Modelling, Stages
            <6>. QED BY <5>1, <6>1, <6>2, WorkflowMoves DEF WorkflowMove, Current
          <5>. QED BY <5>1
        <4>. QED BY <1>3, <4>1 DEF RowsOK, Exists
      <3>. QED BY <1>1, <1>2, <1>4, <1>5, <2>4, <3>1
           DEF Fates, GoesTo, Publishing, Modelling, Stages, Flow, NoCard
    <2>. QED BY <2>1, <2>2, <2>3, <2>4, WorkflowFates
  <1>6. CASE /\ wf'[j] = wf[j] /\ wf[j].pc = "none" /\ api[j] = "idle"
             /\ jobs'[j].status = "pending" /\ jobs'[j].result = NoCard
    BY <1>3, <1>4, <1>6
  <1>7. ASSUME wf' = wf, NEW a \in Attempts, a.job = j, thread[a] = "ready",
               jobs'[j].status \in Statuses,
               jobs'[j].result =
                  IF a.publish[1] \in Stages THEN jobs[j].result ELSE wf[j].card
        PROVE  LET p == PhaseOf(j)              q == PhaseOf(j)'
                   c == jobs[j].result          d == jobs'[j].result
                   v == wf[j].final             w == wf'[j].final
                   s == wf[j].decision          t == wf'[j].decision
               IN  \/ q = p /\ d = c /\ w = v /\ t = s
                   \/ p \in {"running", "failed"} /\ q = p /\ c = 0 /\ d \in 1..MaxRounds
                         /\ w = v /\ t = s
    <2>1. wf[j].pc # "none" /\ jobs[j].status # "absent" /\ jobs'[j].status # "absent"
      BY <1>3, <1>7, Scheduled DEF Statuses, InProgress, Verdicts
    <2>2. PhaseOf(j)' = PhaseOf(j)
      BY <1>4, <1>7, <2>1
    <2>3. CASE a.publish[1] \in Stages \/ jobs[j].result # NoCard
      BY <1>2, <1>7, <2>2, <2>3
    <2>4. CASE a.publish[1] \notin Stages /\ jobs[j].result = NoCard
      <3>1. wf[j].card \in Cards
        BY <1>1, <1>7, <2>4, ToBeWritten
      <3>2. jobs'[j].result \in 1..MaxRounds /\ jobs[j].result = 0
        BY <1>7, <2>4, <3>1 DEF Cards, NoCard
      <3>3. wf[j].pc # "completed"
        BY <1>1, <1>2, <2>4, <3>1 DEF Flow
      <3>. QED BY <1>4, <1>7, <2>1, <2>2, <3>2, <3>3
    <2>. QED BY <2>3, <2>4
  <1>8. jobs'[j] # jobs[j] /\ api[j] = "idle" => wf'[j] = wf[j] /\ wf[j].pc = "none"
    <2>1. api[j] = "idle" => wf[j].pc = "none"
      BY NewRows DEF RowsOK, Exists
    <2>. QED BY <2>1, WorkflowFates DEF NoneStands
  <1>. QED BY <1>5, <1>6, <1>7, <1>8, RowFates

LEMMA LifecycleInit == Init => Lifecycle!AInit
  BY DEF Init, Lifecycle!AInit, PhaseOf, Exists, NoRow, NoWorkflow, NoCard

LEMMA LifecycleStep ==
    ASSUME IInv, [Next]_vars
    PROVE  [Lifecycle!ANext]_(Lifecycle!avars)
  <1>. DEFINE ph == [k \in Jobs |-> PhaseOf(k)]
              cd == [k \in Jobs |-> jobs[k].result]
              wd == [k \in Jobs |-> wf[k].decision]
              vd == [k \in Jobs |-> wf[k].final]
  <1>1. CASE jobs' = jobs /\ wf' = wf
    <2>1. ph' = ph /\ cd' = cd /\ wd' = wd /\ vd' = vd
      BY <1>1 DEF PhaseOf, Exists
    <2>. QED BY <2>1 DEF Lifecycle!avars
  <1>2. ASSUME NEW j \in Jobs,
               \A k \in Jobs \ {j} : jobs'[k] = jobs[k] /\ wf'[k] = wf[k]
        PROVE  [Lifecycle!ANext]_(Lifecycle!avars)
    <2>. DEFINE p == PhaseOf(j)              q == PhaseOf(j)'
                c == jobs[j].result          d == jobs'[j].result
                v == wf[j].final             w == wf'[j].final
                s == wf[j].decision          t == wf'[j].decision
    <2>1. /\ ph' = [ph EXCEPT ![j] = q]
          /\ cd' = [cd EXCEPT ![j] = d]
          /\ wd' = [wd EXCEPT ![j] = t]
          /\ vd' = [vd EXCEPT ![j] = w]
      BY <1>2 DEF PhaseOf, Exists
    <2>2. /\ ph[j] = p /\ cd[j] = c /\ wd[j] = s /\ vd[j] = v
          /\ q = p => ph' = ph
          /\ d = c => cd' = cd
          /\ t = s => wd' = wd
          /\ w = v => vd' = vd
      BY <2>1
    <2>3. s \in Decisions \cup {"none"}
      BY JobTypes, WorkflowTypes DEF IInv
    <2>4. \/ q = p /\ d = c /\ w = v /\ t = s
          \/ p = "absent" /\ q = "accepted" /\ d = c /\ w = v /\ t = s
          \/ p = "accepted" /\ q = "running" /\ d = c /\ w = v /\ t = s
          \/ p \in {"running", "failed"} /\ q = p /\ c = 0 /\ d \in 1..MaxRounds
                /\ w = v /\ t = s
          \/ p = "running" /\ q = p /\ d = c /\ w = v /\ t \in Decisions
          \/ p = "running" /\ q = p /\ d = c /\ c # 0 /\ t = s /\ v = "none"
                /\ s # "none" /\ w = Verdict(s)
          \/ p = "running" /\ q = "completed" /\ d = c /\ w = v /\ t = s /\ v # "none"
          \/ p = "running" /\ q = "failed" /\ d = c /\ w = v /\ t = s
      BY VisibleMoves
    <2>. HIDE DEF ph, cd, wd, vd, p, q, c, d, v, w, s, t
    <2>5. CASE q = p /\ d = c /\ w = v /\ t = s
      BY <2>2, <2>5 DEF Lifecycle!avars, ph, cd, wd, vd
    <2>6. CASE p = "absent" /\ q = "accepted" /\ d = c /\ w = v /\ t = s
      <3>1. Lifecycle!Accept(j)
        BY <2>1, <2>2, <2>6 DEF Lifecycle!Accept, ph, cd, wd, vd
      <3>. QED BY <3>1 DEF Lifecycle!ANext
    <2>7. CASE p = "accepted" /\ q = "running" /\ d = c /\ w = v /\ t = s
      <3>1. Lifecycle!Start(j)
        BY <2>1, <2>2, <2>7 DEF Lifecycle!Start, ph, cd, wd, vd
      <3>. QED BY <3>1 DEF Lifecycle!ANext
    <2>8. CASE p \in {"running", "failed"} /\ q = p /\ c = 0 /\ d \in 1..MaxRounds
                 /\ w = v /\ t = s
      <3>1. Lifecycle!Show(j)
        BY <2>1, <2>2, <2>8 DEF Lifecycle!Show, ph, cd, wd, vd
      <3>. QED BY <3>1 DEF Lifecycle!ANext
    <2>9. CASE p = "running" /\ q = p /\ d = c /\ w = v /\ t \in Decisions
      <3>1. Lifecycle!Speak(j)
        BY <2>1, <2>2, <2>9 DEF Lifecycle!Speak, Decisions, ph, cd, wd, vd
      <3>. QED BY <3>1 DEF Lifecycle!ANext
    <2>10. CASE p = "running" /\ q = p /\ d = c /\ c # 0 /\ t = s /\ v = "none"
                  /\ s # "none" /\ w = Verdict(s)
      <3>1. \/ s = "approve" /\ w = "approved"
            \/ s = "request_changes" /\ w = "rejected"
        BY <2>3, <2>10 DEF Verdict, Decisions
      <3>2. Lifecycle!Decide(j)
        BY <2>1, <2>2, <2>10, <3>1 DEF Lifecycle!Decide, ph, cd, wd, vd
      <3>. QED BY <3>2 DEF Lifecycle!ANext
    <2>11. CASE p = "running" /\ q = "completed" /\ d = c /\ w = v /\ t = s /\ v # "none"
      <3>1. Lifecycle!Complete(j)
        BY <2>1, <2>2, <2>11 DEF Lifecycle!Complete, ph, cd, wd, vd
      <3>. QED BY <3>1 DEF Lifecycle!ANext
    <2>12. CASE p = "running" /\ q = "failed" /\ d = c /\ w = v /\ t = s
      <3>1. Lifecycle!Fail(j)
        BY <2>1, <2>2, <2>12 DEF Lifecycle!Fail, ph, cd, wd, vd
      <3>. QED BY <3>1 DEF Lifecycle!ANext
    <2>. QED BY <2>4, <2>5, <2>6, <2>7, <2>8, <2>9, <2>10, <2>11, <2>12
  <1>. QED BY <1>1, <1>2, OneJobAtATime DEF IInv

\* Stages, rounds and publishes that are activities of their own, with their retries,
\* timeouts and crashes, do nothing a reader of a job could tell from JobLifecycle.
THEOREM Implementation == Spec => ImplementsLifecycle
  <1>1. Init => Lifecycle!AInit
    BY LifecycleInit
  <1>2. IInv /\ [Next]_vars => [Lifecycle!ANext]_(Lifecycle!avars)
    BY LifecycleStep
  <1>. QED BY <1>1, <1>2, Invariance, PTL DEF Spec, ImplementsLifecycle, Lifecycle!ASpec
=============================================================================
