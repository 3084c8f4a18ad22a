------------------------------ MODULE CardJobs ------------------------------
(***************************************************************************)
(* A draft job: POST /jobs inserts a row and starts CardWorkflow, which    *)
(* runs each stage as an activity of its own and publishes the stage       *)
(* before it; the human then decides as in RagCardJobs.                    *)
(*                                                                         *)
(* Only set_job_status_activity writes to the row, so only its attempts    *)
(* have threads here. The activities that call the model write nothing:    *)
(* an attempt returns or fails, and a late answer is dropped. When one     *)
(* fails for good nobody tells the row, which keeps its last stage.        *)
(*                                                                         *)
(* A card is named by the round that drafted it.                           *)
(***************************************************************************)
EXTENDS Naturals

CONSTANTS Jobs,       \* requests, and the jobs they insert
          Keys,       \* idempotency keys
          NoKey,      \* no Idempotency-Key header
          KeyOf,      \* the key each request carries
          MaxTries,   \* RetryPolicy(maximum_attempts), 3 in the code
          MaxRounds   \* CardWorkflow.run(max_attempts), 3 in the code

ASSUME KeysAssumption == NoKey \notin Keys /\ KeyOf \in [Jobs -> Keys \cup {NoKey}]
ASSUME BoundsAssumption == MaxTries \in Nat \ {0} /\ MaxRounds \in Nat \ {0}

VARIABLES jobs,    \* the jobs table
          api,     \* where each request is in create_job
          wf,      \* each job's workflow, as the Temporal server records it
          thread,  \* where each attempt to publish a status is
          overran  \* history: the jobs with a publish that outlived its timeout unwritten

vars == <<jobs, api, wf, thread, overran>>

INSTANCE JobsTable WITH MaxCard <- MaxRounds

----------------------------------------------------------------------------
Stages    == {"extracting", "generating", "critiquing"}
Decisions == {"approve", "request_changes"}
Tries     == 1..MaxTries

\* The calls of _publish, the stages of a round told apart by the round.
Publishes == ({"generating", "critiquing"} \X (1..MaxRounds))
                \cup ({"extracting", "await", "final"} \X {0})
Attempts  == [job : Jobs, publish : Publishes, try : Tries]

Publishing == Stages \cup {"await", "final"}
Modelling  == {"extract", "generate", "critique"}

Workflow == [ pc       : Publishing \cup Modelling
                           \cup {"none", "waiting", "completed", "failed"},
              round    : 0..MaxRounds,
              try      : 0..MaxTries,
              card     : Cards \cup {NoCard},
              decision : Decisions \cup {"none"},
              final    : Verdicts \cup {"none"} ]

NoWorkflow == [ pc |-> "none", round |-> 0, try |-> 0, card |-> NoCard,
                decision |-> "none", final |-> "none" ]

\* wrote: the row is written and the server still waits for the report.
Threads == {"idle", "ready", "wrote", "gone"}

Init == /\ jobs   = [j \in Jobs |-> NoRow]
        /\ api    = [j \in Jobs |-> "idle"]
        /\ wf     = [j \in Jobs |-> NoWorkflow]
        /\ thread = [a \in Attempts |-> "idle"]
        /\ overran = {}

----------------------------------------------------------------------------
\* CardWorkflow.run and the server's retry policy, as functions of a workflow.

AtStep(w, step) == [w EXCEPT !.pc = step, !.try = 1]
Closed(w, how)  == [w EXCEPT !.pc = how, !.try = 0]

NextRound(w) == [AtStep(w, "generating") EXCEPT !.round = @ + 1]

\* A status was published: its stage begins, the wait begins, or the run is over.
AfterPublish(w) ==
    CASE w.pc = "extracting" -> AtStep(w, "extract")
      [] w.pc = "generating" -> AtStep(w, "generate")
      [] w.pc = "critiquing" -> AtStep(w, "critique")
      [] w.pc = "await"      -> Closed(w, "waiting")
      [] w.pc = "final"      -> Closed(w, "completed")

\* A model activity returned: the facts, a draft, or a report.
AfterModel(w) ==
    CASE w.pc = "extract"  -> {NextRound(w)}
      [] w.pc = "generate" -> {[AtStep(w, "critiquing") EXCEPT !.card = w.round]}
      [] w.pc = "critique" -> {AtStep(w, "await")} \cup
                              (IF w.round < MaxRounds THEN {NextRound(w)} ELSE {})

\* Mutant of AfterFailure: a status that was never published is passed over.
AfterFailureOnward(w) ==
    IF w.try < MaxTries THEN [w EXCEPT !.try = @ + 1]
    ELSE IF w.pc \in Publishing THEN AfterPublish(w) ELSE Closed(w, "failed")

AfterFailure(w) ==
    IF w.try < MaxTries THEN [w EXCEPT !.try = @ + 1] ELSE Closed(w, "failed")

Verdict(decision) == IF decision = "approve" THEN "approved" ELSE "rejected"
Decided(w) == [AtStep(w, "final") EXCEPT !.final = Verdict(w.decision)]

----------------------------------------------------------------------------
\* create_job in routers/jobs.py.

CreateJob(r) ==
    /\ api[r] = "idle"
    /\ IF Conflicting(jobs, KeyOf[r]) = {}
         THEN /\ jobs' = [jobs EXCEPT ![r] = NewRow(KeyOf[r])]
              /\ api'  = [api EXCEPT ![r] = "starting"]
         ELSE jobs' = jobs /\ api' = [api EXCEPT ![r] = "ended"]
    /\ UNCHANGED <<wf, thread, overran>>

\* The client is answered, or gets an error although the workflow was started.
StartWorkflow(r) ==
    /\ api[r] = "starting"
    /\ wf' = [wf EXCEPT ![r] = AtStep(@, "extracting")]
    /\ api' = [api EXCEPT ![r] = "ended"]
    /\ UNCHANGED <<jobs, thread, overran>>

StartFails(r) ==
    /\ api[r] = "starting"
    /\ api' = [api EXCEPT ![r] = "ended"]
    /\ UNCHANGED <<jobs, wf, thread, overran>>

----------------------------------------------------------------------------
\* The activities that call the model.

ModelReturns(j) ==
    /\ wf[j].pc \in Modelling
    /\ \E w \in AfterModel(wf[j]) : wf' = [wf EXCEPT ![j] = w]
    /\ UNCHANGED <<jobs, api, thread, overran>>

\* An error, a lost worker or STAGE_TIMEOUT.
ModelFails(j) ==
    /\ wf[j].pc \in Modelling
    /\ wf' = [wf EXCEPT ![j] = AfterFailure(@)]
    /\ UNCHANGED <<jobs, api, thread, overran>>

----------------------------------------------------------------------------
\* set_job_status_activity.

PublishOf(w) == <<w.pc, IF w.pc \in {"generating", "critiquing"} THEN w.round ELSE 0>>

Current(a) == /\ wf[a.job].pc \in Publishing
              /\ a.publish = PublishOf(wf[a.job]) /\ a.try = wf[a.job].try
Live(a)    == thread[a] \in {"ready", "wrote"}

Dispatch(a) ==
    /\ Current(a)
    /\ thread[a] = "idle"
    /\ thread' = [thread EXCEPT ![a] = "ready"]
    /\ UNCHANGED <<jobs, api, wf, overran>>

\* Mutant of Timeout: an attempt that has written is not given up.
TimeoutOfTheSilent(a) ==
    /\ Current(a)
    /\ thread[a] \notin {"idle", "wrote"}
    /\ wf' = [wf EXCEPT ![a.job] = AfterFailure(@)]
    /\ overran' = IF thread[a] = "ready" THEN overran \cup {a.job} ELSE overran
    /\ UNCHANGED <<jobs, api, thread>>

\* STATUS_TIMEOUT: a thread that has not written yet goes on and will; one that
\* has only its report left, which the server will drop, is done.
Timeout(a) ==
    /\ Current(a)
    /\ thread[a] # "idle"
    /\ wf' = [wf EXCEPT ![a.job] = AfterFailure(@)]
    /\ overran' = IF thread[a] = "ready" THEN overran \cup {a.job} ELSE overran
    /\ thread' = [thread EXCEPT ![a] = IF @ = "ready" THEN "ready" ELSE "gone"]
    /\ UNCHANGED <<jobs, api>>

\* Mutant of StatusOf: the verdict is read when it is written.
StatusOfNow(a) == CASE a.publish[1] = "await" -> "awaiting_human"
                    [] a.publish[1] = "final" -> Verdict(wf[a.job].decision)
                    [] OTHER -> a.publish[1]

\* The arguments of a publish were fixed when it was scheduled, and neither the
\* last card nor the verdict changes after that.
StatusOf(a) == CASE a.publish[1] = "await" -> "awaiting_human"
                 [] a.publish[1] = "final" -> wf[a.job].final
                 [] OTHER -> a.publish[1]
CardAt(a)   == IF a.publish[1] \in Stages THEN NoCard ELSE wf[a.job].card

\* Mutants of PublishStatus: every stage shows the draft it has; drafts are
\* not counted.
PublishStatusWithDraft(a) ==
    /\ thread[a] = "ready"
    /\ jobs' = [jobs EXCEPT ![a.job] = SetStatus(@, StatusOf(a), wf[a.job].card, NoCard,
                                                 "none", StatusOf(a) = "generating")]
    /\ thread' = [thread EXCEPT ![a] = "wrote"]
    /\ UNCHANGED <<api, wf, overran>>
PublishStatusUncounted(a) ==
    /\ thread[a] = "ready"
    /\ jobs' = [jobs EXCEPT ![a.job] = SetStatus(@, StatusOf(a), CardAt(a), NoCard,
                                                 "none", FALSE)]
    /\ thread' = [thread EXCEPT ![a] = "wrote"]
    /\ UNCHANGED <<api, wf, overran>>

PublishStatus(a) ==
    /\ thread[a] = "ready"
    /\ jobs' = [jobs EXCEPT ![a.job] = SetStatus(@, StatusOf(a), CardAt(a), NoCard,
                                                 "none", StatusOf(a) = "generating")]
    /\ thread' = [thread EXCEPT ![a] = IF Current(a) THEN "wrote" ELSE "gone"]
    /\ UNCHANGED <<api, wf, overran>>

\* The database refuses, before or after the row was written, and the server
\* is told.
PublishFails(a) ==
    /\ thread[a] \in {"ready", "wrote"}
    /\ wf' = IF Current(a) THEN [wf EXCEPT ![a.job] = AfterFailure(@)] ELSE wf
    /\ thread' = [thread EXCEPT ![a] = "gone"]
    /\ UNCHANGED <<jobs, api, overran>>

ReportPublished(a) ==
    /\ thread[a] = "wrote"
    /\ wf' = IF Current(a) THEN [wf EXCEPT ![a.job] = AfterPublish(@)] ELSE wf
    /\ thread' = [thread EXCEPT ![a] = "gone"]
    /\ UNCHANGED <<jobs, api, overran>>

WorkerCrash ==
    /\ \E a \in Attempts : Live(a)
    /\ thread' = [a \in Attempts |-> IF Live(a) THEN "gone" ELSE thread[a]]
    /\ UNCHANGED <<jobs, api, wf, overran>>

----------------------------------------------------------------------------
\* The human.

Signal(j, d) ==
    /\ wf[j].pc \notin {"none", "completed", "failed"}
    /\ wf' = [wf EXCEPT ![j].decision = d]
    /\ UNCHANGED <<jobs, api, thread, overran>>

WaitOver(j) ==
    /\ wf[j].pc = "waiting"
    /\ wf[j].decision # "none"
    /\ wf' = [wf EXCEPT ![j] = Decided(@)]
    /\ UNCHANGED <<jobs, api, thread, overran>>

----------------------------------------------------------------------------
Terminated ==
    /\ \A j \in Jobs : api[j] = "ended"
    /\ \A j \in Jobs : wf[j].pc \in {"none", "completed", "failed"}
    /\ \A a \in Attempts : ~Live(a)

Next ==
    \/ \E r \in Jobs : CreateJob(r) \/ StartWorkflow(r) \/ StartFails(r)
    \/ \E j \in Jobs : ModelReturns(j) \/ ModelFails(j) \/ WaitOver(j)
    \/ \E j \in Jobs, d \in Decisions : Signal(j, d)
    \/ \E a \in Attempts : \/ Dispatch(a) \/ Timeout(a)
                           \/ PublishStatus(a) \/ PublishFails(a) \/ ReportPublished(a)
    \/ WorkerCrash
    \/ Terminated /\ UNCHANGED vars

Spec == Init /\ [][Next]_vars

\* The server resumes a workflow that was decided on; it hands out the attempts of
\* a publish and its timers end them, and they end every model activity.
ServerMoves(j) ==
    \/ WaitOver(j) \/ ModelReturns(j) \/ ModelFails(j)
    \/ /\ wf[j].pc \in Publishing
       /\ LET a == [job |-> j, publish |-> PublishOf(wf[j]), try |-> wf[j].try]
          IN Dispatch(a) \/ Timeout(a)

\* Only the server is fair: it need not get anything written.
FairSpec == Spec /\ \A j \in Jobs : WF_vars(ServerMoves(j))

----------------------------------------------------------------------------
(* Correctness.                                                            *)

\* Every variable holds a value of its kind.
TypeOK ==
    /\ jobs   \in [Jobs -> Row]
    /\ api    \in [Jobs -> {"idle", "starting", "ended"}]
    /\ wf     \in [Jobs -> Workflow]
    /\ thread \in [Attempts -> Threads]
    /\ overran \subseteq Jobs

\* A reader sees a card only once the critic is done with it, and it is the last
\* draft: no draft the critic refused while rounds were left is ever shown.
OnlyTheLastDraftShows ==
    \A j \in Jobs : jobs[j].result # NoCard =>
        /\ jobs[j].result = wf[j].card /\ wf[j].card = wf[j].round
        /\ wf[j].pc \in {"await", "waiting", "final", "completed", "failed"}

\* A row that shows a verdict shows the card the verdict is about.
VerdictShowsItsCard ==
    \A j \in Jobs : jobs[j].status \in Verdicts =>
        jobs[j].status = wf[j].final /\ jobs[j].result = wf[j].card

\* Every draft the workflow asks for was counted before, whatever was retried:
\* GET /jobs never shows fewer attempts than the workflow made.
DraftsAreCounted ==
    \A j \in Jobs : wf[j].card <= jobs[j].attempts

\* Unless a publish outlived its timeout unwritten, the row names the stage the workflow
\* is in, and its verdict once it has completed.
StageIsShown ==
    \A j \in Jobs \ overran :
        /\ wf[j].pc = "extract"   => jobs[j].status = "extracting"
        /\ wf[j].pc = "generate"  => jobs[j].status = "generating"
        /\ wf[j].pc = "critique"  => jobs[j].status = "critiquing"
        /\ wf[j].pc = "waiting"   => jobs[j].status = "awaiting_human"
        /\ wf[j].pc = "completed" => jobs[j].status = wf[j].final

\* What a reader of GET /jobs can make out of a job's row and workflow.
PhaseOf(j) ==
    IF ~Exists(jobs[j]) THEN "absent"
    ELSE IF wf[j].pc = "none" THEN "accepted"
    ELSE IF wf[j].pc \in {"completed", "failed"} THEN wf[j].pc
    ELSE "running"

Lifecycle == INSTANCE JobLifecycle WITH
                MaxCard <- MaxRounds,
                phase   <- [j \in Jobs |-> PhaseOf(j)],
                card    <- [j \in Jobs |-> jobs[j].result],
                word    <- [j \in Jobs |-> wf[j].decision],
                verdict <- [j \in Jobs |-> wf[j].final]

\* A draft job keeps the promises of JobLifecycle although its stages, rounds and
\* publishes are activities of their own.
ImplementsLifecycle == Lifecycle!ASpec

\* Every started workflow comes to rest, again and again: it is closed, or it waits
\* for a human who has not decided yet.
StartedComesToRest ==
    \A j \in Jobs : []<>( \/ wf[j].pc \in {"none", "completed", "failed"}
                          \/ wf[j].pc = "waiting" /\ wf[j].decision = "none" )
=============================================================================
