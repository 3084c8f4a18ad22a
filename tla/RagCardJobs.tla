---------------------------- MODULE RagCardJobs ----------------------------
(***************************************************************************)
(* The life of a card job: POST /generate-card inserts a row and starts    *)
(* RagCardWorkflow; the workflow runs rag_card_activity, publishes the     *)
(* card for a human, waits for a signal and publishes the verdict.         *)
(*                                                                         *)
(* Three parties write or read a job and none of them waits for another:   *)
(*   - the API (api): one entry per request, which may die between the     *)
(*     INSERT and start_workflow, or lose the answer of start_workflow;    *)
(*   - the workflow (wf): durable in the Temporal server, which retries an *)
(*     activity MaxTries times and knows a lost worker only by a timeout;  *)
(*   - the threads of the worker (thread): one per attempt of an activity. *)
(*     A timed-out attempt is not stopped: its thread goes on writing to   *)
(*     the row until it ends or the worker process dies.                   *)
(*                                                                         *)
(* A request and the job it would insert have the same name. A card is     *)
(* named by the attempt of rag_card_activity that returned it.             *)
(***************************************************************************)
EXTENDS Naturals, FiniteSets

CONSTANTS Jobs,       \* requests, and the jobs they insert
          Keys,       \* idempotency keys
          NoKey,      \* no Idempotency-Key header
          KeyOf,      \* the key each request carries
          MaxTries,   \* RetryPolicy(maximum_attempts), 3 in the code
          MaxRounds   \* run_rag_pipeline(max_attempts), 3 in the code

ASSUME KeysAssumption == NoKey \notin Keys /\ KeyOf \in [Jobs -> Keys \cup {NoKey}]
ASSUME BoundsAssumption == MaxTries \in Nat \ {0} /\ MaxRounds \in Nat \ {0}

VARIABLES jobs,    \* the jobs table
          api,     \* where each request is in generate_card
          wf,      \* each job's workflow, as the Temporal server records it
          said,    \* the signals each workflow has accepted
          thread,  \* where each activity attempt is in its code
          round    \* the draft each rag attempt is at

vars == <<jobs, api, wf, said, thread, round>>

INSTANCE JobsTable WITH MaxCard <- MaxTries

----------------------------------------------------------------------------
Decisions == {"approve", "request_changes"}
Steps     == {"rag", "await", "final"}
Tries     == 1..MaxTries

\* An attempt of the activity the workflow runs at a step.
Attempts == [job : Jobs, step : Steps, try : Tries]

Workflow == [ pc       : Steps \cup {"none", "waiting", "completed", "failed"},
              try      : 0..MaxTries,
              card     : Cards \cup {NoCard},
              decision : Decisions \cup {"none"},
              final    : Verdicts \cup {"none"} ]

NoWorkflow == [ pc |-> "none", try |-> 0, card |-> NoCard,
                decision |-> "none", final |-> "none" ]

RagPoints == {"title", "retrieving", "generating", "critiquing"}

\* idle: not handed to a worker yet; raised: an error is on its way to the
\* server; gone: ended while the server still expected it, or lost with the
\* worker; late: ended after the server had given up on it.
Threads == RagPoints \cup {"ready", "wrote", "raised", "idle", "gone", "late"}

Init == /\ jobs   = [j \in Jobs |-> NoRow]
        /\ api    = [j \in Jobs |-> "idle"]
        /\ wf     = [j \in Jobs |-> NoWorkflow]
        /\ said   = [j \in Jobs |-> {}]
        /\ thread = [a \in Attempts |-> "idle"]
        /\ round  = [a \in Attempts |-> 0]

----------------------------------------------------------------------------
\* The steps of RagCardWorkflow.run and of the server's retry policy, as functions
\* of a workflow.

\* The workflow w goes on to the first attempt of its next activity.
AtStep(w, step) == [w EXCEPT !.pc = step, !.try = 1]

\* The workflow after set_job_status_activity returned.
AfterPublish(w) ==
    [w EXCEPT !.pc = IF @ = "await" THEN "waiting" ELSE "completed", !.try = 0]

\* Mutant of AfterFailure: a status activity that failed for good is taken for
\* one that succeeded.
AfterFailureIgnored(w) ==
    IF w.try < MaxTries THEN [w EXCEPT !.try = @ + 1]
    ELSE IF w.pc = "rag" THEN [w EXCEPT !.pc = "failed", !.try = 0]
    ELSE AfterPublish(w)

\* RETRY: the next attempt, or the activity's error fails the workflow.
AfterFailure(w) ==
    IF w.try < MaxTries THEN [w EXCEPT !.try = @ + 1]
                        ELSE [w EXCEPT !.pc = "failed", !.try = 0]

\* Mutant of WithCard: the card is not published before the wait.
WithCardUnpublished(w, card) ==
    [w EXCEPT !.pc = "waiting", !.try = 0, !.card = card]

\* The workflow after the rag activity returned a card.
WithCard(w, card) == [AtStep(w, "await") EXCEPT !.card = card]

\* wait_condition is over: the verdict is computed once, from the last signal.
Verdict(decision) == IF decision = "approve" THEN "approved" ELSE "rejected"
Decided(w) == [AtStep(w, "final") EXCEPT !.final = Verdict(w.decision)]

----------------------------------------------------------------------------
\* The API: generate_card in routers/generate.py.

\* Mutant of CreateJob: a request without a key is answered at once.
CreateJobUnstarted(r) ==
    /\ api[r] = "idle"
    /\ Conflicting(jobs, KeyOf[r]) = {}
    /\ jobs' = [jobs EXCEPT ![r] = NewRow(KeyOf[r])]
    /\ api'  = [api EXCEPT ![r] = IF KeyOf[r] = NoKey THEN "answered" ELSE "starting"]
    /\ UNCHANGED <<wf, said, thread, round>>

\* create_job: the INSERT, or the SELECT of the row that holds the key. Only
\* the request that inserted goes on to start_workflow.
CreateJob(r) ==
    /\ api[r] = "idle"
    /\ IF Conflicting(jobs, KeyOf[r]) = {}
         THEN /\ jobs' = [jobs EXCEPT ![r] = NewRow(KeyOf[r])]
              /\ api'  = [api EXCEPT ![r] = "starting"]
         ELSE /\ jobs' = jobs
              /\ api'  = [api EXCEPT ![r] = "answered"]
    /\ UNCHANGED <<wf, said, thread, round>>

\* start_workflow reached the server; its answer may still be lost.
StartWorkflow(r) ==
    /\ api[r] = "starting"
    /\ wf' = [wf EXCEPT ![r] = AtStep(@, "rag")]
    /\ \E answer \in {"answered", "error"} : api' = [api EXCEPT ![r] = answer]
    /\ UNCHANGED <<jobs, said, thread, round>>

\* Temporal is unreachable, or the API dies after the INSERT.
StartFails(r) ==
    /\ api[r] = "starting"
    /\ api' = [api EXCEPT ![r] = "error"]
    /\ UNCHANGED <<jobs, wf, said, thread, round>>

----------------------------------------------------------------------------
\* The server's side of an activity.

\* The attempt the server is waiting for.
Current(a) == wf[a.job].pc = a.step /\ wf[a.job].try = a.try

\* The attempt has a thread that may still act.
Live(a) == thread[a] \notin {"idle", "gone", "late"}

\* How the thread's last report leaves it: the server drops a late one.
Ended(a) == IF Current(a) THEN "gone" ELSE "late"

\* A worker takes the attempt and a thread of its pool begins it.
Dispatch(a) ==
    /\ Current(a)
    /\ thread[a] = "idle"
    /\ thread' = [thread EXCEPT ![a] = IF a.step = "rag" THEN "title" ELSE "ready"]
    /\ UNCHANGED <<jobs, api, wf, said, round>>

\* Mutant of Timeout: only the attempts of a dead worker are given up.
TimeoutOfTheDead(a) ==
    /\ Current(a)
    /\ thread[a] # "idle"
    /\ ~Live(a)
    /\ wf' = [wf EXCEPT ![a.job] = AfterFailure(@)]
    /\ UNCHANGED <<jobs, api, said, thread, round>>

\* start_to_close_timeout: the server gives the attempt up whatever its
\* thread is doing.
Timeout(a) ==
    /\ Current(a)
    /\ thread[a] # "idle"
    /\ wf' = [wf EXCEPT ![a.job] = AfterFailure(@)]
    /\ UNCHANGED <<jobs, api, said, thread, round>>

\* The thread's error reaches the server.
ReportFailure(a) ==
    /\ thread[a] = "raised"
    /\ wf' = IF Current(a) THEN [wf EXCEPT ![a.job] = AfterFailure(@)] ELSE wf
    /\ thread' = [thread EXCEPT ![a] = Ended(a)]
    /\ UNCHANGED <<jobs, api, said, round>>

\* The worker process dies and every thread with it; the server is not told.
WorkerCrash ==
    /\ \E a \in Attempts : Live(a)
    /\ thread' = [a \in Attempts |-> IF Live(a) THEN Ended(a) ELSE thread[a]]
    /\ round'  = [a \in Attempts |-> IF Live(a) THEN 0 ELSE round[a]]
    /\ UNCHANGED <<jobs, api, wf, said>>

----------------------------------------------------------------------------
\* rag_card_activity: run_rag_pipeline announces each stage to the row.

AnnounceRetrieving(a) ==
    /\ thread[a] = "title"
    /\ jobs'   = [jobs EXCEPT ![a.job] = Announced(@, "retrieving")]
    /\ thread' = [thread EXCEPT ![a] = "retrieving"]
    /\ UNCHANGED <<api, wf, said, round>>

\* The first draft, or another one after the critic asked for rework.
AnnounceGenerating(a) ==
    /\ thread[a] \in {"retrieving", "critiquing"}
    /\ round[a] < MaxRounds
    /\ jobs'   = [jobs EXCEPT ![a.job] = Announced(@, "generating")]
    /\ thread' = [thread EXCEPT ![a] = "generating"]
    /\ round'  = [round EXCEPT ![a] = @ + 1]
    /\ UNCHANGED <<api, wf, said>>

AnnounceCritiquing(a) ==
    /\ thread[a] = "generating"
    /\ jobs'   = [jobs EXCEPT ![a.job] = Announced(@, "critiquing")]
    /\ thread' = [thread EXCEPT ![a] = "critiquing"]
    /\ UNCHANGED <<api, wf, said, round>>

\* The critic approved or the rounds are used up: either way the card goes
\* to the workflow, which ignores the status the pipeline chose for it.
RagReturns(a) ==
    /\ thread[a] = "critiquing"
    /\ wf' = IF Current(a) THEN [wf EXCEPT ![a.job] = WithCard(@, a.try)] ELSE wf
    /\ thread' = [thread EXCEPT ![a] = Ended(a)]
    /\ round'  = [round EXCEPT ![a] = 0]
    /\ UNCHANGED <<jobs, api, said>>

\* An error inside the try block: a model or database call failed, or the
\* SDK cancels a timed-out thread. The row is told before the server.
RagFails(a) ==
    /\ thread[a] \in RagPoints
    /\ jobs'   = [jobs EXCEPT ![a.job] = Failed(@)]
    /\ thread' = [thread EXCEPT ![a] = "raised"]
    /\ round'  = [round EXCEPT ![a] = 0]
    /\ UNCHANGED <<api, wf, said>>

\* set_job_status_activity, or the failure report itself, cannot reach the
\* database; or the document title, read before the try block, cannot be had.
FailsSilently(a) ==
    /\ thread[a] \in RagPoints \cup {"ready", "wrote"}
    /\ thread' = [thread EXCEPT ![a] = "raised"]
    /\ round'  = [round EXCEPT ![a] = 0]
    /\ UNCHANGED <<jobs, api, wf, said>>

----------------------------------------------------------------------------
\* set_job_status_activity, run by RagCardWorkflow._publish.

\* The status the workflow publishes at a step; its arguments were fixed when
\* the step was scheduled, and card and final do not change after that.
StatusAt(a) == IF a.step = "await" THEN "awaiting_human" ELSE wf[a.job].final

PublishStatus(a) ==
    /\ thread[a] = "ready"
    /\ jobs'   = [jobs EXCEPT ![a.job] = Published(@, StatusAt(a), wf[a.job].card)]
    /\ thread' = [thread EXCEPT ![a] = "wrote"]
    /\ UNCHANGED <<api, wf, said, round>>

ReportPublished(a) ==
    /\ thread[a] = "wrote"
    /\ wf' = IF Current(a) THEN [wf EXCEPT ![a.job] = AfterPublish(@)] ELSE wf
    /\ thread' = [thread EXCEPT ![a] = Ended(a)]
    /\ UNCHANGED <<jobs, api, said, round>>

----------------------------------------------------------------------------
\* The human.

\* Mutant of Signal: a closed workflow takes signals too.
SignalToAnyone(j, d) ==
    /\ wf[j].pc # "none"
    /\ wf'   = [wf EXCEPT ![j].decision = d]
    /\ said' = [said EXCEPT ![j] = @ \cup {d}]
    /\ UNCHANGED <<jobs, api, thread, round>>

\* approve and request_changes: any open workflow takes them, at any moment,
\* and the last one sent is the one the workflow remembers.
Signal(j, d) ==
    /\ wf[j].pc \notin {"none", "completed", "failed"}
    /\ wf'   = [wf EXCEPT ![j].decision = d]
    /\ said' = [said EXCEPT ![j] = @ \cup {d}]
    /\ UNCHANGED <<jobs, api, thread, round>>

\* Mutant of WaitOver: the workflow does not wait.
WaitOverAtOnce(j) ==
    /\ wf[j].pc = "waiting"
    /\ wf' = [wf EXCEPT ![j] = Decided(@)]
    /\ UNCHANGED <<jobs, api, said, thread, round>>

WaitOver(j) ==
    /\ wf[j].pc = "waiting"
    /\ wf[j].decision # "none"
    /\ wf' = [wf EXCEPT ![j] = Decided(@)]
    /\ UNCHANGED <<jobs, api, said, thread, round>>

----------------------------------------------------------------------------
\* Nothing is left to happen: every request is answered, every workflow that
\* was started is closed and no thread is running.
Terminated ==
    /\ \A j \in Jobs : api[j] \in {"answered", "error"}
    /\ \A j \in Jobs : wf[j].pc \in {"none", "completed", "failed"}
    /\ \A a \in Attempts : ~Live(a)

ThreadStep(a) ==
    \/ AnnounceRetrieving(a) \/ AnnounceGenerating(a) \/ AnnounceCritiquing(a)
    \/ RagReturns(a) \/ RagFails(a) \/ FailsSilently(a)
    \/ PublishStatus(a) \/ ReportPublished(a) \/ ReportFailure(a)

Next ==
    \/ \E r \in Jobs : CreateJob(r) \/ StartWorkflow(r) \/ StartFails(r)
    \/ \E a \in Attempts : Dispatch(a) \/ Timeout(a) \/ ThreadStep(a)
    \/ \E j \in Jobs, d \in Decisions : Signal(j, d)
    \/ \E j \in Jobs : WaitOver(j)
    \/ WorkerCrash
    \/ Terminated /\ UNCHANGED vars

\* The server resumes a workflow that was decided on; it hands out an activity's
\* attempt, or its timer ends it.
ServerMoves(j) ==
    \/ WaitOver(j)
    \/ /\ wf[j].pc \in Steps
       /\ LET a == [job |-> j, step |-> wf[j].pc, try |-> wf[j].try]
          IN Dispatch(a) \/ Timeout(a)

\* Only the server is fair. A thread may hang in a model call for ever, and a
\* client need not retry.
Fairness == \A j \in Jobs : WF_vars(ServerMoves(j))

Spec     == Init /\ [][Next]_vars
FairSpec == Spec /\ Fairness

----------------------------------------------------------------------------
(* Correctness.                                                            *)

\* The server gave up on an attempt of the job whose thread was still able to
\* act: from then on that thread and the workflow race for the row.
Overran(j) ==
    \E a \in Attempts : /\ a.job = j
                        /\ thread[a] = "late" \/ (Live(a) /\ ~Current(a))

\* Every variable holds a value of its kind.
TypeOK ==
    /\ jobs   \in [Jobs -> Row]
    /\ api    \in [Jobs -> {"idle", "starting", "answered", "error"}]
    /\ wf     \in [Jobs -> Workflow]
    /\ said   \in [Jobs -> SUBSET Decisions]
    /\ thread \in [Attempts -> Threads]
    /\ round  \in [Attempts -> 0..MaxRounds]

\* Requests that carry the same idempotency key never get two rows, however
\* their INSERTs interleave (create_job).
OneJobPerKey ==
    \A i, j \in Jobs :
        (Exists(jobs[i]) /\ Exists(jobs[j]) /\ jobs[i].key = jobs[j].key /\ i # j)
            => jobs[i].key = NoKey

\* A row has no workflow only while its own request is still starting one or
\* has ended in an error: no answered request stands behind a job nobody runs
\* except one that merely repeated the key of a failed one (generate_card).
StrandedOnlyByItsCreator ==
    \A j \in Jobs :
        (Exists(jobs[j]) /\ wf[j].pc = "none") => api[j] \in {"starting", "error"}

\* The card and the guard report in a row come from one and the same pipeline
\* attempt, the one the workflow recorded, whatever retries, late threads and
\* crashes did in between (RagCardWorkflow.run and _publish).
PublishedCardIsTheWorkflows ==
    \A j \in Jobs :
        \/ jobs[j].result = NoCard /\ jobs[j].guard = NoCard
        \/ /\ jobs[j].result = wf[j].card
           /\ jobs[j].guard = wf[j].card

\* A verdict in a row is the one the workflow took, and a human did send the
\* signal it stands for (RagCardWorkflow.run, approve, request_changes).
VerdictIsHumans ==
    \A j \in Jobs : jobs[j].status \in Verdicts =>
        /\ jobs[j].status = wf[j].final
        /\ jobs[j].status = "approved" => "approve" \in said[j]
        /\ jobs[j].status = "rejected" => "request_changes" \in said[j]

\* When the workflow takes its verdict the row already shows the very card the
\* verdict is about (the await publish precedes wait_condition).
VerdictIsOnVisibleCard ==
    \A j \in Jobs : wf[j].final # "none" =>
        wf[j].card # NoCard /\ jobs[j].result = wf[j].card

\* Unless an attempt outlived its timeout, GET /jobs agrees with the workflow
\* whenever the workflow rests: it says awaiting_human while the workflow waits
\* and the verdict once it has completed.
RestingRowAgrees ==
    \A j \in Jobs : ~Overran(j) =>
        /\ wf[j].pc = "waiting"   => jobs[j].status = "awaiting_human"
        /\ wf[j].pc = "completed" => jobs[j].status = wf[j].final

\* A card, once a reader can see it, is never replaced by another.
VisibleCardIsFinal ==
    [][\A j \in Jobs : jobs[j].result # NoCard => jobs'[j].result = jobs[j].result]_vars

\* What a reader of GET /jobs can make out of a job's row and workflow.
PhaseOf(j) ==
    IF ~Exists(jobs[j]) THEN "absent"
    ELSE IF wf[j].pc = "none" THEN "accepted"
    ELSE IF wf[j].pc \in {"completed", "failed"} THEN wf[j].pc
    ELSE "running"

Lifecycle == INSTANCE JobLifecycle WITH
                MaxCard <- MaxTries,
                phase   <- [j \in Jobs |-> PhaseOf(j)],
                card    <- [j \in Jobs |-> jobs[j].result],
                word    <- [j \in Jobs |-> wf[j].decision],
                verdict <- [j \in Jobs |-> wf[j].final]

\* Threads, retries, crashes and lost answers never show: every step of the
\* service is a step of JobLifecycle, or changes nothing a reader relies on.
ImplementsLifecycle == Lifecycle!ASpec

\* Every started workflow comes to rest, again and again: it is closed, or it waits
\* for a human who has not decided yet, even if every thread hangs
\* and every worker dies (RAG_TIMEOUT, STATUS_TIMEOUT, wait_condition).
StartedComesToRest ==
    \A j \in Jobs : []<>( \/ wf[j].pc \in {"none", "completed", "failed"}
                          \/ wf[j].pc = "waiting" /\ wf[j].decision = "none" )

----------------------------------------------------------------------------
(* The inductive invariant behind the safety properties.                   *)

\* A row exists from the INSERT on, and a workflow only once it does.
RowsOK ==
    \A j \in Jobs :
        /\ api[j] = "idle" => jobs[j] = NoRow
        /\ api[j] = "starting" => Exists(jobs[j]) /\ wf[j].pc = "none"
        /\ wf[j].pc # "none" => Exists(jobs[j])

\* What a workflow has in hand at each of its points.
FlowOK ==
    \A j \in Jobs :
        /\ wf[j].pc \in {"none", "rag"} => wf[j].card = NoCard
        /\ wf[j].pc \in {"none", "rag", "await", "waiting"} => wf[j].final = "none"
        /\ wf[j].pc \in {"await", "waiting", "final", "completed"}
              => wf[j].card # NoCard
        /\ wf[j].pc \in {"final", "completed"} => wf[j].final # "none"
        /\ wf[j].final # "none" => wf[j].card # NoCard
        /\ wf[j].pc \in Steps => wf[j].try \in Tries

\* A decision, and the verdict taken from it, goes back to a signal.
HumanOK ==
    \A j \in Jobs :
        /\ wf[j].decision # "none" => wf[j].decision \in said[j]
        /\ wf[j].final = "approved" => "approve" \in said[j]
        /\ wf[j].final = "rejected" => "request_changes" \in said[j]

\* A thread runs the code of its step, only attempts up to the current one have
\* been dispatched, and a step's arguments were fixed before its first attempt.
ThreadsOK ==
    \A a \in Attempts :
        /\ thread[a] \in RagPoints => a.step = "rag"
        /\ thread[a] \in {"ready", "wrote"} => a.step # "rag"
        /\ thread[a] # "idle" =>
              /\ wf[a.job].pc # "none"
              /\ a.step = "await" => wf[a.job].card # NoCard
              /\ a.step = "final" => wf[a.job].final # "none"
              /\ a.step = wf[a.job].pc => a.try <= wf[a.job].try

\* Where the workflow or a thread has published, the row shows the card.
ShownOK ==
    /\ \A a \in Attempts : thread[a] = "wrote" => jobs[a.job].result = wf[a.job].card
    /\ \A j \in Jobs :
         /\ wf[j].pc = "waiting" => jobs[j].result = wf[j].card
         /\ wf[j].final # "none" => jobs[j].result = wf[j].card
         /\ jobs[j].status \in Verdicts => jobs[j].status = wf[j].final

IInv == /\ TypeOK /\ RowsOK /\ FlowOK /\ HumanOK /\ ThreadsOK /\ ShownOK
        /\ PublishedCardIsTheWorkflows

\* While no attempt outlived its timeout, the row says what the last status
\* activity to report had written.
InTime ==
    \A a \in Attempts :
        (thread[a] = "wrote" /\ ~Overran(a.job))
            => jobs[a.job].status = StatusAt(a)

InTimeInv == InTime /\ RestingRowAgrees
============================================================================
