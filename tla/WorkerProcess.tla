--------------------------- MODULE WorkerProcess ---------------------------
(***************************************************************************)
(* What the activities of one worker share: its threads, the pool of       *)
(* database connections (core/db.py) and the default client of the model   *)
(* (llm/client.py).                                                        *)
(*                                                                         *)
(* An activity is a job (rag_card_activity: a thread that runs an event    *)
(* loop of its own), a query (set_job_status_activity or                   *)
(* parse_document_activity: a thread and one connection) or a call         *)
(* (extract, generate and critique: a coroutine of the worker's loop, that *)
(* calls the model once). Between two awaits the worker's loop is with one *)
(* coroutine, and a connection is taken and kept without an await.         *)
(*                                                                         *)
(* A client is named by the loop that made it, since its connections serve *)
(* that loop only.                                                         *)
(***************************************************************************)
EXTENDS Naturals, FiniteSets

CONSTANTS Jobs, Queries, Calls,   \* the activities, by kind
          Main,                   \* the worker's own loop
          None,                   \* Python's None
          Threads,                \* temporal_activity_threads, 4 in the code
          PoolMax,                \* db_pool_max, 10 in the code
          MaxRetries,             \* llm_max_retries, 3 in the code
          MaxWork                 \* a bound on what a job does, call by call

ASSUME NamesAssumption == /\ None \notin Jobs \cup {Main} /\ Main \notin Jobs
                          /\ Jobs \cap Queries = {} /\ Calls \cap (Jobs \cup Queries) = {}
ASSUME SizesAssumption == /\ MaxRetries \in Nat \ {0} /\ MaxWork \in Nat
                          /\ Threads \in Nat \ {0} /\ PoolMax \in Nat
ASSUME PoolAssumption  == PoolMax > Threads

Tasks == Jobs \cup Queries \cup Calls
Loops == Jobs \cup {Main}
LoopOf(t) == IF t \in Calls THEN Main ELSE t

VARIABLES pc,       \* where each activity is
          work,     \* how many things a job has done
          failed,   \* the jobs that only have their failure to publish
          attempt,  \* run_agent: attempt, 0 outside
          client,   \* the default client of the agents package
          named,    \* _client_loop
          via,      \* the client a request went out through, until it is accounted
          pool,     \* _pool: how many pools were opened
          lock,     \* _lock: who holds it
          taken,    \* the connections in use: whose, and the how-manieth of theirs
          met       \* history: the loops that called the model beside another

vars == <<pc, work, failed, attempt, client, named, via, pool, lock, taken, met>>

\* Suspended: at an await, or not on any thread. Agent: inside run_agent.
Suspended == {"queued", "asking", "sleeping", "done"}
Agent     == {"replacing", "naming", "ready", "asking", "sleeping"}
Points    == Suspended \cup Agent \cup {"running", "connecting", "locking", "opening", "holding"}

Init == /\ pc = [t \in Tasks |-> "queued"]
        /\ work = [t \in Tasks |-> 0] /\ failed = {}
        /\ attempt = [t \in Tasks |-> 0]
        /\ client = None /\ named = None
        /\ via = [t \in Tasks |-> None]
        /\ pool = 0 /\ lock = None
        /\ taken = {}
        /\ met = {}

Goto(t, point) == pc' = [pc EXCEPT ![t] = point]

\* The worker's loop is with no other coroutine.
OnLoop(t) == t \in Calls => \A u \in Calls \ {t} : pc[u] \in Suspended

globals == <<client, named, met>>
database == <<pool, lock, taken>>

----------------------------------------------------------------------------
\* The activities that have a thread; the others wait for one.
OnThreads == {u \in Jobs \cup Queries : pc[u] \notin {"queued", "done"}}

Start(t) ==
    /\ t \in Jobs \cup Queries
    /\ pc[t] = "queued"
    /\ Cardinality(OnThreads) < Threads
    /\ Goto(t, IF t \in Jobs THEN "running" ELSE "connecting")
    /\ UNCHANGED <<work, failed, attempt, via, globals, database>>

\* A job publishes a stage, searches or looks up sources.
Query(t) ==
    /\ pc[t] = "running"
    /\ work[t] < MaxWork \/ t \in failed
    /\ work' = [work EXCEPT ![t] = IF t \in failed THEN @ ELSE @ + 1]
    /\ Goto(t, "connecting")
    /\ UNCHANGED <<failed, attempt, via, globals, database>>

\* A job is over, with a card or without; a failed one once it has tried to
\* publish its failure (Release).
Finish(t) ==
    /\ pc[t] = "running" /\ t \notin failed
    /\ Goto(t, "done")
    /\ UNCHANGED <<work, failed, attempt, via, globals, database>>

----------------------------------------------------------------------------
\* run_agent.

\* A call of the model begins with setup_llm: is the client this loop's?
Beside(t) == {LoopOf(u) : u \in {v \in Tasks : pc[v] \in Agent /\ LoopOf(v) # LoopOf(t)}}

Begins(t) == \/ t \in Jobs /\ pc[t] = "running" /\ work[t] < MaxWork /\ t \notin failed
             \/ t \in Calls /\ pc[t] = "queued" /\ OnLoop(t)

\* Mutant of SetupLlm: one client is enough for the process.
SetupLlmOnce(t) ==
    /\ Begins(t)
    /\ work' = [work EXCEPT ![t] = IF t \in Jobs THEN @ + 1 ELSE @]
    /\ met' = IF Beside(t) = {} THEN met ELSE met \cup Beside(t) \cup {LoopOf(t)}
    /\ Goto(t, IF named # None THEN "ready" ELSE "replacing")
    /\ UNCHANGED <<failed, attempt, client, named, via, database>>

SetupLlm(t) ==
    /\ Begins(t)
    /\ work' = [work EXCEPT ![t] = IF t \in Jobs THEN @ + 1 ELSE @]
    /\ met' = IF Beside(t) = {} THEN met ELSE met \cup Beside(t) \cup {LoopOf(t)}
    /\ Goto(t, IF named = LoopOf(t) THEN "ready" ELSE "replacing")
    /\ UNCHANGED <<failed, attempt, client, named, via, database>>

SetDefaultClient(t) ==
    /\ pc[t] = "replacing"
    /\ client' = LoopOf(t)
    /\ Goto(t, "naming")
    /\ UNCHANGED <<work, failed, attempt, named, via, met, database>>

SetClientLoop(t) ==
    /\ pc[t] = "naming"
    /\ named' = LoopOf(t)
    /\ Goto(t, "ready")
    /\ UNCHANGED <<work, failed, attempt, client, via, met, database>>

\* Runner.run asks through the default client of this moment, for a retry too.
Ask(t) ==
    /\ pc[t] \in {"ready", "sleeping"} /\ OnLoop(t)
    /\ attempt' = [attempt EXCEPT ![t] = @ + 1]
    /\ via' = [via EXCEPT ![t] = client]
    /\ Goto(t, "asking")
    /\ UNCHANGED <<work, failed, globals, database>>

\* _account takes a connection at once, in the loop.
Answered(t) ==
    /\ pc[t] = "asking" /\ OnLoop(t)
    /\ attempt' = [attempt EXCEPT ![t] = 0]
    /\ Goto(t, "connecting")
    /\ UNCHANGED <<work, failed, via, globals, database>>

\* Mutant of AskAgain: there is always another attempt.
AskAgainForEver(t) ==
    /\ pc[t] = "asking" /\ OnLoop(t)
    /\ attempt' = [attempt EXCEPT ![t] = 0]
    /\ via' = [via EXCEPT ![t] = None]
    /\ Goto(t, "sleeping")
    /\ UNCHANGED <<work, failed, globals, database>>

\* The request fails or is out of time, in a way that is worth another attempt.
AskAgain(t) ==
    /\ pc[t] = "asking" /\ OnLoop(t)
    /\ attempt[t] < MaxRetries
    /\ via' = [via EXCEPT ![t] = None]
    /\ Goto(t, "sleeping")
    /\ UNCHANGED <<work, failed, attempt, globals, database>>

\* The request fails for good.
AskFails(t) ==
    /\ pc[t] = "asking" /\ OnLoop(t)
    /\ via' = [via EXCEPT ![t] = None]
    /\ failed' = failed \cup (Jobs \cap {t})
    /\ attempt' = [attempt EXCEPT ![t] = 0]
    /\ Goto(t, IF t \in Jobs THEN "running" ELSE "done")
    /\ UNCHANGED <<work, globals, database>>

----------------------------------------------------------------------------
\* connection().

\* pool: the first look at _pool, without the lock.
MissPool(t) ==
    /\ pc[t] = "connecting" /\ pool = 0
    /\ Goto(t, "locking")
    /\ UNCHANGED <<work, failed, attempt, via, globals, database>>

Lock(t) ==
    /\ pc[t] = "locking" /\ lock = None
    /\ lock' = t
    /\ Goto(t, "opening")
    /\ UNCHANGED <<work, failed, attempt, via, globals, pool, taken>>

\* Mutant of OpenPool: the second look is left out.
OpenPoolBlindly(t) ==
    /\ pc[t] = "opening"
    /\ pool' = pool + 1
    /\ lock' = None
    /\ Goto(t, "connecting")
    /\ UNCHANGED <<work, failed, attempt, via, globals, taken>>

OpenPool(t) ==
    /\ pc[t] = "opening"
    /\ pool' = IF pool = 0 THEN 1 ELSE pool
    /\ lock' = None
    /\ Goto(t, "connecting")
    /\ UNCHANGED <<work, failed, attempt, via, globals, taken>>

Of(t) == {c \in taken : c[1] = t}

Take(t) ==
    /\ pc[t] = "connecting" /\ pool > 0
    /\ Cardinality(taken) < PoolMax
    /\ taken' = taken \cup {<<t, Cardinality(Of(t)) + 1>>}
    /\ Goto(t, "holding")
    /\ UNCHANGED <<work, failed, attempt, via, globals, pool, lock>>

\* What follows the statements: an answer is accounted, well or not; a query of
\* a job succeeds or fails the job, and that of a failed job is its last.
After(t) ==
    /\ failed' \in IF t \in Jobs /\ via[t] = None THEN {failed, failed \cup {t}} ELSE {failed}
    /\ via' = [via EXCEPT ![t] = None]
    /\ Goto(t, IF t \in Jobs \ failed THEN "running" ELSE "done")

\* Mutant of Release: a job keeps its connections to its end.
ReleaseAtTheEnd(t) ==
    /\ pc[t] = "holding"
    /\ After(t)
    /\ taken' = IF pc'[t] = "running" THEN taken ELSE taken \ Of(t)
    /\ UNCHANGED <<work, attempt, globals, pool, lock>>

Release(t) ==
    /\ pc[t] = "holding"
    /\ After(t)
    /\ taken' = taken \ Of(t)
    /\ UNCHANGED <<work, attempt, globals, pool, lock>>

----------------------------------------------------------------------------
TaskStep(t) ==
    \/ Start(t) \/ Query(t) \/ Finish(t)
    \/ SetupLlm(t) \/ SetDefaultClient(t) \/ SetClientLoop(t)
    \/ Ask(t) \/ Answered(t) \/ AskAgain(t) \/ AskFails(t)
    \/ MissPool(t) \/ Lock(t) \/ OpenPool(t) \/ Take(t) \/ Release(t)

AllDone == \A t \in Tasks : pc[t] = "done"

Next == \/ \E t \in Tasks : TaskStep(t)
        \/ AllDone /\ UNCHANGED vars

Spec == Init /\ [][Next]_vars

\* While anything can go on, something does: wait_for ends a request that hangs.
FairSpec == Spec /\ WF_vars(\E t \in Tasks : TaskStep(t))

----------------------------------------------------------------------------
(* Correctness.                                                            *)

\* Every variable holds a value of its kind.
TypeOK ==
    /\ pc      \in [Tasks -> Points]
    /\ work    \in [Tasks -> Nat]
    /\ failed  \subseteq Jobs
    /\ attempt \in [Tasks -> Nat]
    /\ client  \in Loops \cup {None} /\ named \in Loops \cup {None}
    /\ via     \in [Tasks -> Loops \cup {None}]
    /\ pool    \in Nat
    /\ lock    \in Tasks \cup {None}
    /\ taken   \subseteq Tasks \X (Nat \ {0})
    /\ met     \subseteq Loops

\* However many activities need the database first at the same moment, one pool
\* is opened (pool looks at _pool before the lock and again under it).
OnePool == pool <= 1

\* A request goes out through the client of its own loop, retries included and
\* whatever loops have come and gone, unless its loop has called the model at
\* the same time as another: there the shared default client is whoever's set it
\* last (setup_llm, run_agent).
AloneThroughOwnClient ==
    \A t \in Tasks : (pc[t] = "asking" /\ LoopOf(t) \notin met) => via[t] = LoopOf(t)

\* Nobody waits for a connection while the pool is larger than the number of threads,
\* so the accounting of a call never stops the worker's loop: no activity asks
\* for a second connection while it has one (connection, _account).
NobodyWaits == \A t \in Tasks : pc[t] = "connecting" => Cardinality(taken) < PoolMax

\* Every activity ends, also one that has to wait for a thread behind jobs whose
\* requests fail again and again: nobody waits for a thread, the lock, the loop or
\* a connection for ever (llm_max_retries, llm_timeout_s, temporal_activity_threads).
EveryTaskEnds == <>AllDone
============================================================================
