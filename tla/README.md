# Verification of the product card service

The service takes supplier documents (pdf, docx, xlsx), builds a search index over them and drafts a
product card with a language model; a human approves or refuses the draft. Its parts run in two
processes (the API and a Temporal worker) around a PostgreSQL database, and most of what can go wrong
is between them: an HTTP request that dies between two writes, an activity attempt that goes on after
the server gave up on it, a chunk that is deleted while a model is thinking about it.

This directory holds TLA+ modules that model those parts, TLC configurations that check them on small
instances, and TLAPS proofs that carry the most important results to every instance. Each definition
that models code is listed in `PROJECT.json` under `map` with the lines it stands for.

## 1. The system

| Component | State | Operations | Interacts with |
|---|---|---|---|
| Card jobs: `routers/generate.py`, `routers/workflows.py`, `repositories/jobs.py`, `RagCardWorkflow`, `rag_card_activity` | `jobs` rows; workflow state in Temporal; threads of the worker | accept a request with an idempotency key; run the pipeline as one activity that announces its stages; publish the card; wait for a signal; publish the verdict | pipeline (called by the activity), `set_status` from three kinds of writers, the human's signals |
| Draft jobs: `routers/jobs.py`, `CardWorkflow` | the same table; a workflow with one activity per stage | extract, generate, critique in rounds, each stage published by an activity of its own | as above |
| Document ingest: `routers/documents.py`, `services/documents.py`, `ParseDocumentWorkflow`, `rag/reindex.py` | `documents`, `chunks`, embeddings, the upload on disk | upload (insert, write file, start workflow), parse, replace chunks, embed; `make reindex` | search reads the chunks at any time; reindex and late attempts share the table |
| Generation pipeline and guardrails: `services/rag_pipeline.py`, `guardrails/`, `rag/context.py`, `rag/retrieval.py` | local to a run, plus the chunks table it reads twice | search, guard each chunk, build the context, generate and validate sources, critique, mask, choose the status | model calls; ingest may delete its chunks meanwhile |
| Synchronous drafts: `routers/cards.py`, `services/pipeline.py`, `services/structured.py` | local to a request | extract, generate with repairs, regenerate one field, critique, in rounds | model calls through `run_agent` |
| LLM client: `llm/client.py`, `llm/cost.py` | the process-wide default client and `_client_loop`; `llm_calls` rows | set the client up for the running loop, retry with backoff, account for a call | every stage of both pipelines, from several threads of one worker |
| Search and context: `repositories/chunks.py`, `rag/retrieval.py`, `rag/context.py` | none of its own | vector, full text and hybrid search; lay the hits out for the model | reads `chunks` joined with `indexed` documents |
| Parsers and chunker: `parsers/` | none | blocks of a file, chunks of blocks | ingest |
| Worker process and database pool: `temporal_worker.py`, `core/db.py` | four threads and one loop; `_pool` and its `_lock` | run an activity, open the pool, take and return a connection | every activity |
| Migrations: `core/migrate.py` | the ledger `schema_migrations`, the schema | apply what is missing, file by file | whoever starts the service |
| Evaluation harness: `evals/` | none | score generated cards offline | the pipeline |

What is hard in it, and where (the complete list with lines is under `hazards` in `PROJECT.json`):

* **Attempts that overlap.** Temporal times an activity attempt out and starts another, but the thread of
  the first goes on: it announces stages, writes statuses, deletes and inserts chunks.
* **Writes that are not one.** The row is inserted before the workflow is started; chunks are deleted,
  inserted, counted and marked in statements that commit one by one; a status is written and then reported.
* **State that is stale.** Chunks found by a search are validated minutes later; a repair wraps the last
  prompt; a status carries arguments fixed when it was scheduled.
* **Loss.** The worker or the API dies between any two steps; `start_workflow` succeeds and its answer is lost.
* **One process, many loops.** An activity in a thread runs an event loop of its own, the coroutines share the
  worker's; all of them share one default client of the model and one pool.
* **Cuts and limits.** Texts and tables are cut into parts that overlap, two rankings are fused, a context is filled
  up to a size: off by one, a word is lost, a chunk does not fit, or a loop does not end.
* **Humans.** A signal may come before there is a card, twice, or with both words.

What makes each part correct:

* *Card and draft jobs*: one row per idempotency key; a row is stranded only by its own creator; the row
  never mixes two attempts; a visible card is never replaced; a verdict is the human's word about the visible
  card; when the workflow rests the row says so, unless an attempt outlived its timeout.
* *Ingest*: one document per content; a document's chunks are none or all of one attempt's; an indexed
  document has all its chunks; a completed workflow leaves a settled document and no file.
* *Pipeline*: a card cites chunks that exist and that stand in the context it was given, and one the guard blocked only where
  the text of another names it like a header; it is done without a human only if nothing speaks against it; an approved card holds no personal data; model calls are bounded.
* *Worker process*: one pool; a loop that is alone asks through its own client; nobody waits for a connection; every activity ends.
* *Chunker, search, context*: no line is lost, every chunk fits, the fusion keeps what both rankings agree on, the context
  begins with the best chunk and misses none before the first that does not fit.
* *Migrations*: the ledger tells the schema, whoever else migrates and wherever a run is cut off.
* *Synchronous drafts*: the card returned is the one the last verdict is about; a rework follows the last
  report; requests are bounded by the product of the limits.

## 2. The modules

| Module | Models | State and actions |
|---|---|---|
| `JobsTable` | `repositories/jobs.py` | rows, the UNIQUE key (`Conflicting`), `set_status` (`SetStatus`: status always, payload, guard and error coalesced, attempts bumped) and its three callers (`Announced`, `Failed`, `Published`). No variables: it is instantiated by both job modules. |
| `RagCardJobs` | POST /generate-card to the verdict | `jobs` the table, `api` each request, `wf` each workflow as the server records it, `said` the signals, `thread` and `round` each activity attempt. One action per committed write, report or timer. |
| `CardJobs` | POST /jobs and `CardWorkflow` | as above with one activity per stage; only publishes write, so only they have threads; model activities are outcomes |
| `JobLifecycle` | what a client of either kind of job is promised | `phase`, `card`, `word`, `verdict`; no workers, attempts or retries. Both job modules are shown to implement it. |
| `DocumentIngest` | upload, parse activity, embedding, reindex | `docs`, `chunks`, `vectors`, `file`; `api`, `wf`, `thread`, `batch`; `tool` is make reindex. One action per statement of `ingest`, since the connection commits each. `parse` fixes how each content parses. |
| `CardPipeline` | `run_rag_pipeline` with the guards | `pc` is the next await; `table` may lose chunks at any time; `draft` is its cited ids, its confidence and what the guard finds in it. `ContextIds` are the ids `context_chunk_ids` reads back from the text of the context: those of its chunks and those their texts mention (`Mentions`) |
| `DraftPipeline` | POST /cards with `run_agent`'s retries | `pc`, `agent` and `prompt` describe the call in flight; `try`, `fixes`, `attempts` are the three nested counters; `judged` remembers the draft of the last report |
| `Chunker` | `chunk_blocks` with `_split_text` and `_split_rows` | `document` and the `block` the loop is at; `start` of `_split_text`, `first`, `line`, `length` of `_split_rows`; `chunks`. An action per turn of a loop. A character is a letter, a space or a newline; a line of a table is its length; a chunk names the place in its block it was cut from |
| `Retrieval` | `search_hybrid` and `build_context`, over the chunks `Chunker` made (it EXTENDS it) | `nearest`, `worded` are any two rankings of the chunks of a document, `near` where the threshold falls; one step for the query, one for each chunk `build_context` looks at |
| `WorkerProcess` | what activities of one worker share: `setup_llm`, `run_agent`, `pool`, `connection` | `pc` where each activity is; `client` and `named` the globals of `client.py`; `via` the client of a request; `pool`, `lock`, `taken` those of `db.py`; `met` is history. One action per statement another thread can see |
| `Migrations` | `run_migrations` and `main` in several processes | each process reads the ledger, then for each file skips it or runs, records and commits it in one transaction; it may be cut off between any two steps |
| `MC...` | instances for TLC | constants only |
| `RagCardJobsProofs`, `CardJobsProofs`, `DocumentIngestProofs`, `CardPipelineProofs`, `DraftPipelineProofs`, `WorkerProcessProofs`, `MigrationsProofs`, `RetrievalProofs` (of `Chunker` and `Retrieval`) | the theorems | section 5 |

How they compose. `RagCardJobs` and `CardJobs` use one `JobsTable` and implement one `JobLifecycle`. `RagCardJobs` sees of
`run_rag_pipeline` that it announces stages, hangs, returns or fails; `CardPipeline` is what happens inside. `DocumentIngest`
sees of the chunker that it gives some number of chunks; `Chunker` is how. `CardPipeline` sees of the search that it finds any
set of chunks; `Retrieval` is which. `WorkerProcess` is the other side of them all: the threads, the loop, the client and the
connections every activity needs, whatever it computes.

Operators whose comment begins "Mutant of" are plausible wrong versions of the definition that follows
(a dropped guard, a lost reset, a swapped order). No run uses them; each is paired in `PROJECT.json` with a
property that the change must break.

Abstractions shared by the modules: a request and the row it would insert have one name, and so have an
upload and its document; a card is named by the attempt or round that made it; a text is what the guards
tell of it; an answer of the model is any draft or something that is none. An activity attempt is a thread
that takes its steps one at a time, between which anything else may happen. The thread of a timed-out attempt
stays alive until it ends or the worker dies. External code is modelled from its use: the Temporal server retries
an activity up to its policy and drops late reports; PostgreSQL enforces its UNIQUE constraints and commits
each statement (autocommit) or each explicit transaction as a whole; the agents library returns an answer or raises.
The agents declare an output type: a library that checks answers itself raises where
`validate_or_retry` would repair, which the models allow too (`Fails`).

## 3. The runs

| Run | Instance | Distinct states | What it shows |
|---|---|---|---|
| `rag_all` | 1 job, 2 tries, 2 rounds, `FairSpec` | about 463,000 | every safety property of a card job, that it implements `JobLifecycle`, and that a started workflow comes to rest |
| `rag_keys` | 3 requests, 2 with one key, 1 try | about 1.1 million, with symmetry | one row per key; who stands behind a row without a workflow |
| `draft_all` | 1 draft job, 2 tries, 2 rounds, `FairSpec` | about 329,000 | the row keeps step with the workflow; only the last draft is shown, every draft is counted; `CardJobs` implements `JobLifecycle`; the workflow comes to rest |
| `ingest_all` | 2 uploads of one file, 2 tries, 2 chunks, batches of 1, make reindex, `FairSpec` | about 249,000 | one document per content; chunks stay whole, indexed means chunked, completed means settled; workflows close and embedding ends |
| `pipeline_all` | 3 chunks (one ruled, one lookalike id, two that mention another), 1 invented id, 2 attempts, 1 repair, limit 0 | about 290,000 | citations, blocking, masking, the gate, the bound on calls |
| `cards_all` | 2 fields, 2 tries, 3 attempts, 2 repairs | about 49,000 | the returned card is the judged one; rework heeds the last report; requests are bounded |
| `retrieval` | texts up to 8 characters and tables up to 4 lines of up to 7, parts of 6 with an overlap of 2; every pair of rankings of two documents, top 1 to 3 | about 308,000 | nothing is lost in the cut, parts fit, the cut ends; what both rankings put first comes first; the context misses no chunk before the first that does not fit |
| `worker` | 2 jobs, 1 query, 2 calls; 1 thread, a pool of 2, 2 retries, `FairSpec` | about 285,000 | one pool, whose client a request goes out through, no wait for a connection, every activity ends |
| `migrations` | 3 processes, 3 files, cut off and started again without limit | about 68,000 | ledger and schema agree, files in order and once; a run that ends well leaves nothing to apply |
| `pipeline_ids`, `cards_facts`, `retrieval_threshold` | as `pipeline_all` (without mentions), `cards_all`, `retrieval` | stop | the findings of section 6 |

Why the bounds are enough. Overlap needs two attempts: a late one and a current one; a third adds another
late one, which does what the second does (the proofs cover any number). Two rounds distinguish the first
draft from a rework. Jobs share nothing but the UNIQUE key, so depth is checked with one job and sharing with
three requests and one try. Two chunks and a batch of one make the embedding loop go round. A limit of 0 and
one ruled chunk put the guard on both sides of its threshold. One text mentions the chunk that may be blocked and an id of no chunk,
another the id that masking rewrites, the third nothing; a card may cite any set of ids. The synchronous loop runs with the code's own
attempts and repairs. Parts of 6 with an overlap of 2 meet the assumption the code's 700 and 120 meet (the overlap is less than half of a part), let a text of 8 be cut
(and the longer ones of the questions several times) and a line of 7 not fit at all; a table of four lines has rows that share
a part and rows that do not. One thread and three activities that want it make queues; two coroutines
and two jobs make every mixture of loops, the same loop twice included. A pool of two is the smallest that is larger
than the number of threads (the code has 4 threads and 10 connections); that the property holds for every such pair is proved. Three processes and files
let one process be overtaken twice. No counter is cut off by a state constraint: `try`, `round`, `attempts` and
`fixes` are bounded by guards of the code, and where `calls` and `requests` could grow the runs check that they do not;
`MaxWork` bounds how often a job of `WorkerProcess` does the same things again.
Deadlock is checked in every run; the terminal disjunct of each `Next` says when a system may stop.

Fairness. In the two job modules and the ingest module the server is fair, job by job (`WF_vars(ServerMoves(j))`): it dispatches
attempts, fires `start_to_close` timers and resumes a workflow whose condition holds, as a durable task queue with a running worker
does. Nothing is assumed of a human or a client. The threads of card jobs get no fairness: they may hang in
a model call for ever, and the workflow still comes to rest. `CardJobs` assumes that a model activity ends, by an answer or by `STAGE_TIMEOUT`.
`DocumentIngest` also assumes of each attempt that its running thread goes on (`ThreadStep`), since it asks whether a loop inside a
thread ends. `WorkerProcess` assumes only that while some activity can go on, one does, and that a request ends (`wait_for`
with `llm_timeout_s`); `Chunker` that a loop that can turn turns.

## 4. What the properties are for

Each hazard in `PROJECT.json` names the properties that would catch it; where the code does not exclude the hazard, its note says what
the properties leave open, or why there is none. Those worth reading first:

* `PublishedCardIsTheWorkflows`, `VisibleCardIsFinal`: several attempts of the rag activity may return
  cards, and late threads publish; the row still shows one card with its own guard report.
* `RestingRowAgrees` (of card jobs) and `StageIsShown` (of draft jobs) are conditional on `~Overran`, because a thread that outlived its
  timeout may overwrite the status afterwards: a job that was approved can go back to "generating" or "failed" for
  every later reader. The code does nothing against it; the properties say exactly when it cannot happen.
* `StrandedOnlyByItsCreator`: after a failed `start_workflow` a retry with the same key finds the row and starts nothing,
  so the job stays pending. The property says that this is the only way.
* `ChunksAreOneWholeAttempt`: two attempts delete and insert at the same time, and only the transaction with
  UNIQUE (doc_id, ordinal) keeps a search from seeing a mixture.
* `IndexedMeansChunked`, `CompletedIsSettled`: also conditional on `~Overran`.
* `CitationsWereGiven`, `BlockedIsCitedByMentionOnly`: the ids a card may cite are read back from the text of the context, where a line
  of a chunk that looks like a header counts as one. So a chunk may be cited that was not given, even one the guard reported, if a chunk that
  was given mentions it; the properties say that this is the only way, and that no id of no chunk gets through (`PlainTextCorrect`: where
  no text looks like a header, the context alone is cited). Section 6 has what the documents say.
* `NothingGoneIsCited`: chunks vanish between search and validation, and between one draft and the next.
* `AloneThroughOwnClient`: a job's loop dies with the job, but the client bound to it stays the default one. `setup_llm` compares
  loops and makes a new client, in two assignments another thread can fall between. The property says when that is enough:
  a loop whose calls never overlapped with another loop's uses its own client, retries included. With two jobs
  at once the code gives no such promise: a request then goes out through the client of whichever loop was set up last.
* `NobodyWaits` (of the worker; in the API all handlers are coroutines of one loop that never await while they hold a connection): `_account` takes
  a connection inside the event loop; were the pool empty, the wait would stop every coroutine.
  It never is, since an activity asks for one connection at a time and the pool is larger than the number of threads. Both numbers are
  settings, and nothing in the code compares them: the assumption `PoolAssumption` is what a deployment must keep.
* `NothingIsLost`, `ChunksFit`: a cut at a space, an overlap, white space stripped at the ends of each part, a row longer
  than a part; a passage no longer than the overlap is whole in some chunk, a row stands in exactly one.
* `BestHitsFirst`: the sum of two reciprocal ranks must not turn round what both rankings say.
* `LedgerTellsTheSchema`: both processes read the ledger before either writes.
* `ReworkHeedsTheReport`: `broken_field` and `feedback` outlive the round that set them.

## 5. What is proved

Assumptions: only the named ones of each module (`KeysAssumption`, `BoundsAssumption`, `ContentAssumption`,
`IngestBounds`, `IdsAssumption`, `MentionsAssumption`, `LimitsAssumption`, `FieldsAssumption`, `NamesAssumption`, `SizesAssumption`, `DocumentsAssumption`, `InkAssumption`, `AskedAssumption`, `TopKsAssumption`,
`PoolAssumption`, and those of `Migrations`): keys and contents are functions into their sets,
limits are natural numbers and positive where the code's defaults are. `InkAssumption` is what `normalize` does to a text before it
is cut: it is stripped, so a text that is not empty has a letter. Sets of jobs, documents and fields may be infinite.

* **`RagCardJobsProofs`.** The invariant `IInv` joins `TypeOK` with what the parties know of each other:
  `RowsOK` (a row exists before its workflow), `FlowOK` (which fields of the workflow are set at which step),
  `HumanOK` (the decision was said), `ThreadsOK` (an attempt that runs was scheduled; a publish runs only after the
  card is recorded), `ShownOK` and `PublishedCardIsTheWorkflows` (what the row shows is what the workflow recorded). None of
  the properties is inductive alone: that a late publish writes the right card, for one, rests on the card being recorded
  before any publish and never changed. From `IInv` follow `TypeCorrect`, `PublishedCardCorrect`, `VerdictIsHumansCorrect`,
  `VerdictIsOnVisibleCardCorrect`, `VisibleCardIsFinalCorrect`, and with `InTimeInv` (what holds while no attempt
  is late) `RestingRowAgreesCorrect`. `OneJobPerKeyCorrect` and `StrandedOnlyByItsCreatorCorrect` follow
  with their own steps. `Implementation` maps each step to a step of `JobLifecycle` or a stutter.
* **`CardJobsProofs`.** The same plan for draft jobs. `Flow` says which round, card and verdict a workflow has at each step,
  `Reached` how far it must be for a publish to have been scheduled at all, `ThreadsOK` that an attempt which has written is still
  waited for, `CountOK` that a round is at most one ahead of the count while it is being announced. A late publish of an early
  stage can only write a stage; one of `await` or `final` exists only once the last card is chosen. From it follow
  `TypeCorrect`, `OnlyTheLastDraftCorrect`, `VerdictShowsItsCardCorrect`, `DraftsAreCountedCorrect`, `Implementation`, and with `InTime`
  (a publish still to be written is the one waited for, unless its job overran) `StageIsShownCorrect`.
* **`DocumentIngestProofs`.** `TypeCorrect`, `OneDocCorrect`, `AnsweredCorrect` and `WholeCorrect`. `InOrder`
  ties row, workflow and upload together, and only a document with a workflow has threads. The last is inductive with it: chunks
  found before an insert are all those of some attempt, so one of them has ordinal 1, and UNIQUE refuses any others.
  `IndexedCorrect` and `CompletedCorrect` are about documents none of whose attempts outlived its timeout (`late` says which), so
  they need to know whose turn it is: `InTurn` says that an attempt starts only when the server has come to it, so that the one at work is
  alone, `Knows` what its thread
  knows at each of its points (after its delete there are no chunks, after its insert there are all its own and the row counts them, after
  its embedding none lacks a vector), `Settled` what the workflow may conclude from the report, and `OnlyTextIsCut` that only a parse with
  text came to any chunks. make reindex may fill vectors at any moment and disturbs none of it: a vector, once there, goes only with its chunk.
* **`CardPipelineProofs`.** `TypeCorrect`, `CitationsCorrect`, `NothingGoneCorrect`, `BlockedCorrect`, `PlainTextCorrect` and `SafeCorrect`, for any
  `Mentions`. The strengthening is `Sorted` (the chunks to be looked at, let through and blocked are disjoint) and `Cited` (before and after masking, a draft
  cites chunks whose ids stand in the context). `CallsCorrect` adds `Counted`: while
  chunks are looked at, the calls made and the ruled chunks still to come are at most all ruled ones; afterwards a draft has
  its repairs, its accepted answer and its critic, and earlier drafts have had theirs.
* **`DraftPipelineProofs`.** `TypeCorrect`, `JudgedCorrect`, `ReworkCorrect` from `Undecided` (nothing is decided
  while a call is out), and `RequestsCorrect`: `Over` counts the calls of `run_agent` that are over, as a function of `pc`,
  `attempts` and `fixes`; each takes `MaxTries` requests at most, and no step decreases what is left.

* **`WorkerProcessProofs`.** `TypeCorrect`, `OnePoolCorrect`, `AloneCorrect`, `NobodyWaitsCorrect`, for any number of activities, threads and connections.
  `Clients` says what a loop that met no other finds in the two globals at each of its points, and that a name left by a loop which is
  gone comes with its client or is about to be overwritten. `Room` says who can hold a connection: one each, by an activity at its statements, at most `Threads` of
  them on threads and one on the worker's loop. When a thread asks it is itself not among the holders, and when the
  loop asks no other coroutine is: the holders are at most `Threads` either way, fewer than `PoolMax`.
* **`MigrationsProofs`.** `TypeCorrect`, `LedgerCorrect`, `FinishedCorrect`, for any number of processes and files. The invariant
  says that a run never leaves an unapplied file behind it: what it read and what it applied are in the ledger, which only grows, and two
open transactions are at different files, since the second to run a file waits for the first.

* **`RetrievalProofs`.** The proofs of `Chunker` and `Retrieval`, for any documents, sizes, rankings and limits. What the code finds with
  `rfind`, `strip` or a running sum is a CHOOSE or a recursive function in the model; both come down to one lemma,
  `Least`: a non-empty set of numbers has a least element. From it `Greatest`, the equations of the recursive sums (`JoinedOne`,
  `JoinedNext`, `TotalNext`: a table of partial sums exists, and two of them agree, or there were a first place where not), and where a part
  ends (`EndOfPart`).
  `CutInv` says of the chunks so far that each lies in its block, is not blank and fits (`Right`), that the blocks that are done miss nothing
  (`Whole`), and of the block being cut what is safe already: of a text every passage up to `start + Overlap`, so that a passage that does
  not begin in the next part is whole in an earlier one; of a table the lines before `first`, each in one chunk, with `length` the joined
  length of the lines `first..line` and one newline more, which is why the test in `_split_rows` keeps a part within the size. From it
  `CutTypeCorrect`, `NothingLostCorrect`, `ChunksFitCorrect`, and `CutAdvances`, the measure that grows in every turn of the loops.
  `RetrievalCuts` carries all of them over to `Retrieval`, whose `RSpec` implies `Chunker`'s `Spec`.
  `BestFirstCorrect` is arithmetic about fused ranks: 1/A + 1/B > 1/X + 1/Y where A < X and B < Y (`SumsOfTwo`), and 1/A + 1/B > 1/X as long as
  neither A nor B reaches 2X (`TwoOverOne`); ranks are at most three times top_k, so this is where the bound of RRF_K + 2 comes from.
  `ContextCorrect` is inductive in `RInv` together with the length of what was taken, which needs that every chunk has a length
  (`PieceType`), and so that none is blank. Definitions ending in `In` or `At` are those of `Retrieval` with the chunks and
  rankings as parameters, since a step that leaves those alone leaves the parameters alone; `SameTexts`, `SameTotals` and `SameBest` say
  that they are the same.

Every invariant and action property the runs check has a theorem that names it. Only model-checked are the four liveness properties,
`StartedComesToRest`, `ParsingComesToRest`, `EveryTaskEnds` and `CuttingEnds`: liveness under fairness needs ENABLED, which is out of the
prover's reach. For `CuttingEnds` the other half of the argument, that no turn of a loop stands still, is proved (`CutAdvances`).

## 6. Findings

* `pipeline_ids`: masking comes after the sources were validated and rewrites the whole JSON of an approved
  card, `chunk_id` included. An id such as `a89261234567` matches the phone pattern, and the returned card cites
  `a[PHONE_1]`, which is in no context, although the documents promise that no such card reaches the result.
* `cards_facts`: after a repair of one field that fails again, the repair prompt wraps the fixer's prompt as
  the "original request", and the generator is asked for a whole card without the facts it is to write from.
* `retrieval_threshold`: the documents say the threshold cuts off plain rubbish. `search_hybrid` takes it and never uses it, and
  the service searches in no other mode: chunks that are far from the question and share no word with it are ranked and put
  before the model.

The sentence of `pipeline_ids` fails in a second way, which has no run of its own. `context_chunk_ids` (`rag/context.py:48`) finds every line of
the context that looks like a header, those in the texts of chunks included. A chunk with a line `[<id> | ...` makes the chunk with that id
citable, and a card that cites a chunk it was never given is returned as done. `MCCardPipeline_ids.cfg` with `SomeMentions` in place of
`NoMentions` and no `Lookalikes` shows it in seven states; `CitationsWereGiven` and `BlockedIsCitedByMentionOnly` say what is left of the promise.

## 7. What is not modelled, and the plan

Left out for good, with the reason:

* file formats (`pdf.py`, `docx.py`, `xlsx.py`): they hand everything to libraries; the outcome of a parse (blocks, nothing, an
  error) is an input of `DocumentIngest` and `Chunker`;
* `normalizer.py`: whether a line that stands on every page is a footer is a question about texts; `Chunker` starts with its result;
* `search_vector`, `search_fts` and the filters by brand and articul: no caller in the service;
* `cost.py`, `llm_calls.py`: sums that nothing reads back; only the connection they take is modelled;
* `close_pool`: runs when no activity is left;
* configuration, logging, prompts, schemas, health checks: static data and pure I/O;
* `evals/`: a sequential script that scores cards offline;
* promises about the `error` column of a job: `SetStatus` coalesces it, as the code does, and never clears it, so a job that is done may
  show the error of an attempt that failed before; nothing in the code or the documents says otherwise, and no property is about it.

What could follow:

1. the progress of the other loops, as `CutAdvances` does for the cut: the embedding loop of `DocumentIngest` (each batch leaves fewer
   chunks without a vector, unless an attempt has put new ones in their place) and the retries of `WorkerProcess`;
2. the normalizer, if what stands on every page becomes part of the inputs of `Chunker`.
