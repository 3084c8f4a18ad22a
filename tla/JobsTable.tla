----------------------------- MODULE JobsTable -----------------------------
(***************************************************************************)
(* The jobs table and the two statements that write it                     *)
(* (app/repositories/jobs.py, db/migrations/001 and 005).                  *)
(*                                                                         *)
(* A row is a record. A card and its guard report are abstracted to the    *)
(* number of the pipeline attempt that produced them, 0 being SQL NULL;    *)
(* an error text is "text", "none" being NULL. A job id is a fresh uuid,   *)
(* so the model names a job after the request that inserted it: an id is   *)
(* never reused and never collides.                                        *)
(***************************************************************************)
EXTENDS Naturals

CONSTANTS Jobs,       \* ids of jobs
          Keys,       \* Idempotency-Key values clients send
          NoKey,      \* the header is absent: NULL, which UNIQUE ignores
          MaxCard     \* cards are numbered 1..MaxCard

NoCard == 0
Cards  == 1..MaxCard

InProgress == {"extracting", "retrieving", "generating", "critiquing"}
Verdicts   == {"approved", "rejected"}
Statuses   == InProgress \cup Verdicts \cup {"pending", "awaiting_human", "failed"}

Row == [ key      : Keys \cup {NoKey},
         status   : Statuses \cup {"absent"},
         attempts : Nat,
         result   : Cards \cup {NoCard},
         guard    : Cards \cup {NoCard},
         error    : {"none", "text"} ]

\* No row with this id: the defaults of a row, under a status no code writes.
NoRow == [ key |-> NoKey, status |-> "absent", attempts |-> 0,
           result |-> NoCard, guard |-> NoCard, error |-> "none" ]

\* The column defaults of CREATE TABLE jobs.
NewRow(key) == [NoRow EXCEPT !.key = key, !.status = "pending"]

Exists(row) == row.status # "absent"

----------------------------------------------------------------------------
\* Mutant of Conflicting: the column without its UNIQUE constraint.
ConflictingWithoutUnique(table, key) == {}

\* The rows an INSERT with this key would collide with; NULLs never collide.
Conflicting(table, key) ==
    {j \in Jobs : key # NoKey /\ Exists(table[j]) /\ table[j].key = key}

\* Mutant of SetStatus: columns without a value are set to NULL.
SetStatusWritingNulls(row, status, result, guard, error, bump) ==
    [row EXCEPT !.status = status, !.result = result, !.guard = guard,
                !.error = error, !.attempts = IF bump THEN @ + 1 ELSE @]

\* set_status: the status always, every other column only when a value is
\* given, so an error once written is never cleared.
SetStatus(row, status, result, guard, error, bump) ==
    [row EXCEPT
        !.status   = status,
        !.result   = IF result = NoCard THEN @ ELSE result,
        !.guard    = IF guard = NoCard THEN @ ELSE guard,
        !.error    = IF error = "none" THEN @ ELSE error,
        !.attempts = IF bump THEN @ + 1 ELSE @]

\* The stage announcements of the pipeline: a status and nothing else.
Announced(row, stage) ==
    SetStatus(row, stage, NoCard, NoCard, "none", stage = "generating")

\* Mutant of Published: the guard report is left to an earlier write.
PublishedWithoutGuard(row, status, card) ==
    SetStatus(row, status, card, NoCard, "none", status = "generating")

\* set_job_status_activity: a status with the card and guard of one outcome.
Published(row, status, card) ==
    SetStatus(row, status, card, card, "none", status = "generating")

\* The except branch of rag_card_activity.
Failed(row) == SetStatus(row, "failed", NoCard, NoCard, "text", FALSE)
============================================================================
