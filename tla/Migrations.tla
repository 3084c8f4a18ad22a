----------------------------- MODULE Migrations -----------------------------
(***************************************************************************)
(* make migrate, run by several people or deployments at once and cut off  *)
(* at any moment: the files of db/migrations are applied in the order of   *)
(* their names, each in one transaction with its row in schema_migrations. *)
(*                                                                         *)
(* A migration is named by its place in that order. Every file says IF NOT *)
(* EXISTS: it changes nothing where its effect is there. PostgreSQL lets   *)
(* the second of two transactions that run one file wait for the first.    *)
(***************************************************************************)
EXTENDS Naturals, FiniteSets

CONSTANTS Versions,   \* how many files there are, 6 in the code
          Processes   \* the runs of make migrate

ASSUME VersionsAssumption == Versions \in Nat

VARIABLES ledger,  \* the versions in schema_migrations
          schema,  \* the migrations whose effect the database has
          pc,      \* where each process is in run_migrations
          done,    \* run_migrations: done
          at,      \* the file the loop is at
          fresh    \* run_migrations: fresh

vars == <<ledger, schema, pc, done, at, fresh>>

Files == 1..Versions

Init == /\ ledger = {} /\ schema = {}
        /\ pc    = [p \in Processes |-> "started"]
        /\ done  = [p \in Processes |-> {}]
        /\ at    = [p \in Processes |-> 0]
        /\ fresh = [p \in Processes |-> {}]

Goto(p, point) == pc' = [pc EXCEPT ![p] = point]

----------------------------------------------------------------------------
\* applied: the table is created where there is none, then read once.
ReadLedger(p) ==
    /\ pc[p] = "started"
    /\ done' = [done EXCEPT ![p] = ledger]
    /\ at' = [at EXCEPT ![p] = 1]
    /\ Goto(p, "next")
    /\ UNCHANGED <<ledger, schema, fresh>>

----------------------------------------------------------------------------
\* The loop of run_migrations.

Skip(p) ==
    /\ pc[p] = "next"
    /\ at[p] \in Files \cap done[p]
    /\ at' = [at EXCEPT ![p] = @ + 1]
    /\ UNCHANGED <<ledger, schema, pc, done, fresh>>

\* The transactions in which a file was run and is not committed.
Running(v) == {q \in Processes : at[q] = v /\ pc[q] \in {"ran", "recorded"}}

\* Mutant of RunFile: each statement commits, without a transaction.
RunFileAlone(p) ==
    /\ pc[p] = "next"
    /\ at[p] \in Files \ done[p]
    /\ Running(at[p]) = {}
    /\ schema' = schema \cup {at[p]}
    /\ Goto(p, "ran")
    /\ UNCHANGED <<ledger, done, at, fresh>>

RunFile(p) ==
    /\ pc[p] = "next"
    /\ at[p] \in Files \ done[p]
    /\ Running(at[p]) = {}
    /\ Goto(p, "ran")
    /\ UNCHANGED <<ledger, schema, done, at, fresh>>

\* The INSERT of the version, refused if the row is there by now.
Record(p) ==
    /\ pc[p] = "ran"
    /\ at[p] \notin ledger
    /\ Goto(p, "recorded")
    /\ UNCHANGED <<ledger, schema, done, at, fresh>>

Commit(p) ==
    /\ pc[p] = "recorded"
    /\ schema' = schema \cup {at[p]}
    /\ ledger' = ledger \cup {at[p]}
    /\ fresh' = [fresh EXCEPT ![p] = @ \cup {at[p]}]
    /\ at' = [at EXCEPT ![p] = @ + 1]
    /\ Goto(p, "next")
    /\ UNCHANGED done

Finish(p) ==
    /\ pc[p] = "next"
    /\ at[p] \notin Files
    /\ Goto(p, "finished")
    /\ UNCHANGED <<ledger, schema, done, at, fresh>>

\* Mutant of Fail: a version somebody else recorded ends the run well.
FailQuietly(p) ==
    /\ pc[p] \notin {"finished", "failed"}
    /\ Goto(p, IF pc[p] = "ran" /\ at[p] \in ledger THEN "finished" ELSE "failed")
    /\ UNCHANGED <<ledger, schema, done, at, fresh>>

\* A statement is refused, the connection is lost or the process is killed: the
\* transaction is rolled back.
Fail(p) ==
    /\ pc[p] \notin {"finished", "failed"}
    /\ Goto(p, "failed")
    /\ UNCHANGED <<ledger, schema, done, at, fresh>>

\* make migrate once more.
Again(p) ==
    /\ pc[p] = "failed"
    /\ done'  = [done EXCEPT ![p] = {}]
    /\ at'    = [at EXCEPT ![p] = 0]
    /\ fresh' = [fresh EXCEPT ![p] = {}]
    /\ Goto(p, "started")
    /\ UNCHANGED <<ledger, schema>>

----------------------------------------------------------------------------
Step(p) == \/ ReadLedger(p) \/ Skip(p)
           \/ RunFile(p) \/ Record(p) \/ Commit(p) \/ Finish(p)

AllFinished == \A p \in Processes : pc[p] = "finished"

Next == \/ \E p \in Processes : Step(p) \/ Fail(p) \/ Again(p)
        \/ AllFinished /\ UNCHANGED vars

Spec == Init /\ [][Next]_vars

----------------------------------------------------------------------------
(* Correctness.                                                            *)

\* Every variable holds a value of its kind.
TypeOK ==
    /\ ledger \subseteq Files
    /\ schema \subseteq Files
    /\ pc    \in [Processes -> {"started", "next", "ran", "recorded", "finished", "failed"}]
    /\ done  \in [Processes -> SUBSET Files]
    /\ at    \in [Processes -> 0..(Versions + 1)]
    /\ fresh \in [Processes -> SUBSET Files]

\* Wherever a run is killed and whoever else is migrating, the ledger says exactly what
\* the database has, no migration is there without the ones before it, and none
\* is reported as fresh by two runs (docs/decisions.md:8, run_migrations).
LedgerTellsTheSchema ==
    /\ schema = ledger
    /\ \A v \in schema : 1..v \subseteq schema
    /\ \A p, q \in Processes : p # q => fresh[p] \cap fresh[q] = {}

\* A run that ends well leaves every migration applied, although it read the
\* ledger only once and others changed it since.
FinishedMeansMigrated ==
    \A p \in Processes : pc[p] = "finished" => schema = Files
============================================================================
