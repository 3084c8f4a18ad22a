-------------------------- MODULE MigrationsProofs --------------------------
(***************************************************************************)
(* Proofs about Migrations, for any files and any runs of make migrate.    *)
(*                                                                         *)
(* A run never passes a file that is not in the ledger: it skips what its  *)
(* reading showed, which the ledger only grows from, and goes past a file  *)
(* it ran by committing it. So the files behind a run are applied, and a   *)
(* file is recorded once because its row is refused when it is there.      *)
(***************************************************************************)
EXTENDS Migrations, TLAPS

InTransaction(p) == pc[p] \in {"ran", "recorded"}

\* What a run read, what it applied and the files behind it are in the ledger.
Behind ==
    \A p \in Processes :
        /\ done[p] \subseteq ledger
        /\ fresh[p] \subseteq ledger
        /\ \A v \in Files : v < at[p] => v \in ledger

\* Where a run stands: in a transaction it is at a file, and alone with it; the
\* row it has inserted was not there.
Places ==
    \A p \in Processes :
        /\ pc[p] = "started" => at[p] = 0
        /\ pc[p] = "next" => at[p] > 0
        /\ InTransaction(p) => at[p] \in Files
        /\ pc[p] = "recorded" => at[p] \notin ledger
        /\ pc[p] = "finished" => at[p] = Versions + 1
        /\ \A q \in Processes :
              (p # q /\ InTransaction(p) /\ InTransaction(q)) => at[p] # at[q]

IInv == TypeOK /\ Behind /\ Places /\ LedgerTellsTheSchema

----------------------------------------------------------------------------
\* At the start nothing is applied and nobody has read the ledger.
LEMMA InitIInv == Init => IInv
  BY VersionsAssumption
  DEF Init, IInv, TypeOK, Behind, Places, LedgerTellsTheSchema, InTransaction, Files

\* Reading, skipping, finishing, failing and starting again leave the database
\* alone and no file unapplied behind them.
LEMMA QuietStep ==
    ASSUME IInv, NEW p \in Processes,
           ReadLedger(p) \/ Skip(p) \/ Finish(p) \/ Fail(p) \/ Again(p)
    PROVE  IInv'
<1> USE VersionsAssumption
<1>1. ledger' = ledger /\ schema' = schema
  BY DEF ReadLedger, Skip, Finish, Fail, Again
<1>2. TypeOK'
  <2>1. CASE ReadLedger(p)
    BY <2>1 DEF ReadLedger, Goto, IInv, TypeOK, Files
  <2>2. CASE Skip(p)
    BY <2>2 DEF Skip, IInv, TypeOK, Files
  <2>3. CASE Finish(p)
    BY <2>3 DEF Finish, Goto, IInv, TypeOK
  <2>4. CASE Fail(p)
    BY <2>4 DEF Fail, Goto, IInv, TypeOK
  <2>5. CASE Again(p)
    BY <2>5 DEF Again, Goto, IInv, TypeOK
  <2> QED BY <2>1, <2>2, <2>3, <2>4, <2>5
<1>3. Behind'
  <2>1. CASE ReadLedger(p)
    BY <2>1 DEF ReadLedger, IInv, TypeOK, Behind, Files
  <2>2. CASE Skip(p)
    <3>1. at[p] \in ledger
      BY <2>2 DEF Skip, IInv, Behind
    <3> QED BY <2>2, <3>1 DEF Skip, IInv, TypeOK, Behind, Files
  <2>3. CASE Finish(p) \/ Fail(p)
    BY <2>3 DEF Finish, Fail, IInv, Behind
  <2>4. CASE Again(p)
    BY <2>4 DEF Again, IInv, TypeOK, Behind, Files
  <2> QED BY <2>1, <2>2, <2>3, <2>4
<1>4. Places'
  <2>1. CASE ReadLedger(p)
    BY <2>1 DEF ReadLedger, Goto, IInv, TypeOK, Places, InTransaction
  <2>2. CASE Skip(p)
    BY <2>2 DEF Skip, IInv, TypeOK, Places, InTransaction, Files
  <2>3. CASE Finish(p)
    BY <2>3 DEF Finish, Goto, IInv, TypeOK, Places, InTransaction, Files
  <2>4. CASE Fail(p)
    BY <2>4 DEF Fail, Goto, IInv, TypeOK, Places, InTransaction
  <2>5. CASE Again(p)
    BY <2>5 DEF Again, Goto, IInv, TypeOK, Places, InTransaction
  <2> QED BY <2>1, <2>2, <2>3, <2>4, <2>5
<1>5. LedgerTellsTheSchema'
  <2>1. \A q \in Processes : fresh'[q] \subseteq fresh[q]
    BY DEF ReadLedger, Skip, Finish, Fail, Again, IInv, TypeOK
  <2> QED BY <1>1, <2>1 DEF IInv, LedgerTellsTheSchema
<1> QED BY <1>2, <1>3, <1>4, <1>5 DEF IInv

\* A transaction begins on a file nobody else is at, and inserts its row where
\* there is none.
LEMMA TransactionStep ==
    ASSUME IInv, NEW p \in Processes, RunFile(p) \/ Record(p)
    PROVE  IInv'
<1> USE VersionsAssumption
<1>1. /\ ledger' = ledger /\ schema' = schema
      /\ done' = done /\ at' = at /\ fresh' = fresh
  BY DEF RunFile, Record
<1>2. TypeOK'
  BY DEF RunFile, Record, Goto, IInv, TypeOK
<1>3. Behind' /\ LedgerTellsTheSchema'
  BY <1>1 DEF IInv, Behind, LedgerTellsTheSchema
<1>4. Places'
  <2>1. CASE RunFile(p)
    BY <2>1 DEF RunFile, Running, Goto, IInv, TypeOK, Places, InTransaction
  <2>2. CASE Record(p)
    BY <2>2 DEF Record, Goto, IInv, TypeOK, Places, InTransaction
  <2> QED BY <2>1, <2>2
<1> QED BY <1>2, <1>3, <1>4 DEF IInv

\* A commit brings the file and its row together; the files before it are there.
LEMMA CommitStep ==
    ASSUME IInv, NEW p \in Processes, Commit(p)
    PROVE  IInv'
<1> USE VersionsAssumption
<1> DEFINE v == at[p]
<1>1. v \in Files /\ v \notin ledger /\ v \in Nat
  BY DEF Commit, IInv, Places, InTransaction, Files
<1>2. /\ ledger' = ledger \cup {v} /\ schema' = schema \cup {v}
      /\ fresh' = [fresh EXCEPT ![p] = @ \cup {v}]
      /\ at' = [at EXCEPT ![p] = @ + 1]
      /\ pc' = [pc EXCEPT ![p] = "next"] /\ done' = done
  BY DEF Commit, Goto
<1>3. TypeOK'
  <2>1. v + 1 \in 0..(Versions + 1)
    BY <1>1 DEF Files
  <2>2. at' \in [Processes -> 0..(Versions + 1)]
    BY <1>2, <2>1 DEF IInv, TypeOK
  <2>3. fresh' \in [Processes -> SUBSET Files]
    BY <1>1, <1>2 DEF IInv, TypeOK
  <2>4. pc' \in [Processes -> {"started", "next", "ran", "recorded", "finished", "failed"}]
    BY <1>2 DEF IInv, TypeOK
  <2> QED BY <1>1, <1>2, <2>2, <2>3, <2>4 DEF IInv, TypeOK
<1>4. Behind'
  BY <1>1, <1>2 DEF IInv, TypeOK, Behind, Files
<1>5. Places'
  <2>1. \A q \in Processes \ {p} : pc[q] = "recorded" => at[q] # v
    BY DEF Commit, IInv, Places, InTransaction
  <2> QED BY <1>1, <1>2, <2>1 DEF IInv, TypeOK, Places, InTransaction, Files
<1>6. LedgerTellsTheSchema'
  <2>1. schema' = ledger'
    BY <1>2 DEF IInv, LedgerTellsTheSchema
  <2>2. \A w \in schema' : 1..w \subseteq schema'
    <3>1. 1..v \subseteq ledger \cup {v}
      BY <1>1 DEF IInv, Behind, Files
    <3> QED BY <1>2, <3>1 DEF IInv, LedgerTellsTheSchema
  <2>3. \A q, r \in Processes : q # r => fresh'[q] \cap fresh'[r] = {}
    BY <1>1, <1>2 DEF IInv, TypeOK, Behind, LedgerTellsTheSchema
  <2> QED BY <2>1, <2>2, <2>3 DEF LedgerTellsTheSchema
<1> QED BY <1>3, <1>4, <1>5, <1>6 DEF IInv

LEMMA NextIInv == IInv /\ [Next]_vars => IInv'
<1> SUFFICES ASSUME IInv, [Next]_vars PROVE IInv'
  OBVIOUS
<1>1. CASE \E p \in Processes : Step(p) \/ Fail(p) \/ Again(p)
  BY <1>1, QuietStep, TransactionStep, CommitStep DEF Step
<1>2. CASE UNCHANGED vars
  BY <1>2 DEF vars, IInv, TypeOK, Behind, Places, LedgerTellsTheSchema, InTransaction
<1> QED BY <1>1, <1>2 DEF Next

----------------------------------------------------------------------------
LEMMA IInvAlways == Spec => []IInv
  BY InitIInv, NextIInv, PTL DEF Spec

\* Type correctness (run_migrations).
THEOREM TypeCorrect == Spec => []TypeOK
<1>1. IInv => TypeOK
  BY DEF IInv
<1> QED BY <1>1, IInvAlways, PTL

\* For any files and any number of runs, wherever each is cut off: the ledger
\* says what the schema is, in the order of the files, and no file is applied
\* by two runs (run_migrations).
THEOREM LedgerCorrect == Spec => []LedgerTellsTheSchema
<1>1. IInv => LedgerTellsTheSchema
  BY DEF IInv
<1> QED BY <1>1, IInvAlways, PTL

\* A run that ends well leaves nothing to apply (run_migrations).
THEOREM FinishedCorrect == Spec => []FinishedMeansMigrated
<1>1. IInv => FinishedMeansMigrated
  <2>1. SUFFICES ASSUME IInv, NEW p \in Processes, pc[p] = "finished" PROVE schema = Files
    BY DEF FinishedMeansMigrated
  <2>2. \A v \in Files : v \in ledger
    <3>1. at[p] = Versions + 1
      BY <2>1 DEF IInv, Places
    <3>2. \A v \in Files : v < at[p]
      BY <3>1, VersionsAssumption DEF Files
    <3> QED BY <2>1, <3>2 DEF IInv, Behind
  <2> QED BY <2>1, <2>2 DEF IInv, TypeOK, LedgerTellsTheSchema
<1> QED BY <1>1, IInvAlways, PTL
============================================================================
