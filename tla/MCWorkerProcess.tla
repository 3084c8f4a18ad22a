-------------------------- MODULE MCWorkerProcess --------------------------
(***************************************************************************)
(* Instances of WorkerProcess for TLC.                                     *)
(***************************************************************************)
EXTENDS WorkerProcess

CONSTANTS j1, j2, q1, c1, c2
============================================================================
