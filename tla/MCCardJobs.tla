----------------------------- MODULE MCCardJobs -----------------------------
(***************************************************************************)
(* Instances of CardJobs for TLC.                                          *)
(***************************************************************************)
EXTENDS CardJobs

CONSTANT r1

\* One request, without a key.
OneRequest == [j \in Jobs |-> NoKey]
=============================================================================
