--------------------------- MODULE MCRagCardJobs ---------------------------
(***************************************************************************)
(* Instances of RagCardJobs for TLC.                                       *)
(***************************************************************************)
EXTENDS RagCardJobs, TLC

CONSTANTS r1, r2, r3, k

\* One request without a key: the depth of retries and late threads.
OneRequest == [r \in {r1} |-> NoKey]

\* Two requests that share a key, and one without.
SharedKey == [r \in {r1, r2, r3} |-> IF r = r3 THEN NoKey ELSE k]

\* Requests that carry the same key are interchangeable.
SameKey == Permutations({r1, r2})
============================================================================
