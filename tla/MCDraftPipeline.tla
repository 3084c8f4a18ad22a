--------------------------- MODULE MCDraftPipeline ---------------------------
(* DraftPipeline with a title and a confidence.                            *)
EXTENDS DraftPipeline

MCFields == {"title", "confidence"}
=============================================================================
