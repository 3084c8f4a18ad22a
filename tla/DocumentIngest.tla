--------------------------- MODULE DocumentIngest ---------------------------
(***************************************************************************)
(* A document from its upload to its vectors: POST /documents inserts the  *)
(* row, leaves the file on disk and starts ParseDocumentWorkflow, whose    *)
(* activity parses the file, replaces the document's chunks and computes   *)
(* their embeddings; make reindex computes missing embeddings at any time. *)
(*                                                                         *)
(* The activity has MaxTries attempts. An attempt that outlives its        *)
(* timeout goes on beside the next one; an attempt that ends in any other  *)
(* way than by the death of the worker removes the file, and the next one  *)
(* cannot read it.                                                         *)
(*                                                                         *)
(* An upload and the document it would insert have the same name. A chunk  *)
(* is named by its document, the attempt that cut it and its ordinal: each *)
(* attempt gives its chunks new uuids. How a content parses is fixed, and  *)
(* chosen at the start. Statements commit one by one (autocommit), and an  *)
(* executemany commits whole.                                              *)
(***************************************************************************)
EXTENDS Naturals, FiniteSets

CONSTANTS Docs,       \* uploads, and the documents they insert
          Contents,   \* the bytes of files, as their content_hash tells them apart
          ContentOf,  \* what each upload carries
          MaxTries,   \* RetryPolicy(maximum_attempts), 3 in the code
          MaxChunks,  \* chunks of a document that parses to any
          Batch       \* reindex.BATCH, 256 in the code

ASSUME ContentAssumption == ContentOf \in [Docs -> Contents]
ASSUME IngestBounds == /\ MaxTries \in Nat \ {0} /\ MaxChunks \in Nat \ {0}
                       /\ Batch \in Nat \ {0}

VARIABLES docs,      \* the documents table
          chunks,    \* the chunks table: the ids of its rows
          vectors,   \* the chunks whose embedding is not NULL
          file,      \* the documents whose upload is on disk
          api,       \* where each upload is in upload_document
          wf,        \* each document's workflow, as the server records it
          thread,    \* where each attempt is in parse_document_activity
          batch,     \* the chunks an attempt is computing vectors for
          tool,      \* the chunks make reindex is computing vectors for
          parse      \* how each content parses

vars == <<docs, chunks, vectors, file, api, wf, thread, batch, tool, parse>>

----------------------------------------------------------------------------
Tries    == 1..MaxTries
Attempts == [doc : Docs, try : Tries]
ChunkIds == [doc : Docs, try : Tries, ordinal : 1..MaxChunks]

\* scan: a PDF without a text layer; broken: the parser raises; text: chunks;
\* empty: a file that parses to nothing.
Outcomes == {"scan", "broken", "empty", "text"}

DocRow == [ status : {"absent", "new", "parsing", "indexed", "failed", "embed_failed"},
            count  : 0..MaxChunks,
            error  : {"none", "text"} ]

NoDoc  == [status |-> "absent", count |-> 0, error |-> "none"]
NewDoc == [NoDoc EXCEPT !.status = "new"]

\* documents.set_status: the error is written every time, NULL included.
SetStatus(d, status, error) ==
    [docs EXCEPT ![d] = [status |-> status, count |-> @.count, error |-> error]]

Run == [pc : {"none", "parse", "completed", "failed"}, try : 0..MaxTries]

\* The activity's points. closing and aborting: on the way out through the
\* finally block, with a result or with an error.
Busy == {"started", "read", "parsing", "parsed", "deleted", "inserted",
         "counted", "embedding", "encoding", "closing"}
Threads == Busy \cup {"aborting", "returned", "raised",
                      "idle", "gone", "late"}

Init == /\ docs    = [d \in Docs |-> NoDoc]
        /\ chunks  = {} /\ vectors = {} /\ file = {}
        /\ api     = [d \in Docs |-> "idle"]
        /\ wf      = [d \in Docs |-> [pc |-> "none", try |-> 0]]
        /\ thread  = [a \in Attempts |-> "idle"]
        /\ batch   = [a \in Attempts |-> {}]
        /\ tool    = {}
        /\ parse   \in [Contents -> Outcomes]

Outcome(d)  == parse[ContentOf[d]]
Size(d)     == IF Outcome(d) = "text" THEN MaxChunks ELSE 0
ChunksOf(d) == {c \in chunks : c.doc = d}
Pending(ids) == ids \ vectors

----------------------------------------------------------------------------
\* upload_document.

\* Mutant of CreateDocument: a content_hash column that is not UNIQUE.
CreateDocumentTwice(u) ==
    /\ api[u] = "idle"
    /\ docs' = [docs EXCEPT ![u] = NewDoc]
    /\ api' = [api EXCEPT ![u] = "writing"]
    /\ UNCHANGED <<chunks, vectors, file, wf, thread, batch, tool, parse>>

\* create_document: the INSERT, or the SELECT of the document already known.
CreateDocument(u) ==
    /\ api[u] = "idle"
    /\ IF \E d \in Docs : docs[d].status # "absent" /\ ContentOf[d] = ContentOf[u]
         THEN docs' = docs /\ api' = [api EXCEPT ![u] = "answered"]
         ELSE docs' = [docs EXCEPT ![u] = NewDoc] /\ api' = [api EXCEPT ![u] = "writing"]
    /\ UNCHANGED <<chunks, vectors, file, wf, thread, batch, tool, parse>>

WriteFile(u) ==
    /\ api[u] = "writing"
    /\ file' = file \cup {u}
    /\ api'  = [api EXCEPT ![u] = "starting"]
    /\ UNCHANGED <<docs, chunks, vectors, wf, thread, batch, tool, parse>>

\* Mutant of StartWorkflow: the answer does not wait for the server's.
StartWorkflowUnawaited(u) ==
    /\ api[u] = "starting"
    /\ wf' \in {wf, [wf EXCEPT ![u] = [pc |-> "parse", try |-> 1]]}
    /\ api' = [api EXCEPT ![u] = "answered"]
    /\ UNCHANGED <<docs, chunks, vectors, file, thread, batch, tool, parse>>

\* start_workflow reached the server; its answer may still be lost.
StartWorkflow(u) ==
    /\ api[u] = "starting"
    /\ wf' = [wf EXCEPT ![u] = [pc |-> "parse", try |-> 1]]
    /\ \E answer \in {"answered", "error"} : api' = [api EXCEPT ![u] = answer]
    /\ UNCHANGED <<docs, chunks, vectors, file, thread, batch, tool, parse>>

\* The disk or Temporal refuses, or the API dies.
UploadFails(u) ==
    /\ api[u] \in {"writing", "starting"}
    /\ api' = [api EXCEPT ![u] = "error"]
    /\ UNCHANGED <<docs, chunks, vectors, file, wf, thread, batch, tool, parse>>

----------------------------------------------------------------------------
\* The server's side of the activity.

Current(a) == wf[a.doc].pc = "parse" /\ wf[a.doc].try = a.try
Live(a)    == thread[a] \notin {"idle", "gone", "late"}
Ended(a)   == IF Current(a) THEN "gone" ELSE "late"

AfterFailure(w) == IF w.try < MaxTries THEN [w EXCEPT !.try = @ + 1]
                                       ELSE [pc |-> "failed", try |-> 0]

Dispatch(a) ==
    /\ Current(a)
    /\ thread[a] = "idle"
    /\ thread' = [thread EXCEPT ![a] = "started"]
    /\ UNCHANGED <<docs, chunks, vectors, file, api, wf, batch, tool, parse>>

Timeout(a) ==
    /\ Current(a)
    /\ thread[a] # "idle"
    /\ wf' = [wf EXCEPT ![a.doc] = AfterFailure(@)]
    /\ UNCHANGED <<docs, chunks, vectors, file, api, thread, batch, tool, parse>>

Report(a) ==
    /\ thread[a] \in {"returned", "raised"}
    /\ wf' = IF ~Current(a) THEN wf
             ELSE IF thread[a] = "returned"
               THEN [wf EXCEPT ![a.doc] = [pc |-> "completed", try |-> 0]]
               ELSE [wf EXCEPT ![a.doc] = AfterFailure(@)]
    /\ thread' = [thread EXCEPT ![a] = Ended(a)]
    /\ UNCHANGED <<docs, chunks, vectors, file, api, batch, tool, parse>>

WorkerCrash ==
    /\ \E a \in Attempts : Live(a)
    /\ thread' = [a \in Attempts |-> IF Live(a) THEN Ended(a) ELSE thread[a]]
    /\ batch'  = [a \in Attempts |-> {}]
    /\ UNCHANGED <<docs, chunks, vectors, file, api, wf, tool, parse>>

----------------------------------------------------------------------------
\* parse_document_activity and ingest, statement by statement: the connection
\* commits each one.

\* The thread moves on to its next statement and leaves everything else alone.
Goto(a, point) == thread' = [thread EXCEPT ![a] = point]

ReadFile(a) ==
    /\ thread[a] = "started"
    /\ Goto(a, IF a.doc \in file THEN "read" ELSE "aborting")
    /\ UNCHANGED <<docs, chunks, vectors, file, api, wf, batch, tool, parse>>

\* Mutant of MarkParsing: the status is left as the last attempt had it.
MarkParsingSilently(a) ==
    /\ thread[a] = "read"
    /\ Goto(a, "parsing")
    /\ UNCHANGED <<docs, chunks, vectors, file, api, wf, batch, tool, parse>>

MarkParsing(a) ==
    /\ thread[a] = "read"
    /\ docs' = SetStatus(a.doc, "parsing", "none")
    /\ Goto(a, "parsing")
    /\ UNCHANGED <<chunks, vectors, file, api, wf, batch, tool, parse>>

\* A scan is refused with a result, so the workflow does not try it again; a
\* file the parser chokes on is refused with an error.
Refuse(a) ==
    /\ thread[a] = "parsing"
    /\ Outcome(a.doc) \in {"scan", "broken"}
    /\ docs' = SetStatus(a.doc, "failed", "text")
    /\ Goto(a, IF Outcome(a.doc) = "scan" THEN "closing" ELSE "aborting")
    /\ UNCHANGED <<chunks, vectors, file, api, wf, batch, tool, parse>>

Cut(a) ==
    /\ thread[a] = "parsing"
    /\ Outcome(a.doc) \in {"empty", "text"}
    /\ Goto(a, "parsed")
    /\ UNCHANGED <<docs, chunks, vectors, file, api, wf, batch, tool, parse>>

DeleteChunks(a) ==
    /\ thread[a] = "parsed"
    /\ chunks'  = chunks \ ChunksOf(a.doc)
    /\ vectors' = vectors \ ChunksOf(a.doc)
    /\ Goto(a, "deleted")
    /\ UNCHANGED <<docs, file, api, wf, batch, tool, parse>>

\* The chunks this attempt cut.
NewChunks(a) ==
    {c \in ChunkIds : c.doc = a.doc /\ c.try = a.try /\ c.ordinal <= Size(a.doc)}

\* Mutant of InsertChunks: row by row, without a transaction.
InsertChunksRowByRow(a) ==
    /\ thread[a] = "deleted"
    /\ \E rows \in SUBSET NewChunks(a) :
          IF \E old \in ChunksOf(a.doc), new \in rows : old.ordinal = new.ordinal
            THEN chunks' = chunks /\ Goto(a, "aborting")
            ELSE /\ chunks' = chunks \cup rows
                 /\ Goto(a, IF rows = NewChunks(a) THEN "inserted" ELSE "aborting")
    /\ UNCHANGED <<docs, vectors, file, api, wf, batch, tool, parse>>

\* insert_chunks: one transaction, refused by UNIQUE (doc_id, ordinal).
InsertChunks(a) ==
    /\ thread[a] = "deleted"
    /\ IF \E old \in ChunksOf(a.doc), new \in NewChunks(a) : old.ordinal = new.ordinal
         THEN chunks' = chunks /\ Goto(a, "aborting")
         ELSE chunks' = chunks \cup NewChunks(a) /\ Goto(a, "inserted")
    /\ UNCHANGED <<docs, vectors, file, api, wf, batch, tool, parse>>

SetChunksCount(a) ==
    /\ thread[a] = "inserted"
    /\ docs' = [docs EXCEPT ![a.doc] = [@ EXCEPT !.count = Size(a.doc)]]
    /\ Goto(a, "counted")
    /\ UNCHANGED <<chunks, vectors, file, api, wf, batch, tool, parse>>

\* The document is searchable from here on, before it has any vectors.
MarkIndexed(a) ==
    /\ thread[a] = "counted"
    /\ docs' = SetStatus(a.doc, "indexed", "none")
    /\ Goto(a, IF Size(a.doc) = 0 THEN "closing" ELSE "embedding")
    /\ UNCHANGED <<chunks, vectors, file, api, wf, batch, tool, parse>>

\* chunks_without_embedding: at most Batch of the rows without a vector; which
\* ones come first does not matter here.
FirstPending(ids) ==
    {b \in SUBSET Pending(ids) :
        Cardinality(b) = IF Cardinality(Pending(ids)) < Batch
                         THEN Cardinality(Pending(ids)) ELSE Batch}

SelectPending(a) ==
    /\ thread[a] = "embedding"
    /\ \E b \in FirstPending(ChunksOf(a.doc)) :
          /\ batch' = [batch EXCEPT ![a] = b]
          /\ Goto(a, IF b = {} THEN "closing" ELSE "encoding")
    /\ UNCHANGED <<docs, chunks, vectors, file, api, wf, tool, parse>>

\* Mutant of UpsertEmbeddings: the vectors never reach the table.
UpsertEmbeddingsNowhere(a) ==
    /\ thread[a] = "encoding"
    /\ batch' = [batch EXCEPT ![a] = {}]
    /\ Goto(a, "embedding")
    /\ UNCHANGED <<docs, chunks, vectors, file, api, wf, tool, parse>>

\* upsert_embeddings: an UPDATE by id, which misses rows deleted meanwhile.
UpsertEmbeddings(a) ==
    /\ thread[a] = "encoding"
    /\ vectors' = vectors \cup (batch[a] \cap chunks)
    /\ batch'   = [batch EXCEPT ![a] = {}]
    /\ Goto(a, "embedding")
    /\ UNCHANGED <<docs, chunks, file, api, wf, tool, parse>>

\* Mutant of EmbedFails: the failure is only logged.
EmbedFailsUnseen(a) ==
    /\ thread[a] \in {"embedding", "encoding"}
    /\ batch' = [batch EXCEPT ![a] = {}]
    /\ Goto(a, "closing")
    /\ UNCHANGED <<docs, chunks, vectors, file, api, wf, tool, parse>>

\* The model or the database fails while vectors are computed: the activity
\* still returns a result.
EmbedFails(a) ==
    /\ thread[a] \in {"embedding", "encoding"}
    /\ docs'  = SetStatus(a.doc, "embed_failed", "text")
    /\ batch' = [batch EXCEPT ![a] = {}]
    /\ Goto(a, "closing")
    /\ UNCHANGED <<chunks, vectors, file, api, wf, tool, parse>>

\* A statement fails, and nothing but the finally block sees it.
Aborts(a) ==
    /\ thread[a] \in Busy
    /\ batch' = [batch EXCEPT ![a] = {}]
    /\ Goto(a, "aborting")
    /\ UNCHANGED <<docs, chunks, vectors, file, api, wf, tool, parse>>

\* finally: file.unlink(missing_ok=True).
Unlink(a) ==
    /\ thread[a] \in {"closing", "aborting"}
    /\ file' = file \ {a.doc}
    /\ Goto(a, IF thread[a] = "closing" THEN "returned" ELSE "raised")
    /\ UNCHANGED <<docs, chunks, vectors, api, wf, batch, tool, parse>>

----------------------------------------------------------------------------
\* make reindex: index_pending over every document. It may be started, fail
\* or be stopped at any time; between batches it holds nothing.

ToolSelects ==
    /\ tool = {}
    /\ tool' \in FirstPending(chunks)
    /\ tool' # {}
    /\ UNCHANGED <<docs, chunks, vectors, file, api, wf, thread, batch, parse>>

ToolUpserts ==
    /\ tool # {}
    /\ vectors' = vectors \cup (tool \cap chunks)
    /\ tool' = {}
    /\ UNCHANGED <<docs, chunks, file, api, wf, thread, batch, parse>>

ToolStops ==
    /\ tool # {}
    /\ tool' = {}
    /\ UNCHANGED <<docs, chunks, vectors, file, api, wf, thread, batch, parse>>

----------------------------------------------------------------------------
Terminated ==
    /\ \A u \in Docs : api[u] \in {"answered", "error"}
    /\ \A d \in Docs : wf[d].pc \in {"none", "completed", "failed"}
    /\ \A a \in Attempts : ~Live(a)
    /\ tool = {}

ThreadStep(a) ==
    \/ ReadFile(a) \/ MarkParsing(a) \/ Refuse(a) \/ Cut(a)
    \/ DeleteChunks(a) \/ InsertChunks(a) \/ SetChunksCount(a) \/ MarkIndexed(a)
    \/ SelectPending(a) \/ UpsertEmbeddings(a) \/ EmbedFails(a)
    \/ Aborts(a) \/ Unlink(a) \/ Report(a)

Next ==
    \/ \E u \in Docs : \/ CreateDocument(u) \/ WriteFile(u)
                       \/ StartWorkflow(u) \/ UploadFails(u)
    \/ \E a \in Attempts : Dispatch(a) \/ Timeout(a) \/ ThreadStep(a)
    \/ WorkerCrash
    \/ ToolSelects \/ ToolUpserts \/ ToolStops
    \/ Terminated /\ UNCHANGED vars

Spec == Init /\ [][Next]_vars

\* The server hands out a document's attempt, or its timer ends it.
ServerMoves(d) ==
    /\ wf[d].pc = "parse"
    /\ LET a == [doc |-> d, try |-> wf[d].try] IN Dispatch(a) \/ Timeout(a)

\* The server is fair, and a thread goes on to its end or its worker's death.
FairSpec == /\ Spec
            /\ \A d \in Docs : WF_vars(ServerMoves(d))
            /\ \A a \in Attempts : WF_vars(ThreadStep(a))

----------------------------------------------------------------------------
(* Correctness.                                                            *)

\* An attempt of the document outlived its timeout.
Overran(d) ==
    \E a \in Attempts : /\ a.doc = d
                        /\ thread[a] = "late" \/ (Live(a) /\ ~Current(a))

\* Every variable holds a value of its kind, and only rows have vectors.
TypeOK ==
    /\ docs    \in [Docs -> DocRow]
    /\ chunks  \subseteq ChunkIds
    /\ vectors \subseteq chunks
    /\ file    \subseteq Docs
    /\ api     \in [Docs -> {"idle", "writing", "starting", "answered", "error"}]
    /\ wf      \in [Docs -> Run]
    /\ thread  \in [Attempts -> Threads]
    /\ batch   \in [Attempts -> SUBSET ChunkIds]
    /\ tool    \subseteq ChunkIds
    /\ parse   \in [Contents -> Outcomes]

\* The same file uploaded again, even at the same moment, is the same document
\* (create_document).
OneDocPerContent ==
    \A d, e \in Docs :
        (docs[d].status # "absent" /\ docs[e].status # "absent"
            /\ ContentOf[d] = ContentOf[e]) => d = e

\* A search never finds a mixture: a document's chunks are none at all or all
\* the chunks of one attempt, however attempts overlap and wherever they die
\* (delete_chunks, insert_chunks).
ChunksAreOneWholeAttempt ==
    \A d \in Docs : \/ ChunksOf(d) = {}
                    \/ \E n \in Tries : ChunksOf(d) =
                          {c \in ChunkIds : c.doc = d /\ c.try = n}

\* Unless an attempt outlived its timeout, an indexed document has all its
\* chunks and counts them right, and a refused one has none.
IndexedMeansChunked ==
    \A d \in Docs : ~Overran(d) =>
        /\ docs[d].status = "indexed" =>
              /\ docs[d].count = Cardinality(ChunksOf(d))
              /\ Outcome(d) = "text" => ChunksOf(d) # {}
        /\ Outcome(d) \in {"scan", "broken"} => ChunksOf(d) = {}

\* Unless an attempt outlived its timeout, a completed workflow leaves a settled
\* document, with vectors for every chunk unless the row says they failed.
CompletedIsSettled ==
    \A d \in Docs : (wf[d].pc = "completed" /\ ~Overran(d)) =>
        /\ docs[d].status \in {"indexed", "failed", "embed_failed"}
        /\ docs[d].status = "indexed" => ChunksOf(d) \subseteq vectors

\* An upload that was answered has a document, its own or the one already known,
\* and that document has a workflow unless the upload that inserted it is still
\* at work or was answered with an error (upload_document).
AnsweredHasDocument ==
    \A u \in Docs : api[u] = "answered" =>
        \E d \in Docs : /\ docs[d].status # "absent" /\ ContentOf[d] = ContentOf[u]
                        /\ wf[d].pc = "none" => api[d] \in {"writing", "starting", "error"}

\* Every parse comes to rest: from some moment on no workflow is open and no
\* attempt is at work, although attempts time out, overlap and die with their
\* worker, and although their embedding loops run until no row lacks a vector while
\* other attempts and make reindex change the rows (PARSE_TIMEOUT, RETRY,
\* index_pending).
ParsingComesToRest ==
    <>[](/\ \A d \in Docs : wf[d].pc # "parse"
         /\ \A a \in Attempts : ~Live(a))
============================================================================
