------------------------ MODULE DocumentIngestProofs ------------------------
(***************************************************************************)
(* Proofs about DocumentIngest, for any documents, attempts and bounds.    *)
(*                                                                         *)
(* That a document's chunks are of one attempt rests on the constraint     *)
(* UNIQUE (doc_id, ordinal) alone: a whole attempt has the ordinal 1, so a *)
(* second one cannot be inserted beside it. That an answered upload has a  *)
(* document rests on the order of upload_document: row, file, workflow,    *)
(* answer, with no step back. What an indexed document and a completed     *)
(* workflow say rests on what an attempt that works alone knows at each of *)
(* its points: as long as none outlived its timeout, the only attempt of a *)
(* document at work is the one the server waits for.                       *)
(***************************************************************************)
EXTENDS DocumentIngest, FiniteSetTheorems, TLAPS

Uploads == {"idle", "writing", "starting", "answered", "error"}

\* Row, workflow and upload of a document advance together, and only a document
\* with a workflow has threads.
InOrder ==
    /\ \A d \in Docs :
          /\ api[d] = "idle" => docs[d].status = "absent"
          /\ api[d] \in {"writing", "starting"} => docs[d].status # "absent"
          /\ wf[d].pc # "none" => docs[d].status # "absent"
          /\ (docs[d].status # "absent" /\ wf[d].pc = "none")
                => api[d] \in {"writing", "starting", "error"}
    /\ \A a \in Attempts : thread[a] # "idle" => wf[a.doc].pc # "none"

IInv == TypeOK /\ InOrder /\ OneDocPerContent /\ AnsweredHasDocument
        /\ ChunksAreOneWholeAttempt

----------------------------------------------------------------------------
(* Types.                                                                  *)

LEMMA RowType ==
    ASSUME NEW d \in Docs, NEW s \in {"new", "parsing", "indexed", "failed", "embed_failed"},
           NEW e \in {"none", "text"}, docs \in [Docs -> DocRow]
    PROVE  /\ SetStatus(d, s, e) \in [Docs -> DocRow]
           /\ SetStatus(d, s, e)[d].status = s
           /\ \A x \in Docs : x # d => SetStatus(d, s, e)[x] = docs[x]
<1>1. docs[d].count \in 0..MaxChunks
  BY DEF DocRow
<1>2. [status |-> s, count |-> docs[d].count, error |-> e] \in DocRow
  BY <1>1 DEF DocRow
<1> QED BY <1>2 DEF SetStatus

LEMMA FirstRowType == NoDoc \in DocRow /\ NewDoc \in DocRow /\ NewDoc.status = "new"
                      /\ NoDoc.status = "absent"
<1>1. NoDoc \in DocRow
  BY IngestBounds DEF NoDoc, DocRow
<1>2. NewDoc = [status |-> "new", count |-> 0, error |-> "none"]
  BY DEF NewDoc, NoDoc
<1> QED BY <1>1, <1>2, IngestBounds DEF DocRow, NoDoc

LEMMA RunType ==
    ASSUME NEW w \in Run, w.pc = "parse"
    PROVE  AfterFailure(w) \in Run /\ AfterFailure(w).pc # "none"
<1>1. CASE w.try < MaxTries
  <2>1. w.try + 1 \in 0..MaxTries
    BY <1>1, IngestBounds DEF Run
  <2>2. AfterFailure(w) = [pc |-> w.pc, try |-> w.try + 1]
    BY <1>1 DEF AfterFailure, Run
  <2> QED BY <2>1, <2>2 DEF Run
<1>2. CASE ~(w.try < MaxTries)
  BY <1>2, IngestBounds DEF AfterFailure, Run
<1> QED BY <1>1, <1>2

LEMMA SizeType == ASSUME NEW d \in Docs PROVE Size(d) \in {0, MaxChunks} /\ Size(d) \in 0..MaxChunks
  BY IngestBounds DEF Size

LEMMA InitIInv == Init => IInv
<1> SUFFICES ASSUME Init PROVE IInv
  OBVIOUS
<1>1. [pc |-> "none", try |-> 0] \in Run
  BY IngestBounds DEF Run
<1>2. TypeOK
  BY <1>1, FirstRowType DEF Init, TypeOK, Threads
<1>3. \A d \in Docs : docs[d].status = "absent" /\ wf[d].pc = "none" /\ api[d] = "idle"
  BY FirstRowType DEF Init
<1>4. \A a \in Attempts : thread[a] = "idle"
  BY DEF Init
<1>5. ChunksAreOneWholeAttempt
  BY DEF Init, ChunksAreOneWholeAttempt, ChunksOf
<1> QED BY <1>2, <1>3, <1>4, <1>5 DEF IInv, InOrder, OneDocPerContent, AnsweredHasDocument

----------------------------------------------------------------------------
(* Steps of a thread, together: they start from a thread that is not idle. *)

LEMMA AttemptFields == ASSUME NEW a \in Attempts PROVE a.doc \in Docs /\ a.try \in Tries
  BY DEF Attempts

\* What a step of a thread does to its document's row.
LEMMA ThreadRows ==
    ASSUME TypeOK, NEW a \in Attempts, ThreadStep(a)
    PROVE  /\ thread[a] # "idle" /\ api' = api
           /\ docs' \in [Docs -> DocRow]
           /\ docs'[a.doc].status = "absent" => docs[a.doc].status = "absent"
           /\ \A d \in Docs : d # a.doc => docs'[d] = docs[d]
<1> USE DEF TypeOK
<1>0. a.doc \in Docs
  BY AttemptFields
<1>1. CASE MarkParsing(a)
  BY <1>0, <1>1, RowType DEF MarkParsing
<1>2. CASE Refuse(a)
  BY <1>0, <1>2, RowType DEF Refuse
<1>3. CASE MarkIndexed(a)
  BY <1>0, <1>3, RowType DEF MarkIndexed
<1>4. CASE EmbedFails(a)
  BY <1>0, <1>4, RowType DEF EmbedFails
<1>5. CASE SetChunksCount(a)
  <2>1. docs' = [docs EXCEPT ![a.doc] = [@ EXCEPT !.count = Size(a.doc)]]
    BY <1>5 DEF SetChunksCount
  <2>2. [docs[a.doc] EXCEPT !.count = Size(a.doc)]
          = [status |-> docs[a.doc].status, count |-> Size(a.doc), error |-> docs[a.doc].error]
    BY <1>0 DEF DocRow
  <2>3. docs' = [docs EXCEPT ![a.doc] = [status |-> docs[a.doc].status,
                     count |-> Size(a.doc), error |-> docs[a.doc].error]]
    BY <1>0, <2>1, <2>2
  <2>4. docs[a.doc].status \in {"absent", "new", "parsing", "indexed", "failed", "embed_failed"}
        /\ docs[a.doc].error \in {"none", "text"} /\ Size(a.doc) \in 0..MaxChunks
    BY <1>0, SizeType DEF DocRow
  <2>5. [status |-> docs[a.doc].status, count |-> Size(a.doc), error |-> docs[a.doc].error]
          \in DocRow
    BY <2>4 DEF DocRow
  <2> QED BY <1>0, <1>5, <2>3, <2>5 DEF SetChunksCount
<1>6. CASE ReadFile(a) \/ Cut(a) \/ DeleteChunks(a) \/ InsertChunks(a) \/ SelectPending(a)
           \/ UpsertEmbeddings(a) \/ Aborts(a) \/ Unlink(a) \/ Report(a)
  BY <1>6 DEF ReadFile, Cut, DeleteChunks, InsertChunks, SelectPending,
              UpsertEmbeddings, Aborts, Unlink, Report, Busy
<1> QED BY <1>1, <1>2, <1>3, <1>4, <1>5, <1>6 DEF ThreadStep

\* What a step of a thread does to the thread and to the workflow.
LEMMA ThreadMoves ==
    ASSUME TypeOK, NEW a \in Attempts, ThreadStep(a)
    PROVE  /\ thread' \in [Attempts -> Threads] /\ wf' \in [Docs -> Run]
           /\ \A b \in Attempts : b # a => thread'[b] = thread[b]
           /\ \A d \in Docs : wf'[d].pc = "none" <=> wf[d].pc = "none"
<1> USE DEF TypeOK
<1>1. CASE Report(a)
  <2>1. thread' = [thread EXCEPT ![a] = Ended(a)] /\ Ended(a) \in Threads
    BY <1>1 DEF Report, Ended, Threads
  <2>2. CASE ~Current(a)
    BY <1>1, <2>1, <2>2 DEF Report
  <2>3. CASE Current(a) /\ thread[a] = "returned"
    <3>1. [pc |-> "completed", try |-> 0] \in Run
      BY IngestBounds DEF Run
    <3>2. wf' = [wf EXCEPT ![a.doc] = [pc |-> "completed", try |-> 0]]
      BY <1>1, <2>3 DEF Report
    <3> QED BY <2>1, <2>3, <3>1, <3>2, AttemptFields DEF Current
  <2>4. CASE Current(a) /\ thread[a] # "returned"
    <3>1. wf' = [wf EXCEPT ![a.doc] = AfterFailure(wf[a.doc])]
      BY <1>1, <2>4 DEF Report
    <3>2. wf[a.doc] \in Run /\ wf[a.doc].pc = "parse"
      BY <2>4, AttemptFields DEF Current
    <3> QED BY <2>1, <3>1, <3>2, RunType, AttemptFields
  <2> QED BY <2>2, <2>3, <2>4
<1>2. CASE ~Report(a)
  <2>1. wf' = wf /\ \E p \in Threads : thread' = [thread EXCEPT ![a] = p]
    BY <1>2 DEF ThreadStep, Goto, Threads, Busy, ReadFile, MarkParsing, Refuse, Cut, DeleteChunks,
                InsertChunks, SetChunksCount, MarkIndexed, SelectPending,
                UpsertEmbeddings, EmbedFails, Aborts, Unlink
  <2> QED BY <2>1
<1> QED BY <1>1, <1>2

\* A step of a thread touches only rows of chunks, and leaves the rest typed.
LEMMA ThreadData ==
    ASSUME TypeOK, NEW a \in Attempts, ThreadStep(a)
    PROVE  /\ chunks' \subseteq ChunkIds /\ vectors' \subseteq chunks' /\ file' \subseteq Docs
           /\ batch' \in [Attempts -> SUBSET ChunkIds]
           /\ tool' = tool /\ parse' = parse
<1> USE DEF TypeOK
<1>1. CASE DeleteChunks(a)
  BY <1>1 DEF DeleteChunks, ChunksOf
<1>2. CASE InsertChunks(a)
  BY <1>2 DEF InsertChunks, NewChunks
<1>3. CASE SelectPending(a)
  BY <1>3 DEF SelectPending, FirstPending, Pending, ChunksOf
<1>4. CASE UpsertEmbeddings(a)
  BY <1>4 DEF UpsertEmbeddings
<1>5. CASE ReadFile(a) \/ MarkParsing(a) \/ Refuse(a) \/ Cut(a) \/ SetChunksCount(a)
           \/ MarkIndexed(a) \/ EmbedFails(a) \/ Aborts(a) \/ Unlink(a) \/ Report(a)
  BY <1>5 DEF ReadFile, MarkParsing, Refuse, Cut, SetChunksCount, MarkIndexed,
              EmbedFails, Aborts, Unlink, Report
<1> QED BY <1>1, <1>2, <1>3, <1>4, <1>5 DEF ThreadStep

\* The whole of an attempt, when there is any, has the ordinal 1.
LEMMA WholeHasFirst ==
    ASSUME NEW a \in Attempts, NewChunks(a) # {}
    PROVE  /\ NewChunks(a) = {c \in ChunkIds : c.doc = a.doc /\ c.try = a.try}
           /\ [doc |-> a.doc, try |-> a.try, ordinal |-> 1] \in NewChunks(a)
<1>1. Size(a.doc) = MaxChunks
  BY AttemptFields, SizeType, IngestBounds DEF NewChunks, ChunkIds
<1>2. 1 \in 1..MaxChunks /\ 1 <= MaxChunks
  BY IngestBounds
<1>3. [doc |-> a.doc, try |-> a.try, ordinal |-> 1] \in ChunkIds
  BY <1>2, AttemptFields DEF ChunkIds
<1>4. \A c \in ChunkIds : c.ordinal <= MaxChunks
  BY IngestBounds DEF ChunkIds
<1> QED BY <1>1, <1>2, <1>3, <1>4 DEF NewChunks

\* A step of a thread replaces a document's chunks by none or, when there are
\* none, by all of its own.
LEMMA ThreadWhole ==
    ASSUME TypeOK, ChunksAreOneWholeAttempt, NEW a \in Attempts, ThreadStep(a)
    PROVE  ChunksAreOneWholeAttempt'
<1> USE DEF TypeOK, ChunksAreOneWholeAttempt
<1>0. a.doc \in Docs /\ a.try \in Tries
  BY AttemptFields
<1>1. CASE DeleteChunks(a)
  <2>1. \A d \in Docs : ChunksOf(d)' = IF d = a.doc THEN {} ELSE ChunksOf(d)
    BY <1>1 DEF DeleteChunks, ChunksOf
  <2> QED BY <2>1
<1>2. CASE InsertChunks(a) /\ chunks' # chunks
  <2>1. /\ chunks' = chunks \cup NewChunks(a) /\ NewChunks(a) # {}
        /\ ~ \E old \in ChunksOf(a.doc), new \in NewChunks(a) : old.ordinal = new.ordinal
    BY <1>2 DEF InsertChunks
  <2>2. ChunksOf(a.doc) = {}
    <3>1. SUFFICES ASSUME ChunksOf(a.doc) # {} PROVE FALSE
      OBVIOUS
    <3>2. PICK n \in Tries : ChunksOf(a.doc) = {c \in ChunkIds : c.doc = a.doc /\ c.try = n}
      BY <1>0, <3>1
    <3>3. [doc |-> a.doc, try |-> n, ordinal |-> 1] \in ChunksOf(a.doc)
      <4>1. [doc |-> a.doc, try |-> n, ordinal |-> 1] \in ChunkIds
        BY <1>0, IngestBounds DEF ChunkIds
      <4> QED BY <3>2, <4>1
    <3> QED BY <2>1, <3>3, WholeHasFirst
  <2>3. \A c \in NewChunks(a) : c.doc = a.doc
    BY DEF NewChunks
  <2>4. \A d \in Docs : ChunksOf(d)' = IF d = a.doc THEN NewChunks(a) ELSE ChunksOf(d)
    BY <2>1, <2>2, <2>3 DEF ChunksOf
  <2>5. ChunksOf(a.doc)' = {c \in ChunkIds : c.doc = a.doc /\ c.try = a.try}
    BY <1>0, <2>1, <2>4, WholeHasFirst
  <2>6. ASSUME NEW d \in Docs
        PROVE  ChunksOf(d)' = {} \/ \E n \in Tries : ChunksOf(d)' =
                                     {c \in ChunkIds : c.doc = d /\ c.try = n}
    <3>1. CASE d = a.doc
      BY <1>0, <2>5, <3>1
    <3>2. CASE d # a.doc
      BY <2>4, <3>2
    <3> QED BY <3>1, <3>2
  <2> QED BY <2>6
<1>3. CASE chunks' = chunks
  BY <1>3 DEF ChunksOf
<1>4. ~DeleteChunks(a) /\ ~InsertChunks(a) => chunks' = chunks
  BY DEF ThreadStep, ReadFile, MarkParsing, Refuse, Cut, SetChunksCount, MarkIndexed,
         SelectPending, UpsertEmbeddings, EmbedFails, Aborts, Unlink, Report
<1> QED BY <1>1, <1>2, <1>3, <1>4

----------------------------------------------------------------------------
(* The invariant.                                                          *)

\* The parts of the invariant that relate tables, uploads and workflows.
Relations == InOrder /\ OneDocPerContent /\ AnsweredHasDocument

\* A step that neither starts anything nor inserts or deletes a row of documents
\* keeps them.
LEMMA QuietStep ==
    ASSUME Relations, api' = api,
           \A d \in Docs : docs'[d].status = "absent" <=> docs[d].status = "absent",
           \A d \in Docs : wf'[d].pc = "none" <=> wf[d].pc = "none",
           \A a \in Attempts : thread'[a] # "idle" => wf[a.doc].pc # "none"
    PROVE  Relations'
<1>1. InOrder'
  BY AttemptFields DEF Relations, InOrder
<1>2. OneDocPerContent'
  BY DEF Relations, OneDocPerContent
<1>3. AnsweredHasDocument'
  BY DEF Relations, AnsweredHasDocument
<1> QED BY <1>1, <1>2, <1>3 DEF Relations

LEMMA UploadStep ==
    ASSUME TypeOK, Relations, NEW u \in Docs,
           CreateDocument(u) \/ WriteFile(u) \/ StartWorkflow(u) \/ UploadFails(u)
    PROVE  TypeOK' /\ Relations' /\ chunks' = chunks
<1> USE DEF TypeOK, Relations, InOrder, OneDocPerContent, AnsweredHasDocument
<1>1. CASE CreateDocument(u)
  <2>1. CASE \E d \in Docs : docs[d].status # "absent" /\ ContentOf[d] = ContentOf[u]
    <3>1. docs' = docs /\ api' = [api EXCEPT ![u] = "answered"]
          /\ UNCHANGED <<chunks, vectors, file, wf, thread, batch, tool, parse>>
      BY <1>1, <2>1 DEF CreateDocument
    <3>2. docs[u].status = "absent" /\ wf[u].pc = "none"
      BY <1>1 DEF CreateDocument
    <3>3. PICK d \in Docs : docs[d].status # "absent" /\ ContentOf[d] = ContentOf[u]
      BY <2>1
    <3>4. api'[d] = api[d] /\ d # u
      BY <3>1, <3>2, <3>3
    <3>5. TypeOK'
      BY <3>1
    <3>6. InOrder'
      BY <3>1, <3>2
    <3>7. AnsweredHasDocument'
      BY <3>1, <3>2, <3>3, <3>4
    <3> QED BY <3>1, <3>5, <3>6, <3>7
  <2>2. CASE ~ \E d \in Docs : docs[d].status # "absent" /\ ContentOf[d] = ContentOf[u]
    <3>1. docs' = [docs EXCEPT ![u] = NewDoc] /\ api' = [api EXCEPT ![u] = "writing"]
          /\ UNCHANGED <<chunks, vectors, file, wf, thread, batch, tool, parse>>
      BY <1>1, <2>2 DEF CreateDocument
    <3>2. api[u] = "idle" /\ docs[u].status = "absent" /\ wf[u].pc = "none"
      BY <1>1 DEF CreateDocument
    <3>3. TypeOK'
      BY <3>1, FirstRowType
    <3>4. docs'[u].status # "absent" /\ \A d \in Docs : d # u => docs'[d] = docs[d]
      BY <3>1, FirstRowType
    <3>5. InOrder'
      BY <3>1, <3>2, <3>4
    <3>6. OneDocPerContent'
      BY <2>2, <3>4
    <3>7. AnsweredHasDocument'
      BY <3>1, <3>2, <3>4
    <3> QED BY <3>1, <3>3, <3>5, <3>6, <3>7
  <2> QED BY <2>1, <2>2
<1>2. CASE WriteFile(u)
  BY <1>2 DEF WriteFile
<1>3. CASE StartWorkflow(u)
  <2>1. [pc |-> "parse", try |-> 1] \in Run
    BY IngestBounds DEF Run
  <2>2. /\ wf' = [wf EXCEPT ![u] = [pc |-> "parse", try |-> 1]]
        /\ UNCHANGED <<docs, chunks, vectors, file, thread, batch, tool, parse>>
        /\ docs[u].status # "absent" /\ wf'[u].pc = "parse"
    BY <1>3 DEF StartWorkflow
  <2>3. PICK answer \in {"answered", "error"} : api' = [api EXCEPT ![u] = answer]
    BY <1>3 DEF StartWorkflow
  <2>4. TypeOK'
    BY <2>1, <2>2, <2>3
  <2>5. InOrder'
    BY <2>2, <2>3
  <2>6. AnsweredHasDocument'
    BY <2>2, <2>3
  <2> QED BY <2>2, <2>4, <2>5, <2>6
<1>4. CASE UploadFails(u)
  BY <1>4 DEF UploadFails
<1> QED BY <1>1, <1>2, <1>3, <1>4

LEMMA ServerStep ==
    ASSUME TypeOK, Relations, NEW a \in Attempts, Dispatch(a) \/ Timeout(a)
    PROVE  TypeOK' /\ Relations' /\ chunks' = chunks
<1> USE AttemptFields DEF TypeOK
<1>1. CASE Dispatch(a)
  <2>1. TypeOK'
    BY <1>1 DEF Dispatch, Threads, Busy
  <2>2. \A b \in Attempts : thread'[b] # "idle" => wf[b.doc].pc # "none"
    BY <1>1 DEF Dispatch, Current, Relations, InOrder
  <2> QED BY <1>1, <2>1, <2>2, QuietStep DEF Dispatch
<1>2. CASE Timeout(a)
  <2>1. wf' = [wf EXCEPT ![a.doc] = AfterFailure(wf[a.doc])]
        /\ wf[a.doc] \in Run /\ wf[a.doc].pc = "parse"
    BY <1>2 DEF Timeout, Current
  <2>2. wf' \in [Docs -> Run] /\ \A d \in Docs : wf'[d].pc = "none" <=> wf[d].pc = "none"
    BY <2>1, RunType
  <2>3. TypeOK'
    BY <1>2, <2>2 DEF Timeout
  <2>4. \A b \in Attempts : thread'[b] # "idle" => wf[b.doc].pc # "none"
    BY <1>2 DEF Timeout, Relations, InOrder
  <2> QED BY <1>2, <2>2, <2>3, <2>4, QuietStep DEF Timeout
<1> QED BY <1>1, <1>2

LEMMA CrashStep ==
    ASSUME TypeOK, Relations, WorkerCrash
    PROVE  TypeOK' /\ Relations' /\ chunks' = chunks
<1>1. thread' = [a \in Attempts |-> IF Live(a) THEN Ended(a) ELSE thread[a]]
      /\ batch' = [a \in Attempts |-> {}]
      /\ UNCHANGED <<docs, chunks, vectors, file, api, wf, tool, parse>>
  BY DEF WorkerCrash
<1>2. TypeOK'
  BY <1>1 DEF TypeOK, Ended, Threads
<1>3. \A a \in Attempts : thread'[a] # "idle" => wf[a.doc].pc # "none"
  BY <1>1 DEF Live, Relations, InOrder
<1> QED BY <1>1, <1>2, <1>3, QuietStep

LEMMA ToolStep ==
    ASSUME TypeOK, Relations, ToolSelects \/ ToolUpserts \/ ToolStops
    PROVE  TypeOK' /\ Relations' /\ chunks' = chunks
<1>1. UNCHANGED <<docs, chunks, file, api, wf, thread, batch, parse>>
      /\ tool' \subseteq ChunkIds /\ vectors' \subseteq chunks
  BY DEF ToolSelects, ToolUpserts, ToolStops, FirstPending, Pending, TypeOK
<1>2. TypeOK'
  BY <1>1 DEF TypeOK
<1>3. \A a \in Attempts : thread'[a] # "idle" => wf[a.doc].pc # "none"
  BY <1>1 DEF Relations, InOrder
<1> QED BY <1>1, <1>2, <1>3, QuietStep

LEMMA StepIInv == ASSUME IInv, [Next]_vars PROVE IInv'
<1> USE DEF IInv
<1>0. Relations
  BY DEF Relations
<1>1. ASSUME chunks' = chunks PROVE ChunksAreOneWholeAttempt'
  BY <1>1 DEF ChunksAreOneWholeAttempt, ChunksOf
<1>2. ASSUME NEW u \in Docs,
             CreateDocument(u) \/ WriteFile(u) \/ StartWorkflow(u) \/ UploadFails(u)
      PROVE  IInv'
  BY <1>0, <1>1, <1>2, UploadStep DEF Relations
<1>3. ASSUME NEW a \in Attempts, Dispatch(a) \/ Timeout(a) PROVE IInv'
  BY <1>0, <1>1, <1>3, ServerStep DEF Relations
<1>4. ASSUME NEW a \in Attempts, ThreadStep(a) PROVE IInv'
  <2>1. TypeOK'
    BY <1>4, ThreadRows, ThreadMoves, ThreadData DEF TypeOK
  <2>2. wf[a.doc].pc # "none" /\ docs[a.doc].status # "absent"
    BY <1>4, ThreadRows, AttemptFields DEF InOrder
  <2>3. \A d \in Docs : docs'[d].status = "absent" <=> docs[d].status = "absent"
    BY <1>4, <2>2, ThreadRows
  <2>4. \A b \in Attempts : thread'[b] # "idle" => wf[b.doc].pc # "none"
    BY <1>4, <2>2, ThreadMoves DEF InOrder
  <2>5. Relations'
    BY <1>0, <1>4, <2>3, <2>4, ThreadRows, ThreadMoves, QuietStep
  <2> QED BY <1>4, <2>1, <2>5, ThreadWhole DEF Relations
<1>5. CASE WorkerCrash
  BY <1>0, <1>1, <1>5, CrashStep DEF Relations
<1>6. CASE ToolSelects \/ ToolUpserts \/ ToolStops
  BY <1>0, <1>1, <1>6, ToolStep DEF Relations
<1>7. CASE UNCHANGED vars
  BY <1>7 DEF vars, TypeOK, InOrder, OneDocPerContent, AnsweredHasDocument,
              ChunksAreOneWholeAttempt, ChunksOf
<1> QED BY <1>2, <1>3, <1>4, <1>5, <1>6, <1>7 DEF Next

LEMMA Inductive == Spec => []IInv
  BY InitIInv, StepIInv, PTL DEF Spec

----------------------------------------------------------------------------
(* Documents whose attempts stay within their time.                        *)

\* An upload is over before its workflow moves, and an attempt starts when its
\* turn has come.
InTurn ==
    /\ \A d \in Docs : api[d] \in {"idle", "writing", "starting"} => wf[d].pc = "none"
    /\ \A a \in Attempts : (thread[a] # "idle" /\ wf[a.doc].pc = "parse")
                              => a.try <= wf[a.doc].try

OnlyTextIsCut == \A d \in Docs : ChunksOf(d) # {} => Outcome(d) = "text"

\* What the row of an indexed document says of its chunks.
Counted(d) ==
    docs[d].status = "indexed" => /\ docs[d].count = Cardinality(ChunksOf(d))
                                  /\ Outcome(d) = "text" => ChunksOf(d) # {}

Settled(d) ==
    /\ docs[d].status \in {"indexed", "failed", "embed_failed"}
    /\ docs[d].status = "indexed" => ChunksOf(d) \subseteq vectors

\* What an attempt that works alone knows at each of its points.
Knows(a) ==
    /\ thread[a] \in {"parsing", "parsed", "deleted", "inserted", "counted"}
          => docs[a.doc].status = "parsing"
    /\ thread[a] = "deleted" => ChunksOf(a.doc) = {}
    /\ thread[a] \in {"inserted", "counted"} => ChunksOf(a.doc) = NewChunks(a)
    /\ thread[a] = "counted" => docs[a.doc].count = Size(a.doc)
    /\ thread[a] \in {"embedding", "encoding"} => docs[a.doc].status = "indexed"
    /\ thread[a] \in {"closing", "returned"} => Settled(a.doc)

Timely(d) ==
    ~Overran(d) => /\ Counted(d)
                   /\ wf[d].pc = "completed" => Settled(d)
                   /\ \A a \in Attempts : (a.doc = d /\ Live(a)) => Knows(a)

TInv == InTurn /\ OnlyTextIsCut /\ \A d \in Docs : Timely(d)

\* An attempt cuts Size(a.doc) chunks.
LEMMA NewChunksCount ==
    ASSUME NEW a \in Attempts
    PROVE  IsFiniteSet(NewChunks(a)) /\ Cardinality(NewChunks(a)) = Size(a.doc)
<1> DEFINE f == [i \in 1..Size(a.doc) |-> [doc |-> a.doc, try |-> a.try, ordinal |-> i]]
<1>1. Size(a.doc) \in Nat /\ Size(a.doc) <= MaxChunks /\ MaxChunks \in Nat
  BY AttemptFields, SizeType, IngestBounds
<1>2. \A i \in 1..Size(a.doc) : [doc |-> a.doc, try |-> a.try, ordinal |-> i] \in NewChunks(a)
  BY <1>1, AttemptFields DEF NewChunks, ChunkIds
<1>3. \A c \in NewChunks(a) : c.ordinal \in 1..Size(a.doc)
                              /\ c = [doc |-> a.doc, try |-> a.try, ordinal |-> c.ordinal]
  BY <1>1 DEF NewChunks, ChunkIds
<1>4. f \in Bijection(1..Size(a.doc), NewChunks(a))
  <2>1. f \in [1..Size(a.doc) -> NewChunks(a)]
    BY <1>2
  <2>2. \A i, j \in 1..Size(a.doc) : f[i] = f[j] => i = j
    OBVIOUS
  <2>3. \A c \in NewChunks(a) : \E i \in 1..Size(a.doc) : f[i] = c
    BY <1>3
  <2> QED BY <2>1, <2>2, <2>3, Zenon DEF Bijection, Injection, Surjection, IsInjective
<1>5. ExistsBijection(1..Size(a.doc), NewChunks(a))
  BY <1>4, Zenon DEF ExistsBijection
<1>6. IsFiniteSet(1..Size(a.doc)) /\ Cardinality(1..Size(a.doc)) = Size(a.doc)
  BY <1>1, FS_Interval
<1> QED BY <1>5, <1>6, FS_Bijection

\* Whole attempts are finite.
LEMMA WholeIsFinite ==
    ASSUME ChunksAreOneWholeAttempt, OnlyTextIsCut, NEW d \in Docs
    PROVE  IsFiniteSet(ChunksOf(d))
<1>1. CASE ChunksOf(d) = {}
  BY <1>1, FS_EmptySet
<1>2. CASE ChunksOf(d) # {}
  <2>1. PICK n \in Tries : ChunksOf(d) = {c \in ChunkIds : c.doc = d /\ c.try = n}
    BY <1>2 DEF ChunksAreOneWholeAttempt
  <2> DEFINE a == [doc |-> d, try |-> n]
  <2>2. a \in Attempts /\ a.doc = d /\ a.try = n
    BY DEF Attempts
  <2>3. Size(d) = MaxChunks
    BY <1>2 DEF OnlyTextIsCut, Size
  <2>4. \A c \in ChunkIds : c.ordinal <= MaxChunks
    BY IngestBounds DEF ChunkIds
  <2>5. ChunksOf(d) = NewChunks(a)
    BY <2>1, <2>2, <2>3, <2>4 DEF NewChunks
  <2> QED BY <2>2, <2>5, NewChunksCount
<1> QED BY <1>1, <1>2

\* Only an empty batch says that nothing is pending.
LEMMA EmptyBatch ==
    ASSUME NEW ids, IsFiniteSet(ids), {} \in FirstPending(ids)
    PROVE  ids \subseteq vectors
<1>1. Pending(ids) \in SUBSET ids
  BY DEF Pending
<1>2. IsFiniteSet(Pending(ids)) /\ Cardinality(Pending(ids)) \in Nat
  BY <1>1, FS_Subset, FS_CardinalityType
<1>3. Cardinality({}) = 0
  BY FS_EmptySet
<1>4. Cardinality(Pending(ids)) = 0
  BY <1>2, <1>3, IngestBounds DEF FirstPending
<1>5. Pending(ids) = {}
  BY <1>2, <1>4, FS_EmptySet
<1> QED BY <1>5 DEF Pending

----------------------------------------------------------------------------
\* A live attempt of a document that is within its time is the current one, and alone.
LEMMA Alone ==
    ASSUME NEW a \in Attempts, NEW b \in Attempts, ~Overran(a.doc), a.doc = b.doc,
           Live(a), Live(b)
    PROVE  Current(a) /\ a = b
<1>1. Current(a) /\ Current(b)
  BY DEF Overran
<1>2. a.try = b.try
  BY <1>1 DEF Current
<1> QED BY <1>1, <1>2 DEF Attempts

\* How the server's record of a document moves.
LEMMA Turns ==
    ASSUME IInv, InTurn, [Next]_vars, NEW d \in Docs
    PROVE  \/ wf'[d] = wf[d]
           \/ wf[d].pc = "none"
           \/ wf[d].pc = "parse" /\ wf'[d] = AfterFailure(wf[d])
           \/ /\ wf[d].pc = "parse" /\ wf'[d].pc = "completed"
              /\ \E a \in Attempts : a.doc = d /\ Current(a) /\ thread[a] = "returned" /\ Report(a)
<1> USE AttemptFields DEF IInv, TypeOK
<1>1. ASSUME NEW u \in Docs,
             CreateDocument(u) \/ WriteFile(u) \/ StartWorkflow(u) \/ UploadFails(u)
      PROVE  wf'[d] = wf[d] \/ wf[d].pc = "none"
  BY <1>1 DEF CreateDocument, WriteFile, StartWorkflow, UploadFails, InTurn
<1>2. ASSUME NEW a \in Attempts, Timeout(a) \/ Report(a)
      PROVE  \/ wf'[d] = wf[d]
             \/ wf[d].pc = "parse" /\ wf'[d] = AfterFailure(wf[d])
             \/ /\ wf[d].pc = "parse" /\ wf'[d].pc = "completed"
                /\ a.doc = d /\ Current(a) /\ thread[a] = "returned" /\ Report(a)
  BY <1>2 DEF Timeout, Report, Current
<1>3. ASSUME NEW a \in Attempts, Dispatch(a) \/ (ThreadStep(a) /\ ~Report(a))
      PROVE  wf' = wf
  BY <1>3 DEF Dispatch, ThreadStep, ReadFile, MarkParsing, Refuse, Cut, DeleteChunks,
              InsertChunks, SetChunksCount, MarkIndexed, SelectPending, UpsertEmbeddings,
              EmbedFails, Aborts, Unlink
<1>4. ASSUME WorkerCrash \/ ToolSelects \/ ToolUpserts \/ ToolStops \/ UNCHANGED vars
      PROVE  wf' = wf
  BY <1>4 DEF WorkerCrash, ToolSelects, ToolUpserts, ToolStops, vars
<1> QED BY <1>1, <1>2, <1>3, <1>4 DEF Next

\* How a thread moves.
LEMMA Points ==
    ASSUME IInv, [Next]_vars, NEW a \in Attempts
    PROVE  \/ thread'[a] = thread[a]
           \/ thread[a] = "idle" /\ thread'[a] = "started" /\ Dispatch(a)
           \/ Live(a) /\ thread'[a] = Ended(a)
           \/ Live(a) /\ thread'[a] \notin {"idle", "gone", "late"} /\ ThreadStep(a)
<1> USE DEF IInv, TypeOK
<1>1. ASSUME NEW u \in Docs,
             CreateDocument(u) \/ WriteFile(u) \/ StartWorkflow(u) \/ UploadFails(u)
      PROVE  thread' = thread
  BY <1>1 DEF CreateDocument, WriteFile, StartWorkflow, UploadFails
<1>2. ASSUME NEW b \in Attempts, Dispatch(b) \/ Timeout(b)
      PROVE  \/ thread'[a] = thread[a]
             \/ thread[a] = "idle" /\ thread'[a] = "started" /\ Dispatch(a)
  BY <1>2 DEF Dispatch, Timeout
<1>3. ASSUME NEW b \in Attempts, ThreadStep(b)
      PROVE  \/ thread'[a] = thread[a]
             \/ Live(a) /\ thread'[a] = Ended(a)
             \/ Live(a) /\ thread'[a] \notin {"idle", "gone", "late"} /\ ThreadStep(a)
  <2>1. CASE a # b
    BY <1>3, <2>1, ThreadMoves
  <2>2. CASE a = b /\ Report(a)
    BY <2>2 DEF Report, Live
  <2>3. CASE a = b /\ ~Report(a)
    BY <1>3, <2>3 DEF ThreadStep, Goto, Live, Busy, ReadFile, MarkParsing, Refuse, Cut,
              DeleteChunks, InsertChunks, SetChunksCount, MarkIndexed, SelectPending,
              UpsertEmbeddings, EmbedFails, Aborts, Unlink
  <2> QED BY <2>1, <2>2, <2>3
<1>4. CASE WorkerCrash
  BY <1>4 DEF WorkerCrash
<1>5. ASSUME ToolSelects \/ ToolUpserts \/ ToolStops \/ UNCHANGED vars
      PROVE  thread' = thread
  BY <1>5 DEF ToolSelects, ToolUpserts, ToolStops, vars
<1> QED BY <1>1, <1>2, <1>3, <1>4, <1>5 DEF Next

LEMMA StepInTurn ==
    ASSUME IInv, InTurn, [Next]_vars
    PROVE  InTurn'
<1> USE AttemptFields DEF IInv, TypeOK
<1>1. ASSUME NEW d \in Docs, api'[d] \in {"idle", "writing", "starting"}
      PROVE  wf'[d].pc = "none"
  <2>1. api[d] \in {"idle", "writing", "starting"} /\ wf'[d] = wf[d]
    <3>1. ASSUME NEW u \in Docs,
                 CreateDocument(u) \/ WriteFile(u) \/ StartWorkflow(u) \/ UploadFails(u)
          PROVE  api[d] \in {"idle", "writing", "starting"} /\ wf'[d] = wf[d]
      BY <1>1, <3>1 DEF CreateDocument, WriteFile, StartWorkflow, UploadFails
    <3>2. ASSUME NEW a \in Attempts, Dispatch(a) \/ Timeout(a) \/ ThreadStep(a)
          PROVE  api' = api
      BY <3>2, ThreadRows DEF Dispatch, Timeout
    <3>3. ASSUME WorkerCrash \/ ToolSelects \/ ToolUpserts \/ ToolStops \/ UNCHANGED vars
          PROVE  api' = api /\ wf' = wf
      BY <3>3 DEF WorkerCrash, ToolSelects, ToolUpserts, ToolStops, vars
    <3>4. ASSUME api' = api PROVE api[d] \in {"idle", "writing", "starting"} /\ wf[d].pc = "none"
      BY <1>1, <3>4 DEF InTurn
    <3>5. ASSUME NEW a \in Attempts, Dispatch(a) \/ Timeout(a) \/ ThreadStep(a)
          PROVE  wf'[d] = wf[d]
      <4>1. wf[d].pc = "none"
        BY <3>2, <3>4, <3>5
      <4>2. CASE Timeout(a) \/ Report(a)
        BY <4>1, <4>2 DEF Timeout, Report, Current
      <4>3. CASE Dispatch(a) \/ (ThreadStep(a) /\ ~Report(a))
        BY <4>3 DEF Dispatch, ThreadStep, ReadFile, MarkParsing, Refuse, Cut, DeleteChunks,
              InsertChunks, SetChunksCount, MarkIndexed, SelectPending, UpsertEmbeddings,
              EmbedFails, Aborts, Unlink
      <4> QED BY <3>5, <4>2, <4>3
    <3> QED BY <3>1, <3>2, <3>3, <3>4, <3>5 DEF Next
  <2> QED BY <2>1 DEF InTurn
<1>2. ASSUME NEW a \in Attempts, thread'[a] # "idle", wf'[a.doc].pc = "parse"
      PROVE  a.try <= wf'[a.doc].try
  <2>1. a.doc \in Docs /\ a.try \in Nat
    BY DEF Attempts, Tries
  <2>2. CASE thread[a] = "idle"
    <3>1. Dispatch(a)
      BY <1>2, <2>2, Points DEF Live
    <3>2. wf'[a.doc] = wf[a.doc] /\ wf[a.doc].try = a.try
      BY <3>1 DEF Dispatch, Current
    <3> QED BY <2>1, <3>2
  <2>3. CASE thread[a] # "idle" /\ wf[a.doc].pc = "parse" /\ wf'[a.doc] = AfterFailure(wf[a.doc])
    <3>1. a.try <= wf[a.doc].try /\ wf[a.doc].try \in Nat /\ wf[a.doc] \in Run
      BY <2>1, <2>3 DEF InTurn, Run
    <3>2. wf'[a.doc].try = wf[a.doc].try + 1
      BY <1>2, <2>3, <3>1 DEF AfterFailure, Run
    <3> QED BY <2>1, <3>1, <3>2
  <2>4. CASE thread[a] # "idle" /\ wf'[a.doc] = wf[a.doc]
    BY <1>2, <2>4 DEF InTurn
  <2>5. thread[a] # "idle" => wf[a.doc].pc # "none"
    BY DEF InOrder
  <2> QED BY <1>2, <2>1, <2>2, <2>3, <2>4, <2>5, Turns
<1> QED BY <1>1, <1>2 DEF InTurn

\* What was late stays late, and a turn that has passed does not come back.
LEMMA OverranStays ==
    ASSUME IInv, InTurn, [Next]_vars, NEW d \in Docs, Overran(d)
    PROVE  Overran(d)'
<1>1. PICK a \in Attempts : a.doc = d /\ (thread[a] = "late" \/ (Live(a) /\ ~Current(a)))
  BY DEF Overran
<1>2. CASE thread[a] = "late"
  <2>1. thread'[a] = "late"
    BY <1>2, Points DEF Live
  <2> QED BY <1>1, <2>1 DEF Overran
<1>3. CASE Live(a) /\ ~Current(a)
  <2>1. ~Current(a)'
    <3>1. wf[d].pc # "none"
      BY <1>1, <1>3 DEF IInv, InOrder, Live
    <3>2. wf'[d] = wf[d] => ~Current(a)'
      BY <1>1, <1>3 DEF Current
    <3>3. wf'[d].pc = "completed" => ~Current(a)'
      BY <1>1 DEF Current
    <3>4. ASSUME wf[d].pc = "parse", wf'[d] = AfterFailure(wf[d]) PROVE ~Current(a)'
      <4>1. wf[d] \in Run /\ wf[d].try \in Nat /\ a.try \in Nat
        BY <1>1 DEF IInv, TypeOK, Run, Attempts, Tries
      <4>2. a.try < wf[d].try
        BY <1>1, <1>3, <3>4, <4>1 DEF InTurn, Live, Current
      <4>3. wf'[d].pc = "parse" => wf'[d].try = wf[d].try + 1
        BY <3>4, <4>1 DEF AfterFailure, Run
      <4> QED BY <1>1, <4>1, <4>2, <4>3 DEF Current
    <3> QED BY <3>1, <3>2, <3>3, <3>4, Turns
  <2>2. thread'[a] = "late" \/ Live(a)'
    BY <1>3, Points DEF Live, Ended
  <2> QED BY <1>1, <2>1, <2>2 DEF Overran
<1> QED BY <1>1, <1>2, <1>3

\* A step that leaves a document's row, chunks and workflow alone, takes none of
\* its vectors and moves none of its attempts but to their start.
LEMMA Untouched ==
    ASSUME IInv, InTurn, [Next]_vars, NEW d \in Docs, Timely(d),
           docs'[d] = docs[d], ChunksOf(d)' = ChunksOf(d), parse' = parse,
           ChunksOf(d) \cap vectors \subseteq vectors',
           wf'[d].pc = "completed" => wf[d].pc = "completed",
           \A a \in Attempts : (a.doc = d /\ Live(a)')
              => thread'[a] = thread[a] \/ thread'[a] = "started"
    PROVE  Timely(d)'
<1> SUFFICES ASSUME ~Overran(d)'
             PROVE  /\ Counted(d)'
                    /\ (wf[d].pc = "completed" => Settled(d))'
                    /\ \A a \in Attempts : (a.doc = d /\ Live(a)') => Knows(a)'
  BY DEF Timely
<1>1. Counted(d) /\ (wf[d].pc = "completed" => Settled(d))
      /\ \A a \in Attempts : (a.doc = d /\ Live(a)) => Knows(a)
  BY OverranStays DEF Timely
<1>2. Outcome(d)' = Outcome(d) /\ Size(d)' = Size(d)
  BY DEF Outcome, Size
<1>3. Counted(d)'
  BY <1>1, <1>2 DEF Counted
<1>4. Settled(d) => Settled(d)'
  BY DEF Settled
<1>5. ASSUME NEW a \in Attempts, a.doc = d, Live(a)' PROVE Knows(a)'
  <2>1. NewChunks(a)' = NewChunks(a)
    BY <1>2, <1>5 DEF NewChunks
  <2>2. CASE thread'[a] = thread[a]
    <3>1. Knows(a)
      BY <1>1, <1>5, <2>2 DEF Live
    <3> QED BY <1>2, <1>4, <1>5, <2>1, <2>2, <3>1 DEF Knows
  <2>3. CASE thread'[a] = "started"
    BY <2>3 DEF Knows
  <2> QED BY <1>5, <2>2, <2>3
<1> QED BY <1>1, <1>3, <1>4, <1>5

----------------------------------------------------------------------------
\* A step of an attempt that works alone, on its own document.

\* Steps that leave the tables alone.
LEMMA Looking ==
    ASSUME docs' = docs, chunks' = chunks, vectors' = vectors, parse' = parse,
           NEW d \in Docs
    PROVE  Counted(d)' = Counted(d) /\ Settled(d)' = Settled(d)
  BY DEF Counted, Settled, ChunksOf, Outcome

LEMMA OwnStep ==
    ASSUME IInv, OnlyTextIsCut, NEW a \in Attempts, Counted(a.doc), Knows(a), ThreadStep(a)
    PROVE  /\ Counted(a.doc)' /\ Knows(a)'
           /\ (Report(a) /\ thread[a] = "returned") => Settled(a.doc)'
<1> USE DEF IInv, TypeOK
<1>0. a.doc \in Docs
  BY AttemptFields
<1>1. CASE ReadFile(a) \/ Cut(a) \/ Aborts(a) \/ Unlink(a)
  <2>1. ~Report(a) \/ thread[a] # "returned"
    BY <1>1 DEF ReadFile, Cut, Aborts, Unlink, Busy
  <2>2. docs' = docs /\ chunks' = chunks /\ vectors' = vectors /\ parse' = parse
    BY <1>1 DEF ReadFile, Cut, Aborts, Unlink
  <2>3. Counted(a.doc)' /\ (Settled(a.doc) => Settled(a.doc)')
    BY <1>0, <2>2, Looking
  <2>4. Knows(a)'
    BY <1>1, <2>2, <2>3 DEF Knows, ReadFile, Cut, Aborts, Unlink, Goto
  <2> QED BY <2>1, <2>3, <2>4
<1>2. CASE Report(a)
  <2>1. docs' = docs /\ chunks' = chunks /\ vectors' = vectors /\ parse' = parse
        /\ thread'[a] \in {"gone", "late"}
    BY <1>2 DEF Report, Ended
  <2>2. thread[a] = "returned" => Settled(a.doc)
    BY DEF Knows
  <2>3. Counted(a.doc)' /\ (Settled(a.doc) => Settled(a.doc)')
    BY <1>0, <2>1, Looking
  <2>4. Knows(a)'
    BY <2>1 DEF Knows
  <2> QED BY <2>2, <2>3, <2>4
<1> SUFFICES ASSUME ~Report(a) PROVE Counted(a.doc)' /\ Knows(a)'
  BY <1>2
<1>3. CASE MarkParsing(a)
  <2>1. docs'[a.doc].status = "parsing" /\ thread'[a] = "parsing"
    BY <1>0, <1>3, RowType DEF MarkParsing, Goto
  <2> QED BY <2>1 DEF Counted, Knows
<1>4. CASE Refuse(a)
  <2>1. docs'[a.doc].status = "failed" /\ thread'[a] \in {"closing", "aborting"}
    BY <1>0, <1>4, RowType DEF Refuse, Goto
  <2> QED BY <2>1 DEF Counted, Knows, Settled
<1>5. CASE DeleteChunks(a)
  <2>1. docs' = docs /\ thread'[a] = "deleted" /\ docs[a.doc].status = "parsing"
    BY <1>5 DEF DeleteChunks, Goto, Knows
  <2>2. ChunksOf(a.doc)' = {}
    BY <1>5 DEF DeleteChunks, ChunksOf
  <2> QED BY <2>1, <2>2 DEF Counted, Knows
<1>6. CASE InsertChunks(a)
  <2>1. ChunksOf(a.doc) = {} /\ docs' = docs /\ docs[a.doc].status = "parsing"
    BY <1>6 DEF InsertChunks, Knows
  <2>2. chunks' = chunks \cup NewChunks(a) /\ thread'[a] = "inserted" /\ parse' = parse
    BY <1>6, <2>1 DEF InsertChunks, Goto
  <2>3. ChunksOf(a.doc)' = NewChunks(a)
    BY <2>1, <2>2 DEF ChunksOf, NewChunks
  <2>4. NewChunks(a)' = NewChunks(a)
    BY <2>2 DEF NewChunks, Size, Outcome
  <2> QED BY <2>1, <2>2, <2>3, <2>4 DEF Counted, Knows
<1>7. CASE SetChunksCount(a)
  <2>1. docs[a.doc] \in DocRow /\ docs[a.doc].status = "parsing" /\ ChunksOf(a.doc) = NewChunks(a)
        /\ thread'[a] = "counted" /\ chunks' = chunks /\ parse' = parse
    BY <1>0, <1>7 DEF SetChunksCount, Goto, Knows
  <2>2. docs'[a.doc] = [docs[a.doc] EXCEPT !.count = Size(a.doc)]
    BY <1>0, <1>7 DEF SetChunksCount
  <2>3. docs'[a.doc].status = "parsing" /\ docs'[a.doc].count = Size(a.doc)
    BY <2>1, <2>2 DEF DocRow
  <2>4. NewChunks(a)' = NewChunks(a) /\ ChunksOf(a.doc)' = ChunksOf(a.doc)
        /\ Size(a.doc)' = Size(a.doc)
    BY <2>1 DEF NewChunks, ChunksOf, Size, Outcome
  <2> QED BY <2>1, <2>3, <2>4 DEF Counted, Knows
<1>8. CASE MarkIndexed(a)
  <2>1. /\ docs' = SetStatus(a.doc, "indexed", "none") /\ chunks' = chunks /\ parse' = parse
        /\ thread'[a] = IF Size(a.doc) = 0 THEN "closing" ELSE "embedding"
        /\ ChunksOf(a.doc) = NewChunks(a) /\ docs[a.doc].count = Size(a.doc)
    BY <1>8 DEF MarkIndexed, Goto, Knows
  <2>2. docs'[a.doc].status = "indexed" /\ docs'[a.doc].count = Size(a.doc)
    BY <1>0, <2>1 DEF SetStatus
  <2>3. ChunksOf(a.doc)' = NewChunks(a) /\ Outcome(a.doc)' = Outcome(a.doc)
    BY <2>1 DEF ChunksOf, Outcome
  <2>4. IsFiniteSet(NewChunks(a)) /\ Cardinality(NewChunks(a)) = Size(a.doc)
    BY NewChunksCount
  <2>5. NewChunks(a) = {} <=> Size(a.doc) = 0
    BY <2>4, FS_EmptySet
  <2>6. Outcome(a.doc) = "text" => NewChunks(a) # {}
    BY <2>5, IngestBounds DEF Size
  <2>7. Counted(a.doc)'
    BY <2>2, <2>3, <2>4, <2>6 DEF Counted
  <2>8. Size(a.doc) = 0 => Settled(a.doc)'
    BY <2>2, <2>3, <2>5 DEF Settled
  <2> QED BY <2>1, <2>2, <2>7, <2>8 DEF Knows
<1>9. CASE SelectPending(a)
  <2>1. docs' = docs /\ chunks' = chunks /\ vectors' = vectors /\ parse' = parse
        /\ docs[a.doc].status = "indexed"
    BY <1>9 DEF SelectPending, Knows
  <2>2. PICK b \in FirstPending(ChunksOf(a.doc)) :
             thread'[a] = IF b = {} THEN "closing" ELSE "encoding"
    BY <1>9 DEF SelectPending, Goto
  <2>3. CASE b = {}
    <3>1. ChunksOf(a.doc) \subseteq vectors
      BY <1>0, <2>2, <2>3, WholeIsFinite, EmptyBatch
    <3>2. Settled(a.doc)' /\ Counted(a.doc)'
      BY <2>1, <3>1 DEF Settled, Counted, ChunksOf, Outcome
    <3> QED BY <2>2, <2>3, <3>2 DEF Knows
  <2>4. CASE b # {}
    BY <1>0, <2>1, <2>2, <2>4, Looking DEF Knows
  <2> QED BY <2>3, <2>4
<1>10. CASE UpsertEmbeddings(a)
  <2>1. docs' = docs /\ chunks' = chunks /\ parse' = parse /\ docs[a.doc].status = "indexed"
        /\ thread'[a] = "embedding"
    BY <1>10 DEF UpsertEmbeddings, Goto, Knows
  <2> QED BY <2>1 DEF Counted, Knows, ChunksOf, Outcome
<1>11. CASE EmbedFails(a)
  <2>1. docs'[a.doc].status = "embed_failed" /\ thread'[a] = "closing"
    BY <1>0, <1>11, RowType DEF EmbedFails, Goto
  <2> QED BY <2>1 DEF Counted, Knows, Settled
<1> QED BY <1>1, <1>3, <1>4, <1>5, <1>6, <1>7, <1>8, <1>9, <1>10, <1>11 DEF ThreadStep

\* A step of a thread on the documents of others.
LEMMA OthersStep ==
    ASSUME IInv, NEW a \in Attempts, ThreadStep(a), NEW d \in Docs, d # a.doc
    PROVE  /\ docs'[d] = docs[d] /\ ChunksOf(d)' = ChunksOf(d) /\ wf'[d] = wf[d]
           /\ ChunksOf(d) \cap vectors \subseteq vectors'
<1> USE DEF IInv, TypeOK
<1>1. docs'[d] = docs[d]
  BY ThreadRows
<1>2. wf'[d] = wf[d]
  <2>1. CASE Report(a)
    BY <2>1, AttemptFields DEF Report
  <2>2. CASE ~Report(a)
    BY <2>2 DEF ThreadStep, ReadFile, MarkParsing, Refuse, Cut, DeleteChunks,
              InsertChunks, SetChunksCount, MarkIndexed, SelectPending, UpsertEmbeddings,
              EmbedFails, Aborts, Unlink
  <2> QED BY <2>1, <2>2
<1>3. CASE DeleteChunks(a)
  BY <1>1, <1>2, <1>3 DEF DeleteChunks, ChunksOf
<1>4. CASE InsertChunks(a)
  BY <1>1, <1>2, <1>4 DEF InsertChunks, ChunksOf, NewChunks
<1>5. CASE UpsertEmbeddings(a)
  BY <1>1, <1>2, <1>5 DEF UpsertEmbeddings, ChunksOf
<1>6. CASE ReadFile(a) \/ MarkParsing(a) \/ Refuse(a) \/ Cut(a) \/ SetChunksCount(a)
           \/ MarkIndexed(a) \/ SelectPending(a) \/ EmbedFails(a) \/ Aborts(a)
           \/ Unlink(a) \/ Report(a)
  BY <1>1, <1>2, <1>6 DEF ReadFile, MarkParsing, Refuse, Cut, SetChunksCount, MarkIndexed,
              SelectPending, EmbedFails, Aborts, Unlink, Report, ChunksOf
<1> QED BY <1>3, <1>4, <1>5, <1>6 DEF ThreadStep

LEMMA ThreadTimely ==
    ASSUME IInv, TInv, NEW a \in Attempts, ThreadStep(a), NEW d \in Docs
    PROVE  Timely(d)'
<1> USE DEF TInv
<1>0. [Next]_vars /\ parse' = parse
  BY ThreadData DEF Next, IInv
<1>1. \A b \in Attempts : b # a => thread'[b] = thread[b]
  BY ThreadMoves DEF IInv
<1>2. CASE d # a.doc
  <2>1. \A b \in Attempts : b.doc = d => thread'[b] = thread[b]
    BY <1>1, <1>2
  <2> QED BY <1>0, <1>2, <2>1, OthersStep, Untouched
<1>3. CASE d = a.doc
  <2> SUFFICES ASSUME ~Overran(d)'
               PROVE  /\ Counted(d)'
                      /\ (wf[d].pc = "completed" => Settled(d))'
                      /\ \A b \in Attempts : (b.doc = d /\ Live(b)') => Knows(b)'
    BY DEF Timely
  <2>1. ~Overran(d)
    BY <1>0, OverranStays
  <2>2. Live(a)
    BY DEF ThreadStep, Live, Busy, ReadFile, MarkParsing, Refuse, Cut, DeleteChunks,
              InsertChunks, SetChunksCount, MarkIndexed, SelectPending, UpsertEmbeddings,
              EmbedFails, Aborts, Unlink, Report
  <2>3. Counted(d) /\ Knows(a) /\ Current(a)
    BY <1>3, <2>1, <2>2, Alone DEF Timely
  <2>4. /\ Counted(d)' /\ Knows(a)'
        /\ (Report(a) /\ thread[a] = "returned") => Settled(d)'
    BY <1>3, <2>3, OwnStep
  <2>5. wf'[d].pc = "completed" => Report(a) /\ thread[a] = "returned"
    <3>1. wf[d].pc = "parse" /\ wf[d] \in Run
      BY <1>3, <2>3 DEF Current, IInv, TypeOK
    <3>2. AfterFailure(wf[d]).pc # "completed"
      BY <3>1 DEF AfterFailure, Run
    <3>3. ASSUME NEW b \in Attempts, b.doc = d, Current(b), thread[b] = "returned"
          PROVE  b = a
      <4>1. Live(b)
        BY <3>3 DEF Live
      <4> QED BY <1>3, <2>1, <2>2, <3>3, <4>1, Alone
    <3> QED BY <1>0, <3>1, <3>2, <3>3, Turns
  <2>6. ASSUME NEW b \in Attempts, b.doc = d, Live(b)' PROVE Knows(b)'
    <3>1. CASE b = a
      BY <2>4, <3>1
    <3>2. CASE b # a
      <4>1. Live(b)
        BY <1>1, <2>6, <3>2 DEF Live
      <4> QED BY <1>3, <2>1, <2>2, <2>6, <3>2, <4>1, Alone
    <3> QED BY <3>1, <3>2
  <2> QED BY <2>4, <2>5, <2>6
<1> QED BY <1>2, <1>3

LEMMA StepTimely ==
    ASSUME IInv, TInv, [Next]_vars, NEW d \in Docs
    PROVE  Timely(d)'
<1> USE DEF TInv
<1>1. ASSUME NEW u \in Docs,
             CreateDocument(u) \/ WriteFile(u) \/ StartWorkflow(u) \/ UploadFails(u)
      PROVE  Timely(d)'
  <2>1. /\ chunks' = chunks /\ vectors' = vectors /\ thread' = thread /\ parse' = parse
        /\ \A e \in Docs : wf'[e].pc = "completed" => wf[e].pc = "completed"
    BY <1>1 DEF CreateDocument, WriteFile, StartWorkflow, UploadFails, IInv, TypeOK
  <2>2. CASE docs'[d] = docs[d]
    BY <2>1, <2>2, Untouched DEF ChunksOf
  <2>3. CASE docs'[d] # docs[d]
    <3>1. u = d /\ api[d] = "idle" /\ wf' = wf /\ docs'[d].status = "new"
      BY <1>1, <2>3, FirstRowType
         DEF CreateDocument, WriteFile, StartWorkflow, UploadFails, IInv, TypeOK
    <3>2. wf[d].pc = "none"
      BY <3>1 DEF InTurn
    <3>3. \A a \in Attempts : a.doc = d => thread[a] = "idle"
      BY <3>2 DEF IInv, InOrder
    <3>4. \A a \in Attempts : a.doc = d => ~Live(a)'
      BY <2>1, <3>3 DEF Live
    <3>5. Counted(d)'
      BY <3>1 DEF Counted
    <3> QED BY <3>1, <3>2, <3>4, <3>5 DEF Timely
  <2> QED BY <2>2, <2>3
<1>2. ASSUME NEW a \in Attempts, Dispatch(a) \/ Timeout(a) PROVE Timely(d)'
  <2>1. /\ UNCHANGED <<docs, chunks, vectors, parse>>
        /\ \A b \in Attempts : thread'[b] = thread[b] \/ thread'[b] = "started"
    BY <1>2 DEF Dispatch, Timeout, IInv, TypeOK
  <2>2. wf'[d].pc = "completed" => wf[d].pc = "completed"
    BY <1>2 DEF Dispatch, Timeout, IInv, TypeOK, Current, AfterFailure, Run
  <2> QED BY <2>1, <2>2, Untouched DEF ChunksOf
<1>3. CASE WorkerCrash
  <2>1. UNCHANGED <<docs, chunks, vectors, parse, wf>> /\ \A b \in Attempts : ~Live(b)'
    BY <1>3 DEF WorkerCrash, Live, Ended
  <2> QED BY <2>1, Untouched DEF ChunksOf
<1>4. CASE ToolSelects \/ ToolUpserts \/ ToolStops
  <2>1. UNCHANGED <<docs, chunks, parse, wf, thread>> /\ vectors \subseteq vectors'
    BY <1>4 DEF ToolSelects, ToolUpserts, ToolStops
  <2> QED BY <2>1, Untouched DEF ChunksOf
<1>5. CASE UNCHANGED vars
  BY <1>5, Untouched DEF vars, ChunksOf
<1> QED BY <1>1, <1>2, <1>3, <1>4, <1>5, ThreadTimely DEF Next

LEMMA StepOnlyTextIsCut ==
    ASSUME IInv, OnlyTextIsCut, [Next]_vars
    PROVE  OnlyTextIsCut'
<1>1. ASSUME NEW a \in Attempts, ThreadStep(a) PROVE OnlyTextIsCut'
  <2>1. parse' = parse
    BY <1>1, ThreadData DEF IInv
  <2>2. CASE DeleteChunks(a)
    BY <2>1, <2>2 DEF DeleteChunks, OnlyTextIsCut, ChunksOf, Outcome
  <2>3. CASE InsertChunks(a)
    <3>1. chunks' \subseteq chunks \cup NewChunks(a)
      BY <2>3 DEF InsertChunks
    <3>2. \A c \in NewChunks(a) : Outcome(c.doc) = "text"
      BY AttemptFields DEF NewChunks, ChunkIds, Size
    <3> QED BY <2>1, <3>1, <3>2 DEF OnlyTextIsCut, ChunksOf, Outcome
  <2>4. ~DeleteChunks(a) /\ ~InsertChunks(a) => chunks' = chunks
    BY <1>1 DEF ThreadStep, ReadFile, MarkParsing, Refuse, Cut, SetChunksCount, MarkIndexed,
         SelectPending, UpsertEmbeddings, EmbedFails, Aborts, Unlink, Report
  <2> QED BY <2>1, <2>2, <2>3, <2>4 DEF OnlyTextIsCut, ChunksOf, Outcome
<1>2. ASSUME chunks' = chunks, parse' = parse PROVE OnlyTextIsCut'
  BY <1>2 DEF OnlyTextIsCut, ChunksOf, Outcome
<1>3. ASSUME NEW u \in Docs,
             CreateDocument(u) \/ WriteFile(u) \/ StartWorkflow(u) \/ UploadFails(u)
      PROVE  chunks' = chunks /\ parse' = parse
  BY <1>3 DEF CreateDocument, WriteFile, StartWorkflow, UploadFails
<1>4. ASSUME NEW a \in Attempts, Dispatch(a) \/ Timeout(a)
      PROVE  chunks' = chunks /\ parse' = parse
  BY <1>4 DEF Dispatch, Timeout
<1>5. ASSUME WorkerCrash \/ ToolSelects \/ ToolUpserts \/ ToolStops \/ UNCHANGED vars
      PROVE  chunks' = chunks /\ parse' = parse
  BY <1>5 DEF WorkerCrash, ToolSelects, ToolUpserts, ToolStops, vars
<1> QED BY <1>1, <1>2, <1>3, <1>4, <1>5 DEF Next

LEMMA InitTInv == Init => TInv
<1> SUFFICES ASSUME Init PROVE TInv
  OBVIOUS
<1>1. InTurn /\ OnlyTextIsCut
  BY AttemptFields DEF Init, InTurn, OnlyTextIsCut, ChunksOf
<1>2. \A d \in Docs : Counted(d) /\ wf[d].pc = "none"
  BY FirstRowType DEF Init, Counted
<1>3. \A a \in Attempts : ~Live(a)
  BY DEF Init, Live
<1> QED BY <1>1, <1>2, <1>3 DEF TInv, Timely

LEMMA InductiveInTime == Spec => [](IInv /\ TInv)
<1>1. IInv /\ TInv /\ [Next]_vars => (IInv /\ TInv)'
  BY StepIInv, StepInTurn, StepOnlyTextIsCut, StepTimely DEF TInv
<1> QED BY <1>1, InitIInv, InitTInv, PTL DEF Spec

----------------------------------------------------------------------------
(* The theorems.                                                           *)

\* Type correctness: every variable keeps its kind (upload_document, ingest).
THEOREM TypeCorrect == Spec => []TypeOK
  BY Inductive, PTL DEF IInv

\* The same content is one document, however uploads interleave (create_document).
THEOREM OneDocCorrect == Spec => []OneDocPerContent
  BY Inductive, PTL DEF IInv

\* An answered upload has a document, and a document without a workflow stands
\* behind an upload that is at work or failed (upload_document).
THEOREM AnsweredCorrect == Spec => []AnsweredHasDocument
  BY Inductive, PTL DEF IInv

\* A document's chunks are none or all of one attempt's, for any number of
\* attempts that overlap and die anywhere (delete_chunks, insert_chunks).
THEOREM WholeCorrect == Spec => []ChunksAreOneWholeAttempt
  BY Inductive, PTL DEF IInv

\* A document none of whose attempts outlived its timeout has all its chunks
\* when it says indexed and counts them right, and none when it was refused,
\* wherever its attempts fail or die (set_chunks_count, set_status).
THEOREM IndexedCorrect == Spec => []IndexedMeansChunked
<1>1. IInv /\ TInv => IndexedMeansChunked
  BY DEF TInv, OnlyTextIsCut, Timely, Counted, IndexedMeansChunked
<1> QED BY <1>1, InductiveInTime, PTL

\* When the workflow of such a document has completed, its row is settled, and
\* an indexed one has a vector for every chunk (index_pending, ingest).
THEOREM CompletedCorrect == Spec => []CompletedIsSettled
<1>1. IInv /\ TInv => CompletedIsSettled
  BY DEF TInv, Timely, Settled, CompletedIsSettled
<1> QED BY <1>1, InductiveInTime, PTL
=============================================================================
