------------------------------- MODULE Ingest -------------------------------
(***************************************************************************)
(* One document from its row to its searchable chunks: the ingest pipeline *)
(* (services/ingest.rs) run by the job queue, the reingest and delete      *)
(* handlers (routes/documents.rs), the tail of the upload handler, the     *)
(* administrator's retry and cancel, the detached progress writes of a     *)
(* transcription, and the deletion of the document's persona (or of its    *)
(* user, which does the same to the rows), which takes jobs that are being *)
(* executed with it.                                                       *)
(*                                                                         *)
(* The queue is the ledger that JobQueue implements: a job is pending, is  *)
(* executed by at most one task, and an execution may be interrupted. What *)
(* the pipeline adds is the document, its chunks, and the fact that every  *)
(* statement of every task and request commits on its own.                 *)
(***************************************************************************)
EXTENDS Integers, FiniteSets

CONSTANTS
  Jobs,         \* the ingest_document rows for the document, as inserted: 1, 2, ...
  Requests,     \* the reingest requests that may arrive, in their order: 1, 2, ...
  Kinds,        \* the kinds of documents considered: "text", "audio"
  LastBatch,    \* batches of 500 chunks in the text; one row stands for each
  MaxAttempts,  \* MAX_ATTEMPTS of the worker
  Budget,       \* bound on each kind of disturbance
  AtMost        \* bound on all of them together

Disturbances == {"crash", "dbError", "fault", "retry", "cancel", "delete",
                 "reingest"}

ASSUME JobAssumption == Jobs \subseteq Nat /\ Requests \subseteq Nat
ASSUME KindAssumption == Kinds \subseteq {"text", "audio"}
ASSUME BatchAssumption == LastBatch \in Nat \ {0}
ASSUME AttemptsAssumption == MaxAttempts \in Nat \ {0}
ASSUME BudgetAssumption == Budget \in [Disturbances -> Nat] /\ AtMost \in Nat

VARIABLES
  outcome,    \* the ledger: what is known of each job
  active,     \* the ledger: the jobs being executed
  abandoned,  \* rows still 'running' though nobody executes them
  tries,      \* jobs.attempts
  notices,    \* jobs given up whose task has yet to mark the document failed
  kind,       \* documents.kind
  doc,        \* documents.status; "gone" after the DELETE
  progress,   \* documents.progress_pct is not NULL
  chunks,     \* the rows of `chunks` for the document
  embedded,   \* those whose embedding is not NULL
  at,         \* where each execution of run_ingest is
  next,       \* the batch it inserts next
  todo,       \* the un-embedded rows it selected and has still to update
  runs,       \* history: executions of each job so far
  late,       \* detached update_status('transcribing', pct) tasks in flight
  request,    \* where each reingest request is
  uploading,  \* the upload handler has still to INSERT the first job
  spent       \* history: disturbances so far

ledgerVars  == <<outcome, active>>
queueVars   == <<ledgerVars, abandoned, tries, notices>>
docVars     == <<kind, doc, progress>>
chunkVars   == <<chunks, embedded>>
taskVars    == <<at, next, todo, runs>>
requestVars == <<request, uploading>>
vars == <<queueVars, docVars, chunkVars, taskVars, late, requestVars, spent>>

\* The foreign keys of `jobs`: the jobs go with the persona, all at once.
Queue == INSTANCE JobLedger WITH Owned <- {Jobs}, Revocable <- {}

Batch == 1 .. LastBatch
Row   == [job : Jobs, run : Nat, batch : Batch]
Settled == {"done", "failed", "gone"}
DocStatus == {"pending", "parsing", "transcribing", "chunking", "embedding"}
               \union Settled
Stage == {"idle", "fetching", "starting", "extracting", "erring", "chunking",
          "inserting", "toEmbed", "selecting", "embedding", "finishing",
          "finished"}
Reingest == {"idle", "truncating", "discarding", "resetting", "enqueueing",
             "answered"}

TypeOK ==
  /\ Queue!LedgerTypeOK
  /\ abandoned \in SUBSET Jobs /\ notices \in SUBSET Jobs
  /\ tries \in [Jobs -> Nat] /\ runs \in [Jobs -> Nat]
  /\ kind \in Kinds /\ doc \in DocStatus /\ progress \in BOOLEAN
  /\ chunks \in SUBSET Row /\ embedded \in SUBSET chunks
  /\ at \in [Jobs -> Stage]
  /\ next \in [Jobs -> 1 .. LastBatch + 1]
  /\ todo \in [Jobs -> SUBSET Row]
  /\ late \in Nat
  /\ request \in [Requests -> Reingest]
  /\ uploading \in BOOLEAN
  /\ spent \in [Disturbances -> Nat]

-----------------------------------------------------------------------------
Dropped == {j \in Jobs : outcome[j] = "dropped"}     \* rows gone with the persona

PersonaGone == Dropped # {}

Running == (active \ Dropped) \union abandoned      \* jobs.status = 'running'

Pending == {j \in Jobs : outcome[j] = "pending"}

SpentInAll == spent["crash"] + spent["fault"] + spent["dbError"] + spent["retry"]
                + spent["cancel"] + spent["delete"] + spent["reingest"]

Spend(d) ==
  /\ spent[d] < Budget[d] /\ SpentInAll < AtMost
  /\ spent' = [spent EXCEPT ![d] = @ + 1]

\* doc_repo::update_status: an UPDATE that touches no row once it is deleted.
SetDoc(s, p) ==
  IF doc = "gone" THEN UNCHANGED docVars
                  ELSE doc' = s /\ progress' = p /\ UNCHANGED kind

\* The INSERT of the document's next job.
Enqueue(j) ==
  /\ \A k \in Jobs : k < j => outcome[k] # "absent"
  /\ Queue!Submit(j)

GoTo(j, stage) == at' = [at EXCEPT ![j] = stage]

\* The document row has just been created; the upload handler goes on.
Init ==
  /\ Queue!Init
  /\ abandoned = {} /\ notices = {}
  /\ tries = [j \in Jobs |-> 0]
  /\ kind \in Kinds /\ doc = "pending" /\ progress = FALSE
  /\ chunks = {} /\ embedded = {}
  /\ at = [j \in Jobs |-> "idle"]
  /\ next = [j \in Jobs |-> 1]
  /\ todo = [j \in Jobs |-> {}]
  /\ runs = [j \in Jobs |-> 0]
  /\ late = 0
  /\ request = [r \in Requests |-> "idle"]
  /\ uploading = TRUE
  /\ spent = [d \in Disturbances |-> 0]

-----------------------------------------------------------------------------
(* The upload handler's last statement.                                    *)

EnqueueUpload(j) ==
  /\ uploading
  /\ Enqueue(j)
  /\ uploading' = FALSE
  /\ UNCHANGED <<abandoned, tries, notices, docVars, chunkVars, taskVars, late,
                 request, spent>>

\* The foreign key refuses a job for a persona that was deleted meanwhile.
RefuseUpload ==
  /\ uploading /\ PersonaGone
  /\ uploading' = FALSE
  /\ UNCHANGED <<queueVars, docVars, chunkVars, taskVars, late, request, spent>>

\* "Non-fatal: document row exists": the error is logged and 201 returned.
EnqueueUploadFails ==
  /\ uploading
  /\ Spend("dbError")
  /\ uploading' = FALSE
  /\ UNCHANGED <<queueVars, docVars, chunkVars, taskVars, late, request>>

-----------------------------------------------------------------------------
(* run_ingest, one statement at a time.                                    *)

\* The worker has marked the row running and dispatches it.
Begin(j) ==
  /\ Queue!Begin(j)
  /\ j \notin abandoned
  /\ GoTo(j, "fetching")
  /\ next' = [next EXCEPT ![j] = 1]
  /\ todo' = [todo EXCEPT ![j] = {}]
  /\ runs' = [runs EXCEPT ![j] = @ + 1]
  /\ UNCHANGED <<abandoned, tries, notices, docVars, chunkVars, late,
                 requestVars, spent>>

\* A stage that leaves the chunks alone and moves on.
Advance(j, from, to) ==
  /\ at[j] = from
  /\ GoTo(j, to)
  /\ UNCHANGED <<queueVars, chunkVars, next, todo, runs, requestVars, spent>>

\* SELECT the document; NotFound once it is deleted.
FetchDocument(j) ==
  /\ Advance(j, "fetching", IF doc = "gone" THEN "erring" ELSE "starting")
  /\ UNCHANGED <<docVars, late>>

MarkStarted(j) ==
  /\ Advance(j, "starting", "extracting")
  /\ IF kind = "audio" THEN SetDoc("transcribing", TRUE) ELSE SetDoc("parsing", FALSE)
  /\ UNCHANGED late

\* A text document is parsed and its language stored.
Parse(j) ==
  /\ kind = "text"
  /\ Advance(j, "extracting", "chunking")
  /\ UNCHANGED <<docVars, late>>

\* This build reports ten percent of a transcription, in a task of its own,
\* and then always returns an error.
Transcribe(j) ==
  /\ kind = "audio"
  /\ Advance(j, "extracting", "erring")
  /\ late' = late + 1
  /\ UNCHANGED docVars

\* The detached task runs, at any later time.
WriteProgress ==
  /\ late > 0
  /\ late' = late - 1
  /\ SetDoc("transcribing", TRUE)
  /\ UNCHANGED <<queueVars, chunkVars, taskVars, requestVars, spent>>

MarkChunking(j) ==
  /\ Advance(j, "chunking", "inserting")
  /\ SetDoc("chunking", FALSE)
  /\ UNCHANGED late

\* One transaction per batch; the foreign key refuses a deleted document.
InsertBatch(j) ==
  /\ at[j] = "inserting"
  /\ IF doc = "gone"
       THEN GoTo(j, "erring") /\ UNCHANGED <<chunks, next>>
       ELSE /\ chunks' = chunks \union {[job |-> j, run |-> runs[j], batch |-> next[j]]}
            /\ next' = [next EXCEPT ![j] = @ + 1]
            /\ GoTo(j, IF next[j] = LastBatch THEN "toEmbed" ELSE "inserting")
  /\ UNCHANGED <<queueVars, docVars, embedded, todo, runs, late, requestVars, spent>>

MarkEmbedding(j) ==
  /\ Advance(j, "toEmbed", "selecting")
  /\ SetDoc("embedding", FALSE)
  /\ UNCHANGED late

UnembeddedByThisRun(j) ==                        \* variant: only its own rows
  {c \in chunks \ embedded : c.job = j /\ c.run = runs[j]}

\* SELECT ... WHERE document_id = $1 AND embedding IS NULL: every row of the
\* document, whoever inserted it.
Unembedded(j) == chunks \ embedded

SelectUnembedded(j) ==
  /\ at[j] = "selecting"
  /\ todo' = [todo EXCEPT ![j] = Unembedded(j)]
  /\ GoTo(j, "embedding")
  /\ UNCHANGED <<queueVars, docVars, chunkVars, next, runs, late, requestVars, spent>>

\* UPDATE chunks SET embedding WHERE id, in chunk order; none once deleted.
EmbedRow(j) ==
  /\ at[j] = "embedding"
  /\ \E c \in todo[j] :
       /\ \A d \in todo[j] : c.batch <= d.batch
       /\ embedded' = embedded \union ({c} \intersect chunks)
       /\ todo' = [todo EXCEPT ![j] = @ \ {c}]
  /\ UNCHANGED <<queueVars, docVars, chunks, at, next, runs, late, requestVars, spent>>

\* All are embedded: INSERT of the persona's recompute_profile job.
EnqueueProfile(j) ==
  /\ todo[j] = {}
  /\ Advance(j, "embedding", IF PersonaGone THEN "erring" ELSE "finishing")
  /\ UNCHANGED <<docVars, late>>

\* doc_repo::update_ingested.
MarkIngested(j) ==
  /\ Advance(j, "finishing", "finished")
  /\ SetDoc("done", FALSE)
  /\ UNCHANGED late

-----------------------------------------------------------------------------
(* execute_job: what becomes of the result.                                *)

Stop(j) == GoTo(j, "idle") /\ UNCHANGED <<next, todo, runs>>

\* The execution ends and its UPDATE gives the row the outcome o; no row is
\* touched when the job was dropped meanwhile.
Ends(j, o) ==
  /\ Stop(j)
  /\ \/ Queue!End(j) /\ outcome'[j] = o
     \/ /\ j \in active \intersect Dropped
        /\ active' = active \ {j}
        /\ UNCHANGED outcome

Succeed(j) ==
  /\ at[j] = "finished"
  /\ Ends(j, "done")
  /\ UNCHANGED <<abandoned, tries, notices, docVars, chunkVars, late,
                 requestVars, spent>>

LastTry(j) == tries[j] + 1 >= MaxAttempts

GiveBackSilently(j) ==                           \* variant: document left as it is
  /\ Ends(j, IF LastTry(j) THEN "failed" ELSE "pending")
  /\ tries' = [tries EXCEPT ![j] = @ + 1]
  /\ UNCHANGED <<abandoned, notices, docVars, chunkVars, late, requestVars>>

GiveBackAndMark(j) ==                            \* variant: marks it on every error
  /\ Ends(j, IF LastTry(j) THEN "failed" ELSE "pending")
  /\ tries' = [tries EXCEPT ![j] = @ + 1]
  /\ notices' = notices \union {j}
  /\ UNCHANGED <<abandoned, docVars, chunkVars, late, requestVars>>

\* The execution returns Err: another try, or the job is given up and its
\* task goes on to mark the document; it counts the tries it read at the start.
GiveBack(j) ==
  /\ Ends(j, IF LastTry(j) THEN "failed" ELSE "pending")
  /\ tries' = [tries EXCEPT ![j] = @ + 1]
  /\ notices' = IF LastTry(j) THEN notices \union {j} ELSE notices
  /\ UNCHANGED <<abandoned, docVars, chunkVars, late, requestVars>>

Fail(j) == at[j] = "erring" /\ GiveBack(j) /\ UNCHANGED spent

\* The parser, the chunker, the embedder or a statement fails.
Fault(j) == at[j] \notin {"idle", "erring", "finished"} /\ Spend("fault") /\ GiveBack(j)

\* The UPDATE that writes the result fails: the row stays running, unheard of,
\* until the reaper finds it.
LoseResult(j) ==
  /\ at[j] \in {"erring", "finished"}
  /\ Spend("dbError")
  /\ active' = active \ {j} /\ abandoned' = abandoned \union ({j} \ Dropped)
  /\ Stop(j)
  /\ UNCHANGED <<outcome, tries, notices, docVars, chunkVars, late, requestVars>>

\* The second statement of a permanent failure; its error is ignored.
MarkDocFailed(j) ==
  /\ j \in notices
  /\ notices' = notices \ {j}
  /\ \/ SetDoc("failed", FALSE) /\ UNCHANGED spent
     \/ UNCHANGED docVars /\ Spend("dbError")
  /\ UNCHANGED <<ledgerVars, abandoned, tries, chunkVars, taskVars, late, requestVars>>

ReapWithAttemptsLeft ==                          \* variant: the last attempt is not reaped
  LET S == {j \in abandoned : tries[j] + 1 < MaxAttempts} IN
  /\ S # {}
  /\ abandoned' = abandoned \ S
  /\ tries' = [j \in Jobs |-> IF j \in S THEN tries[j] + 1 ELSE tries[j]]
  /\ UNCHANGED <<ledgerVars, notices, docVars, chunkVars, taskVars, late,
                 requestVars, spent>>

\* Two minutes without a heartbeat, and the reaper's UPDATE.
Reap ==
  /\ abandoned # {}
  /\ abandoned' = {}
  /\ tries' = [j \in Jobs |-> IF j \in abandoned THEN tries[j] + 1 ELSE tries[j]]
  /\ UNCHANGED <<ledgerVars, notices, docVars, chunkVars, taskVars, late,
                 requestVars, spent>>

\* The process stops: tasks, requests and detached writes are gone, the rows stay.
Crash ==
  /\ Spend("crash")
  /\ active' = {} /\ abandoned' = Running
  /\ notices' = {} /\ late' = 0 /\ uploading' = FALSE
  /\ at' = [j \in Jobs |-> "idle"]
  /\ request' = [r \in Requests |-> IF request[r] = "idle" THEN "idle" ELSE "answered"]
  /\ UNCHANGED <<outcome, tries, docVars, chunkVars, next, todo, runs>>

-----------------------------------------------------------------------------
(* reingest_document, one statement at a time.                             *)

\* A request's next statement; any of them may fail, and ends it.
Answer(r, from, to) == request[r] = from /\ request' = [request EXCEPT ![r] = to]

\* 404 for a deleted document, 409 while an ingest job is running.
CheckNotRunning(r) ==
  /\ Answer(r, "idle", IF doc # "gone" /\ Running = {} THEN "truncating" ELSE "answered")
  /\ \A q \in Requests : q < r => request[q] # "idle"
  /\ Spend("reingest")
  /\ UNCHANGED <<queueVars, docVars, chunkVars, taskVars, late, uploading>>

DeleteChunks(r) ==
  /\ Answer(r, "truncating", "discarding")
  /\ chunks' = {} /\ embedded' = {}
  /\ UNCHANGED <<queueVars, docVars, taskVars, late, uploading, spent>>

\* Rows that are queued or failed; a running one is left alone.
Discarded == {j \in Jobs : outcome[j] \in {"pending", "failed"}} \ Running

DiscardJobs(r) ==
  /\ Answer(r, "discarding", "resetting")
  /\ IF Discarded = {} THEN UNCHANGED ledgerVars ELSE Queue!Remove(Discarded)
  /\ UNCHANGED <<abandoned, tries, notices, docVars, chunkVars, taskVars, late,
                 uploading, spent>>

ResetStatus(r) ==
  /\ Answer(r, "resetting", "enqueueing")
  /\ SetDoc("pending", FALSE)
  /\ UNCHANGED <<queueVars, chunkVars, taskVars, late, uploading, spent>>

EnqueueAgain(r, j) ==
  /\ Answer(r, "enqueueing", "answered")
  /\ Enqueue(j)
  /\ UNCHANGED <<abandoned, tries, notices, docVars, chunkVars, taskVars, late,
                 uploading, spent>>

RefuseAgain(r) ==
  /\ Answer(r, "enqueueing", "answered")
  /\ PersonaGone
  /\ UNCHANGED <<queueVars, docVars, chunkVars, taskVars, late, uploading, spent>>

RequestFails(r) ==
  /\ request[r] \notin {"idle", "answered"}
  /\ Spend("dbError")
  /\ request' = [request EXCEPT ![r] = "answered"]
  /\ UNCHANGED <<queueVars, docVars, chunkVars, taskVars, late, uploading>>

-----------------------------------------------------------------------------
(* delete_document, and the administrator's retry_job and cancel_job.      *)

DeleteDocumentOnly ==                            \* variant: no ON DELETE CASCADE
  /\ doc # "gone"
  /\ Spend("delete")
  /\ doc' = "gone" /\ progress' = FALSE /\ UNCHANGED kind
  /\ UNCHANGED <<queueVars, chunkVars, taskVars, late, requestVars>>

\* DELETE FROM documents, with its chunks by the foreign key; no job is touched.
DeleteDocument ==
  /\ doc # "gone"
  /\ Spend("delete")
  /\ doc' = "gone" /\ progress' = FALSE /\ UNCHANGED kind
  /\ chunks' = {} /\ embedded' = {}
  /\ UNCHANGED <<queueVars, taskVars, late, requestVars>>

\* DELETE FROM personas (or users): the document, its chunks and every job of
\* it go in one statement, and whoever executes one goes on.
DeletePersona ==
  /\ ~PersonaGone
  /\ Spend("delete")
  /\ Queue!Drop(Jobs) /\ abandoned' = {}
  /\ doc' = "gone" /\ progress' = FALSE /\ UNCHANGED kind
  /\ chunks' = {} /\ embedded' = {}
  /\ UNCHANGED <<tries, notices, taskVars, late, requestVars>>

RetryJob(j) ==
  /\ Spend("retry")
  /\ Queue!Reopen(j)
  /\ tries' = [tries EXCEPT ![j] = 0]
  /\ UNCHANGED <<abandoned, notices, docVars, chunkVars, taskVars, late, requestVars>>

CancelJob(j) ==
  /\ Spend("cancel")
  /\ j \in Pending \ Running
  /\ Queue!Remove({j})
  /\ UNCHANGED <<abandoned, tries, notices, docVars, chunkVars, taskVars, late,
                 requestVars>>

-----------------------------------------------------------------------------
Step(j) ==
  \/ FetchDocument(j) \/ MarkStarted(j) \/ Parse(j) \/ Transcribe(j)
  \/ MarkChunking(j) \/ InsertBatch(j) \/ MarkEmbedding(j) \/ SelectUnembedded(j)
  \/ EmbedRow(j) \/ EnqueueProfile(j) \/ MarkIngested(j) \/ Succeed(j) \/ Fail(j)

Handle(r) ==
  \/ CheckNotRunning(r) \/ DeleteChunks(r) \/ DiscardJobs(r) \/ ResetStatus(r)
  \/ RefuseAgain(r) \/ \E j \in Jobs : EnqueueAgain(r, j)

Next ==
  \/ \E j \in Jobs :
       \/ EnqueueUpload(j) \/ Begin(j) \/ Step(j) \/ Fault(j) \/ LoseResult(j)
       \/ MarkDocFailed(j) \/ RetryJob(j) \/ CancelJob(j)
  \/ \E r \in Requests : Handle(r) \/ RequestFails(r)
  \/ RefuseUpload \/ EnqueueUploadFails \/ WriteProgress \/ Reap \/ Crash
  \/ DeleteDocument \/ DeletePersona

Spec == Init /\ [][Next]_vars

(***************************************************************************)
(* The workers poll for ever, what runs goes on running until it ends, and *)
(* the reaper ticks. Requests need not arrive; those that do are handled.  *)
(***************************************************************************)
Fairness ==
  /\ \A j \in Jobs : WF_vars(Begin(j)) /\ WF_vars(Step(j)) /\ WF_vars(MarkDocFailed(j))
  /\ \A r \in Requests : WF_vars(request[r] # "idle" /\ Handle(r))
  /\ WF_vars(RefuseUpload \/ \E j \in Jobs : EnqueueUpload(j))
  /\ WF_vars(WriteProgress) /\ WF_vars(Reap)

FairSpec == Spec /\ Fairness

-----------------------------------------------------------------------------
\* No job, task, detached write or request will touch the document again.
Quiet ==
  /\ Pending = {} /\ active = {} /\ notices = {} /\ late = 0 /\ ~uploading
  /\ \A r \in Requests : request[r] \in {"idle", "answered"}

Copies(n) == {c \in chunks : c.batch = n}

\* The process has not stopped and no statement has failed.
Uninterrupted == spent["crash"] = 0 /\ spent["dbError"] = 0

\* A reingest was asked for, and it or its job may have been cut short.
ReingestDisturbed ==
  /\ spent["reingest"] > 0
  /\ ~Uninterrupted \/ spent["cancel"] > 0

Retrievable == embedded = chunks /\ \A n \in Batch : Copies(n) # {}

\* When the dust has settled, a document shown as done can be retrieved in
\* full: every part of its text is there and every chunk has its embedding,
\* whatever interrupted and repeated the executions that wrote them, and
\* whatever reingests raced the executions, as long as these were not disturbed
\* and their jobs not cancelled.
DoneIsSearchable ==
  doc = "done" /\ Quiet =>
    \/ Retrievable
    \/ ReingestDisturbed
    \/ spent["reingest"] > 0 /\ spent["fault"] > 0

\* A text document never rests in an intermediate status with nothing left that
\* would move it on: whatever stages failed and whatever requests raced, its
\* last job, request or task leaves it done or failed. (An interruption between
\* an upload's, a failure's or a reingest's statements strands it, and so does
\* an administrator who cancels its job.)
NoStrandedDocument ==
  Quiet /\ kind = "text" /\ Uninterrupted /\ spent["cancel"] = 0 => doc \in Settled

\* delete_document, delete_persona and a running execution: once the document is
\* gone no chunk of it is left or comes back.
DeletedLeavesNoChunks == doc = "gone" => chunks = {}

\* The document and the queue agree in the end: done only if some job for it
\* was done, failed only if some job for it was given up; unless a retry, or a
\* reingest, let a new execution overtake the notice of the old one's failure.
VerdictAgrees ==
  Quiet /\ Uninterrupted /\ spent["retry"] = 0 /\ spent["cancel"] = 0 =>
    /\ doc = "done" => \E j \in Jobs : outcome[j] = "done"
    /\ doc = "failed" => \/ \E j \in Jobs : outcome[j] = "failed"
                         \/ spent["reingest"] > 0

\* Whatever crashes, faults, lost results and racing requests do, once a job has
\* been enqueued everything about the document comes to rest, and it is then
\* done, failed or gone; unless its job was given up and the notice lost, its
\* job cancelled, or a reingest disturbed.
EveryJobSettlesDocument ==
  Pending # {} ~>
    Quiet /\ \/ doc \in Settled
             \/ \E j \in Jobs : outcome[j] = "failed"
             \/ spent["cancel"] > 0
             \/ ReingestDisturbed

-----------------------------------------------------------------------------
(* What the documents say and the code does not do.                        *)

\* sprint-03-ingestion.md:248: "no duplicate chunks" after a restart.
NoDuplicateChunks ==
  doc = "done" /\ Quiet => \A n \in Batch : Cardinality(Copies(n)) <= 1
=============================================================================
