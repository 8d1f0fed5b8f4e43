------------------------------ MODULE Ingestion ------------------------------
(***************************************************************************)
(* How an uploaded file becomes citable evidence, and stops being so.      *)
(*                                                                         *)
(* An upload request stores the bytes, flushes a row, hands a job to the   *)
(* broker and then commits the row (DocumentService.register_upload).  A   *)
(* worker fetches the bytes, moves the row through PARSING, CHUNKING and   *)
(* EMBEDDING, replaces the document's vectors batch by batch, marks the    *)
(* row READY and records the outcome (parse_document_task, the pipeline).  *)
(* A job is acknowledged when it ends, so a lost worker means it runs      *)
(* again.  A periodic sweep queues rows left at UPLOADED once more, and a  *)
(* deletion purges the vectors before it hides the row.                    *)
(*                                                                         *)
(* Rows live in PostgreSQL, vectors in Qdrant, jobs in Redis: no           *)
(* transaction spans two of them, and each step below is one write to one  *)
(* of them with what the code decides before the next.                     *)
(***************************************************************************)
EXTENDS Integers, FiniteSets

CONSTANTS
  Docs,        \* document ids
  NoDoc,
  Contents,    \* file contents: what the SHA-256 tells apart
  Uploads,     \* upload requests in flight
  Workers,
  MaxRetries,  \* ingest_max_retries
  Batches,     \* upsert batches of a document, 1 .. Batches
  Broken,      \* contents no parser gets text out of
  Unreadable,  \* contents whose stored object cannot be fetched
  Faults,      \* kinds of failure that may happen
  MaxFaults,   \* bound on how many of them do, dying requests aside
  MaxJobs      \* bound on equal jobs of a document where the sweep adds one

FaultKinds == {"enqueue",  \* the broker refuses an upload's or the sweep's job
               "retry",    \* the broker refuses a retry: Celery drops the job
               "redis",    \* the broker restarts, with nothing on disk
               "worker",   \* a worker process is killed
               "storage",  \* the object store does not answer
               "pipeline", \* a stage fails: a status write, Voyage, Qdrant
               "timeout",  \* the soft time limit outside the pipeline's except
               "outcome",  \* the final status write fails, and is swallowed
               "request"}  \* an API process dies between two steps

Statuses == {"uploaded", "parsing", "chunking", "embedding", "ready", "failed"}
Terminal == {"ready", "failed"}

ASSUME IngestionAssumption ==
  /\ NoDoc \notin Docs
  /\ MaxRetries \in Nat /\ Batches \in Nat \ {0}
  /\ MaxFaults \in Nat /\ MaxJobs \in Nat
  /\ Broken \subseteq Contents /\ Unreadable \subseteq Contents
  /\ Faults \subseteq FaultKinds

VARIABLES
  rows,      \* the documents table
  old,       \* rows not written for STALE_AFTER_SECONDS
  index,     \* the batches in Qdrant, by document
  queue,     \* jobs at the broker: how many of each
  task,      \* what each worker is executing
  upload,    \* upload requests
  reply,     \* the document each upload request was last answered with
  sweep,     \* rows a running sweep has selected and not yet queued
  deletion,  \* documents whose vectors a running deletion has purged
  faults,    \* failures so far
  history    \* auxiliary: what has ever happened to a document

table    == <<rows, old>>
requests == <<upload, reply>>
vars     == <<table, index, queue, task, requests, sweep, deletion, faults, history>>

Row   == [status : Statuses \union {"absent"}, content : Contents \union {"none"},
          deleted : BOOLEAN]
NoRow == [status |-> "absent", content |-> "none", deleted |-> FALSE]

Job == [doc : Docs, content : Contents, retries : 0 .. MaxRetries]

\* A worker holds its job until it acknowledges it.  done counts the batches
\* upserted; result is what is to be recorded.
Steps    == {"fetch", "parsing", "chunking", "embedding", "purge", "upsert",
             "ready", "record"}
Pipeline == Steps \ {"fetch", "record"}
Task     == [step : Steps, job : Job, done : 0 .. Batches, result : Terminal]
IdleTask == [step |-> "idle"]

Upload     == [step : {"checked", "flushed"}, content : Contents,
               doc : Docs \union {NoDoc}]
IdleUpload == [step |-> "idle"]

IngestTypeOK ==
  /\ rows \in [Docs -> Row]
  /\ old \in [Docs -> BOOLEAN]
  /\ index \in [Docs -> SUBSET (1 .. Batches)]
  /\ DOMAIN queue = Job /\ \A m \in Job : queue[m] \in Nat
  /\ task \in [Workers -> Task \union {IdleTask}]
  /\ upload \in [Uploads -> Upload \union {IdleUpload}]
  /\ reply \in [Uploads -> Docs \union {NoDoc}]
  /\ sweep \subseteq Docs /\ deletion \subseteq Docs
  /\ faults \in 0 .. MaxFaults
  /\ history \in [Docs -> SUBSET {"overlapped", "purged", "raced", "lost"}]

-----------------------------------------------------------------------------
Present(d) == rows[d].status # "absent"
Live(d)    == Present(d) /\ ~rows[d].deleted
Busy(w)    == task[w].step # "idle"
RunningOn(w, d) == Busy(w) /\ task[w].job.doc = d
Queued(d)  == \E m \in Job : m.doc = d /\ queue[m] > 0
InFlight(d) == Queued(d) \/ \E w \in Workers : RunningOn(w, d)

Send(m)  == queue' = [queue EXCEPT ![m] = @ + 1]

\* A failure of this kind happens now.
Fault(kind) == /\ kind \in Faults /\ faults < MaxFaults
               /\ faults' = faults + 1
NoFault == UNCHANGED faults

\* An UPDATE, which sets updated_at.
WriteRow(d, row) == /\ rows' = [rows EXCEPT ![d] = row]
                    /\ old' = [old EXCEPT ![d] = FALSE]

\* set_status and record_ingestion_result: nothing when the row is not there.
SetStatus(d, status) ==
  IF Live(d) THEN WriteRow(d, [rows[d] EXCEPT !.status = status])
  ELSE UNCHANGED table

Happened(d, event) == history' = [history EXCEPT ![d] = @ \union {event}]

(***************************************************************************)
(* DocumentService.register_upload                                         *)
(***************************************************************************)
Idle(u) == upload[u].step = "idle"

\* find_by_checksum answers: the caller is sent to the existing document.
Reuse(u, c) ==
  /\ Idle(u)
  /\ \E d \in Docs : /\ Live(d) /\ rows[d].content = c
                     /\ reply' = [reply EXCEPT ![u] = d]
  /\ UNCHANGED <<table, index, queue, task, upload, sweep, deletion, faults, history>>

CheckUpload(u, c) ==
  /\ Idle(u)
  /\ ~\E d \in Docs : Live(d) /\ rows[d].content = c
  /\ upload' = [upload EXCEPT ![u] = [step |-> "checked", content |-> c, doc |-> NoDoc]]
  /\ reply' = [reply EXCEPT ![u] = NoDoc]
  /\ UNCHANGED <<table, index, queue, task, sweep, deletion, faults, history>>

\* An INSERT of the same content waits for the one in front of it.
Blocked(u) == \E v \in Uploads : /\ v # u /\ upload[v].step = "flushed"
                                 /\ upload[v].content = upload[u].content

\* Mutant of Taken: the lookup alone keeps duplicates out.
NeverTaken(c) == FALSE

\* uq_documents_tenant_id_sha256 covers deleted rows as well.
Taken(c) == \E d \in Docs : Present(d) /\ rows[d].content = c

Fresh(d) == /\ ~Present(d) /\ ~InFlight(d) /\ index[d] = {}
            /\ \A v \in Uploads : upload[v].step = "flushed" => upload[v].doc # d

\* The object is stored, the row flushed, and then the job sent.
StoreUpload(u) ==
  /\ upload[u].step = "checked" /\ ~Blocked(u) /\ ~Taken(upload[u].content)
  /\ \E d \in Docs :
        /\ Fresh(d)
        /\ upload' = [upload EXCEPT ![u].step = "flushed", ![u].doc = d]
        /\ \/ Send([doc |-> d, content |-> upload[u].content, retries |-> 0]) /\ NoFault
           \/ Fault("enqueue") /\ UNCHANGED queue
  /\ UNCHANGED <<table, index, task, reply, sweep, deletion, history>>

\* The INSERT is an IntegrityError, the answer an error.
RefuseUpload(u) ==
  /\ upload[u].step = "checked" /\ ~Blocked(u) /\ Taken(upload[u].content)
  /\ upload' = [upload EXCEPT ![u] = IdleUpload]
  /\ UNCHANGED <<table, index, queue, task, reply, sweep, deletion, faults, history>>

CommitUpload(u) ==
  LET d == upload[u].doc
  IN  /\ upload[u].step = "flushed"
      /\ WriteRow(d, [status |-> "uploaded", content |-> upload[u].content,
                      deleted |-> FALSE])
      /\ upload' = [upload EXCEPT ![u] = IdleUpload]
      /\ reply' = [reply EXCEPT ![u] = d]
      /\ UNCHANGED <<index, queue, task, sweep, deletion, faults, history>>

\* The request dies before its commit; a job it has sent stays sent.
UploadDies(u) ==
  /\ ~Idle(u)
  /\ "request" \in Faults
  /\ upload' = [upload EXCEPT ![u] = IdleUpload]
  /\ UNCHANGED <<table, index, queue, task, reply, sweep, deletion, faults, history>>

(***************************************************************************)
(* parse_document_task                                                     *)
(***************************************************************************)
\* A worker takes a job.
Begin(w) ==
  /\ ~Busy(w)
  /\ \E m \in Job :
        /\ queue[m] > 0
        /\ queue' = [queue EXCEPT ![m] = @ - 1]
        /\ task' = [task EXCEPT ![w] = [step |-> "fetch", job |-> m, done |-> 0,
                                        result |-> "failed"]]
        /\ history' = [history EXCEPT ![m.doc] = @
             \union (IF \E v \in Workers : RunningOn(v, m.doc) THEN {"overlapped"} ELSE {})
             \union (IF m.doc \in deletion THEN {"raced"} ELSE {})]
  /\ UNCHANGED <<table, index, requests, sweep, deletion, faults>>

Goto(w, step) == task' = [task EXCEPT ![w].step = step]
End(w)        == task' = [task EXCEPT ![w] = IdleTask]
Conclude(w, result) ==
  task' = [task EXCEPT ![w].step = "record", ![w].result = result]

CanRetry(w) == task[w].job.retries < MaxRetries

\* self.retry publishes the job again; if the broker refuses it, Celery
\* rejects the job for good.
Retry(w) ==
  /\ CanRetry(w)
  /\ End(w)
  /\ Send([task[w].job EXCEPT !.retries = @ + 1])

RetryIsLost(w) ==
  /\ CanRetry(w)
  /\ Fault("retry")
  /\ End(w)
  /\ Happened(task[w].job.doc, "lost")
  /\ UNCHANGED queue

Fetch(w) ==
  /\ Busy(w) /\ task[w].step = "fetch"
  /\ task[w].job.content \notin Unreadable
  /\ Goto(w, "parsing")
  /\ UNCHANGED <<table, index, queue, requests, sweep, deletion, faults, history>>

\* self.retry(exc=exc) raises exc itself once the retries are spent, so the
\* handler of MaxRetriesExceededError that would record FAILED never runs.
CannotFetch(w) ==
  /\ Busy(w) /\ task[w].step = "fetch"
  /\ \/ task[w].job.content \in Unreadable /\ NoFault
     \/ Fault("storage")
  /\ \/ Retry(w) /\ UNCHANGED history
     \/ ~CanRetry(w) /\ End(w) /\ Happened(task[w].job.doc, "lost") /\ UNCHANGED queue
  /\ UNCHANGED <<table, index, requests, sweep, deletion>>

\* The stages that report a status and touch nothing else.
After == [parsing |-> "chunking", chunking |-> "embedding", embedding |-> "purge"]

Work(w) ==
  LET step == task[w].step
  IN  /\ Busy(w) /\ step \in DOMAIN After
      /\ SetStatus(task[w].job.doc, step)
      /\ IF step = "parsing" /\ task[w].job.content \in Broken
         THEN Conclude(w, "failed")
         ELSE Goto(w, After[step])
      /\ UNCHANGED <<index, queue, requests, sweep, deletion, faults, history>>

\* _delete_existing
Purge(w) ==
  /\ Busy(w) /\ task[w].step = "purge"
  /\ index' = [index EXCEPT ![task[w].job.doc] = {}]
  /\ Goto(w, "upsert")
  /\ UNCHANGED <<table, queue, requests, sweep, deletion, faults, history>>

\* Mutants of Upsert: one batch too many; only the first batch.
UpsertPastEnd(w) ==
  LET batch == task[w].done + 1
  IN  /\ Busy(w) /\ task[w].step = "upsert"
      /\ index' = [index EXCEPT ![task[w].job.doc] = @ \union {batch}]
      /\ task' = [task EXCEPT ![w].done = batch,
                              ![w].step = IF batch > Batches THEN "ready" ELSE "upsert"]
      /\ UNCHANGED <<table, queue, requests, sweep, deletion, faults, history>>
UpsertFirst(w) ==
  /\ Busy(w) /\ task[w].step = "upsert"
  /\ index' = [index EXCEPT ![task[w].job.doc] = @ \union {1}]
  /\ task' = [task EXCEPT ![w].done = 1, ![w].step = "ready"]
  /\ UNCHANGED <<table, queue, requests, sweep, deletion, faults, history>>

\* _upsert, one batch.
Upsert(w) ==
  LET batch == task[w].done + 1
  IN  /\ Busy(w) /\ task[w].step = "upsert"
      /\ index' = [index EXCEPT ![task[w].job.doc] = @ \union {batch}]
      /\ task' = [task EXCEPT ![w].done = batch,
                              ![w].step = IF batch = Batches THEN "ready" ELSE "upsert"]
      /\ UNCHANGED <<table, queue, requests, sweep, deletion, faults, history>>

\* The pipeline's last report.
ReportReady(w) ==
  /\ Busy(w) /\ task[w].step = "ready"
  /\ SetStatus(task[w].job.doc, "ready")
  /\ Conclude(w, "ready")
  /\ UNCHANGED <<index, queue, requests, sweep, deletion, faults, history>>

\* A stage raises; run returns a retryable failure.  The soft time limit is
\* an Exception, so inside the pipeline it ends here as well.
StageFails(w) ==
  /\ Busy(w) /\ task[w].step \in Pipeline
  /\ Fault("pipeline")
  /\ Retry(w) \/ (~CanRetry(w) /\ Conclude(w, "failed") /\ UNCHANGED queue)
  /\ UNCHANGED <<table, index, requests, sweep, deletion, history>>

TimesOut(w) ==
  /\ Busy(w) /\ task[w].step \in Pipeline
  /\ Fault("timeout")
  /\ Conclude(w, "failed")
  /\ UNCHANGED <<table, index, queue, requests, sweep, deletion, history>>

\* _persist, and the acknowledgement.
Record(w) ==
  /\ Busy(w) /\ task[w].step = "record"
  /\ SetStatus(task[w].job.doc, task[w].result)
  /\ End(w)
  /\ UNCHANGED <<index, queue, requests, sweep, deletion, faults, history>>

RecordIsLost(w) ==
  /\ Busy(w) /\ task[w].step = "record"
  /\ Fault("outcome")
  /\ End(w)
  /\ Happened(task[w].job.doc, "lost")
  /\ UNCHANGED <<table, index, queue, requests, sweep, deletion>>

\* The bytes cannot be fetched or a stage fails, and the broker refuses the
\* retry.
JobIsDropped(w) ==
  /\ Busy(w) /\ task[w].step \in Pipeline \union {"fetch"}
  /\ RetryIsLost(w)
  /\ UNCHANGED <<table, index, requests, sweep, deletion>>

\* Mutant of WorkerIsLost: the job was acknowledged when it was taken.
AckedEarly(w) ==
  /\ Busy(w)
  /\ Fault("worker")
  /\ End(w)
  /\ UNCHANGED <<table, index, queue, requests, sweep, deletion, history>>

\* acks_late, reject_on_worker_lost: the job goes back as it was.
WorkerIsLost(w) ==
  /\ Busy(w)
  /\ Fault("worker")
  /\ End(w)
  /\ Send(task[w].job)
  /\ UNCHANGED <<table, index, requests, sweep, deletion, history>>

BrokerRestarts ==
  /\ \E m \in Job : queue[m] > 0
  /\ Fault("redis")
  /\ queue' = [m \in Job |-> 0]
  /\ history' = [d \in Docs |-> history[d] \union (IF Queued(d) THEN {"lost"} ELSE {})]
  /\ UNCHANGED <<table, index, task, requests, sweep, deletion>>

(***************************************************************************)
(* requeue_stalled_uploads                                                 *)
(***************************************************************************)
\* STALE_AFTER_SECONDS pass without a write.
Age(d) ==
  /\ rows[d].status = "uploaded" /\ ~old[d]
  /\ old' = [old EXCEPT ![d] = TRUE]
  /\ UNCHANGED <<rows, index, queue, task, requests, sweep, deletion, faults, history>>

\* Mutants of Stale: no sweep; deleted rows are swept too.
NeverSwept == {}
DeletedToo == {d \in Docs : rows[d].status = "uploaded" /\ old[d]}

\* stale_uploaded_documents
Stale == {d \in Docs : rows[d].status = "uploaded" /\ ~rows[d].deleted /\ old[d]}

SweepSelects ==
  /\ sweep = {} /\ Stale # {}
  /\ sweep' = Stale
  /\ UNCHANGED <<table, index, queue, task, requests, deletion, faults, history>>

SweepSends(d) ==
  LET m == [doc |-> d, content |-> rows[d].content, retries |-> 0]
  IN  /\ d \in sweep
      /\ \A j \in Job : j.doc = d => queue[j] < MaxJobs
      /\ Send(m)
      /\ sweep' = sweep \ {d}
      /\ UNCHANGED <<table, index, task, requests, deletion, faults, history>>

SweepStops ==
  /\ sweep # {}
  /\ Fault("enqueue")
  /\ sweep' = {}
  /\ UNCHANGED <<table, index, queue, task, requests, deletion, history>>

(***************************************************************************)
(* DocumentService.delete                                                  *)
(***************************************************************************)
AtWork(d) == InFlight(d) \/ d \in sweep

DeleteVectors(d) ==
  /\ Present(d) /\ d \notin deletion
  /\ index' = [index EXCEPT ![d] = {}]
  /\ deletion' = deletion \union {d}
  /\ Happened(d, IF AtWork(d) THEN "raced" ELSE "purged")
  /\ UNCHANGED <<table, queue, task, requests, sweep, faults>>

\* soft_delete; the caller gets 404 when the row is hidden already.
HideRow(d) ==
  /\ d \in deletion
  /\ deletion' = deletion \ {d}
  /\ IF Live(d) THEN WriteRow(d, [rows[d] EXCEPT !.deleted = TRUE]) ELSE UNCHANGED table
  /\ IF AtWork(d) THEN Happened(d, "raced") ELSE UNCHANGED history
  /\ UNCHANGED <<index, queue, task, requests, sweep, faults>>

DeletionDies(d) ==
  /\ d \in deletion
  /\ "request" \in Faults
  /\ deletion' = deletion \ {d}
  /\ UNCHANGED <<table, index, queue, task, requests, sweep, faults, history>>

-----------------------------------------------------------------------------
Init ==
  /\ rows = [d \in Docs |-> NoRow]
  /\ old = [d \in Docs |-> FALSE]
  /\ index = [d \in Docs |-> {}]
  /\ queue = [m \in Job |-> 0]
  /\ task = [w \in Workers |-> IdleTask]
  /\ upload = [u \in Uploads |-> IdleUpload]
  /\ reply = [u \in Uploads |-> NoDoc]
  /\ sweep = {} /\ deletion = {}
  /\ faults = 0
  /\ history = [d \in Docs |-> {}]

UploadStep(u) ==
  \/ \E c \in Contents : Reuse(u, c) \/ CheckUpload(u, c)
  \/ StoreUpload(u) \/ RefuseUpload(u) \/ CommitUpload(u) \/ UploadDies(u)

\* What a worker does when nothing fails.
Progress(w) ==
  \/ Begin(w) \/ Fetch(w)
  \/ task[w].step = "fetch" /\ NoFault /\ CannotFetch(w)
  \/ Work(w) \/ Purge(w) \/ Upsert(w) \/ ReportReady(w) \/ Record(w)

Failure(w) ==
  \/ CannotFetch(w) \/ StageFails(w) \/ TimesOut(w) \/ RecordIsLost(w)
  \/ JobIsDropped(w) \/ WorkerIsLost(w)

Sweeping == SweepSelects \/ \E d \in Docs : SweepSends(d)

Deleting(d) == DeleteVectors(d) \/ HideRow(d) \/ DeletionDies(d)

Next ==
  \/ \E u \in Uploads : UploadStep(u)
  \/ \E w \in Workers : Progress(w) \/ Failure(w)
  \/ BrokerRestarts
  \/ Sweeping \/ SweepStops
  \/ \E d \in Docs : Age(d) \/ Deleting(d)

Spec == Init /\ [][Next]_vars

\* Workers run while there are jobs, the clock runs, and beat runs the
\* sweep.  Nobody has to upload or delete anything, and nothing has to fail.
Fairness ==
  /\ \A w \in Workers : WF_vars(Progress(w))
  /\ \A u \in Uploads : WF_vars(CommitUpload(u))
  /\ \A d \in Docs : WF_vars(Age(d))
  /\ WF_vars(Sweeping)

FairSpec == Spec /\ Fairness

-----------------------------------------------------------------------------
(***************************************************************************)
(* Properties                                                              *)
(***************************************************************************)

\* READY means searchable in full, whatever failed on the way there, as long
\* as no two executions of the document's jobs overlapped and nobody asked
\* for its deletion (_run: purge, upsert, and only then the last report).
LoneReadyIsIndexed ==
  \A d \in Docs : rows[d].status = "ready" /\ history[d] \subseteq {"lost"} =>
     index[d] = 1 .. Batches

\* A deleted document has no vectors, unless a job for it was queued or
\* running, or a sweep had selected it, when it was deleted: no later
\* request, retry or sweep brings its chunks back (delete, the sweep's
\* deleted_at filter, find_by_checksum).
DeletedStaysGone ==
  \A d \in Docs : rows[d].deleted /\ "raced" \notin history[d] => index[d] = {}

\* A document shown as being processed is being processed: a job for it is
\* queued or running, through retries, time-outs, killed workers and
\* overlapping executions, unless the broker or the final write lost one
\* (acks_late, parse_document_task, _persist).
TransientHasAJob ==
  \A d \in Docs : Live(d) /\ rows[d].status \notin Terminal \union {"uploaded"} =>
     InFlight(d) \/ "lost" \in history[d]

\* One live row per content: two uploads of the same bytes at the same time
\* never both get a row (find_by_checksum, uq_documents_tenant_id_sha256).
OneRowPerContent ==
  \A d, e \in Docs : Live(d) /\ Live(e) /\ rows[d].content = rows[e].content => d = e

Settled(d) == ~Live(d) \/ rows[d].status \in Terminal

\* Every accepted upload reaches READY or FAILED, for good, or is deleted
\* (_enqueue and the sweep, retries, acks_late).
UploadsSettle == \A d \in Docs : Present(d) ~> [](Settled(d))

(***************************************************************************)
(* What comments and docs of the repository say and the code does not do   *)
(***************************************************************************)

\* "Without this the document stays at UPLOADED forever - and the
\* stalled-upload sweeper, seeing exactly that, re-queues it every five
\* minutes for good": a file that cannot be read ends FAILED.
UnreadableEndsFailed ==
  \A d \in Docs : rows[d].content \in Unreadable ~> rows[d].status = "failed" \/ ~Live(d)

=============================================================================
