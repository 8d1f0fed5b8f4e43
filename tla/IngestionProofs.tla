---------------------------- MODULE IngestionProofs ----------------------------
(***************************************************************************)
(* Theorems about Ingestion, for any number of documents, uploads, workers *)
(* and batches, any number of retries and failures of every kind.          *)
(***************************************************************************)
EXTENDS Ingestion, TLAPS

-----------------------------------------------------------------------------
(* The invariant. *)

\* A document that is being processed has a job, or lost one.
Transient(d) ==
  Live(d) /\ rows[d].status \notin Terminal \union {"uploaded"} =>
    InFlight(d) \/ "lost" \in history[d]

\* While a deletion that met no job is under way no worker is on the document,
\* and after it there never is work for it again.
Gone(d) ==
  "raced" \notin history[d] =>
    /\ d \in deletion => index[d] = {} /\ \A w \in Workers : ~RunningOn(w, d)
    /\ rows[d].deleted => index[d] = {} /\ ~AtWork(d)

\* How far an execution has got, when it is the only one.
Phase(x, status, chunks) ==
  /\ x.step \in {"chunking", "embedding", "purge", "upsert"} => status # "ready"
  /\ x.step = "upsert" => chunks = 1 .. x.done
  /\ x.step = "ready" => chunks = 1 .. Batches
  /\ x.step = "record" /\ x.result = "ready" => chunks = 1 .. Batches

Whole(status, chunks) == status = "ready" => chunks = 1 .. Batches

Lone(d) ==
  history[d] \subseteq {"lost"} =>
    /\ \A v, w \in Workers : RunningOn(v, d) /\ RunningOn(w, d) => v = w
    /\ \A w \in Workers : RunningOn(w, d) => Phase(task[w], rows[d].status, index[d])
    /\ Whole(rows[d].status, index[d])

\* Batches are counted from 0, and the last one ends the upsert.
Counted(x) ==
  /\ x.step \in {"fetch", "parsing", "chunking", "embedding", "purge"} => x.done = 0
  /\ x.step = "upsert" => x.done < Batches

Good(d) == Transient(d) /\ Gone(d) /\ Lone(d)

\* A content has one row, or one upload about to commit one.
Flushed(u) == upload[u].step = "flushed"
Unique ==
  /\ \A d, e \in Docs : Present(d) /\ Present(e) /\ rows[d].content = rows[e].content => d = e
  /\ \A u \in Uploads : Flushed(u) =>
       /\ upload[u].doc \in Docs
       /\ \A e \in Docs : Present(e) =>
            rows[e].content # upload[u].content /\ upload[u].doc # e
       /\ \A v \in Uploads : Flushed(v) /\ v # u =>
            /\ upload[v].content # upload[u].content
            /\ upload[v].doc # upload[u].doc
  /\ \A d \in deletion \union sweep : Present(d)
  /\ \A d \in Docs : /\ rows[d].deleted => Present(d)
                     /\ Present(d) => rows[d].content \in Contents

Inv ==
  /\ IngestTypeOK /\ Unique
  /\ \A w \in Workers : Busy(w) => Counted(task[w])
  /\ \A d \in Docs : Good(d)

-----------------------------------------------------------------------------
(* Types, and what a step leaves alone. *)

LEMMA Types ==
  ASSUME Inv
  PROVE  /\ rows \in [Docs -> Row] /\ old \in [Docs -> BOOLEAN]
         /\ index \in [Docs -> SUBSET (1 .. Batches)]
         /\ DOMAIN queue = Job /\ \A m \in Job : queue[m] \in Nat
         /\ task \in [Workers -> Task \union {IdleTask}]
         /\ upload \in [Uploads -> Upload \union {IdleUpload}]
         /\ reply \in [Uploads -> Docs \union {NoDoc}]
         /\ sweep \subseteq Docs /\ deletion \subseteq Docs
         /\ faults \in 0 .. MaxFaults
         /\ history \in [Docs -> SUBSET {"overlapped", "purged", "raced", "lost"}]
BY DEF Inv, IngestTypeOK

LEMMA TaskType ==
  ASSUME Inv, NEW w \in Workers, Busy(w)
  PROVE  /\ task[w] \in Task /\ task[w].job \in Job /\ task[w].job.doc \in Docs
         /\ RunningOn(w, task[w].job.doc)
<1>1. task[w] \in Task \union {IdleTask}
  BY Types
<1>2. IdleTask.step = "idle"
  BY DEF IdleTask
<1>3. task[w] \in Task
  BY <1>1, <1>2 DEF Busy
<1>4. task[w].job \in Job
  BY <1>3 DEF Task
<1> QED
  BY <1>3, <1>4 DEF Job, RunningOn

LEMMA IdleTaskType == IdleTask \in Task \union {IdleTask} /\ IdleTask.step = "idle"
BY DEF IdleTask

LEMMA InitInv == Init => Inv
<1> SUFFICES ASSUME Init PROVE Inv
  OBVIOUS
<1>1. NoRow \in Row /\ NoRow.status = "absent" /\ NoRow.deleted = FALSE
  BY DEF NoRow, Row
<1>2. IdleUpload.step = "idle"
  BY DEF IdleUpload
<1>3. IngestTypeOK
  BY <1>1, IngestionAssumption DEF Init, IngestTypeOK
<1>4. Unique
  BY <1>1, <1>2 DEF Init, Unique, Present, Flushed
<1>5. ASSUME NEW d \in Docs PROVE Good(d)
  <2>1. /\ rows[d] = NoRow /\ index[d] = {} /\ history[d] = {} /\ d \notin deletion
        /\ d \notin sweep /\ \A w \in Workers : task[w].step = "idle"
        /\ \A m \in Job : queue[m] = 0
    BY IdleTaskType DEF Init
  <2>2. Transient(d)
    BY <1>1, <2>1 DEF Transient, Live, Present
  <2>3. Gone(d)
    BY <1>1, <2>1 DEF Gone
  <2>4. Lone(d)
    BY <1>1, <2>1 DEF Lone, RunningOn, Busy, Whole
  <2> QED
    BY <2>2, <2>3, <2>4 DEF Good
<1>6. \A w \in Workers : ~Busy(w)
  BY IdleTaskType DEF Init, Busy
<1> QED
  BY <1>3, <1>4, <1>5, <1>6 DEF Inv

\* The step is not about this document.
Untouched(d) ==
  /\ rows'[d] = rows[d] /\ index'[d] = index[d] /\ history'[d] = history[d]
  /\ d \in deletion' <=> d \in deletion
  /\ d \in sweep' <=> d \in sweep
  /\ \A m \in Job : m.doc = d => queue'[m] = queue[m]
  /\ \A w \in Workers : task'[w] = task[w] \/ (~RunningOn(w, d) /\ ~RunningOn(w, d)')

LEMMA UntouchedStaysGood ==
  ASSUME NEW d \in Docs, Good(d), Untouched(d)
  PROVE  Good(d)'
<1>1. /\ rows'[d] = rows[d] /\ index'[d] = index[d] /\ history'[d] = history[d]
      /\ d \in deletion' <=> d \in deletion
      /\ d \in sweep' <=> d \in sweep
  BY DEF Untouched
<1>2. \A w \in Workers :
        /\ RunningOn(w, d)' <=> RunningOn(w, d)
        /\ RunningOn(w, d) => task'[w] = task[w]
  BY DEF Untouched, RunningOn, Busy
<1>3. Queued(d)' <=> Queued(d)
  BY DEF Untouched, Queued
<1>4. InFlight(d)' <=> InFlight(d)
  BY <1>2, <1>3 DEF InFlight
<1>5. AtWork(d)' <=> AtWork(d)
  BY <1>1, <1>4 DEF AtWork
<1>6. Transient(d)'
  BY <1>1, <1>4 DEF Good, Transient, Live, Present
<1>7. Gone(d)'
  BY <1>1, <1>2, <1>5 DEF Good, Gone
<1>8. Lone(d)'
  BY <1>1, <1>2 DEF Good, Lone
<1> QED
  BY <1>6, <1>7, <1>8 DEF Good

\* A row keeps its content, and is there as before.
SameRow(d) == /\ rows'[d].content = rows[d].content
              /\ rows'[d].deleted = rows[d].deleted
              /\ Present(d)' <=> Present(d)

LEMMA UniqueStays ==
  ASSUME Unique, \A d \in Docs : SameRow(d), upload' = upload,
         deletion' \subseteq deletion, deletion \subseteq Docs,
         sweep' \subseteq sweep, sweep \subseteq Docs
  PROVE  Unique'
BY DEF Unique, SameRow, Flushed

-----------------------------------------------------------------------------
(* A worker takes a step. *)

LEMMA SetStatusKeeps ==
  ASSUME Inv, NEW d \in Docs, NEW status \in Statuses, SetStatus(d, status)
  PROVE  /\ rows' \in [Docs -> Row] /\ old' \in [Docs -> BOOLEAN]
         /\ \A e \in Docs : SameRow(e)
         /\ \A e \in Docs \ {d} : rows'[e] = rows[e]
         /\ Live(d) => rows'[d].status = status
         /\ ~Live(d) => rows'[d] = rows[d]
<1>1. rows \in [Docs -> Row] /\ old \in [Docs -> BOOLEAN] /\ rows[d] \in Row
  BY Types
<1>2. CASE ~Live(d)
  BY <1>1, <1>2 DEF SetStatus, table, SameRow, Present
<1>3. CASE Live(d)
  <2> DEFINE row == [rows[d] EXCEPT !.status = status]
  <2>1. /\ row \in Row /\ row.status = status /\ row.content = rows[d].content
        /\ row.deleted = rows[d].deleted
    BY <1>1 DEF Row
  <2>2. rows' = [rows EXCEPT ![d] = row] /\ old' = [old EXCEPT ![d] = FALSE]
    BY <1>3 DEF SetStatus, WriteRow
  <2>3. row.status # "absent" /\ rows[d].status # "absent"
    BY <1>3, <2>1 DEF Statuses, Live, Present
  <2> HIDE DEF row
  <2> QED
    BY <1>1, <1>3, <2>1, <2>2, <2>3 DEF SameRow, Present
<1> QED
  BY <1>2, <1>3

\* A job goes on: it changes at most its own document's status and vectors.
LEMMA WorkerProceeds ==
  ASSUME Inv, NEW w \in Workers, Busy(w), NEW d \in Docs, d = task[w].job.doc,
         NEW x \in Task, x.job = task[w].job, Counted(x), task' = [task EXCEPT ![w] = x],
         rows' \in [Docs -> Row], old' \in [Docs -> BOOLEAN],
         index' \in [Docs -> SUBSET (1 .. Batches)], faults' \in 0 .. MaxFaults,
         \A e \in Docs : SameRow(e),
         \A e \in Docs \ {d} : rows'[e] = rows[e] /\ index'[e] = index[e],
         ~rows[d].deleted /\ Phase(task[w], rows[d].status, index[d])
           /\ Whole(rows[d].status, index[d])
           => Phase(x, rows'[d].status, index'[d]) /\ Whole(rows'[d].status, index'[d]),
         UNCHANGED <<queue, requests, sweep, deletion, history>>
  PROVE  Inv'
<1>1. x.step # "idle"
  BY DEF Task, Steps
<1>2. \A v \in Workers : task'[v] = IF v = w THEN x ELSE task[v]
  BY Types
<1>3. \A v \in Workers, e \in Docs : RunningOn(v, e)' <=> RunningOn(v, e)
  BY <1>1, <1>2 DEF RunningOn, Busy
<1>4. RunningOn(w, d)
  BY DEF RunningOn
<1>5. IngestTypeOK'
  BY Types DEF IngestTypeOK, requests
<1>6. Unique'
  <2>1. /\ deletion \subseteq Docs /\ upload' = upload /\ deletion' = deletion
        /\ sweep \subseteq Docs /\ sweep' = sweep
    BY Types DEF requests
  <2> QED
    BY <2>1, UniqueStays DEF Inv
<1>7. ASSUME NEW e \in Docs, e # d PROVE Good(e)'
  <2>1. \A v \in Workers : task'[v] = task[v] \/ (~RunningOn(v, e) /\ ~RunningOn(v, e)')
    BY <1>2, <1>3, <1>7 DEF RunningOn
  <2>2. Untouched(e)
    BY <1>7, <2>1 DEF Untouched
  <2> QED
    BY <2>2, UntouchedStaysGood DEF Inv
<1>8. Good(d)'
  <2>1. Good(d)
    BY DEF Inv
  <2>2. Transient(d)'
    BY <1>3, <1>4 DEF Transient, InFlight
  <2>3. "raced" \notin history[d] => d \notin deletion /\ ~rows[d].deleted
    BY <1>4, <2>1 DEF Good, Gone, AtWork, InFlight
  <2>4. Gone(d)'
    BY <2>3 DEF Gone, SameRow
  <2>5. Lone(d)'
    <3> SUFFICES ASSUME history[d] \subseteq {"lost"} PROVE Lone(d)'
      BY DEF Lone
    <3>1. /\ \A v, u \in Workers : RunningOn(v, d) /\ RunningOn(u, d) => v = u
          /\ Phase(task[w], rows[d].status, index[d]) /\ Whole(rows[d].status, index[d])
      BY <1>4, <2>1 DEF Good, Lone
    <3>2. Phase(x, rows'[d].status, index'[d]) /\ Whole(rows'[d].status, index'[d])
      BY <2>3, <3>1
    <3>3. \A v \in Workers : RunningOn(v, d)' => v = w
      BY <1>3, <1>4, <3>1
    <3>4. \A v \in Workers : RunningOn(v, d)' => Phase(task'[v], rows'[d].status, index'[d])
      BY <1>2, <3>2, <3>3
    <3>5. \A v, u \in Workers : RunningOn(v, d)' /\ RunningOn(u, d)' => v = u
      BY <3>3
    <3> QED
      BY <3>2, <3>4, <3>5 DEF Lone
  <2> QED
    BY <2>2, <2>4, <2>5 DEF Good
<1>9. \A v \in Workers : Busy(v)' => Counted(task'[v])
  BY <1>2 DEF Inv, Busy
<1> QED
  BY <1>5, <1>6, <1>7, <1>8, <1>9 DEF Inv, Counted

\* A job ends: another is queued, or the document's state is final, or
\* something was lost.
LEMMA WorkerEnds ==
  ASSUME Inv, NEW w \in Workers, Busy(w), NEW d \in Docs, d = task[w].job.doc,
         task' = [task EXCEPT ![w] = IdleTask],
         rows' \in [Docs -> Row], old' \in [Docs -> BOOLEAN], faults' \in 0 .. MaxFaults,
         \A e \in Docs : SameRow(e),
         \A e \in Docs \ {d} : rows'[e] = rows[e],
         DOMAIN queue' = Job,
         \A m \in Job : queue'[m] \in Nat /\ (m.doc # d => queue'[m] = queue[m]),
         history' \in [Docs -> SUBSET {"overlapped", "purged", "raced", "lost"}],
         \A e \in Docs \ {d} : history'[e] = history[e],
         history'[d] \in {history[d], history[d] \union {"lost"}},
         \/ Queued(d)' \/ "lost" \in history'[d] \/ ~Live(d)'
         \/ rows'[d].status \in Terminal \union {"uploaded"},
         Phase(task[w], rows[d].status, index[d]) /\ Whole(rows[d].status, index[d])
           => Whole(rows'[d].status, index[d]),
         UNCHANGED <<index, requests, sweep, deletion>>
  PROVE  Inv'
<1>1. \A v \in Workers : task'[v] = IF v = w THEN IdleTask ELSE task[v]
  BY Types
<1>2. \A v \in Workers, e \in Docs : RunningOn(v, e)' <=> RunningOn(v, e) /\ v # w
  BY <1>1, IdleTaskType DEF RunningOn, Busy
<1>3. RunningOn(w, d)
  BY DEF RunningOn
<1>4. IngestTypeOK'
  <2>1. task' \in [Workers -> Task \union {IdleTask}]
    BY Types
  <2> QED
    BY <2>1, Types DEF IngestTypeOK, requests
<1>5. Unique'
  <2>1. /\ deletion \subseteq Docs /\ upload' = upload /\ deletion' = deletion
        /\ sweep \subseteq Docs /\ sweep' = sweep
    BY Types DEF requests
  <2> QED
    BY <2>1, UniqueStays DEF Inv
<1>6. ASSUME NEW e \in Docs, e # d PROVE Good(e)'
  <2>1. \A v \in Workers : task'[v] = task[v] \/ (~RunningOn(v, e) /\ ~RunningOn(v, e)')
    BY <1>1, <1>2, <1>6 DEF RunningOn
  <2>2. Untouched(e)
    BY <1>6, <2>1 DEF Untouched
  <2> QED
    BY <2>2, UntouchedStaysGood DEF Inv
<1>7. Good(d)'
  <2>1. Good(d)
    BY DEF Inv
  <2>2. Transient(d)'
    BY DEF Transient, InFlight
  <2>3. "raced" \notin history[d] => d \notin deletion /\ ~rows[d].deleted
    BY <1>3, <2>1 DEF Good, Gone, AtWork, InFlight
  <2>4. Gone(d)'
    BY <2>3 DEF Gone, SameRow
  <2>5. Lone(d)'
    <3> SUFFICES ASSUME history'[d] \subseteq {"lost"} PROVE Lone(d)'
      BY DEF Lone
    <3>1. history[d] \subseteq {"lost"}
      OBVIOUS
    <3>2. Phase(task[w], rows[d].status, index[d]) /\ Whole(rows[d].status, index[d])
      BY <1>3, <2>1, <3>1 DEF Good, Lone
    <3>3. \A v \in Workers : ~RunningOn(v, d)'
      BY <1>2, <1>3, <2>1, <3>1 DEF Good, Lone
    <3>4. Whole(rows'[d].status, index'[d])
      BY <3>2
    <3> QED
      BY <3>3, <3>4 DEF Lone
  <2> QED
    BY <2>2, <2>4, <2>5 DEF Good
<1>8. \A v \in Workers : Busy(v)' => Counted(task'[v])
  BY <1>1, IdleTaskType DEF Inv, Busy
<1> QED
  BY <1>4, <1>5, <1>6, <1>7, <1>8 DEF Inv, Counted

\* A step that changes only how far a worker has got.
LEMMA StepChanges ==
  ASSUME Inv, NEW w \in Workers, Busy(w), NEW step \in Steps, Goto(w, step)
  PROVE  /\ task' = [task EXCEPT ![w] = [task[w] EXCEPT !.step = step]]
         /\ [task[w] EXCEPT !.step = step] \in Task
         /\ [task[w] EXCEPT !.step = step].step = step
         /\ [task[w] EXCEPT !.step = step].job = task[w].job
         /\ [task[w] EXCEPT !.step = step].done = task[w].done
<1>1. task[w] \in Task
  BY TaskType
<1> QED
  BY <1>1, Types DEF Goto, Task

LEMMA ConcludeChanges ==
  ASSUME Inv, NEW w \in Workers, Busy(w), NEW result \in Terminal, Conclude(w, result)
  PROVE  \E x \in Task : /\ task' = [task EXCEPT ![w] = x] /\ x.job = task[w].job
                         /\ x.step = "record" /\ x.result = result
<1> DEFINE x == [task[w] EXCEPT !.step = "record", !.result = result]
<1>1. task[w] \in Task
  BY TaskType
<1>2. x \in Task /\ x.job = task[w].job /\ x.step = "record" /\ x.result = result
  BY <1>1 DEF Task, Steps
<1>3. task' = [task EXCEPT ![w] = x]
  BY Types DEF Conclude
<1> QED
  BY <1>2, <1>3

LEMMA SameRows == ASSUME rows' = rows PROVE \A e \in Docs : SameRow(e)
BY DEF SameRow, Present

LEMMA FetchInv ==
  ASSUME Inv, NEW w \in Workers, Fetch(w)
  PROVE  Inv'
<1> DEFINE d == task[w].job.doc
           x == [task[w] EXCEPT !.step = "parsing"]
<1>1. Busy(w) /\ task[w].step = "fetch" /\ d \in Docs /\ "parsing" \in Steps
  BY TaskType DEF Fetch, Steps
<1>2. /\ task' = [task EXCEPT ![w] = x] /\ x \in Task /\ x.step = "parsing"
      /\ x.job = task[w].job /\ x.done = task[w].done
  BY <1>1, StepChanges DEF Fetch
<1> HIDE DEF x
<1>3. Counted(x)
  BY <1>1, <1>2 DEF Inv, Counted
<1>4. Phase(x, rows[d].status, index[d])
  BY <1>2 DEF Phase
<1>5. /\ rows' = rows /\ old' = old /\ index' = index /\ faults' = faults
      /\ UNCHANGED <<queue, requests, sweep, deletion, history>>
  BY DEF Fetch, table
<1> QED
  BY <1>1, <1>2, <1>3, <1>4, <1>5, Types, SameRows, WorkerProceeds

LEMMA ConcludeInv ==
  ASSUME Inv, NEW w \in Workers, Busy(w), Conclude(w, "failed"),
         faults' \in 0 .. MaxFaults,
         UNCHANGED <<table, index, queue, requests, sweep, deletion, history>>
  PROVE  Inv'
<1> DEFINE d == task[w].job.doc
<1>1. d \in Docs /\ "failed" \in Terminal
  BY TaskType DEF Terminal
<1>2. PICK x \in Task : /\ task' = [task EXCEPT ![w] = x] /\ x.job = task[w].job
                       /\ x.step = "record" /\ x.result = "failed"
  BY <1>1, ConcludeChanges
<1>3. Counted(x) /\ Phase(x, rows[d].status, index[d])
  BY <1>2 DEF Counted, Phase
<1>4. rows' = rows /\ old' = old /\ index' = index
  BY DEF table
<1> QED
  BY <1>1, <1>2, <1>3, <1>4, Types, SameRows, WorkerProceeds

LEMMA FaultType ==
  ASSUME Inv, NEW kind, Fault(kind)
  PROVE  faults' \in 0 .. MaxFaults
BY Types, IngestionAssumption DEF Fault

LEMMA WorkInv ==
  ASSUME Inv, NEW w \in Workers, Work(w)
  PROVE  Inv'
<1> DEFINE d    == task[w].job.doc
           step == task[w].step
<1>1. /\ Busy(w) /\ d \in Docs /\ step \in {"parsing", "chunking", "embedding"}
      /\ SetStatus(d, step) /\ step \in Statuses
      /\ \/ Conclude(w, "failed")
         \/ Goto(w, After[step])
      /\ UNCHANGED <<index, queue, requests, sweep, deletion, faults, history>>
  BY TaskType DEF Work, After, Statuses
<1>2. /\ rows' \in [Docs -> Row] /\ old' \in [Docs -> BOOLEAN]
      /\ \A e \in Docs : SameRow(e)
      /\ \A e \in Docs \ {d} : rows'[e] = rows[e]
      /\ Live(d) => rows'[d].status = step
      /\ ~Live(d) => rows'[d] = rows[d]
  BY <1>1, SetStatusKeeps
<1>3. index' = index /\ faults' = faults
  BY <1>1
<1>4. ASSUME NEW x \in Task, task' = [task EXCEPT ![w] = x], x.job = task[w].job, Counted(x),
             \/ x.step = "record" /\ x.result = "failed"
             \/ x.step \in {"chunking", "embedding", "purge"}
      PROVE  Inv'
  <2>1. ~rows[d].deleted /\ Whole(rows[d].status, index[d]) =>
          rows'[d].status # "ready"
    BY <1>1, <1>2 DEF Live, Present
  <2>2. ~rows[d].deleted /\ Whole(rows[d].status, index[d]) =>
          Phase(x, rows'[d].status, index'[d]) /\ Whole(rows'[d].status, index'[d])
    BY <1>4, <2>1 DEF Phase, Whole
  <2> QED
    BY <1>1, <1>2, <1>3, <1>4, <2>2, Types, WorkerProceeds
<1>5. CASE Conclude(w, "failed")
  <2>1. PICK x \in Task : /\ task' = [task EXCEPT ![w] = x] /\ x.job = task[w].job
                         /\ x.step = "record" /\ x.result = "failed"
    BY <1>1, <1>5, ConcludeChanges DEF Terminal
  <2>2. Counted(x)
    BY <2>1 DEF Counted
  <2> QED
    BY <1>4, <2>1, <2>2
<1>6. CASE Goto(w, After[step])
  <2>1. After[step] \in {"chunking", "embedding", "purge"}
    BY <1>1 DEF After
  <2>2. After[step] \in Steps
    BY <2>1 DEF Steps
  <2> DEFINE x == [task[w] EXCEPT !.step = After[step]]
  <2>3. /\ task' = [task EXCEPT ![w] = x] /\ x \in Task /\ x.step = After[step]
        /\ x.job = task[w].job /\ x.done = task[w].done
    BY <1>1, <1>6, <2>2, StepChanges
  <2> HIDE DEF x
  <2>4. Counted(x)
    BY <1>1, <2>1, <2>3 DEF Inv, Counted
  <2> QED
    BY <1>4, <2>1, <2>3, <2>4
<1> QED
  BY <1>1, <1>5, <1>6

LEMMA PurgeInv ==
  ASSUME Inv, NEW w \in Workers, Purge(w)
  PROVE  Inv'
<1> DEFINE d == task[w].job.doc
           x == [task[w] EXCEPT !.step = "upsert"]
<1>1. Busy(w) /\ task[w].step = "purge" /\ d \in Docs /\ "upsert" \in Steps
  BY TaskType DEF Purge, Steps
<1>2. /\ task' = [task EXCEPT ![w] = x] /\ x \in Task /\ x.step = "upsert"
      /\ x.job = task[w].job /\ x.done = task[w].done
  BY <1>1, StepChanges DEF Purge
<1> HIDE DEF x
<1>3. x.done = 0
  BY <1>1, <1>2 DEF Inv, Counted
<1>4. Counted(x)
  BY <1>2, <1>3, IngestionAssumption DEF Counted
<1>5. /\ rows' = rows /\ old' = old /\ faults' = faults
      /\ index' = [index EXCEPT ![d] = {}]
      /\ UNCHANGED <<queue, requests, sweep, deletion, history>>
  BY DEF Purge, table
<1>6. /\ index' \in [Docs -> SUBSET (1 .. Batches)] /\ index'[d] = {}
      /\ \A e \in Docs \ {d} : index'[e] = index[e]
  BY <1>1, <1>5, Types
<1>7. Phase(task[w], rows[d].status, index[d]) =>
        Phase(x, rows'[d].status, index'[d]) /\ Whole(rows'[d].status, index'[d])
  BY <1>1, <1>2, <1>3, <1>5, <1>6 DEF Phase, Whole
<1> QED
  BY <1>1, <1>2, <1>4, <1>5, <1>6, <1>7, Types, SameRows, WorkerProceeds

LEMMA UpsertInv ==
  ASSUME Inv, NEW w \in Workers, Upsert(w)
  PROVE  Inv'
<1> DEFINE d     == task[w].job.doc
           batch == task[w].done + 1
           step  == IF batch = Batches THEN "ready" ELSE "upsert"
           x     == [task[w] EXCEPT !.done = batch, !.step = step]
<1>1. Busy(w) /\ task[w].step = "upsert" /\ d \in Docs /\ task[w] \in Task
  BY TaskType DEF Upsert
<1>2. task[w].done \in 0 .. Batches /\ task[w].done < Batches /\ Batches \in Nat
  BY <1>1, IngestionAssumption DEF Inv, Counted, Task
<1>3. batch \in 0 .. Batches /\ batch \in 1 .. Batches /\ step \in Steps
  BY <1>2 DEF Steps
<1>4. /\ x \in Task /\ x.step = step /\ x.done = batch /\ x.job = task[w].job
  <2> HIDE DEF step, batch
  <2> QED
    BY <1>1, <1>3 DEF Task
<1>5. /\ task' = [task EXCEPT ![w] = x]
      /\ rows' = rows /\ old' = old /\ faults' = faults
      /\ index' = [index EXCEPT ![d] = @ \union {batch}]
      /\ UNCHANGED <<queue, requests, sweep, deletion, history>>
  BY Types DEF Upsert, table
<1>6. step = "upsert" => batch < Batches
  BY <1>2
<1>7. step = "ready" => batch = Batches
  OBVIOUS
<1>8. index[d] = 1 .. task[w].done => index[d] \union {batch} = 1 .. batch
  BY <1>2
<1> HIDE DEF x, step, batch
<1>9. /\ index' \in [Docs -> SUBSET (1 .. Batches)] /\ index'[d] = index[d] \union {batch}
      /\ \A e \in Docs \ {d} : index'[e] = index[e]
  BY <1>1, <1>3, <1>5, Types
<1>10. Counted(x)
  BY <1>4, <1>6 DEF Counted, step
<1>11. Phase(task[w], rows[d].status, index[d]) =>
         Phase(x, rows'[d].status, index'[d]) /\ Whole(rows'[d].status, index'[d])
  <2> SUFFICES ASSUME Phase(task[w], rows[d].status, index[d])
               PROVE  Phase(x, rows'[d].status, index'[d]) /\ Whole(rows'[d].status, index'[d])
    OBVIOUS
  <2>1. rows[d].status # "ready" /\ index'[d] = 1 .. batch
    BY <1>1, <1>8, <1>9 DEF Phase
  <2>2. step = "upsert" \/ step = "ready"
    BY DEF step
  <2> QED
    BY <1>4, <1>5, <1>7, <2>1, <2>2 DEF Phase, Whole
<1> QED
  BY <1>1, <1>4, <1>5, <1>9, <1>10, <1>11, Types, SameRows, WorkerProceeds

LEMMA ReportReadyInv ==
  ASSUME Inv, NEW w \in Workers, ReportReady(w)
  PROVE  Inv'
<1> DEFINE d == task[w].job.doc
<1>1. /\ Busy(w) /\ task[w].step = "ready" /\ d \in Docs
      /\ SetStatus(d, "ready") /\ "ready" \in Statuses /\ "ready" \in Terminal
      /\ Conclude(w, "ready")
      /\ index' = index /\ faults' = faults
      /\ UNCHANGED <<queue, requests, sweep, deletion, history>>
  BY TaskType DEF ReportReady, Statuses, Terminal
<1>2. /\ rows' \in [Docs -> Row] /\ old' \in [Docs -> BOOLEAN]
      /\ \A e \in Docs : SameRow(e)
      /\ \A e \in Docs \ {d} : rows'[e] = rows[e]
  BY <1>1, SetStatusKeeps
<1>3. PICK x \in Task : /\ task' = [task EXCEPT ![w] = x] /\ x.job = task[w].job
                       /\ x.step = "record" /\ x.result = "ready"
  BY <1>1, ConcludeChanges
<1>4. Counted(x)
  BY <1>3 DEF Counted
<1>5. Phase(task[w], rows[d].status, index[d]) =>
        Phase(x, rows'[d].status, index'[d]) /\ Whole(rows'[d].status, index'[d])
  BY <1>1, <1>3 DEF Phase, Whole
<1> QED
  BY <1>1, <1>2, <1>3, <1>4, <1>5, Types, WorkerProceeds

-----------------------------------------------------------------------------
(* A job ends. *)

LEMMA SendType ==
  ASSUME Inv, NEW m \in Job, Send(m)
  PROVE  /\ DOMAIN queue' = Job /\ \A j \in Job : queue'[j] \in Nat
         /\ \A j \in Job : j # m => queue'[j] = queue[j]
         /\ Queued(m.doc)'
<1>1. DOMAIN queue = Job /\ \A j \in Job : queue[j] \in Nat
  BY Types
<1>2. queue' = [queue EXCEPT ![m] = queue[m] + 1]
  BY DEF Send
<1>3. DOMAIN queue' = Job /\ \A j \in Job : queue'[j] = IF j = m THEN queue[m] + 1 ELSE queue[j]
  BY <1>1, <1>2
<1>4. queue'[m] > 0
  BY <1>1, <1>3
<1> QED
  BY <1>1, <1>3, <1>4 DEF Queued

\* The document keeps its row, and a job or a loss accounts for it.
LEMMA JobEnds ==
  ASSUME Inv, NEW w \in Workers, Busy(w), End(w),
         \/ UNCHANGED history /\ \E m \in Job : m.doc = task[w].job.doc /\ Send(m)
         \/ UNCHANGED queue /\ Happened(task[w].job.doc, "lost"),
         faults' \in 0 .. MaxFaults, UNCHANGED <<table, index, requests, sweep, deletion>>
  PROVE  Inv'
<1>0. PICK d \in Docs : d = task[w].job.doc
  BY TaskType
<1>1. d \in Docs /\ task' = [task EXCEPT ![w] = IdleTask] /\ rows' = rows /\ old' = old
  BY TaskType DEF End, table
<1>2. ASSUME DOMAIN queue' = Job,
             \A m \in Job : queue'[m] \in Nat /\ (m.doc # d => queue'[m] = queue[m]),
             history' \in [Docs -> SUBSET {"overlapped", "purged", "raced", "lost"}],
             \A e \in Docs \ {d} : history'[e] = history[e],
             history'[d] \in {history[d], history[d] \union {"lost"}},
             Queued(d)' \/ "lost" \in history'[d]
      PROVE  Inv'
  <2>1. /\ rows' \in [Docs -> Row] /\ old' \in [Docs -> BOOLEAN]
        /\ \A e \in Docs : SameRow(e)
        /\ \A e \in Docs \ {d} : rows'[e] = rows[e]
    BY <1>1, Types, SameRows
  <2>2. Phase(task[w], rows[d].status, index[d]) /\ Whole(rows[d].status, index[d])
          => Whole(rows'[d].status, index[d])
    BY <1>1
  <2>4. UNCHANGED <<index, requests, sweep, deletion>>
    OBVIOUS
  <2> QED
    BY <1>1, <1>2, <2>1, <2>2, <2>4, <1>0, WorkerEnds
<1>3. CASE UNCHANGED history /\ \E m \in Job : m.doc = d /\ Send(m)
  <2>1. PICK m \in Job : m.doc = d /\ Send(m)
    BY <1>3
  <2>2. /\ DOMAIN queue' = Job /\ \A j \in Job : queue'[j] \in Nat
        /\ \A j \in Job : j # m => queue'[j] = queue[j]
        /\ Queued(m.doc)'
    BY <2>1, SendType
  <2>3. \A j \in Job : j.doc # d => j # m
    BY <2>1
  <2>4. Queued(d)'
    BY <2>1, <2>2 DEF Queued
  <2>5. history' = history /\ history \in [Docs -> SUBSET {"overlapped", "purged", "raced", "lost"}]
    BY <1>3, Types
  <2> QED
    BY <1>2, <2>2, <2>3, <2>4, <2>5
<1>4. CASE UNCHANGED queue /\ Happened(d, "lost")
  <2>1. /\ history' \in [Docs -> SUBSET {"overlapped", "purged", "raced", "lost"}]
        /\ \A e \in Docs \ {d} : history'[e] = history[e]
        /\ history'[d] = history[d] \union {"lost"}
    BY <1>1, <1>4, Types DEF Happened
  <2>2. DOMAIN queue' = Job /\ \A m \in Job : queue'[m] \in Nat /\ queue'[m] = queue[m]
    BY <1>4, Types
  <2> QED
    BY <1>2, <2>1, <2>2
<1> QED
  BY <1>0, <1>3, <1>4

LEMMA RetryInv ==
  ASSUME Inv, NEW w \in Workers, Busy(w), Retry(w), faults' \in 0 .. MaxFaults,
         UNCHANGED <<table, index, requests, sweep, deletion, history>>
  PROVE  Inv'
<1> DEFINE job == task[w].job
           m   == [job EXCEPT !.retries = job.retries + 1]
<1>1. job \in Job /\ job.retries < MaxRetries
  BY TaskType DEF Retry, CanRetry
<1>2. m \in Job /\ m.doc = job.doc
  BY <1>1, IngestionAssumption DEF Job
<1>3. Send(m) /\ End(w)
  BY DEF Retry
<1> HIDE DEF m
<1> QED
  BY <1>2, <1>3, JobEnds

LEMMA CannotFetchInv ==
  ASSUME Inv, NEW w \in Workers, CannotFetch(w)
  PROVE  Inv'
<1>1. /\ Busy(w) /\ UNCHANGED <<table, index, requests, sweep, deletion>>
      /\ faults' \in 0 .. MaxFaults
  BY FaultType, Types DEF CannotFetch, NoFault
<1>2. CASE Retry(w) /\ UNCHANGED history
  BY <1>1, <1>2, RetryInv
<1>3. CASE End(w) /\ Happened(task[w].job.doc, "lost") /\ UNCHANGED queue
  BY <1>1, <1>3, JobEnds
<1> QED
  BY <1>2, <1>3 DEF CannotFetch

LEMMA StageFailsInv ==
  ASSUME Inv, NEW w \in Workers, StageFails(w)
  PROVE  Inv'
<1>1. /\ Busy(w) /\ UNCHANGED <<table, index, requests, sweep, deletion, history>>
      /\ faults' \in 0 .. MaxFaults
  BY FaultType DEF StageFails
<1>2. CASE Retry(w)
  BY <1>1, <1>2, RetryInv
<1>3. CASE Conclude(w, "failed") /\ UNCHANGED queue
  BY <1>1, <1>3, ConcludeInv
<1> QED
  BY <1>2, <1>3 DEF StageFails

LEMMA TimesOutInv ==
  ASSUME Inv, NEW w \in Workers, TimesOut(w)
  PROVE  Inv'
BY FaultType, ConcludeInv DEF TimesOut

LEMMA JobIsDroppedInv ==
  ASSUME Inv, NEW w \in Workers, JobIsDropped(w)
  PROVE  Inv'
<1>1. /\ Busy(w) /\ End(w) /\ Happened(task[w].job.doc, "lost") /\ UNCHANGED queue
      /\ faults' \in 0 .. MaxFaults /\ UNCHANGED <<table, index, requests, sweep, deletion>>
  BY FaultType DEF JobIsDropped, RetryIsLost
<1> QED
  BY <1>1, JobEnds

LEMMA RecordIsLostInv ==
  ASSUME Inv, NEW w \in Workers, RecordIsLost(w)
  PROVE  Inv'
<1>1. /\ Busy(w) /\ End(w) /\ Happened(task[w].job.doc, "lost") /\ UNCHANGED queue
      /\ faults' \in 0 .. MaxFaults /\ UNCHANGED <<table, index, requests, sweep, deletion>>
  BY FaultType DEF RecordIsLost
<1> QED
  BY <1>1, JobEnds

LEMMA WorkerIsLostInv ==
  ASSUME Inv, NEW w \in Workers, WorkerIsLost(w)
  PROVE  Inv'
<1>1. /\ Busy(w) /\ End(w) /\ Send(task[w].job) /\ UNCHANGED history
      /\ faults' \in 0 .. MaxFaults /\ UNCHANGED <<table, index, requests, sweep, deletion>>
  BY FaultType DEF WorkerIsLost
<1>2. task[w].job \in Job
  BY <1>1, TaskType
<1> QED
  BY <1>1, <1>2, JobEnds

LEMMA RecordInv ==
  ASSUME Inv, NEW w \in Workers, Record(w)
  PROVE  Inv'
<1> DEFINE result == task[w].result
<1>0. PICK d \in Docs : d = task[w].job.doc
  BY TaskType DEF Record
<1>1. /\ Busy(w) /\ task[w].step = "record" /\ d \in Docs
      /\ SetStatus(d, result) /\ End(w) /\ index' = index /\ faults' = faults
      /\ UNCHANGED <<index, queue, requests, sweep, deletion, faults, history>>
  BY <1>0 DEF Record
<1>2. result \in Terminal /\ result \in Statuses
  BY <1>1, TaskType DEF Task, Terminal, Statuses
<1>3. /\ rows' \in [Docs -> Row] /\ old' \in [Docs -> BOOLEAN]
      /\ \A e \in Docs : SameRow(e)
      /\ \A e \in Docs \ {d} : rows'[e] = rows[e]
      /\ Live(d) => rows'[d].status = result
      /\ ~Live(d) => rows'[d] = rows[d]
  BY <1>1, <1>2, SetStatusKeeps
<1>4. ~Live(d)' \/ rows'[d].status \in Terminal \union {"uploaded"}
  <2>1. CASE Live(d)
    BY <1>2, <1>3, <2>1
  <2>2. CASE ~Live(d)
    BY <1>1, <1>3, <2>2 DEF Live, SameRow
  <2> QED
    BY <2>1, <2>2
<1>5. Phase(task[w], rows[d].status, index[d]) /\ Whole(rows[d].status, index[d])
        => Whole(rows'[d].status, index[d])
  BY <1>1, <1>3 DEF Phase, Whole
<1>6. task' = [task EXCEPT ![w] = IdleTask]
  BY <1>1 DEF End
<1>7. /\ history' = history /\ queue' = queue
      /\ UNCHANGED <<index, requests, sweep, deletion>>
  BY <1>1
<1>8. /\ DOMAIN queue' = Job
      /\ \A m \in Job : queue'[m] \in Nat /\ (m.doc # d => queue'[m] = queue[m])
      /\ history' \in [Docs -> SUBSET {"overlapped", "purged", "raced", "lost"}]
      /\ \A e \in Docs \ {d} : history'[e] = history[e]
      /\ history'[d] \in {history[d], history[d] \union {"lost"}}
      /\ faults' \in 0 .. MaxFaults
  BY <1>1, <1>7, Types
<1>9. d = task[w].job.doc /\ Busy(w) /\ d \in Docs
  BY <1>0, <1>1
<1> HIDE DEF result
<1> QED
  BY <1>3, <1>4, <1>5, <1>6, <1>7, <1>8, <1>9, WorkerEnds

LEMMA BeginInv ==
  ASSUME Inv, NEW w \in Workers, Begin(w)
  PROVE  Inv'
<1>1. PICK m \in Job :
        /\ queue[m] > 0
        /\ queue' = [queue EXCEPT ![m] = @ - 1]
        /\ task' = [task EXCEPT ![w] = [step |-> "fetch", job |-> m, done |-> 0,
                                        result |-> "failed"]]
        /\ history' = [history EXCEPT ![m.doc] = @
             \union (IF \E v \in Workers : RunningOn(v, m.doc) THEN {"overlapped"} ELSE {})
             \union (IF m.doc \in deletion THEN {"raced"} ELSE {})]
  BY DEF Begin
<1>2. PICK d \in Docs : d = m.doc
  BY DEF Job
<1>3. /\ ~Busy(w) /\ rows' = rows /\ old' = old /\ index' = index
      /\ UNCHANGED <<upload, reply, sweep, deletion, faults>>
  BY DEF Begin, table, requests
<1> DEFINE x == [step |-> "fetch", job |-> m, done |-> 0, result |-> "failed"]
<1>4. x \in Task /\ x.step = "fetch" /\ x.job = m /\ Counted(x)
  BY IngestionAssumption DEF Task, Steps, Terminal, Counted
<1>5. \A v \in Workers : task'[v] = IF v = w THEN x ELSE task[v]
  BY <1>1, Types
<1>6. /\ \A e \in Docs \ {d} : history'[e] = history[e]
      /\ history[d] \subseteq history'[d]
      /\ (\E v \in Workers : RunningOn(v, d)) => "overlapped" \in history'[d]
      /\ d \in deletion => "raced" \in history'[d]
      /\ history' \in [Docs -> SUBSET {"overlapped", "purged", "raced", "lost"}]
  BY <1>1, <1>2, Types
<1>7. /\ DOMAIN queue' = Job /\ \A j \in Job : queue'[j] \in Nat
      /\ \A j \in Job : j # m => queue'[j] = queue[j]
  BY <1>1, Types
<1> HIDE DEF x
<1>8. /\ RunningOn(w, d)'
      /\ \A v \in Workers, e \in Docs : v # w => (RunningOn(v, e)' <=> RunningOn(v, e))
      /\ \A e \in Docs : ~RunningOn(w, e) /\ (RunningOn(w, e)' => e = d)
  BY <1>2, <1>3, <1>4, <1>5 DEF RunningOn, Busy
<1>9. IngestTypeOK'
  <2>1. task' \in [Workers -> Task \union {IdleTask}]
    BY <1>4, <1>1, Types DEF x
  <2> QED
    BY <1>3, <1>6, <1>7, <2>1, Types DEF IngestTypeOK
<1>10. Unique'
  BY <1>3, Types, SameRows, UniqueStays DEF Inv
<1>11. ASSUME NEW e \in Docs, e # d PROVE Good(e)'
  <2>1. \A v \in Workers : task'[v] = task[v] \/ (~RunningOn(v, e) /\ ~RunningOn(v, e)')
    BY <1>5, <1>8, <1>11
  <2>2. \A j \in Job : j.doc = e => queue'[j] = queue[j]
    BY <1>2, <1>7, <1>11
  <2>3. Untouched(e)
    BY <1>3, <1>6, <1>11, <2>1, <2>2 DEF Untouched
  <2> QED
    BY <2>3, UntouchedStaysGood DEF Inv
<1>12. Good(d)'
  <2>1. Good(d) /\ InFlight(d)
    BY <1>1, <1>2 DEF Inv, InFlight, Queued
  <2>2. Transient(d)'
    BY <1>8 DEF Transient, InFlight
  <2>3. Gone(d)'
    BY <1>3, <1>6, <2>1 DEF Good, Gone, AtWork
  <2>4. Lone(d)'
    <3> SUFFICES ASSUME history'[d] \subseteq {"lost"} PROVE Lone(d)'
      BY DEF Lone
    <3>1. \A v \in Workers : ~RunningOn(v, d)
      BY <1>6
    <3>2. \A v \in Workers : RunningOn(v, d)' => v = w
      BY <1>8, <3>1
    <3>3. Phase(x, rows'[d].status, index'[d])
      BY <1>4 DEF Phase
    <3>4. \A v \in Workers : RunningOn(v, d)' => Phase(task'[v], rows'[d].status, index'[d])
      BY <1>5, <3>2, <3>3
    <3>5. Whole(rows'[d].status, index'[d])
      BY <1>3, <1>6, <2>1 DEF Good, Lone
    <3> QED
      BY <3>2, <3>4, <3>5 DEF Lone
  <2> QED
    BY <2>2, <2>3, <2>4 DEF Good
<1>13. \A v \in Workers : Busy(v)' => Counted(task'[v])
  BY <1>4, <1>5 DEF Inv, Busy
<1> QED
  BY <1>9, <1>10, <1>11, <1>12, <1>13 DEF Inv, Counted

-----------------------------------------------------------------------------
(* The broker, the clock, the sweep and the requests. *)

\* No worker moves, and no row changes.
LEMMA WorkersStay ==
  ASSUME Inv, IngestTypeOK', Unique', UNCHANGED <<rows, index, task>>, deletion' \subseteq deletion,
         \A d \in Docs :
           /\ history'[d] \in {history[d], history[d] \union {"lost"}}
           /\ Queued(d) => Queued(d)' \/ "lost" \in history'[d]
           /\ AtWork(d)' => AtWork(d) \/ ~rows[d].deleted
  PROVE  Inv'
<1>1. \A w \in Workers, d \in Docs : RunningOn(w, d)' <=> RunningOn(w, d)
  BY DEF RunningOn, Busy
<1>2. ASSUME NEW d \in Docs PROVE Good(d)'
  <2>1. Good(d)
    BY DEF Inv
  <2>2. Transient(d)'
    BY <1>1, <2>1 DEF Good, Transient, Live, Present, InFlight
  <2>3. "raced" \notin history'[d] => "raced" \notin history[d]
    OBVIOUS
  <2>4. Gone(d)'
    BY <1>1, <2>1, <2>3 DEF Good, Gone
  <2>5. Lone(d)'
    BY <1>1, <2>1 DEF Good, Lone
  <2> QED
    BY <2>2, <2>4, <2>5 DEF Good
<1>3. \A w \in Workers : Busy(w)' => Counted(task'[w])
  BY DEF Inv, Busy
<1> QED
  BY <1>2, <1>3 DEF Inv, Counted

LEMMA BrokerRestartsInv ==
  ASSUME Inv, BrokerRestarts
  PROVE  Inv'
<1>1. /\ queue' = [m \in Job |-> 0]
      /\ history' = [d \in Docs |-> history[d] \union (IF Queued(d) THEN {"lost"} ELSE {})]
      /\ UNCHANGED <<rows, old, index, task, upload, reply, sweep, deletion>>
      /\ faults' \in 0 .. MaxFaults
  BY FaultType DEF BrokerRestarts, table, requests
<1>2. /\ history' \in [Docs -> SUBSET {"overlapped", "purged", "raced", "lost"}]
      /\ \A d \in Docs : /\ history'[d] \in {history[d], history[d] \union {"lost"}}
                         /\ Queued(d) => "lost" \in history'[d]
  BY <1>1, Types
<1>3. IngestTypeOK'
  BY <1>1, <1>2, Types DEF IngestTypeOK
<1>4. Unique'
  BY <1>1, Types, SameRows, UniqueStays DEF Inv
<1>5. \A d \in Docs : AtWork(d)' => AtWork(d)
  BY <1>1 DEF AtWork, InFlight, Queued, RunningOn, Busy
<1> QED
  BY <1>1, <1>2, <1>3, <1>4, <1>5, WorkersStay

LEMMA AgeInv ==
  ASSUME Inv, NEW d \in Docs, Age(d)
  PROVE  Inv'
<1>1. /\ old' = [old EXCEPT ![d] = TRUE]
      /\ UNCHANGED <<rows, index, queue, task, upload, reply, sweep, deletion, faults, history>>
  BY DEF Age, requests
<1>2. IngestTypeOK'
  BY <1>1, Types DEF IngestTypeOK
<1>3. Unique'
  BY <1>1, Types, SameRows, UniqueStays DEF Inv
<1>4. \A e \in Docs : (Queued(e)' <=> Queued(e)) /\ (AtWork(e)' <=> AtWork(e))
  BY <1>1 DEF AtWork, InFlight, Queued, RunningOn, Busy
<1> QED
  BY <1>1, <1>2, <1>3, <1>4, WorkersStay

LEMMA SweepSelectsInv ==
  ASSUME Inv, SweepSelects
  PROVE  Inv'
<1>1. /\ sweep' = Stale
      /\ UNCHANGED <<rows, old, index, queue, task, upload, reply, deletion, faults, history>>
  BY DEF SweepSelects, table, requests
<1>2. IngestTypeOK'
  BY <1>1, Types DEF IngestTypeOK, Stale
<1>3. \A d \in Stale : d \in Docs /\ Present(d) /\ ~rows[d].deleted
  BY DEF Stale, Present
<1>4. Unique'
  BY <1>1, <1>3 DEF Inv, Unique, Flushed, Present
<1>5. \A d \in Docs : /\ Queued(d)' <=> Queued(d)
                      /\ AtWork(d)' => AtWork(d) \/ ~rows[d].deleted
  BY <1>1, <1>3 DEF AtWork, InFlight, Queued, RunningOn, Busy
<1>6. \A d \in Docs :
        /\ history'[d] \in {history[d], history[d] \union {"lost"}}
        /\ Queued(d) => Queued(d)' \/ "lost" \in history'[d]
        /\ AtWork(d)' => AtWork(d) \/ ~rows[d].deleted
  <2> SUFFICES ASSUME NEW d \in Docs
               PROVE  /\ history'[d] = history[d] /\ (Queued(d) => Queued(d)')
                      /\ AtWork(d)' => AtWork(d) \/ ~rows[d].deleted
    OBVIOUS
  <2> QED
    BY <1>1, <1>5
<1>7. UNCHANGED <<rows, index, task>> /\ deletion' \subseteq deletion
  BY <1>1
<1> QED
  BY <1>2, <1>4, <1>6, <1>7, WorkersStay

LEMMA SweepSendsInv ==
  ASSUME Inv, NEW d \in Docs, SweepSends(d)
  PROVE  Inv'
<1> DEFINE m == [doc |-> d, content |-> rows[d].content, retries |-> 0]
<1>1. /\ d \in sweep /\ Send(m) /\ sweep' = sweep \ {d}
      /\ UNCHANGED <<rows, old, index, task, upload, reply, deletion, faults, history>>
  BY DEF SweepSends, table, requests
<1>2. rows[d].content \in Contents
  BY <1>1 DEF Inv, Unique
<1>3. m \in Job /\ m.doc = d
  BY <1>2, IngestionAssumption DEF Job
<1>4. PICK j \in Job : j.doc = d /\ Send(j)
  BY <1>1, <1>3
<1> HIDE DEF m
<1>5. /\ DOMAIN queue' = Job /\ \A k \in Job : queue'[k] \in Nat
      /\ \A k \in Job : k # j => queue'[k] = queue[k]
      /\ Queued(j.doc)'
  BY <1>4, SendType
<1>6. IngestTypeOK'
  BY <1>1, <1>5, Types DEF IngestTypeOK
<1>7. Unique'
  BY <1>1, Types, SameRows, UniqueStays DEF Inv
<1>8. ASSUME NEW e \in Docs PROVE (Queued(e) => Queued(e)') /\ (AtWork(e)' => AtWork(e))
  <2>1. CASE e = d
    BY <1>1, <1>4, <1>5, <2>1 DEF AtWork, Queued
  <2>2. CASE e # d
    <3>1. Queued(e)' <=> Queued(e)
      BY <1>4, <1>5, <2>2 DEF Queued
    <3> QED
      BY <1>1, <3>1 DEF AtWork, InFlight, RunningOn, Busy
  <2> QED
    BY <2>1, <2>2
<1> QED
  BY <1>1, <1>6, <1>7, <1>8, WorkersStay

LEMMA SweepStopsInv ==
  ASSUME Inv, SweepStops
  PROVE  Inv'
<1>1. /\ sweep' = {} /\ faults' \in 0 .. MaxFaults
      /\ UNCHANGED <<rows, old, index, queue, task, upload, reply, deletion, history>>
  BY FaultType DEF SweepStops, table, requests
<1>2. IngestTypeOK'
  BY <1>1, Types DEF IngestTypeOK
<1>3. Unique'
  BY <1>1, Types, SameRows, UniqueStays DEF Inv
<1>4. \A d \in Docs : (Queued(d)' <=> Queued(d)) /\ (AtWork(d)' => AtWork(d))
  BY <1>1 DEF AtWork, InFlight, Queued, RunningOn, Busy
<1> QED
  BY <1>1, <1>2, <1>3, <1>4, WorkersStay

\* An upload that has no row yet, and gets none in this step.
LEMMA UploadInv ==
  ASSUME Inv, NEW u \in Uploads, NEW x \in Upload \union {IdleUpload}, x.step # "flushed",
         upload' = [upload EXCEPT ![u] = x], reply' \in [Uploads -> Docs \union {NoDoc}],
         UNCHANGED <<table, index, queue, task, sweep, deletion, faults, history>>
  PROVE  Inv'
<1>1. UNCHANGED <<rows, old, index, queue, task, sweep, deletion, faults, history>>
  BY DEF table
<1>2. \A v \in Uploads : upload'[v] = IF v = u THEN x ELSE upload[v]
  BY Types
<1>3. IngestTypeOK'
  <2>1. upload' \in [Uploads -> Upload \union {IdleUpload}]
    BY Types
  <2> QED
    BY <1>1, <2>1, Types DEF IngestTypeOK
<1>4. Unique'
  BY <1>1, <1>2 DEF Inv, Unique, Flushed, Present
<1>5. \A d \in Docs : (Queued(d)' <=> Queued(d)) /\ (AtWork(d)' <=> AtWork(d))
  BY <1>1 DEF AtWork, InFlight, Queued, RunningOn, Busy
<1> QED
  BY <1>1, <1>3, <1>4, <1>5, WorkersStay

LEMMA ReuseInv ==
  ASSUME Inv, NEW u \in Uploads, NEW c \in Contents, Reuse(u, c)
  PROVE  Inv'
<1>1. upload[u] \in Upload \union {IdleUpload} /\ upload[u].step # "flushed"
  BY Types DEF Reuse, Idle
<1>2. upload' = [upload EXCEPT ![u] = upload[u]]
  BY Types DEF Reuse
<1>3. reply' \in [Uploads -> Docs \union {NoDoc}]
  BY Types DEF Reuse
<1> QED
  BY <1>1, <1>2, <1>3, UploadInv DEF Reuse

LEMMA CheckUploadInv ==
  ASSUME Inv, NEW u \in Uploads, NEW c \in Contents, CheckUpload(u, c)
  PROVE  Inv'
<1> DEFINE x == [step |-> "checked", content |-> c, doc |-> NoDoc]
<1>1. x \in Upload /\ x.step # "flushed"
  BY DEF Upload
<1>2. reply' \in [Uploads -> Docs \union {NoDoc}]
  BY Types DEF CheckUpload
<1>3. /\ upload' = [upload EXCEPT ![u] = x]
      /\ UNCHANGED <<table, index, queue, task, sweep, deletion, faults, history>>
  BY DEF CheckUpload
<1> HIDE DEF x
<1> QED
  BY <1>1, <1>2, <1>3, UploadInv

LEMMA UploadEndsInv ==
  ASSUME Inv, NEW u \in Uploads, RefuseUpload(u) \/ UploadDies(u)
  PROVE  Inv'
<1>1. /\ upload' = [upload EXCEPT ![u] = IdleUpload] /\ reply' = reply
      /\ UNCHANGED <<table, index, queue, task, sweep, deletion, faults, history>>
  BY DEF RefuseUpload, UploadDies
<1>2. IdleUpload.step # "flushed"
  BY DEF IdleUpload
<1> QED
  BY <1>1, <1>2, Types, UploadInv

LEMMA StoreUploadInv ==
  ASSUME Inv, NEW u \in Uploads, StoreUpload(u)
  PROVE  Inv'
<1>1. PICK d \in Docs :
        /\ Fresh(d)
        /\ upload' = [upload EXCEPT ![u].step = "flushed", ![u].doc = d]
        /\ \/ Send([doc |-> d, content |-> upload[u].content, retries |-> 0]) /\ NoFault
           \/ Fault("enqueue") /\ UNCHANGED queue
  BY DEF StoreUpload
<1>2. /\ upload[u].step = "checked" /\ ~Blocked(u) /\ ~Taken(upload[u].content)
      /\ UNCHANGED <<rows, old, index, task, reply, sweep, deletion, history>>
  BY DEF StoreUpload, table
<1> DEFINE x == [upload[u] EXCEPT !.step = "flushed", !.doc = d]
<1>3. upload[u] \in Upload
  <2>1. IdleUpload.step = "idle"
    BY DEF IdleUpload
  <2> QED
    BY <1>2, <2>1, Types
<1>4. /\ x \in Upload /\ x.step = "flushed" /\ x.doc = d /\ x.content = upload[u].content
      /\ x.content \in Contents
  BY <1>3 DEF Upload
<1>5. upload' = [upload EXCEPT ![u] = x]
  BY <1>1, Types
<1> HIDE DEF x
<1>6. \A v \in Uploads : upload'[v] = IF v = u THEN x ELSE upload[v]
  BY <1>5, Types
<1>7. /\ DOMAIN queue' = Job /\ \A j \in Job : queue'[j] \in Nat
      /\ \A j \in Job : j.doc # d => queue'[j] = queue[j]
      /\ ~Queued(d)
  <2>1. CASE UNCHANGED queue
    BY <1>1, <2>1, Types DEF Fresh, InFlight
  <2>2. CASE Send([doc |-> d, content |-> upload[u].content, retries |-> 0])
    <3> DEFINE m == [doc |-> d, content |-> upload[u].content, retries |-> 0]
    <3>1. m \in Job /\ m.doc = d
      BY <1>4, IngestionAssumption DEF Job
    <3>2. Send(m)
      BY <2>2
    <3> HIDE DEF m
    <3> QED
      BY <1>1, <3>1, <3>2, SendType DEF Fresh, InFlight
  <2> QED
    BY <1>1, <2>1, <2>2
<1>8. faults' \in 0 .. MaxFaults
  BY <1>1, FaultType, Types DEF NoFault
<1>9. IngestTypeOK'
  <2>1. upload' \in [Uploads -> Upload \union {IdleUpload}]
    BY <1>4, <1>5, Types
  <2> QED
    BY <1>2, <1>7, <1>8, <2>1, Types DEF IngestTypeOK
<1>10. Unique'
  <2>1. ~Present(d) /\ \A v \in Uploads : Flushed(v) => upload[v].doc # d
    BY <1>1 DEF Fresh, Flushed
  <2>2. \A e \in Docs : Present(e) => rows[e].content # x.content
    BY <1>2, <1>4 DEF Taken
  <2>3. \A v \in Uploads : v # u /\ Flushed(v) => upload[v].content # x.content
    BY <1>2, <1>4 DEF Blocked, Flushed
  <2>4. \A v \in Uploads : Flushed(v)' <=> v = u \/ Flushed(v)
    BY <1>4, <1>6 DEF Flushed
  <2>5. \A e \in Docs \union deletion \union sweep : Present(e)' <=> Present(e)
    BY <1>2 DEF Present
  <2>6. ASSUME NEW v \in Uploads, Flushed(v)'
        PROVE  /\ upload'[v].doc \in Docs
               /\ \A e \in Docs : Present(e)' =>
                    rows'[e].content # upload'[v].content /\ upload'[v].doc # e
    <3>1. CASE v = u
      BY <1>2, <1>4, <1>6, <2>1, <2>2, <2>5, <3>1
    <3>2. CASE v # u
      BY <1>2, <1>6, <2>4, <2>5, <2>6, <3>2 DEF Inv, Unique
    <3> QED
      BY <3>1, <3>2
  <2>7. ASSUME NEW v \in Uploads, NEW z \in Uploads, Flushed(v)', Flushed(z)', v # z
        PROVE  upload'[z].content # upload'[v].content /\ upload'[z].doc # upload'[v].doc
    <3>1. CASE v = u
      BY <1>4, <1>6, <2>1, <2>3, <2>4, <2>7, <3>1
    <3>2. CASE z = u
      BY <1>4, <1>6, <2>1, <2>3, <2>4, <2>7, <3>2
    <3>3. CASE v # u /\ z # u
      BY <1>6, <2>4, <2>7, <3>3 DEF Inv, Unique
    <3> QED
      BY <3>1, <3>2, <3>3
  <2>8. /\ \A c, e \in Docs : Present(c)' /\ Present(e)' /\ rows'[c].content = rows'[e].content
                              => c = e
        /\ \A e \in deletion' \union sweep' : Present(e)'
        /\ \A e \in Docs : /\ rows'[e].deleted => Present(e)'
                           /\ Present(e)' => rows'[e].content \in Contents
    BY <1>2, <2>5 DEF Inv, Unique
  <2> QED
    BY <2>6, <2>7, <2>8 DEF Unique
<1>11. ASSUME NEW e \in Docs
       PROVE  /\ Queued(e) => Queued(e)'
              /\ AtWork(e)' => AtWork(e) \/ ~rows[e].deleted
  <2>1. CASE e = d
    <3>1. ~Queued(e) /\ ~Present(e)
      BY <1>1, <1>7, <2>1 DEF Fresh
    <3>2. ~rows[e].deleted
      BY <3>1 DEF Inv, Unique
    <3> QED
      BY <3>1, <3>2
  <2>2. CASE e # d
    <3>1. Queued(e)' <=> Queued(e)
      BY <1>7, <2>2 DEF Queued
    <3> QED
      BY <1>2, <3>1 DEF AtWork, InFlight, RunningOn, Busy
  <2> QED
    BY <2>1, <2>2
<1>12. \A e \in Docs : history'[e] = history[e]
  BY <1>2
<1> QED
  BY <1>2, <1>9, <1>10, <1>11, <1>12, WorkersStay

LEMMA CommitUploadInv ==
  ASSUME Inv, NEW u \in Uploads, CommitUpload(u)
  PROVE  Inv'
<1>1. PICK d \in Docs : d = upload[u].doc /\ ~Present(d)
  BY DEF CommitUpload, Inv, Unique, Flushed
<1> DEFINE row == [status |-> "uploaded", content |-> upload[u].content, deleted |-> FALSE]
<1>2. /\ upload[u].step = "flushed" /\ rows' = [rows EXCEPT ![d] = row]
      /\ old' = [old EXCEPT ![d] = FALSE]
      /\ upload' = [upload EXCEPT ![u] = IdleUpload]
      /\ reply' = [reply EXCEPT ![u] = d]
      /\ UNCHANGED <<index, queue, task, sweep, deletion, faults, history>>
  BY <1>1 DEF CommitUpload, WriteRow
<1>3. upload[u] \in Upload
  <2>1. IdleUpload.step = "idle"
    BY DEF IdleUpload
  <2> QED
    BY <1>2, <2>1, Types
<1>4. /\ row \in Row /\ row.status = "uploaded" /\ row.deleted = FALSE
      /\ row.content = upload[u].content /\ row.content \in Contents
  BY <1>3 DEF Row, Upload, Statuses
<1> HIDE DEF row
<1>5. \A e \in Docs : rows'[e] = IF e = d THEN row ELSE rows[e]
  BY <1>2, Types
<1>6. \A e \in Docs : Present(e)' <=> e = d \/ Present(e)
  BY <1>4, <1>5 DEF Present
<1>7. \A v \in Uploads : Flushed(v)' => v # u /\ Flushed(v) /\ upload'[v] = upload[v]
  <2>1. IdleUpload.step # "flushed"
    BY DEF IdleUpload
  <2> QED
    BY <1>2, <2>1, Types DEF Flushed
<1>8. IngestTypeOK'
  BY <1>2, <1>4, Types DEF IngestTypeOK
<1>9. Unique'
  <2>1. /\ Flushed(u)
        /\ \A e \in Docs : Present(e) => rows[e].content # upload[u].content
    BY <1>2 DEF Inv, Unique, Flushed
  <2>2. ASSUME NEW v \in Uploads, Flushed(v)'
        PROVE  /\ upload'[v].doc \in Docs
               /\ \A e \in Docs : Present(e)' =>
                    rows'[e].content # upload'[v].content /\ upload'[v].doc # e
    <3>1. /\ v # u /\ Flushed(v) /\ upload'[v] = upload[v]
          /\ upload[v].doc \in Docs
          /\ \A e \in Docs : Present(e) =>
               rows[e].content # upload[v].content /\ upload[v].doc # e
          /\ upload[v].content # upload[u].content /\ upload[v].doc # d
      BY <1>1, <1>7, <2>1, <2>2 DEF Inv, Unique
    <3> QED
      BY <1>4, <1>5, <1>6, <3>1
  <2>3. ASSUME NEW v \in Uploads, NEW z \in Uploads, Flushed(v)', Flushed(z)', v # z
        PROVE  upload'[z].content # upload'[v].content /\ upload'[z].doc # upload'[v].doc
    BY <1>7, <2>3 DEF Inv, Unique
  <2>4. \A e, f \in Docs : Present(e)' /\ Present(f)' /\ rows'[e].content = rows'[f].content
                         => e = f
    BY <1>4, <1>5, <1>6, <2>1 DEF Inv, Unique
  <2>5. /\ \A e \in deletion' \union sweep' : Present(e)'
        /\ \A e \in Docs : /\ rows'[e].deleted => Present(e)'
                           /\ Present(e)' => rows'[e].content \in Contents
    BY <1>2, <1>4, <1>5, <1>6, Types DEF Inv, Unique
  <2> QED
    BY <2>2, <2>3, <2>4, <2>5 DEF Unique
<1>10. ASSUME NEW e \in Docs, e # d PROVE Good(e)'
  <2>1. Untouched(e)
    BY <1>2, <1>5, <1>10 DEF Untouched
  <2> QED
    BY <2>1, UntouchedStaysGood DEF Inv
<1>11. Good(d)'
  <2>1. Good(d)
    BY DEF Inv
  <2>2. rows'[d].status = "uploaded" /\ rows'[d].deleted = FALSE
    BY <1>4, <1>5
  <2>3. \A w \in Workers : RunningOn(w, d)' <=> RunningOn(w, d)
    BY <1>2 DEF RunningOn, Busy
  <2>4. Transient(d)'
    BY <2>2 DEF Transient
  <2>5. Gone(d)'
    BY <1>2, <2>1, <2>2, <2>3 DEF Good, Gone
  <2>6. Lone(d)'
    BY <1>2, <2>1, <2>2, <2>3 DEF Good, Lone, Phase, Whole
  <2> QED
    BY <2>4, <2>5, <2>6 DEF Good
<1>12. \A w \in Workers : Busy(w)' => Counted(task'[w])
  BY <1>2 DEF Inv, Busy
<1> QED
  BY <1>8, <1>9, <1>10, <1>11, <1>12 DEF Inv, Counted

-----------------------------------------------------------------------------
(* Deletions. *)

LEMMA DeleteVectorsInv ==
  ASSUME Inv, NEW d \in Docs, DeleteVectors(d)
  PROVE  Inv'
<1>1. /\ Present(d) /\ index' = [index EXCEPT ![d] = {}] /\ deletion' = deletion \union {d}
      /\ history' = [history EXCEPT ![d] = @ \union {IF AtWork(d) THEN "raced" ELSE "purged"}]
      /\ UNCHANGED <<rows, old, queue, task, upload, reply, sweep, faults>>
  BY DEF DeleteVectors, Happened, table, requests
<1>2. /\ history' \in [Docs -> SUBSET {"overlapped", "purged", "raced", "lost"}]
      /\ \A e \in Docs \ {d} : history'[e] = history[e] /\ index'[e] = index[e]
      /\ history[d] \subseteq history'[d] /\ index'[d] = {}
      /\ index' \in [Docs -> SUBSET (1 .. Batches)]
      /\ AtWork(d) => "raced" \in history'[d]
      /\ ~ (history'[d] \subseteq {"lost"})
  BY <1>1, Types
<1>3. IngestTypeOK'
  BY <1>1, <1>2, Types DEF IngestTypeOK
<1>4. Unique'
  BY <1>1 DEF Inv, Unique, Flushed, Present
<1>5. /\ Live(d)' <=> Live(d)
      /\ InFlight(d)' <=> InFlight(d)
      /\ AtWork(d)' <=> AtWork(d)
      /\ \A w \in Workers : RunningOn(w, d)' <=> RunningOn(w, d)
  <2>1. \A w \in Workers : RunningOn(w, d)' <=> RunningOn(w, d)
    BY <1>1 DEF RunningOn, Busy
  <2>2. InFlight(d)' <=> InFlight(d)
    BY <1>1, <2>1 DEF InFlight, Queued
  <2> QED
    BY <1>1, <2>1, <2>2 DEF Live, Present, AtWork
<1>6. ASSUME NEW e \in Docs, e # d PROVE Good(e)'
  <2>1. Untouched(e)
    BY <1>1, <1>2, <1>6 DEF Untouched
  <2> QED
    BY <2>1, UntouchedStaysGood DEF Inv
<1>7. Good(d)'
  <2>1. Transient(d)'
    BY <1>1, <1>2, <1>5 DEF Inv, Good, Transient
  <2>2. Gone(d)'
    <3> SUFFICES ASSUME "raced" \notin history'[d] PROVE Gone(d)'
      BY DEF Gone
    <3>1. ~AtWork(d)
      BY <1>2
    <3>2. \A w \in Workers : ~RunningOn(w, d)
      BY <3>1 DEF AtWork, InFlight
    <3> QED
      BY <1>2, <1>5, <3>1, <3>2 DEF Gone
  <2>3. Lone(d)'
    BY <1>2 DEF Lone
  <2> QED
    BY <2>1, <2>2, <2>3 DEF Good
<1>8. \A w \in Workers : Busy(w)' => Counted(task'[w])
  BY <1>1 DEF Inv, Busy
<1> QED
  BY <1>3, <1>4, <1>6, <1>7, <1>8 DEF Inv, Counted

LEMMA HideRowInv ==
  ASSUME Inv, NEW d \in Docs, HideRow(d)
  PROVE  Inv'
<1>1. /\ d \in deletion /\ deletion' = deletion \ {d}
      /\ UNCHANGED <<index, queue, task, upload, reply, sweep, faults>>
  BY DEF HideRow, requests
<1>2. /\ rows' \in [Docs -> Row] /\ old' \in [Docs -> BOOLEAN]
      /\ \A e \in Docs \ {d} : rows'[e] = rows[e]
      /\ rows'[d].status = rows[d].status /\ rows'[d].content = rows[d].content
      /\ rows'[d].deleted
  <2>1. Present(d)
    BY <1>1 DEF Inv, Unique
  <2>2. CASE Live(d)
    <3> DEFINE row == [rows[d] EXCEPT !.deleted = TRUE]
    <3>1. rows' = [rows EXCEPT ![d] = row] /\ old' = [old EXCEPT ![d] = FALSE]
      BY <2>2 DEF HideRow, WriteRow
    <3>2. rows[d] \in Row
      BY Types
    <3>3. /\ row \in Row /\ row.deleted /\ row.status = rows[d].status
          /\ row.content = rows[d].content
      BY <3>2 DEF Row
    <3> HIDE DEF row
    <3> QED
      BY <3>1, <3>3, Types
  <2>3. CASE ~Live(d)
    <3>1. rows[d].deleted
      BY <2>1, <2>3 DEF Live
    <3> QED
      BY <2>3, <3>1, Types DEF HideRow, table
  <2> QED
    BY <2>2, <2>3
<1>3. /\ history' \in [Docs -> SUBSET {"overlapped", "purged", "raced", "lost"}]
      /\ \A e \in Docs \ {d} : history'[e] = history[e]
      /\ history[d] \subseteq history'[d]
      /\ AtWork(d) => "raced" \in history'[d]
  BY Types DEF HideRow, Happened
<1>4. IngestTypeOK'
  BY <1>1, <1>2, <1>3, Types DEF IngestTypeOK
<1>5. \A e \in Docs : /\ Present(e)' <=> Present(e)
                      /\ rows'[e].content = rows[e].content
                      /\ e # d => rows'[e].deleted = rows[e].deleted
  BY <1>2 DEF Present
<1>6. Unique'
  <2>1. \A v \in Uploads : (Flushed(v)' <=> Flushed(v)) /\ upload'[v] = upload[v]
    BY <1>1 DEF Flushed
  <2>2. Present(d) /\ deletion \subseteq Docs /\ sweep \subseteq Docs
    BY <1>1, Types DEF Inv, Unique
  <2>3. \A e, f \in Docs : Present(e)' /\ Present(f)' /\ rows'[e].content = rows'[f].content
                         => e = f
    BY <1>5 DEF Inv, Unique
  <2>4. ASSUME NEW v \in Uploads, Flushed(v)'
        PROVE  /\ upload'[v].doc \in Docs
               /\ \A e \in Docs : Present(e)' =>
                    rows'[e].content # upload'[v].content /\ upload'[v].doc # e
               /\ \A z \in Uploads : Flushed(z)' /\ z # v =>
                    /\ upload'[z].content # upload'[v].content
                    /\ upload'[z].doc # upload'[v].doc
    <3>1. /\ upload[v].doc \in Docs
          /\ \A e \in Docs : Present(e) =>
               rows[e].content # upload[v].content /\ upload[v].doc # e
          /\ \A z \in Uploads : Flushed(z) /\ z # v =>
               /\ upload[z].content # upload[v].content
               /\ upload[z].doc # upload[v].doc
      BY <2>1, <2>4 DEF Inv, Unique
    <3> QED
      BY <1>5, <2>1, <3>1
  <2>5. /\ \A e \in deletion' \union sweep' : Present(e)'
        /\ \A e \in Docs : /\ rows'[e].deleted => Present(e)'
                           /\ Present(e)' => rows'[e].content \in Contents
    <3>1. \A e \in Docs : Present(e)' => rows'[e].content \in Contents
      BY <1>5 DEF Inv, Unique
    <3>2. \A e \in deletion' \union sweep' : Present(e)'
      BY <1>1, <1>5, <2>2 DEF Inv, Unique
    <3>3. ASSUME NEW e \in Docs, rows'[e].deleted PROVE Present(e)'
      BY <1>5, <2>2, <3>3 DEF Inv, Unique
    <3> QED
      BY <3>1, <3>2, <3>3
  <2> QED
    BY <2>3, <2>4, <2>5 DEF Unique
<1>7. ASSUME NEW e \in Docs, e # d PROVE Good(e)'
  <2>1. Untouched(e)
    BY <1>1, <1>2, <1>3, <1>7 DEF Untouched
  <2> QED
    BY <2>1, UntouchedStaysGood DEF Inv
<1>8. Good(d)'
  <2>1. Good(d)
    BY DEF Inv
  <2>2. /\ AtWork(d)' <=> AtWork(d)
        /\ \A w \in Workers : RunningOn(w, d)' <=> RunningOn(w, d)
    BY <1>1 DEF AtWork, InFlight, Queued, RunningOn, Busy
  <2>3. Transient(d)'
    BY <1>2 DEF Transient, Live
  <2>4. Gone(d)'
    BY <1>1, <1>3, <2>1, <2>2 DEF Good, Gone
  <2>5. Lone(d)'
    BY <1>1, <1>2, <1>3, <2>1, <2>2 DEF Good, Lone
  <2> QED
    BY <2>3, <2>4, <2>5 DEF Good
<1>9. \A w \in Workers : Busy(w)' => Counted(task'[w])
  BY <1>1 DEF Inv, Busy
<1> QED
  BY <1>4, <1>6, <1>7, <1>8, <1>9 DEF Inv, Counted

LEMMA DeletionDiesInv ==
  ASSUME Inv, NEW d \in Docs, DeletionDies(d)
  PROVE  Inv'
<1>1. /\ deletion' = deletion \ {d}
      /\ UNCHANGED <<rows, old, index, queue, task, upload, reply, sweep, faults, history>>
  BY DEF DeletionDies, table, requests
<1>2. IngestTypeOK'
  BY <1>1, Types DEF IngestTypeOK
<1>3. Unique'
  BY <1>1, Types, SameRows, UniqueStays DEF Inv
<1>4. \A e \in Docs : (Queued(e)' <=> Queued(e)) /\ (AtWork(e)' <=> AtWork(e))
  BY <1>1 DEF AtWork, InFlight, Queued, RunningOn, Busy
<1> QED
  BY <1>1, <1>2, <1>3, <1>4, WorkersStay

-----------------------------------------------------------------------------
(* Every step. *)

LEMMA WorkerInv ==
  ASSUME Inv, NEW w \in Workers, Progress(w) \/ Failure(w)
  PROVE  Inv'
BY BeginInv, FetchInv, CannotFetchInv, WorkInv, PurgeInv, UpsertInv, ReportReadyInv, RecordInv,
   StageFailsInv, TimesOutInv, RecordIsLostInv, JobIsDroppedInv, WorkerIsLostInv
   DEF Progress, Failure

LEMMA UploadStepInv ==
  ASSUME Inv, NEW u \in Uploads, UploadStep(u)
  PROVE  Inv'
BY ReuseInv, CheckUploadInv, StoreUploadInv, UploadEndsInv, CommitUploadInv DEF UploadStep

LEMMA DeletingInv ==
  ASSUME Inv, NEW d \in Docs, Deleting(d)
  PROVE  Inv'
BY DeleteVectorsInv, HideRowInv, DeletionDiesInv DEF Deleting

LEMMA SweepingInv ==
  ASSUME Inv, Sweeping \/ SweepStops
  PROVE  Inv'
BY SweepSelectsInv, SweepSendsInv, SweepStopsInv DEF Sweeping

LEMMA StutterInv ==
  ASSUME Inv, UNCHANGED vars
  PROVE  Inv'
<1>1. UNCHANGED <<rows, old, index, queue, task, upload, reply, sweep, deletion, faults, history>>
  BY DEF vars, table, requests
<1>2. IngestTypeOK'
  BY <1>1, Types DEF IngestTypeOK
<1>3. Unique'
  BY <1>1, Types, SameRows, UniqueStays DEF Inv
<1>4. \A d \in Docs : (Queued(d)' <=> Queued(d)) /\ (AtWork(d)' <=> AtWork(d))
  BY <1>1 DEF AtWork, InFlight, Queued, RunningOn, Busy
<1> QED
  BY <1>1, <1>2, <1>3, <1>4, WorkersStay

LEMMA StepInv == Inv /\ [Next]_vars => Inv'
<1> SUFFICES ASSUME Inv, [Next]_vars PROVE Inv'
  OBVIOUS
<1>1. CASE \E u \in Uploads : UploadStep(u)
  BY <1>1, UploadStepInv
<1>2. CASE \E w \in Workers : Progress(w) \/ Failure(w)
  BY <1>2, WorkerInv
<1>3. CASE BrokerRestarts
  BY <1>3, BrokerRestartsInv
<1>4. CASE Sweeping \/ SweepStops
  BY <1>4, SweepingInv
<1>5. CASE \E d \in Docs : Age(d) \/ Deleting(d)
  BY <1>5, AgeInv, DeletingInv
<1>6. CASE UNCHANGED vars
  BY <1>6, StutterInv
<1> QED
  BY <1>1, <1>2, <1>3, <1>4, <1>5, <1>6 DEF Next

LEMMA AlwaysInv == Spec => []Inv
BY InitInv, StepInv, PTL DEF Spec

-----------------------------------------------------------------------------
(* The theorems. *)

\* The variables have their types: a queue never holds fewer than no jobs,
\* a worker never a job beyond its last retry or batch.
THEOREM IngestionIsTyped == Spec => []IngestTypeOK
<1>1. Inv => IngestTypeOK
  BY DEF Inv
<1> QED
  BY <1>1, AlwaysInv, PTL

\* READY means searchable in full whatever failed on the way, for any number
\* of workers and batches, unless executions overlapped or a deletion began
\* (_run: purge, upsert, and only then the last report).
THEOREM ReadyDocumentIsIndexed == Spec => []LoneReadyIsIndexed
<1>1. Inv => LoneReadyIsIndexed
  BY DEF Inv, Good, Lone, Whole, LoneReadyIsIndexed
<1> QED
  BY <1>1, AlwaysInv, PTL

\* No request, retry or sweep that begins after a deletion brings a document's
\* chunks back (delete, stale_uploaded_documents, find_by_checksum).
THEOREM DeletionIsFinal == Spec => []DeletedStaysGone
<1>1. Inv => DeletedStaysGone
  BY DEF Inv, Good, Gone, DeletedStaysGone
<1> QED
  BY <1>1, AlwaysInv, PTL

\* A document shown as being processed has a job, or one of its jobs was lost
\* by the broker or its outcome by the database (acks_late, _persist).
THEOREM ProcessingIsReal == Spec => []TransientHasAJob
<1>1. Inv => TransientHasAJob
  BY DEF Inv, Good, Transient, TransientHasAJob
<1> QED
  BY <1>1, AlwaysInv, PTL

\* Any number of uploads of the same bytes make one row
\* (find_by_checksum, uq_documents_tenant_id_sha256).
THEOREM UploadsOfOneContentShareARow == Spec => []OneRowPerContent
<1>1. Inv => OneRowPerContent
  BY DEF Inv, Unique, OneRowPerContent, Live
<1> QED
  BY <1>1, AlwaysInv, PTL
=============================================================================
