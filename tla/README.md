# A verification of the tender-response system

The repository is a multi-tenant service that answers tenders. A customer
uploads documents; a worker parses, embeds and indexes them; a language model
extracts the tender's requirements and drafts an answer to each from the indexed
evidence; people review, rewrite and approve the answers; and an export sends
out a file only when every mandatory requirement is signed off.

This directory holds TLA+ modules translated from that code, the TLC
configurations that check small instances of them, and TLAPS proofs for every
value of the constants.

    tlc -config Proposals_decisions.cfg MCProposals.tla      # one run
    tlapm ProposalsProofs.tla                                # one module of proofs

## 1. Inventory

Paths are relative to `src/backend/app/` unless they say otherwise.

| Part | State it keeps | Operations | What makes it correct |
|---|---|---|---|
| Review gate: `services/review_service.py`, `routers/review.py` | status, reviewer, SME, notes and version of a row of `generated_proposals` | decide (`apply_action`), rewrite (`apply_edit`), read | a signature covers exactly the words the signer read, names a manager, rests on citations or on a note; no decision overwrites another |
| Answer persistence: `services/generation_service.py`, `db/repositories/proposals.py` | rows, `is_current`, `version`, the chain of previous answers | supersede and insert | one live row per requirement; no decision is lost to a regeneration |
| Requirement registration: `services/requirement_service.py` | unanswered rows | look each requirement up and save it, one after another, with or without overwrite | as above, for many rows in one transaction; what was there before is left alone |
| Export gate: `services/export_service.py`, `exports/models.py`, `routers/exports.py` | the bundle of one export, `exported` rows | count, count, list, render, mark, send | only signed words leave; a file is complete; what left is recorded and never changes |
| Upload, status and deletion: `services/document_service.py`, `db/repositories/documents.py` | rows of `documents`, stored objects | register an upload, status callbacks, delete | one live row per content; deleted means gone |
| Ingestion task and pipeline: `workers/tasks/ingest.py`, `ingestion/pipeline.py`, `workers/celery_app.py` | jobs in Redis, vectors in Qdrant, the row's status | fetch, parse, chunk, embed, purge, upsert, record, retry | READY means searchable in full; every upload ends |
| Stalled-upload sweep: `workers/tasks/sweep.py` and its SQL function | none of its own | select, queue again, stop | nothing is left behind, nothing is queued for ever |
| Answer chain and grounding: `rag/chains/answer_requirement.py`, `rag/grounding/*` | none | retrieve, rerank, generate, map citations, verify, abstain | an answer cites only evidence of its tenant and scope that the model was shown; VERIFIED means most claims carry a citation |
| Extraction chain: `rag/chains/extract_requirements.py`, the loading in `services/requirement_service.py` | none | scroll, windows, spans, references, de-duplication | every clause is read whole, nothing that was quoted is lost or doubled |
| Retrieval and vector store: `rag/retrieval/*`, `rag/embeddings/*`, `rag/vectorstore/*` | the collection | filtered search, fusion, rerank | no search leaves its tenant and workspace |
| Parsers and chunker: `ingestion/parsers/*`, `ingestion/chunking/semantic_chunker.py` | none | probe, choose, partition, gather, cut, fold | nothing is lost or moved; a chunk is cited at the page it stands on |
| Authentication: `services/auth_service.py`, `security/*`, `routers/auth.py` | users; two cookies in the browser | log in, refresh, log out | a role does not outlive an access token |
| Front end: `src/frontend/src/lib`, `session-guard.tsx`, `proxy.ts` | one refresh in flight, cached queries | call, wait, refresh, send again | no caller hangs; no good session is refused |
| Rate limiter, error handler, workspaces, storage, renderers, configuration | counters, tables, objects | | |

How they interact. API handlers and workers share three stores that no
transaction spans: PostgreSQL (rows, READ COMMITTED sessions), Qdrant (vectors)
and Redis (jobs). Reviewers share rows through a version number that each
request carries back (`expected_version`) and that SQLAlchemy also puts into
every UPDATE (`version_id_col`). The API hands work to workers through Celery
with late acknowledgement. The export reads what review wrote, and review must
leave alone what export froze. The extraction and the answers read an index that
ingestion purges and refills; the browser holds the only copy of the tokens.

What is hard here: two reviewers, or a reviewer and a regeneration, on one row;
three statements with three snapshots in one gate; work done between two
transactions (rendering); a job sent before its row commits; purging and upserting
one document from two workers; crashes and refused messages between any two of
these steps; a deletion while all that goes on; a language model that may return
anything; calls that expire at once and share one refresh. `PROJECT.json` lists
each hazard with its line and with the properties that watch it.

## 2. Plan

1. `Proposals`, `SignOff`: the table of answers and all its writers, and the
   abstract register it implements. *Done, with proofs.*
2. `ExportGate` over `Proposals`. *Done, with proofs.*
3. `Ingestion`: upload, task, pipeline, sweep, deletion. *Done; its safety is
   proved.*
4. `Answering`: search, reranking, abstention, citations, verdict. *Done, with
   proofs.*
5. `Extraction`: loading, windows, proposals, beside the copies of the document's
   job and its deletion. *Done, with proofs.*
6. `Sessions`: tokens, cookies, the shared refresh, the limiter. *Done, with
   proofs.*
7. `Chunking`: from a stored file to chunks. *Done, with proofs.*
8. Proofs of the versions of an answer, of the refinement of `SignOff`, of a quiet
   export, of the verdict and of loading, and of what the folds of `Chunking`
   compute. *Done; every safety property that a passing run checks is
   a theorem.*
9. Left out, and worth modelling next: the front end's polling of uploads over an
   abstract `Ingestion`; the general rate limit and its fallback; registration and
   tenants in `Sessions`.

## 3. Modules

| Module | What it is |
|---|---|
| `Proposals` | `generated_proposals` and every transaction that writes it |
| `SignOff` | what the review gate promises: atomic decisions on what is on the screen |
| `ExportGate` | extends `Proposals` with export requests in flight |
| `Ingestion` | documents, vectors, jobs, workers, sweep and deletion |
| `Chunking` | a file on its way through the probe, the parser and the chunker |
| `Extraction` | requests that turn an indexed tender into requirements |
| `Answering` | one requirement's way to a grounded draft or an abstention |
| `Sessions` | a browser's tabs, calls and cookies, and the account behind them |
| `MC...` | an instance of each for TLC: values, and symmetry where it is sound |
| `ProposalsProofs`, `ExportGateProofs`, `IngestionProofs`, `ChunkingProofs`, `ExtractionProofs`, `AnsweringProofs`, `SessionsProofs` | theorems about each and their proofs |
| `SignOffProofs` | extends `ProposalsProofs`: the table implements the register |

### Proposals

`rows` is the committed table, `session` the open transactions, `view` what
each client has on screen: the id, the version and the wording of the answer it
last opened. A handler is one action up to its flush (`Review`, `Edit`,
`Generate`, `MarkExported`), which checks all its guards on the rows
it has loaded and stages the rows as changed. The registration of what an
extraction found has an action for each look that finds nothing (`LookUp`) and for
each save (`SaveFound`, or `Overwrite` when the caller asked for it), with commits of
others between any two, because each statement of a READ COMMITTED transaction has
a snapshot of its own: `LookUp` sees the table at `get_current`
(`services/requirement_service.py:142`), `SaveFound` at the second one in
`save_generation` (`db/repositories/proposals.py:133`). An extraction may find one
reference twice; a session sees the rows it has inserted itself (`GetCurrent`).
`Commit` is the flush with its two
ways to fail, `StaleRow` and `BreaksUniqueIndex`; `Rollback` is every failure.
`Written` keeps SQLAlchemy's rule that an UPDATE writes only the columns that
changed: a supersede writes `is_current` and leaves the version alone.

Decisions the model rests on:

* An export's marking reads all its rows at one instant, as the code's one SELECT
  does (`services/export_service.py:228-239`). A registration flushes each save, and a request for a
  row or an index entry it has flushed waits for it; in the model that request may
  go first, and then the registration fails, which commits nothing the code could
  not.
* A client gets the changed row back in the answer to its own request. That
  equals a later `Open`, so a request leaves `view` as it was and the client opens
  the row again; one that does not open it is looking at an older version, which is
  a state the code must tolerate anyway.
* `NoText` stands for NULL, for the empty string and for white space: each
  place in the code that looks at wording strips it first or tests for truth.
* `signed` is an auxiliary column: the wording that the approver had on screen.
  `known` of a session is auxiliary too: the rows there were when a registration
  began. Nothing reads them but properties.
* Regenerating or registering with overwrite discards drafted work. That is
  documented (`routers/requirements.py:51-53`) and no property forbids it.
* The CHECK constraint `approved_requires_reviewer` (`db/models/proposal.py:99-102`)
  is never what stops a commit: `SignatureIsAccountable` implies it.

### SignOff

An answer is open, signed or shipped; a client signs, withdraws or rewrites
only an answer it has before it exactly as it stands; nothing else is possible.
`Proposals` implements it with `words` = the final text, `by` = the reviewer
of a signed-off row and `stage` from the status: the sessions, the versions and
the index are gone, so the refinement says that concurrency adds no decision
and takes none away.

### ExportGate

`job` is each export: *counting* after the first count, *listing* after the
second passed the gate, *rendering* with the lines of the list, *marking* with a
session that is to freeze the approved ones, *sending* once that has committed.
Each of the three reads is an action of its own, because each statement of a READ
COMMITTED transaction has its own snapshot. `Abandon` is a renderer that raises
or a process that is killed. `signatures` and `shipped` are histories, `disturbed`
tells whether anybody else committed while the export ran. The list is the first
`MaxListed` rows in the order of their references (`limit=10_000` in the code); the
gate's two counts have no limit.

### Ingestion

`rows`, `index` and `queue` are the three stores; `old` is whether a row has
not been written for `STALE_AFTER_SECONDS`; `task` is what each worker executes,
step by step; `upload`, `sweep` and `deletion` are the requests and the periodic
task between two of their steps. `UploadStep`, `Progress`, `Sweeping` and
`Deleting` are the code without failures, `Failure` and the other failure
actions what may befall it. A failure needs its kind in `Faults` and counts
towards `MaxFaults`, except a dying request, of which there is any number.

* External behaviour modelled from use: Celery (a late acknowledgement
  redelivers the job of a lost worker; `self.retry(exc=exc)` raises `exc` when the
  retries are spent; a retry whose publication fails rejects the job), Redis
  without persistence (`src/docker-compose.yml:43`), PostgreSQL's unique
  constraint (a second INSERT of a key waits for the first).
* A status write is one step. The code loads the row and then updates the one
  column; a deletion that commits in between changes another column, so the row
  ends up deleted in either order.
* `Fresh` gives a new document an id that nothing in the system refers to, as a
  random UUID would be.
* `history` is auxiliary: it tells whether two executions of the document's jobs
  ever overlapped, whether its vectors were purged by a deletion, with
  (`raced`) or without (`purged`) work in flight, and whether a job of it was
  ever lost: dropped by the broker, ended with its fetch retries spent, or
  ended without its final status write (`lost`).

### Chunking

One file goes through `ChooseStrategy` (`probe_pdf` and the choice it leads to),
`Partition` (the external parser, which for a strategy returns the file's blocks
or nothing, and the conversion of blocks to elements), `TakeElement` for every
element, `LastFlush`, `Merge` for every chunk and `Finish`. A chunk's body says
which pieces of which elements it holds and in which order, so that loss, doubling
and reordering can be told; `clause`, `split`, `kind` and `page` are what the code
decides on. Cutting is by length only: that a cut prefers a paragraph or a
sentence end within one text is left out. Languages, quality figures and
normalisation are too. Whether a clause opens a chunk is matched on the joined text:
a number by itself (`label`) opens one when something follows it (`OpensClause`).
`Partition` reads what the strategy reads: of a text PDF the pages with a text
layer, so `elements` is what was parsed and not what is printed on the pages, and
the properties speak of that.

### Extraction

`document`, `index` and `length` are what the requests see of ingestion, which
goes on beside them. `job` is every copy of the document's job that delivery, retry
or the sweep may put at the broker; each is executed by a worker of its own, so any
number overlap: `Report`, `Purge`, `UpsertBatch`, `ReportReady`, `Record`, and
`Stops` (a retry, a lost worker, a refused retry, a lost outcome) or `Fails`. A
deletion purges, hides the row or dies in between (`DeleteVectors`, `HideRow`,
`DeletionDies`). A run asks, scrolls by point id, slices, proposes and is done or
fails, each step an action; `seen` is what `_absorb` has filed, compared by
`DedupeKey`. `RefKey` and `TextKey` stand for what the code compares of a reference
and a wording: both normalised, the wording cut at 200 characters. The model's
proposals are any sequence over `Menu`, in which a reference, a wording or a source
may be missing, invented or used before. A source occurs at given places; it may
run from a chunk into the next and no further. `quoted`, `raced` of a run and
`tangled` are auxiliary; `tangled` is whether executions of the job have overlapped,
or a deletion has purged beside one, since a job last began alone. The mandatory
flag, its modal verbs and the order of the result are not modelled. What becomes of
the requirements found is in `Proposals`.

### Answering

`Search` returns any ranking of chunks that satisfy the filter; `Rerank` any
order and scores, or, when the reranker fails, the first of the search's own;
`Answer` any answer of `Contents` and does what the chain does with it:
abstain, or resolve the citations, measure the coverage and choose the verdict; an
empty answer is a draft that keeps its citations. `Save` writes the row; `Fail` is an exception anywhere. An answer is
a sequence of blocks, each with its halves of sentences and its raw citations,
because the API cuts blocks where citations begin and end, in the middle of
sentences too. What the API promises of an answer is `TextAssumption`: its blocks
hold its text in order, and a citation has words to stand on. Percentages are
integers. The confidence that is stored with a draft is not modelled: nothing in the
repository decides anything by it.

### Sessions

`jar` is the browser's cookies, `call` the requests of its tabs, `refreshing` the
refresh a tab's calls share, `form` a sign-in or sign-out on its way. Every
request and every answer is a step of its own, and cookies are read when a request
is sent and written when its answer arrives, whoever sent it. Time is what is left
of each life (`Tick`), in units of which an access token has `AccessTTL`. The
limiter counts the attempts at each endpoint by itself (`attempts`). That a sign-in
is refused stands for a wrong password, for an inactive user and for an inactive
tenant (`services/auth_service.py:169`); a refresh looks at the user only, and
`account.active` is what both look at. `calm`
remembers that nothing has happened that may end the session: no sign-out, no
change of the account, no lost or limited refresh, no expired refresh token, no
refresh or repeated call that took a whole tick. `heldAgo` remembers how long ago
the user, active, had each role.

## 4. Runs

Deadlock is checked in every run in which something can always happen: not in
those of `Chunking`, `Extraction` and `Answering`, which end.

| Run | What it asks | Instance |
|---|---|---|
| `decisions` | signatures, accountability, versions, lost decisions, the refinement of `SignOff` | one requirement, a manager and an expert, two sessions, one row, two wordings, every outcome of generation |
| `supersede` | one live end of one chain of versions, lost decisions, finality of exports, known rows survive an extraction | one requirement, one manager, a row and two successors, decisions, extraction and generation racing |
| `export_gate` | only signed words leave; completeness, recording and repeatability of a quiet export; marking order; refinement of `Proposals` | one export of a mandatory and an optional requirement, two wordings, two sessions, no notes |
| `documents` | READY is indexed; a deletion nothing races is final; a transient row has a job unless one was lost | one document with text, without or that cannot be read, two workers, sweeps, a deletion, every kind of failure, two failures |
| `settles` | every upload ends; one live row per content | two uploads of the same bytes, one worker, deletions, one failure of the kinds the design repairs, fair |
| `matrix` | neighbours are read together; what is loaded is whole unless the document was not READY throughout or executions overlapped; what was quoted is found once | one run over three chunks of three layouts, scrolled in pages of two; two copies of the job, a deletion; six kinds of proposals, two per run |
| `grounding` | scope and attribution of evidence; what VERIFIED means | one request; two tenants, two workspaces, five chunks that come and go, three scores; two sentences cut in every way, with six kinds of citation |
| `sessions` | no call hangs, none is refused while calm, a role is recent | two calls of one tab, two roles, a limit of two, fair |
| `chunks` | nothing that was parsed is lost, moved or glued; boundaries hold; pages are right | every PDF of three blocks of twelve shapes or four texts of seven, on two pages; scans, sheets, others |
| `unreadable`, `partial`, `pages` | see section 5 | |

Bounds, and why they are enough. `MaxVersion` bounds the version column: at least
one decision before and one after each of the others takes part. Two sessions:
every race in this code is between one flush and another commit, and a third
session can only repeat one of them. One to three ids: a row, its successor, and
that one's; a run whose ids are used up can produce no more rows, and goes on
deciding. `decisions` has one id, so no regeneration of its row, and `supersede` one
client, so no second reviewer: what these do together is left to the theorems, which
have any number of both. `MaxListed` stands for the 10,000 of the code; in
`export_gate` it is 2, as many as the requirements, and the theorem has any value. `Batches` = 2 is the least number with a state between two upserts,
`MaxRetries` = 1 the least with both a retry and exhausted retries. Two failures
are the least that exhaust the retries of one job, and allow a failure while
another is repaired. `MaxJobs` = 1 lets the sweep add a job beside one that is
running; the sweep waits while any job of the document is queued, and nothing else
is bounded by it. TLC runs one export; what several exports do to each other is
left to the theorems, which hold for any number. Symmetry is used for ids,
sessions, documents, uploads and workers, which the actions never tell apart, and
only in runs without liveness; clients have different roles and are not symmetric.

`matrix` has three chunks, the least number with two overlapping windows, a page
of the scroll that is not the last, and a span across the boundary; ids out of
document order; two proposals, the least that collide, among a reference in two
spellings and wordings of it that do and do not begin alike. Two copies of the job
are the least that overlap, and runs share nothing but the index. `partial` has one
copy. `grounding` has one chunk
for each reason to be in or out of scope, and requests share only the index, which
each reads once. `sessions` has an access token of one tick and a refresh token of
two, so that the first expires within the second, and two calls, so that one waits
for the refresh the other began. In `chunks` texts lie just below and above each
threshold (`Stray`, `MinChunk`, `ChunkSize`, `MaxChunk`), and four texts in a row
are enough for a flush, an overlap and a fold.

Fairness. In `Ingestion` a worker goes on while it can (`Progress`), a request
that has flushed its row commits, the clock passes the staleness limit, and beat
runs the sweep. Celery, PostgreSQL, the clock and the beat schedule
(`workers/celery_app.py:34`) justify these. Uploads, deletions and failures are
never forced. In `Sessions` a request that was sent is answered, by the server or
as lost, and its answer is handled: sockets end and promises settle. Nobody has to
call, sign in or sign out, and time need not pass. Safety needs no fairness.

## 5. What the code does differently from what it says

Each of these is a run that TLC ends with a counterexample. `PROJECT.json`
("findings") quotes the line that says otherwise.

| Run | What happens |
|---|---|
| `unreadable` | Exhausted fetch retries never reach the handler that would record FAILED; the sweep queues the document for ever. |
| `partial` | The status is looked at once and nothing says what the index holds: a deletion beside the running job leaves READY over the batches upserted after its purge, and a job executed again after the check purges what is being scrolled. Either way the requirements of a part of the document are registered. |
| `pages` | All parts of a cut text are cited at the page of its first real element, also parts whose words are on later pages. |

Smaller divergences, seen while reading and not given a run.

Review, export and ingestion:

* Decisions on a superseded row can bring its version level with its successor's,
  so version numbers do not order the history; `HistoryIsAChain` follows the links.
* A superseded row still accepts decisions and edits: the supersede leaves its
  version and the lookup is by id (`db/repositories/proposals.py:126-127`).
* Rejected, sent back to review and approved: the text need not change in between
  (`services/review_service.py:49-52`).
* A revocation between the export's count and its list: the file leaves with a
  mandatory line unanswered, where `src/ARCHITECTURE.md:343-344` calls the gate
  fail-closed.
* A deletion during ingestion leaves chunks of a deleted document in the index
  (`routers/documents.py:193-196`).
* The bytes of a failed document are answered with the failed document, though
  `workers/tasks/ingest.py:74-75` wants the customer to upload them again.
* A rewrite keeps the citations of the words it replaced and is approved on them
  without a note; the grounding verdict is not looked at when approving.
* An extraction skips a requirement that has a row (`services/requirement_service.py:146`,
  "must never discard a drafted or approved answer"), but saving one that has none
  looks again (`db/repositories/proposals.py:133`): an answer that commits between
  the two looks is superseded by an unanswered row, without overwrite.
  `KnownRowsSurvive` is what remains true, of the rows from before the registration.
* An export lists at most 10,000 rows (`services/export_service.py:182`) and its gate
  counts all: a larger register leaves truncated, without a word, where
  `exports/compliance_matrix.py:3-8` says "Every requirement in the tender".
  `QuietFileIsComplete` speaks of registers that fit.
* A rewrite while the file is rendered makes the marking skip the row, and the
  words sent are kept nowhere; `QuietFileIsRecorded` speaks of exports that nothing
  disturbs.
* A job whose upload never commits indexes a document without a row. A document
  that fails between two upserts leaves chunks that search still finds.
* A lost job leaves the row in a transient status that nothing repairs, since the
  sweep selects only UPLOADED rows; `TransientHasAJob` makes that the only way.
* A sweep does not touch the row it queues, so the next one queues it again.
* The bytes of a deleted document are refused by the unique constraint.
* The diagram at `db/models/enums.py:116` sends an edited row to DRAFT where the
  code sends an approved one to PENDING_REVIEW and leaves others;
  `db/models/proposal.py:56-59` calls an edit a new immutable row where `apply_edit`
  writes in place; `services/document_service.py:54-55` names a retention job that
  does not exist; the soft time limit is an `Exception`, so inside the pipeline it
  is a retryable failure (`ingestion/pipeline.py:115`) and not the FAILED of
  `workers/tasks/ingest.py:106-111`.

Chunking:

* A table above the ceiling whose markup has one row yields no chunk at all;
  `ContentIsKept` leaves it out and says so.
* One strategy is chosen for a whole PDF by the mean length of its sampled pages
  (`ingestion/parsers/pdf_probe.py:79-82`): of "a born-digital cover letter" with
  "scanned annexes" (:67-68) the annexes leave no element when the letter has text
  enough. `ContentIsKept` speaks of the elements, hence of what was parsed.
* A piece that is still too long after `_recursive_split` is not split again.
* A small chunk is folded into one that stands under another heading; a heading
  before a clause stays a tiny chunk of its own.
* With 11 to 19 pages the sampling step is 1, so that only the first ten are
  looked at, where the comment speaks of pages spread over the document.

Extraction:

* A span that runs over two chunks is attributed to the first chunk of the window,
  be it one of the two or not (`rag/chains/extract_requirements.py:377-383`), and
  with it the page that the matrix shows.
* Of one reference with two wordings both are found. When they are registered, the
  second is skipped, because the first has a row by then, or with overwrite
  supersedes it. Of one reference and one wording the first stands, so a later
  window's verdict that it is mandatory is dropped.
* A document whose executions overlap, or that is deleted beside its job, may be
  READY over a part of its chunks, as long as nothing ingests it again; `LoadedWhole`
  leaves such documents out, the run `partial` does not.
* Loading stops at `_MAX_CHUNKS` in the order of hashed ids, before sorting: a
  longer document loses chunks in its middle.

Answering:

* The sentinel with a citation that does not resolve, and an empty answer, become
  drafts (`rag/chains/answer_requirement.py:263` expects an abstention).
* A request without a workspace searches all of them, where the docstring says
  global only.
* Evidence deleted between search and save is still cited.
* When the reranker fails, the threshold is compared with the fused score.

Sessions:

* `/auth/me` is never sent again after a refresh, and `proxy.ts` redirects when the
  access cookie is gone though the refresh token is good; `session-guard.tsx:14-15`
  says that a refresh was tried first. The cookie's age is the token's, so
  `client.ts:121` ("access cookie is still present") describes a moment only.
* A refresh that ends after a sign-out sets the cookies again.
* Changes are sent again after a network error or a 5xx and may be applied twice;
  the branch for 429 in `shouldRetry` is never reached.

## 6. Proofs

Assumptions: the named `ASSUME`s of the modules, and nothing else. They say that
the reserved values are not among the ordinary ones, that roles are roles, that
an abstaining outcome has no words, that bounds are numbers and functions have
their domains, that a span lies in one chunk or two neighbours, that the API
begins a block where citations begin or end, that the blocks of an answer hold
its text in order, that an access token does not outlive a refresh token, what
the sizes and the parser of `Chunking` have in common (below), and (where sets
are counted) that they are finite. Any number of clients, sessions, rows,
requirements, wordings, exports, documents, workers, batches, retries, failures,
runs, chunks, requests, tabs and calls is allowed.

`ProposalsProofs`. The properties are not inductive. `Inv` adds to the types what
a session holds: every loaded row is older than or the same as the committed one,
and at the same version has the same content; every staged row is a sound
successor of the loaded one; and whatever is signed off, committed or staged, is
covered and accountable. The lemmas go handler by handler: each stages a sound row
(`ReviewedIsDecided`, `RewrittenIsDecided`, `ExportedIsDecided`, `SavedIsSound`),
and one lemma says what it means to stage one in a session that may hold others
already (`StageKeepsInv`). `Commit` is the
hard case: `CommitStepsRow` shows that each row either keeps its content or moves
from exactly what the session had loaded, because the version check makes loaded
and committed content equal. From `Inv` follow `TypeOK`, `VersionNamesContent`,
`SignatureCoversText`, `SignatureIsAccountable`, and the action properties
`NoDecisionLost` and `ExportedIsFinal`.

The second part of `ProposalsProofs` is about versions. A transaction that
supersedes a row was opened on a table that may have changed since, so that one
row is live and that the versions form a chain is no more inductive than before.
`HistoryInv` says of each open transaction that it adds links in pairs (`Extends`):
each row it takes out of its place, committed or its own, has its successor in the
same transaction (`ReplacedHaveSuccessors`), each successor replaces what it names
(`SuccessorsReplace`), and of the rows it inserts for one requirement, one after the
other, one is live (`LiveInsertsDiffer`, `InsertsEndLive`). Of the table it says that
live rows of a requirement do not differ, that a requirement with rows has a live
one, and that superseding and being somebody's previous row are the same thing,
for one successor each. At the commit the unique index gives the first part. The
version check does not give the second: a supersede changes no version, and two
transactions may both have loaded the row while it was live. That both succeed is
excluded because each inserts a live successor, and the index admits one.
`OneRowIsCurrent` and `HistoryFormsAChain` follow; counting the successors takes
the library's facts on finite sets. `KnownInv` adds that a registration has not
changed a row that was there when it began, and that the requirement it has looked
up in vain is not one of these rows'. What it takes out of its place later is a row
of a requirement it has inserted a row for; that a known row of that requirement is
not live then rests on `HistoryInv`. `KnownRowsStay` follows.

`SignOffProofs`. A decision is checked when the request runs and takes effect when
it commits, while the register has it at once. `SignOffInv` carries what was
checked: every open transaction is `Purposeful`, that is, it publishes drafts or
ships signed answers, or it decides for a client who still looks at the version
the session loaded, as a client that waits for an answer does. A registration
publishes from its first look to its last save (`Registers`). With the version
check the row in the table is that row too, so that the commit is the register's
`Sign`, `Withdraw`, `Rewrite`, `Publish` or `Ship`; every other step is `Look` or a
stutter. `ReviewGateImplementsSignOff` is the refinement, from initial states to
initial states and step by step.

`ExportGateProofs`. `ExportStepIsTableStep` shows that every step of the gate is
a step of `Proposals` or leaves its variables alone, hence
`ExportImplementsTable`, and with it everything proved of the table:
`ExportsKeepTheRegister` composes it with the refinement of `SignOff` and with
the history. `GateInv` adds that what an export remembers was signed when it was
listed, and that the session it marks with holds only its own marking.
`OnlySignedWordsEverLeave` follows. `MarkInv` adds three facts: a file never
lists a signed-off row without its words, an export's session marks only rows of
the export's own file, and no other session makes a row exported. A commit that
exports a row is therefore an export's, and `RowsAreMarkedAfterRendering`
follows. `QuietInv` follows an export nobody disturbs from one read to the next
(`Quiet`): what was counted is still the count, once past the gate the gate is
open, the file is what is listed of the table, line by line, the session that marks holds every
approved row, and after its commit every text in the file stands in an exported
row. That equal counts mean equal sets, since the signed-off requirements are
among the mandatory ones, is `EqualCountsOpenTheGate`; that marking keeps the
gate open is `MarkingFreezes`, because an exported row counts as signed off; that
with no more than `MaxListed` requirements all of them are listed is
`FewRowsAreAllListed`, since a row has fewer before it than there are.
`QuietFilesAreComplete`, `QuietFilesAreRecorded` and `ExportsKeepGateOpen`
follow.

`IngestionProofs`. `Inv` adds to the types four facts for each document, which
hold together or not at all. `Transient`: a transient status has a job or a loss.
`Gone`: while a deletion that met no work is under way no worker is on the
document, and once its row is hidden there is no job, no worker and no sweep for
it, so that nothing can write to its index. `Lone`: while its executions have not
overlapped and nobody has deleted it, at most one worker runs on it, and its
`Phase` says what status and index may be at that worker's step; only from the
purge to the last batch is the index partial, and then the status is not READY.
`Unique`: a content has one row, or one upload about to commit one. `Counted`
keeps a worker's batch within `Batches`. Four lemmas carry the cases:
`WorkerProceeds` and `WorkerEnds` say what a step of a worker must preserve,
`WorkersStay` serves every step that moves no worker, and `UntouchedStaysGood` the
documents a step is not about. All five safety properties of the runs follow.

`ChunkingProofs`. Most of it is about the operators, because what a chunk holds is
computed by folds over blocks, pieces and rows. `FoldLeft` is defined with a
function on the sets of indices: `FoldWitness` shows that there is such a function,
and `FoldSteps` that the fold goes through a function of the index whose value at k
is one step from that at k - 1. `UpTo` is induction over the indices for one given
set of them; it comes from the least counterexample (`Least`) and not from the
library's induction, which has an operator for a parameter. On these rest
`TotalOfCat` and `LengthOfCat` (lengths add up), `CarriedIs` (the tail that is
carried is the last of the text, as long as the overlap), `GatheredParts` and
`CutParts` (the parts of a text cover it in order), `ByRowsParts` (every row but the
header is in a part, and the header before it) and `ConvertedElements`. `SplitIsCut`
draws the ways to cut together: the parts begin at the first piece, follow the
text, cover it, and where several texts are cut all but the first are at least as
long as `MinChunk`.

`ChunkingInv` says what the chunks are at each stage. A `Run` of chunks is
`Sound` (pieces lie in their elements, a table is alone and has its header, a
clause comes first), follows the document, and each chunk is `Attributed`: cited
at the page of its first real content, or a part that is not folded on, because
it or the part after it is at least `MinChunk` long; and a clause that
`Continues` in a part began the chunk before. While elements are taken, what is
not `Kept` in the run waits in the buffer (`Chunked`); while chunks are merged,
all that was in the chunks before `next` is in `merged`, and no merged chunk
begins after a chunk to come (`Merging`). The merge is where the four properties
depend on each other: a part without the clause flag may hold the rest of a
clause, and may be folded only into the chunk that began it (`Leads`); a chunk
that is not cited at its own page is folded, if at all, into a long part, and
what comes of it is a part again and is folded no further (`Owed`). `FoldIsRight`
and `AppendIsRight` are the two ways a turn can go. `ChunkingTypes`,
`ChunksKeepContent`, `ChunksKeepBoundaries` and `ChunksAreCited` follow, for any
file, any number of blocks and any sizes with two conditions. `SizesAssumption`
is `MinChunk` <= `Overlap`: the code has 120 and 200
(`semantic_chunker.py:40-43`), and nothing in it says that the one depends on the
other. With a shorter overlap the last part of a text could be folded into a
chunk behind it and give that chunk a page that is not its own; it takes a parser
that yields pages out of order, which the theorem does not exclude and the run
`chunks` does. `ParsersAssumption` is about what the parser yields: a table with
markup is as long as its rows, of which none is empty (a match of `<tr...>` never
is), and a file has page numbers on all its blocks or on none.

`ExtractionProofs`. `Inv` is the types and `Good` of each run. `Good` is what slicing
keeps (`Sliced`: two neighbours that were passed are together in a window or in the
one being filled, which ends with the last chunk) and what proposing keeps (every
item quoted has its key in `seen`, and no two members of `seen` have one key). That a
span which occurs in the window has an anchor (`AnchorsExist`) rests on the lemma
`Least`, drawn from the well-foundedness of <. `NeighboursAreShownWhole` and
`QuotesAreFoundOnce` follow. `LoadInv` is about the scroll. `ReadyIsIndexed` says,
for as long as executions are not `tangled`, that one job at most is under way, that
the document is not READY while it works, that the index is exactly what it has
upserted since its purge, and that under a READY that lasts the index is whole, or
empty once a deletion has begun; `DocumentIsIndexed` takes it through every step of
a job and of a deletion. Until something touches the document a run has then loaded
exactly the chunks whose ids come before its offset (`Undisturbed`, `LoadsWhole`).
`PagesFollow`: the ids of a page come before those of what is left,
since a point before a point of the page has fewer points before it still.
`Truncation`: the cut leaves MaxChunks chunks or all, because numbering a finite
set of numbers by how many lie below is one to one, hence onto.
`DocumentsAreLoadedWhole` follows, for any page size and any order of ids.

`AnsweringProofs`. `Inv` is the types, that every request is `Sound` (its hits lie
in its scope, and a draft is backed by its answer and its hits), and that what is
saved is the request's result. The arithmetic of coverage is a lemma. `EvidenceStaysInScope` and `QuotesAreAttributed` follow, whatever the
model returns. `GradeInv` adds that the evidence an answer is asked for is above
the threshold, and that a result has `Earned` its verdict: a verified one has every
citation resolved, and the coverage of at least `MinCoverage`. The code measures coverage
by the claims that no uncited segment contains, the property by the claims with a
word in a cited block: `UntouchedIsUnsupported` shows that a claim which no cited
block touches lies in one segment, because a cited block between its halves would
have a word there. This is where `TextAssumption` is needed, and so it is a fact
about the API that VERIFIED rests on. `VerifiedAnswersAreGrounded` follows.

`SessionsProofs`. `Inv` is the types, `Recent` and `Quiet`. `Recent`: every token,
in the jar, on a call or on its way, is `Fresh`: the time since the user had its
role and what is left of its life make at most `AccessTTL`; a tick moves one unit
from the second to the first. `Quiet`: while calm the refresh token is good, every
refresh on its way succeeds, and no call has been denied. `RolesAreRecent` and
`CalmSessionsLast` follow.

Model-checked only. `UploadsSettle` and `CallsEnd` are liveness under fairness,
which the proof system does not reach. The three runs of section 5 show violations
and have nothing to prove.

The inductive invariants behind the newest theorems hold on TLC's instances too:
`GradeInv` on that of `grounding`, `KnownInv` on that of `supersede`,
`SignOffInv` on those of `supersede` and `decisions`, `QuietInv` on
`export_gate`, `LoadInv` on `matrix`.

## 7. Not modelled

* Tenancy and row-level security, beyond the filter of `Answering`: the other models
  hold one workspace of one tenant.
* What models and parsers compute: prompts, embeddings, rankings, layouts. Their
  answers are arbitrary within what each is asked for.
* In `Ingestion` a content yields text or does not (`Broken`), can be fetched or
  not (`Unreadable`), and its index is a set of batches; in `Proposals` the
  results of the two chains are constants, `Outcomes` and `Requirements`, of every
  shape they can return. `Chunking`, `Extraction` and `Answering` hold the inside
  of these and are not composed with them: they share the index, of which each
  sees what it reads.
* In `Extraction` the mandatory flag with its modal verbs, the order of the result,
  the two halves of a chunk, languages and token counts; in `Answering` the
  confidence of an answer, token counts and the wording of quotes.
* Registration, the choice between tenants at sign-in, password hashing; every
  limit but the one on credential checks.
* The hard time limit of a task, the sweep's `BATCH_LIMIT`, the result columns
  of a document, the orphaned object of an upload that dies.
* Renderers, object storage, health checks, configuration, migrations and the
  layout of HTTP errors; of the front end polling, bulk drafting and upload
  progress.
