----------------------------- MODULE Extraction -----------------------------
(***************************************************************************)
(* How a tender becomes a list of requirements.                            *)
(*                                                                         *)
(* A request checks that the document is READY, scrolls its chunks out of  *)
(* the index page by page, slices them into windows that overlap by a      *)
(* chunk, asks the language model for the requirements of one window after *)
(* another, and keeps the proposals whose source span is in the window     *)
(* (extract_and_register up to its second transaction, and the             *)
(* RequirementExtractionChain).  Nothing holds the document meanwhile: its *)
(* job may be executed again, by two workers at once, and a user may       *)
(* delete it.  What becomes of the requirements found, one transaction     *)
(* that meets other writers of the same rows, is in Proposals.             *)
(*                                                                         *)
(* Chunks are numbered in document order.  A span is a piece of text the   *)
(* model may quote; where it occurs is a property of the document.  What   *)
(* the model returns is arbitrary.                                         *)
(***************************************************************************)
EXTENDS Integers, FiniteSets, Sequences

CONSTANTS
  Jobs,         \* copies of the document's ingestion job: deliveries, sweeps
  Runs,         \* requests
  N,            \* chunks of the document
  Layouts,      \* lengths its chunks may have
  WindowChars,  \* WINDOW_CHARS
  PageSize,     \* _SCROLL_BATCH
  MaxChunks,    \* _MAX_CHUNKS
  IdRank,       \* the order of the chunks' point ids, hashes of their numbers
  Spans,        \* texts that occur in the document, as _matchable compares them
  At,           \* where each occurs: pairs of its first and its last chunk
  Refs,         \* reference numbers printed in the document
  Texts,        \* wordings the model may give a requirement
  RefKey,       \* _matchable of a reference
  TextKey,      \* the first 200 characters of _matchable of a wording
  Empty,        \* a field the model left empty
  Invented,     \* a span that is not in the document
  Menu,         \* what the model may propose
  MaxProposals  \* bound on the proposals of a run

Chunks   == 1 .. N
Proposal == [ref : Refs \union {Empty}, text : Texts \union {Empty},
             source : Spans \union {Invented, Empty}]

ASSUME ExtractionAssumption ==
  /\ N \in Nat \ {0} /\ PageSize \in Nat \ {0} /\ MaxChunks \in Nat \ {0}
  /\ WindowChars \in Nat /\ MaxProposals \in Nat
  /\ Layouts \subseteq [Chunks -> Nat]
  /\ IdRank \in [Chunks -> Nat]
  /\ \A c, d \in Chunks : IdRank[c] = IdRank[d] => c = d
  /\ At \in [Spans -> SUBSET (Chunks \X Chunks)]
  /\ \A s \in Spans : \A o \in At[s] : o[2] \in {o[1], o[1] + 1}
  /\ Invented \notin Spans /\ Empty \notin Spans \union Refs \union Texts
  /\ Empty # Invented
  /\ DOMAIN RefKey = Refs /\ DOMAIN TextKey = Texts
  /\ Menu \subseteq Proposal

VARIABLES
  document,  \* the document's row, and whether a deletion is under way
  index,     \* the chunks the vector store holds
  job,       \* what has become of each copy of its job
  tangled,   \* auxiliary: see Tangles
  length,    \* the lengths of its chunks
  run        \* what each request is doing

ingestion == <<document, index, job, tangled, length>>
vars      == <<ingestion, run>>

\* A reference is printed in the document or made from the source span.
Reference      == {<<"printed", r>> : r \in Refs} \union {<<"auto", s>> : s \in Spans}
SyntheticRef(s) == <<"auto", s>>

Requirement == [ref : Reference, text : Texts, source : Spans, chunk : Chunks]

\* A job waits at the broker, passes the stages that only report a status,
\* purges, upserts, has READY to record, or is gone; done counts the chunks it
\* has upserted.  "pending" is every status that is not READY.
Job == [step : {"sent", "stages", "purge", "upsert", "record", "ended"}, done : 0 .. N]
Document == [status : {"pending", "ready"}, role : {"tender", "knowledge_base"},
             live : BOOLEAN, deleting : BOOLEAN]

\* offset is where the next page starts; loaded, current and windows are sets
\* of chunks, next the window being read; seen is what _absorb has filed.
\* raced and quoted are auxiliary: something has changed, or could have, in
\* the document's vectors while its chunks were loaded; the references and
\* wordings of what the model quoted.
Run == [at : {"idle", "loading", "slicing", "reading", "found", "refused", "failed"},
        offset : Nat, loaded : SUBSET Chunks,
        sliced : SUBSET Chunks, current : SUBSET Chunks, windows : Seq(SUBSET Chunks),
        next : Nat, proposals : Nat, seen : SUBSET Requirement,
        raced : BOOLEAN, quoted : SUBSET (Reference \X Texts)]
IdleRun == [at |-> "idle", offset |-> 0, loaded |-> {}, sliced |-> {}, current |-> {},
            windows |-> << >>, next |-> 1, proposals |-> 0, seen |-> {},
            raced |-> FALSE, quoted |-> {}]

ExtractTypeOK ==
  /\ document \in Document
  /\ index \subseteq Chunks
  /\ job \in [Jobs -> Job]
  /\ tangled \in BOOLEAN
  /\ length \in Layouts
  /\ run \in [Runs -> Run]

-----------------------------------------------------------------------------
(* The document's ingestion and deletion, which Ingestion models in full. *)

UnderWay(j) == job[j].step \notin {"sent", "ended"}

\* Nothing is written to a row that is not there any more.
SetStatus(status) ==
  document' = IF document.live THEN [document EXCEPT !.status = status] ELSE document

Move(j, step, done) == job' = [job EXCEPT ![j] = [step |-> step, done |-> done]]

\* What has changed concerns the requests that are loading chunks.
Races == run' = [r \in Runs |-> IF run[r].at = "loading"
                                   THEN [run[r] EXCEPT !.raced = TRUE] ELSE run[r]]

\* A job writes the vectors beside another one, or a deletion purges beside a
\* job.  It is over when a job begins with nothing else under way.
Tangles(j) == \E k \in Jobs \ {j} : UnderWay(k)

\* PARSING, CHUNKING, EMBEDDING: whatever the document's status was.
Report(j) ==
  /\ job[j].step \in {"sent", "stages"}
  /\ SetStatus("pending")
  /\ \E step \in {"stages", "purge"} : Move(j, step, 0)
  /\ tangled' = IF job[j].step = "sent" THEN Tangles(j) ELSE tangled
  /\ Races
  /\ UNCHANGED <<index, length>>

Purge(j) ==
  /\ job[j].step = "purge"
  /\ index' = {}
  /\ Move(j, "upsert", 0)
  /\ UNCHANGED <<document, tangled, length, run>>

\* Batches of consecutive chunks.
UpsertBatch(j) ==
  /\ job[j].step = "upsert"
  /\ \E c \in job[j].done + 1 .. N : /\ index' = index \union (job[j].done + 1 .. c)
                                    /\ Move(j, "upsert", c)
  /\ UNCHANGED <<document, tangled, length, run>>

\* The pipeline reports READY, and the task records it once more.
ReportReady(j) ==
  /\ job[j].step = "upsert" /\ job[j].done = N
  /\ SetStatus("ready")
  /\ Move(j, "record", N)
  /\ UNCHANGED <<index, tangled, length, run>>

Record(j) ==
  /\ job[j].step = "record"
  /\ SetStatus("ready")
  /\ Move(j, "ended", N)
  /\ UNCHANGED <<index, tangled, length, run>>

\* A retry, or a lost worker: the job is at the broker again.  Or it ends with
\* nothing written: a retry the broker refused, an outcome that was lost.
Stops(j) ==
  /\ UnderWay(j)
  /\ \E step \in {"sent", "ended"} : Move(j, step, 0)
  /\ UNCHANGED <<document, index, tangled, length, run>>

\* FAILED is recorded.
Fails(j) ==
  /\ job[j].step \in {"stages", "purge", "upsert"}
  /\ SetStatus("pending")
  /\ Move(j, "ended", 0)
  /\ UNCHANGED <<index, tangled, length, run>>

\* Vectors first, then the row; the request may die between the two.
DeleteVectors ==
  /\ document.live /\ ~document.deleting
  /\ document' = [document EXCEPT !.deleting = TRUE]
  /\ index' = {}
  /\ tangled' = (tangled \/ \E j \in Jobs : UnderWay(j))
  /\ Races
  /\ UNCHANGED <<job, length>>

HideRow ==
  /\ document.deleting
  /\ document' = [document EXCEPT !.live = FALSE, !.deleting = FALSE]
  /\ Races
  /\ UNCHANGED <<index, job, tangled, length>>

DeletionDies ==
  /\ document.deleting
  /\ document' = [document EXCEPT !.deleting = FALSE]
  /\ UNCHANGED <<index, job, tangled, length, run>>

-----------------------------------------------------------------------------
(* Reading the document. *)

\* The request is answered; what it remembered is gone.
Ended(at) == [IdleRun EXCEPT !.at = at]

Extractable == document.live /\ document.status = "ready" /\ document.role = "tender"

\* The checks of extract_and_register, in a transaction that then ends.
Ask(r) ==
  /\ run[r].at = "idle"
  /\ run' = [run EXCEPT ![r] = IF Extractable
                                 THEN [IdleRun EXCEPT !.at = "loading", !.raced = tangled]
                                 ELSE Ended("refused")]
  /\ UNCHANGED ingestion

\* Mutant: the page after the one at the offset.
After(offset) == {c \in index : IdRank[c] > offset}

\* The first PageSize points from an offset on, in the order of their ids.
From(offset) == {c \in index : IdRank[c] >= offset}
Page(offset) == {c \in From(offset) :
                   Cardinality({d \in From(offset) : IdRank[d] < IdRank[c]}) < PageSize}

\* collected[:_MAX_CHUNKS], once sorted into document order.
Truncated(S) == {c \in S : Cardinality({d \in S : d < c}) < MaxChunks}

Scroll(r) ==
  /\ run[r].at = "loading"
  /\ LET page == Page(run[r].offset)
         rest == From(run[r].offset) \ page
         all  == run[r].loaded \union page
     IN IF rest # {} /\ Cardinality(all) < MaxChunks
          THEN \E c \in rest :
                 /\ \A d \in rest : IdRank[c] <= IdRank[d]
                 /\ run' = [run EXCEPT ![r].loaded = all, ![r].offset = IdRank[c]]
          ELSE run' = [run EXCEPT ![r] =
                         IF all = {} THEN Ended("refused")
                         ELSE [@ EXCEPT !.loaded = Truncated(all), !.offset = 0,
                                        !.at = "slicing"]]
  /\ UNCHANGED ingestion

\* The characters of a window: a recursive sum over its chunks in order.
Chars(S) ==
  LET sum[n \in 0 .. N] ==
        IF n = 0 THEN 0 ELSE sum[n - 1] + (IF n \in S THEN length[n] ELSE 0)
  IN sum[N]

\* Mutant: windows without overlap.
NoOverlap(S) == {}

\* current[-WINDOW_OVERLAP_CHUNKS:]
Overlap(S) == {c \in S : \A d \in S : d <= c}

\* _build_windows takes the next chunk in document order.
Slice(r) ==
  /\ run[r].at = "slicing"
  /\ \E c \in run[r].loaded \ run[r].sliced :
       /\ \A d \in run[r].loaded \ run[r].sliced : c <= d
       /\ LET current == run[r].current
              full    == current # {} /\ Chars(current) + length[c] > WindowChars
          IN run' = [run EXCEPT
               ![r].sliced  = @ \union {c},
               ![r].windows = IF full THEN Append(@, current) ELSE @,
               ![r].current = (IF full THEN Overlap(@) ELSE @) \union {c}]
  /\ UNCHANGED ingestion

LastWindow(r) ==
  /\ run[r].at = "slicing" /\ run[r].sliced = run[r].loaded
  /\ run' = [run EXCEPT ![r].windows = Append(@, run[r].current), ![r].at = "reading"]
  /\ UNCHANGED ingestion

-----------------------------------------------------------------------------
(* Asking the model. *)

\* Where a span occurs within a window.
Within(s, window) ==
  IF s \in Spans THEN {o \in At[s] : o[1] \in window /\ o[2] \in window} ELSE {}

\* Mutant: a span is looked for in one chunk at a time.
AnchorsInOneChunk(s, window) ==
  {c \in window : <<c, c>> \in Within(s, window) /\ \A d \in window :
                   <<d, d>> \in Within(s, window) => c <= d}

\* _locate: the first chunk of the window that holds the whole span, else the
\* first chunk of the window; none when the window does not have the span.
Anchors(s, window) ==
  LET whole == {o[1] : o \in {p \in Within(s, window) : p[1] = p[2]}}
  IN IF Within(s, window) = {} THEN {}
     ELSE IF whole # {} THEN {c \in whole : \A d \in whole : c <= d}
     ELSE {c \in window : \A d \in window : c <= d}

\* Mutant: an unnumbered item keeps its empty reference.
RefAsGiven(p) == <<"printed", p.ref>>

RefOf(p) == IF p.ref = Empty THEN SyntheticRef(p.source) ELSE <<"printed", p.ref>>

\* _dedupe_key
DedupeKey(ref, text) ==
  <<IF ref[1] = "printed" THEN <<"printed", RefKey[ref[2]]>> ELSE ref, TextKey[text]>>

SeenBefore(r, ref, text) ==
  \E m \in run[r].seen : DedupeKey(m.ref, m.text) = DedupeKey(ref, text)

\* _absorb: a proposal without a text or a source, or whose source does not
\* resolve, is dropped; one that was seen before is skipped.
Kept(p, window) == p.text # Empty /\ Anchors(p.source, window) # {}

Absorbed(r, p, window) ==
  IF ~Kept(p, window) \/ SeenBefore(r, RefOf(p), p.text) THEN run[r].seen
  ELSE run[r].seen \union
         {[ref |-> RefOf(p), text |-> p.text, source |-> p.source,
           chunk |-> CHOOSE c \in Anchors(p.source, window) : TRUE]}

\* The next proposal of the model's answer about the window.
Propose(r) ==
  /\ run[r].at = "reading" /\ run[r].proposals < MaxProposals
  /\ \E p \in Menu :
       LET window == run[r].windows[run[r].next]
       IN run' = [run EXCEPT
            ![r].seen      = Absorbed(r, p, window),
            ![r].proposals = @ + 1,
            ![r].quoted    = @ \union (IF p.text # Empty /\ Within(p.source, window) # {}
                                         THEN {<<RefOf(p), p.text>>} ELSE {})]
  /\ UNCHANGED ingestion

NextWindow(r) ==
  /\ run[r].at = "reading"
  /\ run' = [run EXCEPT
       ![r].next = @ + 1,
       ![r].at   = IF run[r].next = Len(run[r].windows) THEN "found" ELSE @]
  /\ UNCHANGED ingestion

\* A page cannot be fetched, the model is out of reach or refuses: nothing of
\* the run remains.
RunFails(r) ==
  /\ run[r].at \in {"loading", "reading"}
  /\ run' = [run EXCEPT ![r] = Ended("failed")]
  /\ UNCHANGED ingestion

-----------------------------------------------------------------------------
\* The document has been uploaded, and its job sent any number of times.
Init ==
  /\ document \in [status : {"pending"}, role : {"tender", "knowledge_base"},
                   live : {TRUE}, deleting : {FALSE}]
  /\ index = {}
  /\ job = [j \in Jobs |-> [step |-> "sent", done |-> 0]]
  /\ tangled = FALSE
  /\ length \in Layouts
  /\ run = [r \in Runs |-> IdleRun]

JobStep(j) == \/ Report(j) \/ Purge(j) \/ UpsertBatch(j) \/ ReportReady(j) \/ Record(j)
              \/ Stops(j) \/ Fails(j)

RunStep(r) == \/ Ask(r) \/ Scroll(r) \/ Slice(r) \/ LastWindow(r) \/ Propose(r)
              \/ NextWindow(r) \/ RunFails(r)

Next == \/ \E j \in Jobs : JobStep(j)
        \/ DeleteVectors \/ HideRow \/ DeletionDies
        \/ \E r \in Runs : RunStep(r)

Spec == Init /\ [][Next]_vars

-----------------------------------------------------------------------------
(* Properties. *)

\* Whatever piece of the document a run loaded whole, one window shows whole:
\* a clause split between two chunks is never only seen in halves
\* (WINDOW_OVERLAP_CHUNKS).
ShownWhole ==
  \A r \in Runs : run[r].at \in {"reading", "found"} =>
    \A c, d \in run[r].loaded :
      (d \in {c, c + 1}) =>
        \E w \in DOMAIN run[r].windows : c \in run[r].windows[w] /\ d \in run[r].windows[w]

\* A run that gets past loading has the whole document, up to _MAX_CHUNKS,
\* unless the document stopped being READY while its chunks were loaded, or
\* executions of its job had overlapped (Tangles).  Crashes, retries, lost
\* outcomes and deletions that die do not make an exception (_load_chunks).
LoadedWhole ==
  \A r \in Runs : run[r].at \in {"slicing", "reading", "found"} =>
    \/ run[r].raced
    \/ run[r].loaded = Chunks
    \/ Cardinality(run[r].loaded) = MaxChunks

\* What the model quoted from a window it was shown is among the requirements
\* found, once: neither a span that lies across two chunks nor the overlap of
\* the windows loses or doubles it (_locate, _absorb).
QuotedIsFoundOnce ==
  \A r \in Runs :
    /\ run[r].at = "found" =>
         \A q \in run[r].quoted :
           \E m \in run[r].seen : DedupeKey(m.ref, m.text) = DedupeKey(q[1], q[2])
    /\ \A m, n \in run[r].seen :
         DedupeKey(m.ref, m.text) = DedupeKey(n.ref, n.text) => m = n

\* "Running anyway would produce a partial matrix that looks complete": no
\* run ends having read a part of the document only.
NoPartialMatrix ==
  \A r \in Runs : run[r].at = "found" =>
    run[r].loaded = Chunks \/ Cardinality(run[r].loaded) = MaxChunks
=============================================================================
