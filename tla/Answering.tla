------------------------------ MODULE Answering ------------------------------
(***************************************************************************)
(* How one requirement gets a grounded answer, or none (AnswerChain.run    *)
(* and what it calls).                                                     *)
(*                                                                         *)
(* A request searches the index within its tenant, its workspace and the   *)
(* tenant-wide knowledge base, reranks what it found, abstains when the    *)
(* best evidence is weak, asks the language model with the best chunks as  *)
(* search results, resolves every citation of the answer to one of those   *)
(* chunks, measures how many claims carry a citation and saves the draft   *)
(* or the abstention.  Documents come and go in the index meanwhile.       *)
(*                                                                         *)
(* What the search, the reranker and the model return is arbitrary within  *)
(* what each is asked for.  A text is a set of half-sentences: sentence s  *)
(* is the halves 2s - 1 and 2s, and 0 is NOT_FOUND_SENTINEL.               *)
(***************************************************************************)
EXTENDS Integers, FiniteSets, Sequences

CONSTANTS
  Requests,
  Tenants,
  Workspaces,
  Global,       \* GLOBAL_WORKSPACE, the scope of tenant-wide documents
  Chunks,       \* what documents are cut into
  Owner,        \* of each chunk: its tenant,
  Space,        \* its workspace or Global,
  Kind,         \* the role of its document,
  Page,         \* and its page as the parser gave it, or None
  Quotes,       \* passages an answer may quote
  Empty,        \* a citation without a quote
  Unknown,      \* a source that was never supplied
  None,         \* a field that is not there
  Sentences,    \* sentences of an answer, 1 .. Sentences
  Claims,       \* the sentences long enough to be claims
  Contents,     \* what the model may answer: sequences of text blocks
  Scores,       \* relevance, in per cent
  RetrieveK,    \* _RETRIEVE_K
  TopK,         \* chunks shown to the model
  MinScore,     \* min_retrieval_score, in per cent
  MinCoverage   \* min_citation_coverage, in per cent

Halves == 0 .. 2 * Sentences
Raw    == [source : Chunks \union {Unknown, None}, index : Int,
           quote : Quotes \union {Empty}]
Block  == [halves : SUBSET Halves, cites : SUBSET Raw]
Cited(block) == block.cites # {}

ASSUME AnsweringAssumption ==
  /\ Global \notin Workspaces
  /\ IsFiniteSet(Chunks)
  /\ Owner \in [Chunks -> Tenants]
  /\ Space \in [Chunks -> Workspaces \union {Global}]
  /\ Kind \in [Chunks -> {"tender", "knowledge_base"}]
  /\ Page \in [Chunks -> Int \union {None}] /\ None \notin Int
  /\ Unknown \notin Chunks /\ None \notin Chunks /\ Empty \notin Quotes
  /\ Sentences \in Nat /\ Claims \subseteq 1 .. Sentences
  /\ Scores \subseteq 0 .. 200 /\ RetrieveK \in Nat /\ TopK \in Nat \ {0}
  /\ MinScore \in 0 .. 100 /\ MinCoverage \in 1 .. 100
  /\ Contents \subseteq Seq(Block)
  \* The API starts a new block where citations begin or end.
  /\ \A content \in Contents : \A i \in 1 .. Len(content) - 1 :
       Cited(content[i]) \/ Cited(content[i + 1])

VARIABLES
  index,    \* chunks in the vector store
  request,  \* what each request is doing
  saved     \* the result each request has saved

vars == <<index, request, saved>>

Verdicts == {"verified", "partial", "unverified", "not_applicable"}
Citation == [chunk : Chunks, quote : Quotes, page : (Nat \ {0}) \union {None}, relevance : 0 .. 100]
Result   == [status : {"draft", "abstained"}, text : (SUBSET Halves) \union {None},
             citations : SUBSET Citation, verdict : Verdicts, coverage : 0 .. 100]
NoResult == [status |-> "none"]

\* hits are best first; score is that of the chunks last ranked; content is
\* auxiliary, what the model answered.
Request == [at : {"idle", "searching", "ranking", "asking", "saving", "done", "failed"},
            tenant : Tenants \union {None}, workspace : Workspaces \union {None},
            hits : Seq(Chunks), score : Seq(Scores), content : Contents \union {None},
            result : Result \union {NoResult}]
IdleRequest == [at |-> "idle", tenant |-> None, workspace |-> None, hits |-> << >>,
                score |-> << >>, content |-> None, result |-> NoResult]

AnswerTypeOK ==
  /\ index \subseteq Chunks
  /\ request \in [Requests -> Request]
  /\ saved \in [Requests -> Result \union {NoResult}]

-----------------------------------------------------------------------------
(* The search. *)

\* Documents are ingested and purged, a chunk standing for its document.
Ingest(c) == index' = index \union {c} /\ UNCHANGED <<request, saved>>
Purge(c)  == c \in index /\ index' = index \ {c} /\ UNCHANGED <<request, saved>>

Ask(q) ==
  /\ request[q].at = "idle"
  /\ \E t \in Tenants, w \in Workspaces :
       request' = [request EXCEPT ![q].at = "searching", ![q].tenant = t, ![q].workspace = w]
  /\ UNCHANGED <<index, saved>>

\* Mutant: tender documents are evidence as well.
WithTenders(tenant, workspace) ==
  {c \in index : Owner[c] = tenant /\ Space[c] \in {workspace, Global}}

\* build_search_filter as retrieve calls it.
Searched(tenant, workspace) ==
  {c \in index : /\ Owner[c] = tenant
                 /\ Space[c] \in {workspace, Global}
                 /\ Kind[c] # "tender"}

\* n of a set, ordered somehow.
Rankings(S, n) == {s \in [1 .. n -> S] : \A i, j \in 1 .. n : s[i] = s[j] => i = j}
Lesser(a, b)   == IF a < b THEN a ELSE b

\* Best first, none better than the one before.
Ranked(n) == {s \in [1 .. n -> Scores] : \A i \in 1 .. n - 1 : s[i] >= s[i + 1]}

Abstention ==
  [status |-> "abstained", text |-> None, citations |-> {},
   verdict |-> "not_applicable", coverage |-> 0]

\* retrieve: the fused order of both arms.  Chunks of another tenant would
\* fail the request, and nothing found is an abstention.
Search(q) ==
  /\ request[q].at = "searching"
  /\ LET found == Searched(request[q].tenant, request[q].workspace)
         n     == Lesser(RetrieveK, Cardinality(found))
     IN \E hits \in Rankings(found, n) :
          request' = [request EXCEPT ![q] =
            IF \E i \in 1 .. n : Owner[hits[i]] # @.tenant THEN [@ EXCEPT !.at = "failed"]
            ELSE IF n = 0 THEN [@ EXCEPT !.at = "saving", !.result = Abstention]
            ELSE [@ EXCEPT !.at = "ranking", !.hits = hits]]
  /\ UNCHANGED <<index, saved>>

\* The reranker chooses and scores the best TopK, or is unavailable and the
\* fused order and its scores stand; then the evidence threshold.
Rerank(q) ==
  /\ request[q].at = "ranking"
  /\ LET hits == request[q].hits
         n    == Lesser(TopK, Len(hits))
         fused == [i \in 1 .. n |-> hits[i]]
     IN \E best \in Rankings({hits[i] : i \in 1 .. Len(hits)}, n) \union {fused},
           score \in Ranked(n) :
          request' = [request EXCEPT ![q] =
            IF score[1] < MinScore
              THEN [@ EXCEPT !.at = "saving", !.result = Abstention, !.hits = best]
              ELSE [@ EXCEPT !.at = "asking", !.hits = best, !.score = score]]
  /\ UNCHANGED <<index, saved>>

-----------------------------------------------------------------------------
(* The answer: citation_mapper.py and verifier.py. *)

Supplied(hits) == {hits[i] : i \in 1 .. Len(hits)}

\* Mutant: the position decides.
ResolvedByIndex(raw, hits) ==
  IF raw.quote # Empty /\ raw.index + 1 \in 1 .. Len(hits) THEN {hits[raw.index + 1]} ELSE {}

\* _resolve: the chunk a citation names; its position only counts when it
\* names none.
Resolved(raw, hits) ==
  IF raw.quote = Empty THEN {}
  ELSE IF raw.source \in Supplied(hits) THEN {raw.source}
  ELSE IF raw.source = None /\ raw.index + 1 \in 1 .. Len(hits)
    THEN {hits[raw.index + 1]}
  ELSE {}

\* Mutant: the page as it is.
PageAsParsed(c) == Page[c]

\* _valid_page, _clamp
ValidPage(c) == IF Page[c] # None /\ Page[c] < 1 THEN None ELSE Page[c]
Clamp(score) == Lesser(score, 100)

ScoreOf(c, r) == r.score[CHOOSE i \in 1 .. Len(r.hits) : r.hits[i] = c]

Blocks(content) == {content[i] : i \in 1 .. Len(content)}
RawCitations(content) == UNION {b.cites : b \in Blocks(content)}
TextOf(content) == UNION {b.halves : b \in Blocks(content)}

\* The blocks of an answer cut its text: they hold it in order, and citations
\* are citations of words.
CutsText(content) ==
  /\ \A i, j \in 1 .. Len(content) : i < j =>
       \A h \in content[i].halves, k \in content[j].halves : h < k
  /\ TextOf(content) # {} =>
       \A b \in Blocks(content) : Cited(b) => b.halves # {}

ASSUME TextAssumption ==
  \A content \in Contents : 0 \in TextOf(content) \/ CutsText(content)

\* map_citations: one citation for each chunk and quote.
Citations(content, r) ==
  UNION {{[chunk |-> c, quote |-> raw.quote, page |-> ValidPage(c),
           relevance |-> Clamp(ScoreOf(c, r))] : c \in Resolved(raw, r.hits)}
         : raw \in RawCitations(content)}
Rejected(content, r) == \E raw \in RawCitations(content) : Resolved(raw, r.hits) = {}
UncitedSegments(content) == {b.halves : b \in {x \in Blocks(content) : ~Cited(x)}}

Halved(s) == {2 * s - 1, 2 * s}
ClaimsOf(content) == {s \in Claims : Halved(s) \subseteq TextOf(content)}

\* Mutant: every claim counts as supported.
NeverUnsupported(content) == {}

\* _is_unsupported: the sentence lies within one uncited segment.
Unsupported(content) ==
  {s \in ClaimsOf(content) : \E segment \in UncitedSegments(content) : Halved(s) \subseteq segment}

\* Supported claims out of all, in per cent; 0 when there are none.
Coverage(content) ==
  LET total == Cardinality(ClaimsOf(content))
  IN IF total = 0 THEN 0
     ELSE (100 * (total - Cardinality(Unsupported(content)))) \div total

\* verify, once rejected citations and declared gaps are out of the way.
Verdict(content, r) ==
  LET coverage == Coverage(content)
  IN IF Citations(content, r) = {} THEN "unverified"
     ELSE IF coverage >= MinCoverage THEN "verified"
     ELSE IF coverage > 0 THEN "partial" ELSE "unverified"

Draft(content, r, verdict, coverage) ==
  [status |-> "draft", text |-> TextOf(content), citations |-> Citations(content, r),
   verdict |-> verdict, coverage |-> coverage]

\* A citation that does not resolve spoils the answer, before anything else is
\* looked at; a declared gap, alone or not, is an abstention; no text is not, and
\* keeps its citations.
Grounded(content, r) ==
  IF Rejected(content, r) THEN Draft(content, r, "unverified", 0)
  ELSE IF 0 \in TextOf(content) THEN Abstention
  ELSE IF TextOf(content) = {} THEN Draft(content, r, "unverified", 0)
  ELSE Draft(content, r, Verdict(content, r), Coverage(content))

\* A refusal is an answer without blocks.
Answer(q) ==
  /\ request[q].at = "asking"
  /\ \E content \in Contents :
       request' = [request EXCEPT ![q] =
         [@ EXCEPT !.at = "saving", !.content = content, !.result = Grounded(content, request[q])]]
  /\ UNCHANGED <<index, saved>>

\* The search or the model is out of reach, or rejects the request.
Fail(q) ==
  /\ request[q].at \in {"searching", "asking"}
  /\ request' = [request EXCEPT ![q].at = "failed"]
  /\ UNCHANGED <<index, saved>>

\* save_generation, in a transaction of its own (Proposals has the rest of it).
Save(q) ==
  /\ request[q].at = "saving"
  /\ saved' = [saved EXCEPT ![q] = request[q].result]
  /\ request' = [request EXCEPT ![q].at = "done"]
  /\ UNCHANGED index

-----------------------------------------------------------------------------
Init ==
  /\ index \in SUBSET Chunks
  /\ request = [q \in Requests |-> IdleRequest]
  /\ saved = [q \in Requests |-> NoResult]

Next ==
  \/ \E c \in Chunks : Ingest(c) \/ Purge(c)
  \/ \E q \in Requests :
       Ask(q) \/ Search(q) \/ Rerank(q) \/ Answer(q) \/ Fail(q) \/ Save(q)

Spec == Init /\ [][Next]_vars

-----------------------------------------------------------------------------
(* Properties. *)

\* A saved answer cites only chunks of its own tenant, from its workspace or
\* the tenant-wide knowledge base, never the tender, and only chunks the model
\* was shown, whatever the model says it cites.
EvidenceInScope ==
  \A q \in Requests : saved[q].status = "draft" =>
    \A citation \in saved[q].citations :
      LET c == citation.chunk
      IN /\ c \in Supplied(request[q].hits)
         /\ Owner[c] = request[q].tenant
         /\ Space[c] \in {request[q].workspace, Global}
         /\ Kind[c] = "knowledge_base"

\* A quote is attributed to the chunk the answer named for it; the position
\* speaks only for a citation that names none.
AttributedAsCited ==
  \A q \in Requests : saved[q].status = "draft" =>
    \A citation \in saved[q].citations :
      \E raw \in RawCitations(request[q].content) :
        /\ raw.quote = citation.quote
        /\ IF raw.source = None THEN request[q].hits[raw.index + 1] = citation.chunk
                                ELSE raw.source = citation.chunk

\* VERIFIED means that every citation resolved and that at least MinCoverage
\* per cent of the claims have a word in a block with a citation.
VerifiedIsGrounded ==
  \A q \in Requests :
    saved[q].status = "draft" /\ saved[q].verdict = "verified" =>
      LET content == request[q].content
          backed  == {s \in ClaimsOf(content) : \E b \in Blocks(content) :
                        Cited(b) /\ b.halves \cap Halved(s) # {}}
      IN /\ \A raw \in RawCitations(content) : Resolved(raw, request[q].hits) # {}
         /\ backed # {}
         /\ 100 * Cardinality(backed) >= MinCoverage * Cardinality(ClaimsOf(content))

=============================================================================
