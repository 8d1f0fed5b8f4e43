--------------------------- MODULE AnsweringProofs ---------------------------
(***************************************************************************)
(* Theorems about Answering, for any corpus, any number of requests and    *)
(* whatever the search, the reranker and the model return.                 *)
(***************************************************************************)
EXTENDS Answering, FiniteSetTheorems, TLAPS

-----------------------------------------------------------------------------
(* What the operators of the answer return. *)

LEMMA CoverageIsAShare ==
  ASSUME NEW content
  PROVE  Coverage(content) \in 0 .. 100
<1> DEFINE total == Cardinality(ClaimsOf(content))
           bare  == Cardinality(Unsupported(content))
<1>1. /\ IsFiniteSet(ClaimsOf(content))
      /\ Unsupported(content) \subseteq ClaimsOf(content)
  <2>1. IsFiniteSet(1 .. Sentences)
    BY AnsweringAssumption, FS_Interval
  <2>2. ClaimsOf(content) \subseteq 1 .. Sentences
    BY AnsweringAssumption DEF ClaimsOf
  <2> QED
    BY <2>1, <2>2, FS_Subset DEF Unsupported
<1>2. total \in Nat /\ bare \in Nat /\ bare <= total
  BY <1>1, FS_Subset, FS_CardinalityType
<1>3. ASSUME total # 0
      PROVE  (100 * (total - bare)) \div total \in 0 .. 100
  <2> DEFINE a == 100 * (total - bare)
             q == a \div total
  <2>1. total > 0 /\ a \in Nat /\ a <= 100 * total
    BY <1>2, <1>3
  <2>2. q \in Int /\ a >= total * q /\ a < total * q + total
    BY <2>1, <1>2
  <2>3. q >= 0
    <3> SUFFICES ASSUME q <= -1 PROVE FALSE
      BY <2>2
    <3>1. total * q <= -total
      BY <1>2, <2>1, <2>2
    <3> QED
      BY <2>1, <2>2, <3>1, <1>2
  <2>4. q <= 100
    <3> SUFFICES ASSUME q >= 101 PROVE FALSE
      BY <2>2
    <3>1. total * q >= total * 101
      BY <1>2, <2>1, <2>2
    <3> QED
      BY <2>1, <2>2, <3>1, <1>2
  <2> QED
    BY <2>2, <2>3, <2>4
<1> QED
  BY <1>3 DEF Coverage

LEMMA VerdictType ==
  ASSUME NEW content, NEW r
  PROVE  Verdict(content, r) \in Verdicts
BY DEF Verdict, Verdicts

-----------------------------------------------------------------------------
(* What a request may know, and what is attributed to whom. *)

InScope(c, r) == /\ Owner[c] = r.tenant
                 /\ Space[c] \in {r.workspace, Global}
                 /\ Kind[c] = "knowledge_base"

\* Some citation of the answer names the chunk, or stands at its place.
Named(citation, r) ==
  \E raw \in RawCitations(r.content) :
    /\ raw.quote = citation.quote
    /\ IF raw.source = None THEN r.hits[raw.index + 1] = citation.chunk
                            ELSE raw.source = citation.chunk

Backed(citation, r) == /\ citation.chunk \in Supplied(r.hits)
                       /\ InScope(citation.chunk, r)
                       /\ Named(citation, r)

\* Every chunk at hand is in scope; the scores are those of the chunks; a
\* draft is backed by what was at hand.
Sound(r) ==
  /\ r.at \in {"searching", "ranking", "asking", "saving", "done"}
       => r.tenant \in Tenants /\ r.workspace \in Workspaces
  /\ \A c \in Supplied(r.hits) : InScope(c, r)
  /\ r.at \in {"ranking", "asking"} => Len(r.hits) >= 1
  /\ r.at = "asking" => Len(r.score) = Len(r.hits)
  /\ r.at \notin {"saving", "done"} => r.result = NoResult
  /\ r.at = "idle" => r.hits = << >>
  /\ r.result.status = "draft" => \A citation \in r.result.citations : Backed(citation, r)

Inv == /\ AnswerTypeOK
       /\ \A q \in Requests : Sound(request[q])
       /\ \A q \in Requests :
            saved[q] # NoResult => request[q].at = "done" /\ saved[q] = request[q].result

-----------------------------------------------------------------------------
(* The citations of an answer. *)

LEMMA RawCitationType ==
  ASSUME NEW content \in Contents, NEW raw \in RawCitations(content)
  PROVE  raw \in Raw
<1>1. content \in Seq(Block)
  BY AnsweringAssumption
<1>2. PICK i \in 1 .. Len(content) : raw \in content[i].cites
  BY DEF RawCitations, Blocks
<1>3. content[i] \in Block
  BY <1>1
<1> QED
  BY <1>2, <1>3 DEF Block

LEMMA TextType ==
  ASSUME NEW content \in Contents
  PROVE  TextOf(content) \subseteq Halves
<1>1. content \in Seq(Block)
  BY AnsweringAssumption
<1>2. ASSUME NEW i \in 1 .. Len(content)
      PROVE  content[i].halves \subseteq Halves
  <2>1. content[i] \in Block
    BY <1>1
  <2>2. content[i].halves \in SUBSET Halves
    BY <2>1 DEF Block
  <2> QED
    BY <2>2
<1>3. ASSUME NEW h \in TextOf(content)
      PROVE  h \in Halves
  <2>1. PICK b \in Blocks(content) : h \in b.halves
    BY Zenon DEF TextOf
  <2>2. PICK i \in 1 .. Len(content) : b = content[i]
    BY <2>1 DEF Blocks
  <2> QED
    BY <1>2, <2>1, <2>2
<1> QED
  BY <1>3

LEMMA CitationsAreBacked ==
  ASSUME NEW r \in Request, NEW content \in Contents, Sound(r), r.at = "asking",
         NEW citation \in Citations(content, r)
  PROVE  /\ citation \in Citation
         /\ \A s \in Request :
              (s.hits = r.hits /\ s.tenant = r.tenant /\ s.workspace = r.workspace
                 /\ s.content = content) => Backed(citation, s)
<1>1. PICK raw \in RawCitations(content) :
        \E c \in Resolved(raw, r.hits) :
          citation = [chunk |-> c, quote |-> raw.quote, page |-> ValidPage(c),
                      relevance |-> Clamp(ScoreOf(c, r))]
  BY DEF Citations
<1>2. PICK c \in Resolved(raw, r.hits) :
          citation = [chunk |-> c, quote |-> raw.quote, page |-> ValidPage(c),
                      relevance |-> Clamp(ScoreOf(c, r))]
  BY <1>1
<1>3. raw \in Raw
  BY RawCitationType
<1>4. /\ r.hits \in Seq(Chunks) /\ r.score \in Seq(Scores)
      /\ Len(r.score) = Len(r.hits)
  BY DEF Request, Sound
<1>5. raw.quote # Empty /\ raw.quote \in Quotes
  BY <1>3 DEF Resolved, Raw
<1>6. /\ c \in Supplied(r.hits)
      /\ IF raw.source = None THEN r.hits[raw.index + 1] = c ELSE raw.source = c
  <2>1. CASE raw.source \in Supplied(r.hits)
    <3>1. c = raw.source
      BY <1>5, <2>1 DEF Resolved
    <3>2. Supplied(r.hits) \subseteq Chunks
      BY <1>4 DEF Supplied
    <3> QED
      BY <2>1, <3>1, <3>2, AnsweringAssumption
  <2>2. CASE raw.source \notin Supplied(r.hits)
    <3>1. raw.source = None /\ raw.index + 1 \in 1 .. Len(r.hits) /\ c = r.hits[raw.index + 1]
      BY <1>5, <2>2 DEF Resolved
    <3> QED
      BY <3>1 DEF Supplied
  <2> QED
    BY <2>1, <2>2
<1>7. c \in Chunks
  BY <1>4, <1>6 DEF Supplied
<1>8. ValidPage(c) \in (Nat \ {0}) \union {None}
  <2>1. Page[c] \in Int \union {None} /\ None \notin Int
    BY <1>7, AnsweringAssumption
  <2> QED
    BY <2>1 DEF ValidPage
<1>9. Clamp(ScoreOf(c, r)) \in 0 .. 100
  <2>1. PICK i \in 1 .. Len(r.hits) : r.hits[i] = c
    BY <1>6 DEF Supplied
  <2>2. (CHOOSE k \in 1 .. Len(r.hits) : r.hits[k] = c) \in 1 .. Len(r.hits)
    BY <2>1, Zenon
  <2>3. ScoreOf(c, r) \in Scores
    <3> DEFINE k == CHOOSE k \in 1 .. Len(r.hits) : r.hits[k] = c
    <3>1. k \in 1 .. Len(r.hits) /\ ScoreOf(c, r) = r.score[k]
      BY <2>2, Zenon DEF ScoreOf
    <3> HIDE DEF k
    <3> QED
      BY <1>4, <3>1
  <2> QED
    <3> DEFINE score == ScoreOf(c, r)
    <3>1. score \in 0 .. 200
      BY <2>3, AnsweringAssumption
    <3> HIDE DEF score
    <3>2. Clamp(score) \in 0 .. 100
      BY <3>1 DEF Clamp, Lesser
    <3> QED
      BY <3>2 DEF score
<1>10. citation \in Citation
  BY <1>2, <1>5, <1>7, <1>8, <1>9 DEF Citation
<1>11. ASSUME NEW s \in Request, s.hits = r.hits, s.tenant = r.tenant,
              s.workspace = r.workspace, s.content = content
       PROVE  Backed(citation, s)
  <2>1. citation.chunk = c /\ citation.quote = raw.quote
    BY <1>2
  <2>2. InScope(c, r)
    BY <1>6 DEF Sound
  <2>3. InScope(c, s)
    BY <2>2, <1>11 DEF InScope
  <2>4. Named(citation, s)
    BY <1>6, <1>11, <2>1 DEF Named
  <2> QED
    BY <1>6, <1>11, <2>1, <2>3, <2>4 DEF Backed
<1> QED
  BY <1>10, <1>11

-----------------------------------------------------------------------------
(* The result of an answer. *)

LEMMA AbstentionType == Abstention \in Result /\ Abstention.status = "abstained"
BY DEF Abstention, Result, Verdicts

LEMMA DraftType ==
  ASSUME NEW r \in Request, NEW content \in Contents, Sound(r), r.at = "asking",
         NEW verdict \in Verdicts, NEW coverage \in 0 .. 100
  PROVE  Draft(content, r, verdict, coverage) \in Result
<1>1. TextOf(content) \in SUBSET Halves
  BY TextType
<1>2. Citations(content, r) \in SUBSET Citation
  BY CitationsAreBacked
<1> QED
  BY <1>1, <1>2 DEF Draft, Result

LEMMA GroundedIsSound ==
  ASSUME NEW r \in Request, NEW content \in Contents, Sound(r), r.at = "asking"
  PROVE  /\ Grounded(content, r) \in Result
         /\ Grounded(content, r).status = "draft"
              => Grounded(content, r).citations \subseteq Citations(content, r)
<1> DEFINE spoilt == Draft(content, r, "unverified", 0)
           graded == Draft(content, r, Verdict(content, r), Coverage(content))
<1>1. spoilt \in Result /\ spoilt.citations = Citations(content, r)
  <2>1. "unverified" \in Verdicts /\ 0 \in 0 .. 100
    BY DEF Verdicts
  <2> QED
    BY <2>1, DraftType DEF Draft
<1>2. graded \in Result /\ graded.citations = Citations(content, r)
  <2>1. Verdict(content, r) \in Verdicts /\ Coverage(content) \in 0 .. 100
    BY VerdictType, CoverageIsAShare
  <2> QED
    BY <2>1, DraftType DEF Draft
<1> HIDE DEF spoilt, graded
<1>3. \/ Grounded(content, r) = spoilt
      \/ Grounded(content, r) = Abstention
      \/ Grounded(content, r) = graded
  BY Zenon DEF Grounded, spoilt, graded
<1>4. CASE Grounded(content, r) = Abstention
  BY <1>4, AbstentionType
<1> QED
  BY <1>1, <1>2, <1>3, <1>4

-----------------------------------------------------------------------------
(* The invariant holds. *)

LEMMA InitInv == Init => Inv
<1> SUFFICES ASSUME Init PROVE Inv
  OBVIOUS
<1>1. IdleRequest \in Request
  BY DEF IdleRequest, Request
<1>2. Sound(IdleRequest)
  <2>1. Supplied(<< >>) = {}
    BY DEF Supplied
  <2> QED
    BY <2>1 DEF Sound, IdleRequest, NoResult
<1> QED
  BY <1>1, <1>2 DEF Init, Inv, AnswerTypeOK

\* A request that is not done takes a step of its own.
LEMMA OneRequestMoves ==
  ASSUME Inv, NEW q \in Requests, request[q].at # "done",
         NEW new \in Request, Sound(new),
         request' = [request EXCEPT ![q] = new], UNCHANGED <<index, saved>>
  PROVE  Inv'
<1>1. \A p \in Requests : request'[p] = IF p = q THEN new ELSE request[p]
  BY DEF Inv, AnswerTypeOK
<1>2. AnswerTypeOK'
  BY DEF Inv, AnswerTypeOK
<1>3. \A p \in Requests : Sound(request[p])'
  <2> TAKE p \in Requests
  <2>1. Sound(request'[p])
    BY <1>1 DEF Inv
  <2> QED
    BY <2>1 DEF Sound, Supplied, InScope, Backed, Named
<1>4. saved[q] = NoResult
  BY DEF Inv
<1> QED
  BY <1>1, <1>2, <1>3, <1>4 DEF Inv

LEMMA AskInv ==
  ASSUME Inv, NEW q \in Requests, Ask(q)
  PROVE  Inv'
<1>1. PICK t \in Tenants, w \in Workspaces :
        request' = [request EXCEPT ![q].at = "searching", ![q].tenant = t, ![q].workspace = w]
  BY DEF Ask
<1> DEFINE r   == request[q]
           new == [r EXCEPT !.at = "searching", !.tenant = t, !.workspace = w]
<1>2. r \in Request /\ Sound(r) /\ r.at = "idle"
  BY DEF Inv, AnswerTypeOK, Ask
<1>3. request' = [request EXCEPT ![q] = new]
  BY <1>1 DEF Inv, AnswerTypeOK
<1>4. new \in Request
  BY <1>2 DEF Request
<1>5. Sound(new)
  <2>1. /\ new.at = "searching" /\ new.tenant = t /\ new.workspace = w
        /\ new.hits = << >> /\ new.result = NoResult
    BY <1>2 DEF Request, Sound
  <2> HIDE DEF new
  <2>2. Supplied(new.hits) = {}
    BY <2>1 DEF Supplied
  <2> QED
    BY <2>1, <2>2 DEF Sound, NoResult
<1> HIDE DEF new
<1> QED
  BY <1>2, <1>3, <1>4, <1>5, OneRequestMoves DEF Ask

LEMMA FailInv ==
  ASSUME Inv, NEW q \in Requests, Fail(q)
  PROVE  Inv'
<1> DEFINE r   == request[q]
           new == [r EXCEPT !.at = "failed"]
<1>1. r \in Request /\ Sound(r) /\ r.at \in {"searching", "asking"}
  BY DEF Inv, AnswerTypeOK, Fail
<1>2. request' = [request EXCEPT ![q] = new]
  BY DEF Inv, AnswerTypeOK, Fail
<1>3. new \in Request
  BY <1>1 DEF Request
<1>4. Sound(new)
  <2>1. /\ new.at = "failed" /\ new.tenant = r.tenant /\ new.workspace = r.workspace
        /\ new.hits = r.hits /\ new.result = NoResult
    BY <1>1 DEF Request, Sound
  <2> HIDE DEF new
  <2> QED
    BY <1>1, <2>1 DEF Sound, NoResult, InScope
<1> HIDE DEF new
<1> QED
  BY <1>1, <1>2, <1>3, <1>4, OneRequestMoves DEF Fail

\* Only evidence in scope is found.
LEMMA SearchInv ==
  ASSUME Inv, NEW q \in Requests, Search(q)
  PROVE  Inv'
<1> DEFINE r     == request[q]
           found == Searched(r.tenant, r.workspace)
           n     == Lesser(RetrieveK, Cardinality(found))
<1>1. r \in Request /\ Sound(r) /\ r.at = "searching"
  BY DEF Inv, AnswerTypeOK, Search
<1>2. PICK hits \in Rankings(found, n) :
        request' = [request EXCEPT ![q] =
          IF \E i \in 1 .. n : Owner[hits[i]] # r.tenant THEN [r EXCEPT !.at = "failed"]
          ELSE IF n = 0 THEN [r EXCEPT !.at = "saving", !.result = Abstention]
          ELSE [r EXCEPT !.at = "ranking", !.hits = hits]]
  BY DEF Search, Inv, AnswerTypeOK
<1>3. n \in Nat
  <2>1. found \subseteq Chunks
    BY DEF Searched, Inv, AnswerTypeOK
  <2>2. Cardinality(found) \in Nat
    BY <2>1, AnsweringAssumption, FS_Subset, FS_CardinalityType
  <2> QED
    BY <2>2, AnsweringAssumption DEF Lesser
<1>4. \A c \in found : c \in Chunks /\ InScope(c, r)
  BY AnsweringAssumption DEF Searched, InScope, Inv, AnswerTypeOK
<1>5. hits \in [1 .. n -> found]
  BY DEF Rankings
<1> HIDE DEF n, found
<1>6. /\ hits \in Seq(Chunks) /\ Len(hits) = n
      /\ \A c \in Supplied(hits) : InScope(c, r)
  <2>1. hits \in [1 .. n -> Chunks]
    BY <1>4, <1>5
  <2>2. hits \in Seq(Chunks) /\ Len(hits) = n
    BY <1>3, <2>1
  <2> QED
    BY <1>4, <1>5, <2>2 DEF Supplied
<1> DEFINE failed  == [r EXCEPT !.at = "failed"]
           nothing == [r EXCEPT !.at = "saving", !.result = Abstention]
           some    == [r EXCEPT !.at = "ranking", !.hits = hits]
<1>7. failed \in Request /\ Sound(failed)
  <2>1. failed \in Request
    BY <1>1 DEF Request
  <2>2. /\ failed.at = "failed" /\ failed.tenant = r.tenant /\ failed.workspace = r.workspace
        /\ failed.hits = r.hits /\ failed.result = NoResult
    BY <1>1 DEF Request, Sound
  <2> HIDE DEF failed
  <2> QED
    BY <1>1, <2>1, <2>2 DEF Sound, NoResult, InScope
<1>8. nothing \in Request /\ Sound(nothing)
  <2>1. nothing \in Request
    BY <1>1, AbstentionType DEF Request
  <2>2. /\ nothing.at = "saving" /\ nothing.tenant = r.tenant /\ nothing.workspace = r.workspace
        /\ nothing.hits = r.hits /\ nothing.result = Abstention
    BY <1>1 DEF Request
  <2> HIDE DEF nothing
  <2> QED
    BY <1>1, <2>1, <2>2, AbstentionType DEF Sound, InScope
<1>9. ASSUME n # 0
      PROVE  some \in Request /\ Sound(some)
  <2>1. some \in Request
    BY <1>1, <1>6 DEF Request
  <2>2. /\ some.at = "ranking" /\ some.tenant = r.tenant /\ some.workspace = r.workspace
        /\ some.hits = hits /\ some.result = NoResult
    BY <1>1 DEF Request, Sound
  <2> HIDE DEF some
  <2> QED
    BY <1>1, <1>3, <1>6, <1>9, <2>1, <2>2 DEF Sound, NoResult, InScope
<1>10. PICK new \in {failed, nothing, some} :
         new \in Request /\ Sound(new) /\ request' = [request EXCEPT ![q] = new]
  <2> HIDE DEF failed, nothing, some
  <2>1. CASE \E i \in 1 .. n : Owner[hits[i]] # r.tenant
    BY <1>2, <1>7, <2>1 DEF failed
  <2>2. CASE ~(\E i \in 1 .. n : Owner[hits[i]] # r.tenant) /\ n = 0
    BY <1>2, <1>8, <2>2 DEF nothing
  <2>3. CASE ~(\E i \in 1 .. n : Owner[hits[i]] # r.tenant) /\ n # 0
    BY <1>2, <1>9, <2>3 DEF some
  <2> QED
    BY <2>1, <2>2, <2>3
<1> QED
  BY <1>1, <1>10, OneRequestMoves DEF Search

\* The reranker shows nothing that was not found.
LEMMA RerankInv ==
  ASSUME Inv, NEW q \in Requests, Rerank(q)
  PROVE  Inv'
<1> DEFINE r     == request[q]
           n     == Lesser(TopK, Len(r.hits))
           fused == [i \in 1 .. n |-> r.hits[i]]
<1>1. r \in Request /\ Sound(r) /\ r.at = "ranking"
  BY DEF Inv, AnswerTypeOK, Rerank
<1>2. PICK best \in Rankings({r.hits[i] : i \in 1 .. Len(r.hits)}, n) \union {fused},
           score \in Ranked(n) :
        request' = [request EXCEPT ![q] =
          IF score[1] < MinScore
            THEN [r EXCEPT !.at = "saving", !.result = Abstention, !.hits = best]
            ELSE [r EXCEPT !.at = "asking", !.hits = best, !.score = score]]
  BY DEF Rerank, Inv, AnswerTypeOK
<1>3. r.hits \in Seq(Chunks) /\ Len(r.hits) >= 1
  BY <1>1 DEF Request, Sound
<1>4. n \in Nat /\ n >= 1 /\ n <= Len(r.hits)
  BY <1>3, AnsweringAssumption DEF Lesser
<1>5. best \in [1 .. n -> Supplied(r.hits)]
  <2>1. CASE best = fused
    BY <1>3, <1>4, <2>1 DEF Supplied
  <2>2. CASE best \in Rankings({r.hits[i] : i \in 1 .. Len(r.hits)}, n)
    BY <2>2 DEF Supplied, Rankings
  <2> QED
    BY <2>1, <2>2
<1>6. score \in [1 .. n -> Scores]
  BY DEF Ranked
<1> HIDE DEF n, fused
<1>7. /\ best \in Seq(Chunks) /\ Len(best) = n
      /\ score \in Seq(Scores) /\ Len(score) = n
      /\ \A c \in Supplied(best) : InScope(c, r)
  <2>1. Supplied(r.hits) \subseteq Chunks
    BY <1>3 DEF Supplied
  <2>2. best \in [1 .. n -> Chunks]
    BY <1>5, <2>1
  <2>3. best \in Seq(Chunks) /\ Len(best) = n
    BY <1>4, <2>2
  <2>4. score \in Seq(Scores) /\ Len(score) = n
    BY <1>4, <1>6
  <2>5. ASSUME NEW c \in Supplied(best) PROVE c \in Supplied(r.hits)
    <3>1. PICK i \in 1 .. Len(best) : c = best[i]
      BY DEF Supplied
    <3> QED
      BY <3>1, <2>3, <1>5
  <2> QED
    BY <1>1, <2>3, <2>4, <2>5 DEF Sound
<1> DEFINE weak   == [r EXCEPT !.at = "saving", !.result = Abstention, !.hits = best]
           strong == [r EXCEPT !.at = "asking", !.hits = best, !.score = score]
<1>8. weak \in Request /\ Sound(weak)
  <2>1. weak \in Request
    BY <1>1, <1>7, AbstentionType DEF Request
  <2>2. /\ weak.at = "saving" /\ weak.tenant = r.tenant /\ weak.workspace = r.workspace
        /\ weak.hits = best /\ weak.result = Abstention
    BY <1>1 DEF Request
  <2> HIDE DEF weak
  <2> QED
    BY <1>1, <1>7, <2>1, <2>2, AbstentionType DEF Sound, InScope
<1>9. strong \in Request /\ Sound(strong)
  <2>1. strong \in Request
    BY <1>1, <1>7 DEF Request
  <2>2. /\ strong.at = "asking" /\ strong.tenant = r.tenant /\ strong.workspace = r.workspace
        /\ strong.hits = best /\ strong.score = score /\ strong.result = NoResult
    BY <1>1 DEF Request, Sound
  <2> HIDE DEF strong
  <2> QED
    BY <1>1, <1>4, <1>7, <2>1, <2>2 DEF Sound, NoResult, InScope
<1>10. PICK new \in {weak, strong} :
         new \in Request /\ Sound(new) /\ request' = [request EXCEPT ![q] = new]
  <2> HIDE DEF weak, strong
  <2>1. CASE score[1] < MinScore
    BY <1>2, <1>8, <2>1 DEF weak
  <2>2. CASE ~(score[1] < MinScore)
    BY <1>2, <1>9, <2>2 DEF strong
  <2> QED
    BY <2>1, <2>2
<1> QED
  BY <1>1, <1>10, OneRequestMoves DEF Rerank

\* Whatever the model answers, what it cites was shown to it.
LEMMA AnswerInv ==
  ASSUME Inv, NEW q \in Requests, Answer(q)
  PROVE  Inv'
<1> DEFINE r == request[q]
<1>1. r \in Request /\ Sound(r) /\ r.at = "asking"
  BY DEF Inv, AnswerTypeOK, Answer
<1>2. PICK content \in Contents :
        request' = [request EXCEPT ![q] =
          [r EXCEPT !.at = "saving", !.content = content, !.result = Grounded(content, r)]]
  BY DEF Answer, Inv, AnswerTypeOK
<1> DEFINE new == [r EXCEPT !.at = "saving", !.content = content, !.result = Grounded(content, r)]
<1>3. Grounded(content, r) \in Result
  BY <1>1, GroundedIsSound
<1>4. new \in Request
  BY <1>1, <1>3 DEF Request
<1>5. /\ new.at = "saving" /\ new.tenant = r.tenant /\ new.workspace = r.workspace
      /\ new.hits = r.hits /\ new.content = content /\ new.result = Grounded(content, r)
  BY <1>1 DEF Request
<1> HIDE DEF new
<1>6. ASSUME new.result.status = "draft", NEW citation \in new.result.citations
      PROVE  Backed(citation, new)
  <2>1. citation \in Citations(content, r)
    BY <1>1, <1>5, <1>6, GroundedIsSound
  <2> QED
    BY <1>1, <1>4, <1>5, <2>1, CitationsAreBacked
<1>7. Sound(new)
  BY <1>1, <1>5, <1>6 DEF Sound, InScope
<1> QED
  BY <1>1, <1>2, <1>4, <1>7, OneRequestMoves DEF Answer, new

LEMMA SaveInv ==
  ASSUME Inv, NEW q \in Requests, Save(q)
  PROVE  Inv'
<1> DEFINE r   == request[q]
           new == [r EXCEPT !.at = "done"]
<1>1. r \in Request /\ Sound(r) /\ r.at = "saving"
  BY DEF Inv, AnswerTypeOK, Save
<1>2. new \in Request
  BY <1>1 DEF Request
<1>3. /\ new.at = "done" /\ new.tenant = r.tenant /\ new.workspace = r.workspace
      /\ new.hits = r.hits /\ new.content = r.content /\ new.result = r.result
  BY <1>1 DEF Request
<1>4. request' = [request EXCEPT ![q] = new] /\ saved' = [saved EXCEPT ![q] = new.result]
  BY <1>3 DEF Save, Inv, AnswerTypeOK
<1> HIDE DEF new
<1>5. Sound(new)
  <2>1. ASSUME NEW citation, Backed(citation, r)
        PROVE  Backed(citation, new)
    BY <1>3, <2>1 DEF Backed, InScope, Named
  <2> QED
    BY <1>1, <1>3, <2>1 DEF Sound, InScope
<1>6. \A p \in Requests : /\ request'[p] = IF p = q THEN new ELSE request[p]
                          /\ saved'[p] = IF p = q THEN new.result ELSE saved[p]
  BY <1>4 DEF Inv, AnswerTypeOK
<1>7. AnswerTypeOK'
  <2>1. new.result \in Result \union {NoResult}
    BY <1>2 DEF Request
  <2> QED
    BY <1>2, <1>4, <2>1 DEF Inv, AnswerTypeOK, Save
<1>8. \A p \in Requests : Sound(request[p])'
  <2> TAKE p \in Requests
  <2>1. Sound(request'[p])
    BY <1>5, <1>6 DEF Inv
  <2> QED
    BY <2>1 DEF Sound, Supplied, InScope, Backed, Named
<1> QED
  BY <1>3, <1>6, <1>7, <1>8 DEF Inv

LEMMA IndexInv ==
  ASSUME Inv, NEW c \in Chunks, Ingest(c) \/ Purge(c)
  PROVE  Inv'
<1>1. /\ index' \subseteq Chunks
      /\ request' = request /\ saved' = saved
  BY DEF Inv, AnswerTypeOK, Ingest, Purge
<1>2. \A p \in Requests : Sound(request[p])'
  <2> TAKE p \in Requests
  <2>1. Sound(request'[p])
    BY <1>1 DEF Inv
  <2> QED
    BY <2>1 DEF Sound, Supplied, InScope, Backed, Named
<1> QED
  BY <1>1, <1>2 DEF Inv, AnswerTypeOK

LEMMA StepInv == Inv /\ [Next]_vars => Inv'
<1> SUFFICES ASSUME Inv, [Next]_vars PROVE Inv'
  OBVIOUS
<1>1. CASE UNCHANGED vars
  <2>1. index' = index /\ request' = request /\ saved' = saved
    BY <1>1 DEF vars
  <2>2. \A p \in Requests : Sound(request[p])'
    <3> TAKE p \in Requests
    <3>1. Sound(request'[p])
      BY <2>1 DEF Inv
    <3> QED
      BY <3>1 DEF Sound, Supplied, InScope, Backed, Named
  <2> QED
    BY <2>1, <2>2 DEF Inv, AnswerTypeOK
<1>2. CASE \E c \in Chunks : Ingest(c) \/ Purge(c)
  BY <1>2, IndexInv
<1>3. ASSUME NEW q \in Requests,
             Ask(q) \/ Search(q) \/ Rerank(q) \/ Answer(q) \/ Fail(q) \/ Save(q)
      PROVE  Inv'
  BY <1>3, AskInv, SearchInv, RerankInv, AnswerInv, FailInv, SaveInv
<1> QED
  BY <1>1, <1>2, <1>3 DEF Next

\* The inductive invariant: every chunk a request holds is in its scope, the
\* citations of a draft are backed by those chunks and by what the model
\* answered, and a saved result is that of its request.
THEOREM InvHolds == Spec => []Inv
BY InitInv, StepInv, PTL DEF Spec

\* Every request and every saved result keeps its type: a coverage is a share,
\* a page is at least 1 and a relevance at most 100.
THEOREM AnswersAreTyped == Spec => []AnswerTypeOK
<1>1. Inv => AnswerTypeOK
  BY DEF Inv
<1> QED
  BY <1>1, InvHolds, PTL

\* A saved answer cites only chunks of its tenant, in its scope and shown to
\* the model.
THEOREM EvidenceStaysInScope == Spec => []EvidenceInScope
<1>1. Inv => EvidenceInScope
  <2> SUFFICES ASSUME Inv, NEW q \in Requests, saved[q].status = "draft",
                      NEW citation \in saved[q].citations
               PROVE  Backed(citation, request[q])
    BY DEF EvidenceInScope, Backed, InScope
  <2>1. saved[q] = request[q].result
    BY DEF Inv, NoResult
  <2> QED
    BY <2>1 DEF Inv, Sound
<1> QED
  BY <1>1, InvHolds, PTL

\* A quote is attributed to the chunk the answer named.
THEOREM QuotesAreAttributed == Spec => []AttributedAsCited
<1>1. Inv => AttributedAsCited
  <2> SUFFICES ASSUME Inv, NEW q \in Requests, saved[q].status = "draft",
                      NEW citation \in saved[q].citations
               PROVE  Backed(citation, request[q])
    BY DEF AttributedAsCited, Backed, Named
  <2>1. saved[q] = request[q].result
    BY DEF Inv, NoResult
  <2> QED
    BY <2>1 DEF Inv, Sound
<1> QED
  BY <1>1, InvHolds, PTL

-----------------------------------------------------------------------------
(***************************************************************************)
(* The verdict.  A verified result has passed every branch of verify.      *)
(***************************************************************************)

\* The claims with a word in a block with a citation.
BackedClaims(content) ==
  {s \in ClaimsOf(content) : \E b \in Blocks(content) :
     Cited(b) /\ b.halves \cap Halved(s) # {}}

\* What the verdict of result says of the answer content over hits.
Deserved(result, content, hits) ==
  result.verdict = "verified" =>
    /\ content \in Contents /\ 0 \notin TextOf(content)
    /\ \A raw \in RawCitations(content) : Resolved(raw, hits) # {}
    /\ Coverage(content) >= MinCoverage

Earned(r) == r.at \in {"saving", "done"} => Deserved(r.result, r.content, r.hits)

GradeInv == Inv /\ \A q \in Requests : Earned(request[q])

\* A claim that no cited block touches lies within one uncited segment: the
\* block after its first half would be cited and have a word between its halves.
LEMMA UntouchedIsUnsupported ==
  ASSUME NEW content \in Contents, 0 \notin TextOf(content),
         NEW s \in ClaimsOf(content), s \notin BackedClaims(content)
  PROVE  s \in Unsupported(content)
<1>1. CutsText(content) /\ content \in Seq(Block)
  BY TextAssumption, AnsweringAssumption
<1>2. s \in Int /\ Halved(s) \subseteq TextOf(content)
  BY AnsweringAssumption DEF ClaimsOf
<1>3. ASSUME NEW h \in Halved(s)
      PROVE  \E i \in 1 .. Len(content) : h \in content[i].halves /\ ~Cited(content[i])
  <2>1. h \in TextOf(content)
    BY <1>2
  <2>2. PICK b \in Blocks(content) : h \in b.halves
    BY <2>1, Zenon DEF TextOf
  <2>3. PICK i \in 1 .. Len(content) : b = content[i]
    BY <2>2 DEF Blocks
  <2>4. ~Cited(b)
    BY <2>2 DEF BackedClaims
  <2> QED
    BY <2>2, <2>3, <2>4
<1>4. PICK i \in 1 .. Len(content) : 2 * s - 1 \in content[i].halves /\ ~Cited(content[i])
  BY <1>3 DEF Halved
<1>5. PICK j \in 1 .. Len(content) : 2 * s \in content[j].halves /\ ~Cited(content[j])
  BY <1>3 DEF Halved
<1>6. ~(j < i)
  BY <1>1, <1>2, <1>4, <1>5 DEF CutsText
<1>7. ~(i < j)
  <2> SUFFICES ASSUME i < j PROVE FALSE
    OBVIOUS
  <2>1. i \in 1 .. Len(content) - 1 /\ i + 1 \in 1 .. Len(content) /\ Len(content) \in Nat
    BY <1>1
  <2>2. Cited(content[i + 1])
    BY <1>4, <2>1, AnsweringAssumption
  <2>3. i + 1 < j
    BY <1>5, <2>1, <2>2
  <2>4. content[i + 1] \in Blocks(content) /\ content[i + 1] \in Block
    BY <1>1, <2>1 DEF Blocks
  <2>5. 2 * s \in TextOf(content)
    BY <1>2 DEF Halved
  <2>6. content[i + 1].halves # {}
    BY <1>1, <2>2, <2>4, <2>5 DEF CutsText
  <2>7. PICK k \in content[i + 1].halves : TRUE
    BY <2>6
  <2>8. k \in Int
    <3>1. content[i + 1].halves \subseteq Halves
      BY <2>4 DEF Block
    <3> QED
      BY <3>1, AnsweringAssumption DEF Halves
  <2>9. 2 * s - 1 < k /\ k < 2 * s
    BY <1>1, <1>4, <1>5, <2>1, <2>3 DEF CutsText
  <2> QED
    BY <1>2, <2>8, <2>9
<1>8. i = j
  BY <1>6, <1>7
<1>9. content[i].halves \in UncitedSegments(content)
  BY <1>4 DEF UncitedSegments, Blocks
<1>10. Halved(s) \subseteq content[i].halves
  BY <1>4, <1>5, <1>8 DEF Halved
<1> QED
  BY <1>9, <1>10 DEF Unsupported

\* The coverage counts no more claims than are backed.
LEMMA CoverageIsBacked ==
  ASSUME NEW content \in Contents, 0 \notin TextOf(content),
         Coverage(content) >= MinCoverage
  PROVE  /\ BackedClaims(content) # {}
         /\ 100 * Cardinality(BackedClaims(content))
              >= MinCoverage * Cardinality(ClaimsOf(content))
<1> DEFINE claims == ClaimsOf(content)
           bare   == Unsupported(content)
           backed == BackedClaims(content)
           t == Cardinality(claims)
           u == Cardinality(bare)
           b == Cardinality(backed)
<1>1. IsFiniteSet(claims) /\ bare \subseteq claims /\ backed \subseteq claims
  <2>1. IsFiniteSet(1 .. Sentences)
    BY AnsweringAssumption, FS_Interval
  <2>2. claims \subseteq 1 .. Sentences
    BY AnsweringAssumption DEF ClaimsOf
  <2> QED
    BY <2>1, <2>2, FS_Subset DEF Unsupported, BackedClaims
<1>2. /\ IsFiniteSet(bare) /\ IsFiniteSet(backed)
      /\ t \in Nat /\ u \in Nat /\ b \in Nat /\ u <= t /\ b <= t
  BY <1>1, FS_Subset, FS_CardinalityType
<1>3. claims \subseteq bare \union backed
  BY UntouchedIsUnsupported
<1>4. t <= u + b
  <2>1. IsFiniteSet(bare \union backed)
    BY <1>2, FS_Union
  <2>2. Cardinality(bare \union backed) <= u + b
    <3>1. /\ Cardinality(bare \union backed) = u + b - Cardinality(bare \cap backed)
          /\ IsFiniteSet(bare \cap backed)
      BY <1>2, FS_Union, FS_Intersection
    <3> QED
      BY <1>2, <3>1, FS_CardinalityType
  <2>3. t <= Cardinality(bare \union backed)
    BY <1>3, <2>1, FS_Subset
  <2>4. Cardinality(bare \union backed) \in Nat
    BY <2>1, FS_CardinalityType
  <2> QED
    BY <1>2, <2>2, <2>3, <2>4
<1>5. t # 0
  BY AnsweringAssumption DEF Coverage
<1>6. 100 * b >= MinCoverage * t
  <2> DEFINE a == 100 * (t - u)
             q == a \div t
  <2>1. q >= MinCoverage
    BY <1>5 DEF Coverage
  <2> HIDE DEF t, u, b
  <2>2. q \in Int /\ a >= t * q
    BY <1>2, <1>5
  <2>3. MinCoverage \in Int
    BY AnsweringAssumption
  <2> HIDE DEF q
  <2>4. t * q >= t * MinCoverage
    BY <1>2, <2>1, <2>2, <2>3
  <2>5. t * MinCoverage = MinCoverage * t
    BY <1>2, <2>3
  <2> HIDE DEF a
  <2>6. a <= 100 * b
    BY <1>2, <1>4 DEF a
  <2>7. a \in Int /\ t * q \in Int /\ t * MinCoverage \in Int
    BY <1>2, <2>2, <2>3 DEF a
  <2> QED
    BY <1>2, <2>2, <2>4, <2>5, <2>6, <2>7
<1>7. b # 0
  <2> HIDE DEF t, b
  <2>1. MinCoverage \in Int /\ MinCoverage >= 1 /\ t >= 1
    BY <1>2, <1>5, AnsweringAssumption
  <2>2. MinCoverage * t >= 1
    BY <1>2, <2>1
  <2> QED
    BY <1>2, <1>6, <2>1, <2>2
<1> QED
  BY <1>2, <1>6, <1>7, FS_EmptySet

LEMMA AbstentionIsDeserved ==
  ASSUME NEW content, NEW hits
  PROVE  Deserved(Abstention, content, hits)
BY DEF Deserved, Abstention

LEMMA GroundedIsDeserved ==
  ASSUME NEW r, NEW content \in Contents
  PROVE  Deserved(Grounded(content, r), content, r.hits)
<1> DEFINE spoilt == Draft(content, r, "unverified", 0)
           graded == Draft(content, r, Verdict(content, r), Coverage(content))
<1>1. spoilt.verdict = "unverified" /\ graded.verdict = Verdict(content, r)
  BY Zenon DEF Draft
<1>2. Verdict(content, r) = "verified" => Coverage(content) >= MinCoverage
  BY DEF Verdict
<1>3. \/ Grounded(content, r) \in {spoilt, Abstention}
      \/ /\ ~Rejected(content, r) /\ 0 \notin TextOf(content)
         /\ Grounded(content, r) = graded
  BY Zenon DEF Grounded
<1> HIDE DEF spoilt, graded
<1>4. CASE Grounded(content, r) = spoilt
  BY <1>1, <1>4 DEF Deserved
<1>5. CASE ~Rejected(content, r) /\ 0 \notin TextOf(content) /\ Grounded(content, r) = graded
  BY <1>1, <1>2, <1>5 DEF Deserved, Rejected
<1> QED
  BY <1>3, <1>4, <1>5, AbstentionIsDeserved

\* What becomes of the request that moves.
LEMMA MoveKeepsEarned ==
  ASSUME GradeInv, NEW q \in Requests,
         Ask(q) \/ Search(q) \/ Rerank(q) \/ Answer(q) \/ Fail(q) \/ Save(q)
  PROVE  Earned(request'[q]) /\ \A p \in Requests : p # q => request'[p] = request[p]
<1> DEFINE r == request[q]
<1>1. r \in Request /\ Sound(r) /\ Earned(r) /\ request \in [Requests -> Request]
  BY DEF GradeInv, Inv, AnswerTypeOK
<1>2. \A p \in Requests : p # q => request'[p] = request[p]
  BY <1>1 DEF Ask, Search, Rerank, Answer, Fail, Save
<1>3. ASSUME Ask(q) \/ Fail(q)
      PROVE  request'[q].at \in {"searching", "failed"}
  <2>1. CASE Ask(q)
    <3>1. PICK t, w : request' = [request EXCEPT ![q].at = "searching", ![q].tenant = t,
                                                 ![q].workspace = w]
      BY <2>1 DEF Ask
    <3> DEFINE new == [r EXCEPT !.at = "searching", !.tenant = t, !.workspace = w]
    <3>2. request'[q] = new
      BY <1>1, <3>1
    <3>3. new.at = "searching"
      BY <1>1 DEF Request
    <3> QED
      BY <3>2, <3>3
  <2>2. CASE Fail(q)
    <3> DEFINE new == [r EXCEPT !.at = "failed"]
    <3>1. request'[q] = new
      BY <1>1, <2>2 DEF Fail
    <3>2. new.at = "failed"
      BY <1>1 DEF Request
    <3> QED
      BY <3>1, <3>2
  <2> QED
    BY <1>3, <2>1, <2>2
<1>4. ASSUME Search(q)
      PROVE  Earned(request'[q])
  <2>1. PICK hits, n :
          request' = [request EXCEPT ![q] =
            IF \E i \in 1 .. n : Owner[hits[i]] # r.tenant THEN [r EXCEPT !.at = "failed"]
            ELSE IF n = 0 THEN [r EXCEPT !.at = "saving", !.result = Abstention]
            ELSE [r EXCEPT !.at = "ranking", !.hits = hits]]
    BY <1>1, <1>4 DEF Search
  <2> DEFINE failed  == [r EXCEPT !.at = "failed"]
             nothing == [r EXCEPT !.at = "saving", !.result = Abstention]
             some    == [r EXCEPT !.at = "ranking", !.hits = hits]
  <2>2. /\ failed.at = "failed" /\ some.at = "ranking"
        /\ nothing.at = "saving" /\ nothing.result = Abstention
    BY <1>1 DEF Request
  <2>3. request'[q] \in {failed, nothing, some}
    BY <1>1, <2>1
  <2> HIDE DEF failed, nothing, some
  <2> QED
    BY <2>2, <2>3, AbstentionIsDeserved DEF Earned
<1>5. ASSUME Rerank(q)
      PROVE  Earned(request'[q])
  <2>1. PICK best, score :
          request' = [request EXCEPT ![q] =
            IF score[1] < MinScore
              THEN [r EXCEPT !.at = "saving", !.result = Abstention, !.hits = best]
              ELSE [r EXCEPT !.at = "asking", !.hits = best, !.score = score]]
    BY <1>1, <1>5 DEF Rerank
  <2> DEFINE weak   == [r EXCEPT !.at = "saving", !.result = Abstention, !.hits = best]
             strong == [r EXCEPT !.at = "asking", !.hits = best, !.score = score]
  <2>2. /\ weak.at = "saving" /\ weak.result = Abstention
        /\ strong.at = "asking"
    BY <1>1 DEF Request
  <2>3. request'[q] \in {weak, strong}
    BY <1>1, <2>1
  <2> HIDE DEF weak, strong
  <2> QED
    BY <2>2, <2>3, AbstentionIsDeserved DEF Earned
<1>6. ASSUME Answer(q)
      PROVE  Earned(request'[q])
  <2>1. PICK content \in Contents :
          request' = [request EXCEPT ![q] =
            [r EXCEPT !.at = "saving", !.content = content, !.result = Grounded(content, r)]]
    BY <1>1, <1>6 DEF Answer
  <2> DEFINE new == [r EXCEPT !.at = "saving", !.content = content, !.result = Grounded(content, r)]
  <2>2. /\ new.at = "saving" /\ new.hits = r.hits /\ new.content = content
        /\ new.result = Grounded(content, r)
    BY <1>1 DEF Request
  <2>3. request'[q] = new
    BY <1>1, <2>1
  <2> HIDE DEF new
  <2>4. Deserved(Grounded(content, r), content, r.hits)
    BY GroundedIsDeserved
  <2> QED
    BY <2>2, <2>3, <2>4 DEF Earned
<1>7. ASSUME Save(q)
      PROVE  Earned(request'[q])
  <2>1. /\ request'[q].at = "done" /\ request'[q].result = r.result /\ r.at = "saving"
        /\ request'[q].content = r.content /\ request'[q].hits = r.hits
    BY <1>1, <1>7 DEF Save, Request
  <2> QED
    BY <1>1, <2>1 DEF Earned
<1> QED
  BY <1>2, <1>3, <1>4, <1>5, <1>6, <1>7 DEF Earned

LEMMA GradeInvHolds == Spec => []GradeInv
<1>1. Init => GradeInv
  <2> SUFFICES ASSUME Init PROVE GradeInv
    OBVIOUS
  <2>1. \A q \in Requests : request[q].at = "idle"
    BY DEF Init, IdleRequest
  <2> QED
    BY <2>1, InitInv DEF GradeInv, Earned
<1>2. GradeInv /\ [Next]_vars => GradeInv'
  <2> SUFFICES ASSUME GradeInv, [Next]_vars PROVE GradeInv'
    OBVIOUS
  <2>1. Inv'
    BY StepInv DEF GradeInv
  <2>2. ASSUME NEW q \in Requests
        PROVE  Earned(request'[q])
    <3>1. CASE UNCHANGED request
      BY <3>1 DEF GradeInv
    <3>2. ASSUME NEW p \in Requests,
                 Ask(p) \/ Search(p) \/ Rerank(p) \/ Answer(p) \/ Fail(p) \/ Save(p)
          PROVE  Earned(request'[q])
      BY <3>2, MoveKeepsEarned DEF GradeInv
    <3> QED
      BY <3>1, <3>2 DEF Next, Ingest, Purge, vars
  <2>3. \A q \in Requests : Earned(request[q])'
    BY <2>2 DEF Earned
  <2> QED
    BY <2>1, <2>3 DEF GradeInv
<1> QED
  BY <1>1, <1>2, PTL DEF Spec

\* A result that is saved has been given by its request.
LEMMA SavedIsDeserved ==
  ASSUME GradeInv, NEW q \in Requests, saved[q].status # "none"
  PROVE  Deserved(saved[q], request[q].content, request[q].hits) /\ saved[q] \in Result
<1>1. saved[q] # NoResult
  BY DEF NoResult
<1>2. request[q].at = "done" /\ saved[q] = request[q].result /\ saved[q] \in Result
  BY <1>1 DEF GradeInv, Inv, AnswerTypeOK
<1> QED
  BY <1>2 DEF GradeInv, Earned

\* VERIFIED means that every citation resolved and that at least MinCoverage
\* per cent of the claims have a word in a block with a citation (verify).
THEOREM VerifiedAnswersAreGrounded == Spec => []VerifiedIsGrounded
<1>1. GradeInv => VerifiedIsGrounded
  <2> SUFFICES ASSUME GradeInv, NEW q \in Requests,
                      saved[q].status = "draft", saved[q].verdict = "verified"
               PROVE  LET content == request[q].content
                      IN /\ \A raw \in RawCitations(content) :
                              Resolved(raw, request[q].hits) # {}
                         /\ BackedClaims(content) # {}
                         /\ 100 * Cardinality(BackedClaims(content))
                              >= MinCoverage * Cardinality(ClaimsOf(content))
    BY DEF VerifiedIsGrounded, BackedClaims
  <2>1. Deserved(saved[q], request[q].content, request[q].hits)
    BY SavedIsDeserved
  <2> QED
    BY <2>1, CoverageIsBacked DEF Deserved
<1> QED
  BY <1>1, GradeInvHolds, PTL

=============================================================================
