--------------------------- MODULE ExtractionProofs ---------------------------
(***************************************************************************)
(* Theorems about Extraction, for any document, any number of requests and *)
(* whatever the model proposes.                                            *)
(***************************************************************************)
EXTENDS Extraction, FiniteSetTheorems, WellFoundedInduction, TLAPS

-----------------------------------------------------------------------------
(* Least elements. *)

LEMMA Least ==
  ASSUME NEW T \in SUBSET Nat, T # {}
  PROVE  \E x \in T : \A y \in T : x <= y
<1> DEFINE R == {ss \in Nat \X Nat : ss[1] < ss[2]}
<1>1. R = OpToRel(<, Nat)
  BY DEF OpToRel
<1>2. IsWellFoundedOn(R, Nat)
  BY <1>1, NatLessThanWellFounded
<1>3. PICK x \in T : \A y \in T : ~(<<y, x>> \in R)
  <2> HIDE DEF R
  <2> QED
    BY <1>2, WFMin
<1>4. \A y \in T : ~(y < x)
  BY <1>3
<1> QED
  BY <1>4

-----------------------------------------------------------------------------
(* The invariant. *)

Shown(x, c, d) ==
  \E w \in DOMAIN x.windows : c \in x.windows[w] /\ d \in x.windows[w]

\* Neighbours that are sliced are together in a window, or in the one being
\* filled, which ends with the last chunk sliced.
Sliced(x) ==
  /\ x.sliced \subseteq x.loaded /\ x.current \subseteq x.sliced
  /\ \A c \in x.loaded \ x.sliced, d \in x.sliced : d < c
  /\ x.sliced # {} => \E m \in x.current : \A d \in x.sliced : d <= m
  /\ \A c, d \in x.sliced :
       d \in {c, c + 1} => Shown(x, c, d) \/ (c \in x.current /\ d \in x.current)

Good(x) ==
  /\ x.at = "loading" => x.sliced = {} /\ x.current = {} /\ x.windows = << >>
  /\ x.at \in {"loading", "slicing"} => x.next = 1
  /\ x.at = "slicing" => Sliced(x)
  /\ x.at \in {"reading", "found"} =>
       \A c, d \in x.loaded : d \in {c, c + 1} => Shown(x, c, d)
  /\ x.at = "reading" => x.next \in 1 .. Len(x.windows)
  /\ \A q \in x.quoted : \E m \in x.seen : DedupeKey(m.ref, m.text) = DedupeKey(q[1], q[2])
  /\ \A m, n \in x.seen : DedupeKey(m.ref, m.text) = DedupeKey(n.ref, n.text) => m = n

Inv ==
  /\ ExtractTypeOK
  /\ \A r \in Runs : Good(run[r])

-----------------------------------------------------------------------------
(* Runs that begin and end. *)

\* A run that has read nothing.
LEMMA EmptyRunIsGood ==
  ASSUME NEW x, x.at \notin {"slicing", "reading"}, x.sliced = {}, x.current = {},
         x.windows = << >>, x.next = 1, x.loaded = {}, x.seen = {}, x.quoted = {}
  PROVE  Good(x)
BY DEF Good

LEMMA IdleRunIsGood == IdleRun \in Run /\ Good(IdleRun) /\ IdleRun.at = "idle"
<1>1. IdleRun \in Run
  BY DEF IdleRun, Run
<1>2. Good(IdleRun)
  <2> DEFINE x == IdleRun
  <2>1. /\ x.at = "idle" /\ x.sliced = {} /\ x.current = {} /\ x.windows = << >>
        /\ x.next = 1 /\ x.quoted = {} /\ x.seen = {} /\ x.loaded = {}
    BY DEF IdleRun
  <2> HIDE DEF x
  <2>2. Good(x)
    BY <2>1, EmptyRunIsGood
  <2> QED
    BY <2>2 DEF x
<1> QED
  BY <1>1, <1>2 DEF IdleRun

LEMMA EndedRunIsGood ==
  ASSUME NEW at \in {"idle", "found", "refused", "failed"}
  PROVE  Ended(at) \in Run /\ Good(Ended(at)) /\ Ended(at).at = at
<1> DEFINE x == Ended(at)
<1>1. /\ x.at = at /\ x.sliced = {} /\ x.current = {} /\ x.windows = << >>
      /\ x.next = 1 /\ x.quoted = {} /\ x.seen = {} /\ x.loaded = {}
  BY DEF Ended, IdleRun
<1>2. x \in Run
  BY IdleRunIsGood DEF Ended, Run
<1> HIDE DEF x
<1>3. Good(x)
  BY <1>1, EmptyRunIsGood
<1> QED
  BY <1>1, <1>2, <1>3 DEF x

LEMMA InitInv == Init => Inv
<1> SUFFICES ASSUME Init PROVE Inv
  OBVIOUS
<1>1. ExtractTypeOK
  <2>1. /\ document \in Document /\ index \subseteq Chunks /\ length \in Layouts
        /\ tangled \in BOOLEAN
    BY DEF Init, Document
  <2>2. job \in [Jobs -> Job]
    BY ExtractionAssumption DEF Init, Job
  <2>3. run \in [Runs -> Run]
    BY IdleRunIsGood DEF Init
  <2> QED
    BY <2>1, <2>2, <2>3 DEF ExtractTypeOK
<1> QED
  BY <1>1, IdleRunIsGood DEF Init, Inv

\* One run takes a step, and nothing else changes.
LEMMA OneRunMoves ==
  ASSUME Inv, NEW r \in Runs, NEW new \in Run, Good(new),
         run' = [run EXCEPT ![r] = new], UNCHANGED ingestion
  PROVE  Inv'
<1>1. \A q \in Runs : run'[q] = IF q = r THEN new ELSE run[q]
  BY DEF Inv, ExtractTypeOK
<1>2. ExtractTypeOK'
  BY DEF Inv, ExtractTypeOK, ingestion
<1>3. \A q \in Runs : Good(run[q])'
  <2> TAKE q \in Runs
  <2>1. Good(run'[q])
    BY <1>1 DEF Inv
  <2> QED
    BY <2>1 DEF Good, Sliced, Shown
<1> QED
  BY <1>2, <1>3 DEF Inv

-----------------------------------------------------------------------------
(* The document changes. *)

\* What a run that is loading does not notice.
LEMMA RacedInv ==
  ASSUME Inv, document' \in Document, index' \subseteq Chunks, job' \in [Jobs -> Job],
         tangled' \in BOOLEAN, length' = length, run' = run \/ Races
  PROVE  Inv'
<1>1. ASSUME NEW r \in Runs
      PROVE  run'[r] \in Run /\ Good(run'[r])
  <2>1. run[r] \in Run /\ Good(run[r])
    BY DEF Inv, ExtractTypeOK
  <2>2. CASE run'[r] = run[r]
    BY <2>1, <2>2
  <2>3. CASE run'[r] = [run[r] EXCEPT !.raced = TRUE]
    <3> DEFINE x == run[r]
               y == run'[r]
    <3>1. x \in Run /\ Good(x)
      BY <2>1
    <3>2. /\ y.at = x.at /\ y.quoted = x.quoted /\ y.sliced = x.sliced
          /\ y.current = x.current /\ y.windows = x.windows /\ y.next = x.next
          /\ y.loaded = x.loaded /\ y.seen = x.seen /\ y \in Run
      BY <2>3, <3>1 DEF Run
    <3> HIDE DEF x, y
    <3>3. Good(y)
      BY <3>1, <3>2 DEF Good, Sliced, Shown
    <3> QED
      BY <3>2, <3>3 DEF y
  <2> QED
    BY <2>2, <2>3 DEF Races
<1>2. run' \in [Runs -> Run]
  <2>1. DOMAIN run' = Runs /\ run' = [r \in Runs |-> run'[r]]
    BY DEF Races, Inv, ExtractTypeOK
  <2> QED
    BY <1>1, <2>1
<1>3. \A r \in Runs : Good(run[r])'
  <2> TAKE r \in Runs
  <2> QED
    BY <1>1 DEF Good, Sliced, Shown
<1> QED
  BY <1>2, <1>3 DEF Inv, ExtractTypeOK

DocumentStep == (\E j \in Jobs : JobStep(j)) \/ DeleteVectors \/ HideRow \/ DeletionDies

LEMMA DocumentInv ==
  ASSUME Inv, DocumentStep
  PROVE  Inv'
<1>1. /\ document \in Document /\ index \subseteq Chunks /\ job \in [Jobs -> Job]
      /\ tangled \in BOOLEAN /\ N \in Nat /\ Chunks = 1 .. N
  BY ExtractionAssumption DEF Inv, ExtractTypeOK, Chunks
<1>2. ASSUME NEW status \in {"pending", "ready"}, SetStatus(status)
      PROVE  document' \in Document
  BY <1>1, <1>2 DEF SetStatus, Document
<1>3. ASSUME NEW j \in Jobs, NEW step, NEW done \in 0 .. N, Move(j, step, done),
             step \in {"sent", "stages", "purge", "upsert", "record", "ended"}
      PROVE  job' \in [Jobs -> Job]
  BY <1>1, <1>3 DEF Move, Job
<1>4. ASSUME NEW j \in Jobs, Report(j) PROVE Inv'
  <2>1. document' \in Document
    BY <1>2, <1>4 DEF Report
  <2>2. job' \in [Jobs -> Job]
    BY <1>1, <1>3, <1>4 DEF Report
  <2>3. tangled' \in BOOLEAN
    BY <1>1, <1>4 DEF Report, Tangles
  <2> QED
    BY <1>1, <1>4, <2>1, <2>2, <2>3, RacedInv DEF Report
<1>5. ASSUME NEW j \in Jobs, Purge(j) PROVE Inv'
  BY <1>1, <1>3, <1>5, RacedInv DEF Purge
<1>6. ASSUME NEW j \in Jobs, UpsertBatch(j) PROVE Inv'
  <2>1. job[j].done \in 0 .. N
    BY <1>1 DEF Job
  <2>2. PICK c \in job[j].done + 1 .. N : /\ index' = index \union (job[j].done + 1 .. c)
                                          /\ Move(j, "upsert", c)
    BY <1>6 DEF UpsertBatch
  <2>3. c \in 0 .. N /\ job[j].done + 1 .. c \subseteq 1 .. N
    BY <1>1, <2>1
  <2>4. index' \subseteq Chunks
    BY <1>1, <2>2, <2>3
  <2> QED
    BY <1>1, <1>3, <1>6, <2>2, <2>3, <2>4, RacedInv DEF UpsertBatch
<1>7. ASSUME NEW j \in Jobs, ReportReady(j) \/ Record(j) PROVE Inv'
  <2>1. document' \in Document
    BY <1>2, <1>7 DEF ReportReady, Record
  <2>2. job' \in [Jobs -> Job]
    <3>1. N \in 0 .. N
      BY <1>1
    <3>2. \E step \in {"record", "ended"} : Move(j, step, N)
      BY <1>7 DEF ReportReady, Record
    <3> QED
      BY <1>3, <3>1, <3>2
  <2> QED
    BY <1>1, <1>7, <2>1, <2>2, RacedInv DEF ReportReady, Record
<1>8. ASSUME NEW j \in Jobs, Stops(j) PROVE Inv'
  BY <1>1, <1>3, <1>8, RacedInv DEF Stops
<1>9. ASSUME NEW j \in Jobs, Fails(j) PROVE Inv'
  BY <1>1, <1>2, <1>3, <1>9, RacedInv DEF Fails
<1>10. CASE DeleteVectors
  <2>1. document' \in Document /\ tangled' \in BOOLEAN
    BY <1>1, <1>10 DEF DeleteVectors, Document, UnderWay
  <2> QED
    BY <1>1, <1>10, <2>1, RacedInv DEF DeleteVectors
<1>11. CASE HideRow \/ DeletionDies
  <2>1. document' \in Document
    BY <1>1, <1>11 DEF HideRow, DeletionDies, Document
  <2> QED
    BY <1>1, <1>11, <2>1, RacedInv DEF HideRow, DeletionDies
<1> QED
  BY <1>4, <1>5, <1>6, <1>7, <1>8, <1>9, <1>10, <1>11 DEF DocumentStep, JobStep

-----------------------------------------------------------------------------
(* A run takes a step. *)

LEMMA AskInv ==
  ASSUME Inv, NEW r \in Runs, Ask(r)
  PROVE  Inv'
<1> DEFINE asked == [IdleRun EXCEPT !.at = "loading", !.raced = tangled]
           new   == IF Extractable THEN asked ELSE Ended("refused")
<1>1. asked \in Run /\ Good(asked)
  <2>1. /\ asked.at = "loading" /\ asked.sliced = {} /\ asked.current = {}
        /\ asked.windows = << >> /\ asked.next = 1 /\ asked.quoted = {} /\ asked.seen = {}
        /\ asked.loaded = {}
    BY DEF IdleRun
  <2>2. asked \in Run
    BY IdleRunIsGood DEF Run, Inv, ExtractTypeOK
  <2> HIDE DEF asked
  <2> QED
    BY <2>1, <2>2, EmptyRunIsGood
<1>2. run' = [run EXCEPT ![r] = new]
  BY DEF Ask
<1> HIDE DEF asked
<1>3. new \in Run /\ Good(new)
  <2>1. CASE Extractable
    BY <1>1, <2>1
  <2>2. CASE ~Extractable
    <3>1. new = Ended("refused")
      BY <2>2
    <3> HIDE DEF new
    <3> QED
      BY <3>1, EndedRunIsGood
  <2> QED
    BY <2>1, <2>2
<1> HIDE DEF new
<1> QED
  BY <1>2, <1>3, OneRunMoves DEF Ask

LEMMA FailsInv ==
  ASSUME Inv, NEW r \in Runs, RunFails(r)
  PROVE  Inv'
<1> DEFINE new == Ended("failed")
<1>1. new \in Run /\ Good(new)
  BY EndedRunIsGood
<1>2. run' = [run EXCEPT ![r] = new] /\ UNCHANGED ingestion
  BY DEF RunFails
<1> HIDE DEF new
<1> QED
  BY <1>1, <1>2, OneRunMoves

LEMMA ScrollInv ==
  ASSUME Inv, NEW r \in Runs, Scroll(r)
  PROVE  Inv'
<1> DEFINE x    == run[r]
           page == Page(x.offset)
           rest == From(x.offset) \ page
           all  == x.loaded \union page
<1>1. x \in Run /\ Good(x) /\ x.at = "loading"
  BY DEF Inv, ExtractTypeOK, Scroll
<1>2. all \in SUBSET Chunks /\ Truncated(all) \in SUBSET Chunks /\ rest \subseteq Chunks
  <2>1. index \subseteq Chunks
    BY DEF Inv, ExtractTypeOK
  <2>2. x.loaded \subseteq Chunks
    BY <1>1 DEF Run
  <2>3. page \subseteq Chunks /\ rest \subseteq Chunks
    BY <2>1 DEF Page, From
  <2>4. Truncated(all) \subseteq all
    BY DEF Truncated
  <2> QED
    BY <2>2, <2>3, <2>4
<1> HIDE DEF page, rest, all
<1>3. ASSUME NEW c \in rest, run' = [run EXCEPT ![r].loaded = all, ![r].offset = IdRank[c]]
      PROVE  Inv'
  <2> DEFINE new == [x EXCEPT !.loaded = all, !.offset = IdRank[c]]
  <2>1. IdRank[c] \in Nat
    BY <1>2, ExtractionAssumption
  <2>2. new \in Run
    BY <1>1, <1>2, <2>1 DEF Run
  <2>3. /\ new.at = "loading" /\ new.sliced = x.sliced /\ new.current = x.current
        /\ new.windows = x.windows /\ new.next = x.next /\ new.quoted = x.quoted
        /\ new.seen = x.seen
    BY <1>1 DEF Run
  <2>4. run' = [run EXCEPT ![r] = new]
    BY <1>3 DEF Inv, ExtractTypeOK
  <2> HIDE DEF new
  <2>5. Good(new)
    BY <1>1, <2>3 DEF Good
  <2> QED
    BY <2>2, <2>3, <2>4, <2>5, OneRunMoves DEF Scroll
<1>4. ASSUME all = {}, run' = [run EXCEPT ![r] = Ended("refused")]
      PROVE  Inv'
  <2>1. Ended("refused") \in Run /\ Good(Ended("refused"))
    BY EndedRunIsGood
  <2> QED
    BY <1>4, <2>1, OneRunMoves DEF Scroll
<1>5. ASSUME run' = [run EXCEPT ![r] = [x EXCEPT !.loaded = Truncated(all), !.offset = 0,
                                                 !.at = "slicing"]]
      PROVE  Inv'
  <2> DEFINE new == [x EXCEPT !.loaded = Truncated(all), !.offset = 0, !.at = "slicing"]
  <2>1. new \in Run
    BY <1>1, <1>2 DEF Run
  <2>2. /\ new.at = "slicing" /\ new.sliced = {} /\ new.current = {}
        /\ new.next = 1 /\ new.quoted = x.quoted /\ new.seen = x.seen
    BY <1>1 DEF Run, Good
  <2>3. run' = [run EXCEPT ![r] = new]
    BY <1>5
  <2> HIDE DEF new
  <2>4. Good(new)
    BY <1>1, <2>2 DEF Good, Sliced
  <2> QED
    BY <2>1, <2>2, <2>3, <2>4, OneRunMoves DEF Scroll
<1>6. \/ \E c \in rest : run' = [run EXCEPT ![r].loaded = all, ![r].offset = IdRank[c]]
      \/ run' = [run EXCEPT ![r] =
                   IF all = {} THEN Ended("refused")
                   ELSE [x EXCEPT !.loaded = Truncated(all), !.offset = 0, !.at = "slicing"]]
  BY DEF Scroll, page, rest, all, Inv, ExtractTypeOK
<1> HIDE DEF x
<1> QED
  BY <1>3, <1>4, <1>5, <1>6

\* The overlap of a window that is full is its last chunk, which the next
\* chunk then joins.
LEMMA SliceInv ==
  ASSUME Inv, NEW r \in Runs, Slice(r)
  PROVE  Inv'
<1> DEFINE x == run[r]
<1>1. x \in Run /\ Good(x) /\ x.at = "slicing" /\ Sliced(x)
  BY DEF Inv, ExtractTypeOK, Slice, Good
<1>2. PICK c \in x.loaded \ x.sliced :
        /\ \A d \in x.loaded \ x.sliced : c <= d
        /\ LET full == x.current # {} /\ Chars(x.current) + length[c] > WindowChars
           IN run' = [run EXCEPT
               ![r].sliced  = @ \union {c},
               ![r].windows = IF full THEN Append(@, x.current) ELSE @,
               ![r].current = (IF full THEN Overlap(@) ELSE @) \union {c}]
  BY DEF Slice
<1> DEFINE full    == x.current # {} /\ Chars(x.current) + length[c] > WindowChars
           windows == IF full THEN Append(x.windows, x.current) ELSE x.windows
           kept    == IF full THEN Overlap(x.current) ELSE x.current
           new     == [x EXCEPT !.sliced = x.sliced \union {c}, !.windows = windows,
                                !.current = kept \union {c}]
<1>3. run' = [run EXCEPT ![r] = new]
  <2>1. run \in [Runs -> Run]
    BY DEF Inv, ExtractTypeOK
  <2> HIDE DEF full
  <2>2. run' = [run EXCEPT
               ![r].sliced  = @ \union {c},
               ![r].windows = IF full THEN Append(@, x.current) ELSE @,
               ![r].current = (IF full THEN Overlap(@) ELSE @) \union {c}]
    BY <1>2 DEF full
  <2> QED
    BY <2>1, <2>2
<1> HIDE DEF full
<1>4. /\ x.loaded \in SUBSET Chunks /\ x.sliced \in SUBSET Chunks
      /\ x.current \in SUBSET Chunks /\ x.windows \in Seq(SUBSET Chunks)
      /\ c \in Chunks /\ \A d \in Chunks : d \in Int
  BY <1>1 DEF Run, Chunks
<1>5. kept \subseteq x.current /\ windows \in Seq(SUBSET Chunks)
  BY <1>4 DEF Overlap
<1>6. ASSUME NEW a, NEW b, Shown(x, a, b)
      PROVE  \E w \in DOMAIN windows : a \in windows[w] /\ b \in windows[w]
  <2>1. PICK w \in DOMAIN x.windows : a \in x.windows[w] /\ b \in x.windows[w]
    BY <1>6 DEF Shown
  <2>2. w \in DOMAIN windows /\ windows[w] = x.windows[w]
    BY <1>4, <2>1
  <2> QED
    BY <2>1, <2>2
<1>7. ASSUME NEW a \in x.current, NEW b \in x.current
      PROVE  \/ \E w \in DOMAIN windows : a \in windows[w] /\ b \in windows[w]
             \/ a \in kept /\ b \in kept
  <2>1. CASE full
    <3>1. /\ Len(x.windows) + 1 \in DOMAIN windows
          /\ windows[Len(x.windows) + 1] = x.current
      BY <1>4, <2>1
    <3> QED
      BY <3>1
  <2>2. CASE ~full
    BY <2>2
  <2> QED
    BY <2>1, <2>2
<1>8. ASSUME NEW m \in x.current, \A d \in x.sliced : d <= m
      PROVE  m \in kept
  BY <1>1, <1>8 DEF Overlap, Sliced
<1> HIDE DEF windows, kept
<1>9. /\ new \in Run /\ new.at = "slicing" /\ new.loaded = x.loaded /\ new.next = 1
      /\ new.sliced = x.sliced \union {c} /\ new.windows = windows
      /\ new.current = kept \union {c} /\ new.quoted = x.quoted /\ new.seen = x.seen
  <2>1. x.next = 1
    BY <1>1 DEF Good
  <2>2. kept \union {c} \in SUBSET Chunks /\ x.sliced \union {c} \in SUBSET Chunks
    BY <1>4, <1>5
  <2> QED
    BY <1>1, <1>5, <2>1, <2>2 DEF Run
<1> HIDE DEF new
<1>10. \A d \in x.sliced : d < c
  BY <1>1, <1>4 DEF Sliced
<1>11. Sliced(new)
  <2>1. new.sliced \subseteq new.loaded /\ new.current \subseteq new.sliced
    BY <1>1, <1>5, <1>9 DEF Sliced
  <2>2. ASSUME NEW e \in new.loaded \ new.sliced, NEW d \in new.sliced
        PROVE  d < e
    <3>1. e \in x.loaded \ x.sliced /\ e # c /\ e \in Int /\ c \in Int
      BY <1>4, <1>9
    <3>2. c < e
      <4>1. c <= e
        BY <1>2, <3>1, Zenon
      <4> QED
        BY <3>1, <4>1
    <3>3. CASE d = c
      BY <3>2, <3>3
    <3>4. CASE d \in x.sliced
      BY <1>1, <3>1, <3>4 DEF Sliced
    <3> QED
      BY <1>9, <3>3, <3>4
  <2>3. c \in new.current /\ \A d \in new.sliced : d <= c
    <3>1. c <= c
      BY <1>4
    <3>2. \A d \in x.sliced : d <= c
      BY <1>4, <1>10
    <3> QED
      BY <1>9, <3>1, <3>2
  <2>4. ASSUME NEW a \in new.sliced, NEW b \in new.sliced, b \in {a, a + 1}
        PROVE  Shown(new, a, b) \/ (a \in new.current /\ b \in new.current)
    <3>1. CASE a \in x.sliced /\ b \in x.sliced
      <4>1. Shown(x, a, b) \/ (a \in x.current /\ b \in x.current)
        BY <1>1, <2>4, <3>1 DEF Sliced
      <4> QED
        BY <1>6, <1>7, <1>9, <4>1 DEF Shown
    <3>2. CASE a = c /\ b = c
      BY <1>9, <3>2
    <3>3. CASE a = c /\ b \in x.sliced /\ b # c
      <4>1. b < c /\ b \in Int /\ c \in Int
        BY <1>4, <1>10, <3>3
      <4> QED
        BY <2>4, <3>3, <4>1
    <3>4. CASE a \in x.sliced /\ a # c /\ b = c
      <4>1. PICK m \in x.current : \A d \in x.sliced : d <= m
        BY <1>1, <3>4 DEF Sliced
      <4>2. m \in x.sliced /\ m < c /\ a <= m /\ c = a + 1
        BY <1>1, <1>10, <2>4, <3>4, <4>1 DEF Sliced
      <4>3. m = a
        <5>1. m \in Int /\ a \in Int /\ c \in Int
          BY <1>4, <3>4, <4>1
        <5> QED
          BY <4>2, <5>1
      <4> QED
        BY <1>8, <1>9, <3>4, <4>1, <4>3
    <3> QED
      BY <1>9, <3>1, <3>2, <3>3, <3>4
  <2> QED
    BY <2>1, <2>2, <2>3, <2>4 DEF Sliced
<1>12. Good(new)
  BY <1>1, <1>9, <1>11 DEF Good
<1> QED
  BY <1>3, <1>9, <1>12, OneRunMoves DEF Slice

LEMMA LastWindowInv ==
  ASSUME Inv, NEW r \in Runs, LastWindow(r)
  PROVE  Inv'
<1> DEFINE x   == run[r]
           new == [x EXCEPT !.windows = Append(x.windows, x.current), !.at = "reading"]
<1>1. x \in Run /\ Good(x) /\ x.at = "slicing" /\ x.sliced = x.loaded /\ Sliced(x)
  BY DEF Inv, ExtractTypeOK, LastWindow, Good
<1>2. run' = [run EXCEPT ![r] = new]
  BY DEF LastWindow, Inv, ExtractTypeOK
<1>3. /\ x.windows \in Seq(SUBSET Chunks) /\ x.current \in SUBSET Chunks
      /\ Append(x.windows, x.current) \in Seq(SUBSET Chunks)
  BY <1>1 DEF Run
<1>4. /\ new \in Run /\ new.at = "reading" /\ new.loaded = x.loaded /\ new.next = 1
      /\ new.windows = Append(x.windows, x.current) /\ new.quoted = x.quoted
      /\ new.seen = x.seen
  <2>1. x.next = 1
    BY <1>1 DEF Good
  <2> QED
    BY <1>1, <1>3, <2>1 DEF Run
<1> HIDE DEF new
<1>5. ASSUME NEW a \in new.loaded, NEW b \in new.loaded, b \in {a, a + 1}
      PROVE  Shown(new, a, b)
  <2>1. Shown(x, a, b) \/ (a \in x.current /\ b \in x.current)
    BY <1>1, <1>4, <1>5 DEF Sliced
  <2>2. CASE Shown(x, a, b)
    <3>1. PICK w \in DOMAIN x.windows : a \in x.windows[w] /\ b \in x.windows[w]
      BY <2>2 DEF Shown
    <3>2. w \in DOMAIN new.windows /\ new.windows[w] = x.windows[w]
      BY <1>3, <1>4, <3>1
    <3> QED
      BY <3>1, <3>2 DEF Shown
  <2>3. CASE a \in x.current /\ b \in x.current
    <3>1. /\ Len(x.windows) + 1 \in DOMAIN new.windows
          /\ new.windows[Len(x.windows) + 1] = x.current
      BY <1>3, <1>4
    <3> QED
      BY <2>3, <3>1 DEF Shown
  <2> QED
    BY <2>1, <2>2, <2>3
<1>6. new.next \in 1 .. Len(new.windows)
  BY <1>3, <1>4
<1>7. Good(new)
  BY <1>1, <1>4, <1>5, <1>6 DEF Good
<1> QED
  BY <1>2, <1>4, <1>7, OneRunMoves DEF LastWindow

LEMMA NextWindowInv ==
  ASSUME Inv, NEW r \in Runs, NextWindow(r)
  PROVE  Inv'
<1> DEFINE x   == run[r]
           at  == IF x.next = Len(x.windows) THEN "found" ELSE x.at
           new == [x EXCEPT !.next = x.next + 1, !.at = at]
<1>1. x \in Run /\ Good(x) /\ x.at = "reading"
  BY DEF Inv, ExtractTypeOK, NextWindow
<1>2. run' = [run EXCEPT ![r] = new]
  BY DEF NextWindow, Inv, ExtractTypeOK
<1>3. /\ new \in Run /\ new.at = at /\ new.loaded = x.loaded /\ new.next = x.next + 1
      /\ new.windows = x.windows /\ new.quoted = x.quoted /\ new.seen = x.seen
  <2>1. at \in {"reading", "found"} /\ x.next + 1 \in Nat
    BY <1>1 DEF Run
  <2> HIDE DEF at
  <2> QED
    BY <1>1, <2>1 DEF Run
<1>4. x.next \in 1 .. Len(x.windows) /\ Len(x.windows) \in Nat
  BY <1>1 DEF Run, Good
<1>5. at \in {"reading", "found"} /\ (at = "reading" => x.next # Len(x.windows))
  BY <1>1
<1> HIDE DEF new, at
<1>6. at = "reading" => new.next \in 1 .. Len(new.windows)
  BY <1>3, <1>4, <1>5
<1>7. Good(new)
  BY <1>1, <1>3, <1>5, <1>6 DEF Good, Shown
<1> QED
  BY <1>2, <1>3, <1>5, <1>7, OneRunMoves DEF NextWindow

\* A source span resolves exactly when the window has it, to a chunk.
LEMMA AnchorsExist ==
  ASSUME NEW span, NEW window \in SUBSET Chunks
  PROVE  /\ Anchors(span, window) \subseteq Chunks
         /\ Within(span, window) # {} => Anchors(span, window) # {}
         /\ Anchors(span, window) # {} => span \in Spans
<1> DEFINE whole == {o[1] : o \in {p \in Within(span, window) : p[1] = p[2]}}
<1>1. /\ whole \in SUBSET Chunks
      /\ Within(span, window) # {} => window # {} /\ span \in Spans
  BY DEF Within
<1>2. window \in SUBSET Nat /\ whole \in SUBSET Nat
  BY <1>1 DEF Chunks
<1> HIDE DEF whole
<1>3. window # {} => {c \in window : \A d \in window : c <= d} # {}
  BY <1>2, Least
<1>4. whole # {} => {c \in whole : \A d \in whole : c <= d} # {}
  BY <1>2, Least
<1>5. Anchors(span, window) =
        IF Within(span, window) = {} THEN {}
        ELSE IF whole # {} THEN {c \in whole : \A d \in whole : c <= d}
        ELSE {c \in window : \A d \in window : c <= d}
  BY DEF Anchors, whole
<1> QED
  BY <1>1, <1>3, <1>4, <1>5

\* What the model quotes is kept, unless it was filed before.
LEMMA ProposeInv ==
  ASSUME Inv, NEW r \in Runs, Propose(r)
  PROVE  Inv'
<1> DEFINE x      == run[r]
           window == x.windows[x.next]
<1>1. x \in Run /\ Good(x) /\ x.at = "reading"
  BY DEF Inv, ExtractTypeOK, Propose
<1>2. PICK p \in Menu :
        run' = [run EXCEPT
            ![r].seen      = Absorbed(r, p, window),
            ![r].proposals = @ + 1,
            ![r].quoted    = @ \union (IF p.text # Empty /\ Within(p.source, window) # {}
                                         THEN {<<RefOf(p), p.text>>} ELSE {})]
  BY DEF Propose
<1> DEFINE quoting == p.text # Empty /\ Within(p.source, window) # {}
           quoted  == x.quoted \union (IF quoting THEN {<<RefOf(p), p.text>>} ELSE {})
           seen    == Absorbed(r, p, window)
           new     == [x EXCEPT !.seen = seen, !.proposals = x.proposals + 1, !.quoted = quoted]
<1>3. run' = [run EXCEPT ![r] = new]
  BY <1>2 DEF Inv, ExtractTypeOK
<1>4. window \in SUBSET Chunks
  BY <1>1 DEF Run, Good
<1>5. p \in Proposal
  BY ExtractionAssumption
<1>6. quoting => Kept(p, window)
  BY <1>4, AnchorsExist DEF Kept
<1>7. Kept(p, window) =>
        /\ RefOf(p) \in Reference /\ p.text \in Texts /\ p.source \in Spans
        /\ (CHOOSE c \in Anchors(p.source, window) : TRUE) \in Chunks
  <2> SUFFICES ASSUME Kept(p, window)
               PROVE  /\ RefOf(p) \in Reference /\ p.text \in Texts /\ p.source \in Spans
                      /\ (CHOOSE c \in Anchors(p.source, window) : TRUE) \in Chunks
    OBVIOUS
  <2>1. p.source \in Spans /\ p.text \in Texts
    BY <1>4, <1>5, AnchorsExist DEF Kept, Proposal
  <2>2. RefOf(p) \in Reference
    BY <1>5, <2>1 DEF RefOf, Reference, SyntheticRef, Proposal
  <2>3. (CHOOSE c \in Anchors(p.source, window) : TRUE) \in Chunks
    BY <1>4, AnchorsExist DEF Kept
  <2> QED
    BY <2>1, <2>2, <2>3
<1> DEFINE require == [ref |-> RefOf(p), text |-> p.text, source |-> p.source,
                       chunk |-> CHOOSE c \in Anchors(p.source, window) : TRUE]
<1>8. Kept(p, window) => require \in Requirement
  BY <1>7 DEF Requirement
<1>9. \/ ~Kept(p, window) /\ seen = x.seen
      \/ SeenBefore(r, RefOf(p), p.text) /\ seen = x.seen
      \/ /\ Kept(p, window) /\ ~SeenBefore(r, RefOf(p), p.text)
         /\ seen = x.seen \union {require}
  <2>1. CASE ~Kept(p, window) \/ SeenBefore(r, RefOf(p), p.text)
    BY <2>1, Zenon DEF Absorbed
  <2>2. CASE ~(~Kept(p, window) \/ SeenBefore(r, RefOf(p), p.text))
    BY <2>2, Zenon DEF Absorbed
  <2> QED
    BY <2>1, <2>2
<1>10. require.ref = RefOf(p) /\ require.text = p.text
  OBVIOUS
<1> HIDE DEF require, window, quoting, seen
<1>11. x.seen \subseteq seen /\ seen \in SUBSET Requirement
  <2>1. x.seen \in SUBSET Requirement
    BY <1>1 DEF Run
  <2> HIDE DEF x
  <2> QED
    BY <1>8, <1>9, <2>1
<1> DEFINE key == DedupeKey(RefOf(p), p.text)
<1>12. SeenBefore(r, RefOf(p), p.text) <=> \E m \in x.seen : DedupeKey(m.ref, m.text) = key
  BY DEF SeenBefore
<1>13. DedupeKey(require.ref, require.text) = key
  BY <1>10
<1> HIDE DEF key
<1>14. quoting => \E m \in seen : DedupeKey(m.ref, m.text) = key
  BY <1>6, <1>9, <1>11, <1>12, <1>13
<1>15. quoted \in SUBSET (Reference \X Texts)
  <2>1. x.quoted \in SUBSET (Reference \X Texts)
    BY <1>1 DEF Run
  <2> QED
    BY <1>6, <1>7, <2>1
<1>16. \A q \in quoted : \E m \in seen : DedupeKey(m.ref, m.text) = DedupeKey(q[1], q[2])
  <2> TAKE q \in quoted
  <2>1. CASE q \in x.quoted
    <3>1. PICK m \in x.seen : DedupeKey(m.ref, m.text) = DedupeKey(q[1], q[2])
      BY <1>1, <2>1 DEF Good
    <3> QED
      BY <1>11, <3>1
  <2>2. CASE quoting /\ q = <<RefOf(p), p.text>>
    <3>1. DedupeKey(q[1], q[2]) = key
      BY <2>2 DEF key
    <3> QED
      BY <1>14, <2>2, <3>1
  <2> QED
    BY <2>1, <2>2
<1>17. \A m, n \in seen : DedupeKey(m.ref, m.text) = DedupeKey(n.ref, n.text) => m = n
  <2>1. \A m, n \in x.seen : DedupeKey(m.ref, m.text) = DedupeKey(n.ref, n.text) => m = n
    BY <1>1 DEF Good
  <2> HIDE DEF x
  <2>2. CASE seen = x.seen
    BY <2>1, <2>2
  <2>3. CASE ~SeenBefore(r, RefOf(p), p.text) /\ seen = x.seen \union {require}
    BY <1>12, <1>13, <2>1, <2>3
  <2> QED
    BY <1>9, <2>2, <2>3
<1> HIDE DEF quoted
<1>18. /\ new \in Run /\ new.at = "reading" /\ new.loaded = x.loaded /\ new.next = x.next
       /\ new.windows = x.windows /\ new.quoted = quoted /\ new.seen = seen
  <2>1. x.proposals + 1 \in Nat
    BY <1>1 DEF Run
  <2> QED
    BY <1>1, <1>11, <1>15, <2>1 DEF Run
<1> HIDE DEF new
<1>19. Good(new)
  BY <1>1, <1>16, <1>17, <1>18 DEF Good, Shown
<1> QED
  BY <1>3, <1>18, <1>19, OneRunMoves DEF Propose

-----------------------------------------------------------------------------
(* The theorems. *)

LEMMA StepInv == Inv /\ [Next]_vars => Inv'
<1> SUFFICES ASSUME Inv, [Next]_vars PROVE Inv'
  OBVIOUS
<1>1. CASE UNCHANGED vars
  <2>1. /\ document' = document /\ index' = index /\ job' = job /\ tangled' = tangled
        /\ length' = length /\ run' = run
    BY <1>1 DEF vars, ingestion
  <2> QED
    BY <2>1, RacedInv DEF Inv, ExtractTypeOK
<1>2. CASE DocumentStep
  BY <1>2, DocumentInv
<1>3. ASSUME NEW r \in Runs, RunStep(r)
      PROVE  Inv'
  BY <1>3, AskInv, ScrollInv, SliceInv, LastWindowInv, ProposeInv, NextWindowInv, FailsInv
     DEF RunStep
<1> QED
  BY <1>1, <1>2, <1>3 DEF Next, DocumentStep

\* The inductive invariant: while a run slices, neighbours among the chunks it
\* has sliced are together in a window or in the one being filled; what it has
\* quoted is among what it has filed, under a key of its own.
THEOREM InvHolds == Spec => []Inv
BY InitInv, StepInv, PTL DEF Spec

\* The document, its jobs and the runs keep their types.
THEOREM ExtractionIsTyped == Spec => []ExtractTypeOK
<1>1. Inv => ExtractTypeOK
  BY DEF Inv
<1> QED
  BY <1>1, InvHolds, PTL

\* Whatever the lengths of the chunks and of a window, two neighbouring chunks
\* are read together once.
THEOREM NeighboursAreShownWhole == Spec => []ShownWhole
<1>1. Inv => ShownWhole
  BY DEF Inv, Good, Shown, ShownWhole
<1> QED
  BY <1>1, InvHolds, PTL

\* What the model quoted is found, once, whatever it quotes and however often.
THEOREM QuotesAreFoundOnce == Spec => []QuotedIsFoundOnce
<1>1. Inv => QuotedIsFoundOnce
  BY DEF Inv, Good, QuotedIsFoundOnce
<1> QED
  BY <1>1, InvHolds, PTL

-----------------------------------------------------------------------------
(* Loading the document whole. *)

\* What a request that scrolls has, while its loading is not disturbed: exactly
\* the chunks whose ids come before its offset, or nothing of a document whose
\* vectors a deletion that died has taken away.
Undisturbed(x) ==
  /\ document.live /\ document.status = "ready" /\ ~tangled
  /\ \/ index = Chunks /\ x.loaded = {c \in Chunks : IdRank[c] < x.offset}
     \/ index = {} /\ x.loaded = {}

LoadsWhole(x) ==
  /\ x.at = "loading" /\ ~x.raced => Undisturbed(x)
  /\ x.at \in {"slicing", "reading", "found"} =>
       x.raced \/ x.loaded = Chunks \/ Cardinality(x.loaded) = MaxChunks

\* Unless executions have overlapped, one at most is under way; until it has
\* upserted every chunk the document is not READY, and the index holds what it
\* has upserted; a READY document is in the index whole or not at all.
ReadyIsIndexed ==
  ~tangled =>
    /\ \A j, k \in Jobs : UnderWay(j) /\ UnderWay(k) => j = k
    /\ \A j \in Jobs :
         /\ job[j].step \in {"stages", "purge", "upsert"} /\ document.live =>
              document.status = "pending"
         /\ job[j].step = "upsert" => index = 1 .. job[j].done
         /\ job[j].step = "record" => index = Chunks
    /\ document.live /\ document.status = "ready" => index \in {Chunks, {}}

LoadInv ==
  /\ Inv
  /\ ReadyIsIndexed
  /\ \A r \in Runs : LoadsWhole(run[r])

\* What is cut off a document is what is above the limit: the first MaxChunks
\* remain.
LEMMA Truncation ==
  ASSUME NEW S \in SUBSET Chunks
  PROVE  \/ Truncated(S) = S /\ Cardinality(S) <= MaxChunks
         \/ Cardinality(Truncated(S)) = MaxChunks
<1> DEFINE B(c) == {d \in S : d < c}
           n    == Cardinality(S)
           rank == [c \in S |-> Cardinality(B(c))]
<1>1. /\ IsFiniteSet(S) /\ n \in Nat /\ S \subseteq Nat /\ MaxChunks \in Nat \ {0}
      /\ N \in Nat
  <2>1. IsFiniteSet(Chunks)
    BY FS_Interval, ExtractionAssumption DEF Chunks
  <2>2. IsFiniteSet(S)
    BY <2>1, FS_Subset
  <2> QED
    BY <2>2, FS_CardinalityType, ExtractionAssumption DEF Chunks
<1>2. \A c \in S : IsFiniteSet(B(c)) /\ Cardinality(B(c)) \in Nat
  <2> TAKE c \in S
  <2>1. B(c) \in SUBSET S
    OBVIOUS
  <2> QED
    BY <1>1, <2>1, FS_Subset, FS_CardinalityType
<1>3. ASSUME NEW c \in S, NEW d \in S, d < c
      PROVE  Cardinality(B(d)) < Cardinality(B(c))
  <2>1. B(d) \in SUBSET B(c) /\ d \in B(c) /\ d \notin B(d)
    <3>1. c \in Nat /\ d \in Nat /\ S \subseteq Nat
      BY <1>1
    <3>2. \A e \in S : e < d => e < c
      BY <1>3, <3>1
    <3>3. B(d) \in SUBSET B(c)
      BY <3>2, Zenon
    <3>4. ~(d < d)
      BY <3>1
    <3> QED
      BY <1>3, <3>3, <3>4, Zenon
  <2>2. /\ Cardinality(B(d)) <= Cardinality(B(c))
        /\ Cardinality(B(c)) = Cardinality(B(d)) => B(c) = B(d)
    BY <1>2, <2>1, FS_Subset
  <2> QED
    BY <1>2, <2>1, <2>2
<1>4. \A c \in S : Cardinality(B(c)) < n
  <2> TAKE c \in S
  <2>1. B(c) \in SUBSET S /\ c \notin B(c)
    BY <1>1
  <2>2. Cardinality(B(c)) <= n /\ (n = Cardinality(B(c)) => S = B(c))
    BY <1>1, <2>1, FS_Subset
  <2> QED
    BY <1>1, <1>2, <2>1, <2>2
<1>5. Truncated(S) = {c \in S : Cardinality(B(c)) < MaxChunks}
  BY DEF Truncated
<1> HIDE DEF B, n
<1>6. CASE n <= MaxChunks
  <2>1. \A c \in S : Cardinality(B(c)) < MaxChunks
    BY <1>1, <1>2, <1>4, <1>6
  <2> QED
    BY <1>5, <1>6, <2>1 DEF n
<1>7. CASE n > MaxChunks
  <2> DEFINE T == Truncated(S)
             f == [c \in T |-> rank[c]]
  <2>1. rank \in Injection(S, 0 .. (n - 1))
    <3>1. rank \in [S -> 0 .. (n - 1)]
      BY <1>1, <1>2, <1>4
    <3>2. \A c, d \in S : rank[c] = rank[d] => c = d
      <4> SUFFICES ASSUME NEW c \in S, NEW d \in S, c # d
                   PROVE  Cardinality(B(c)) # Cardinality(B(d))
        BY Zenon
      <4>1. c < d \/ d < c
        BY <1>1
      <4> QED
        BY <1>2, <1>3, <4>1
    <3> QED
      BY <3>1, <3>2 DEF Injection, IsInjective
  <2>2. \A k \in 0 .. (n - 1) : \E c \in S : rank[c] = k
    <3>1. IsFiniteSet(0 .. (n - 1)) /\ Cardinality(0 .. (n - 1)) = n
      <4>1. n - 1 \in Int /\ ~(0 > n - 1) /\ (n - 1) - 0 + 1 = n
        BY <1>1, <1>7
      <4> QED
        BY <4>1, FS_Interval
    <3>2. rank \in Surjection(S, 0 .. (n - 1))
      <4> HIDE DEF rank
      <4> QED
        BY <2>1, <3>1, FS_Injection DEF n
    <3> QED
      BY <3>2 DEF Surjection
  <2>3. f \in Injection(T, 0 .. (MaxChunks - 1))
    <3>1. T \subseteq S /\ \A c \in T : rank[c] < MaxChunks
      BY <1>5
    <3>2. \A c \in T : rank[c] \in Nat
      BY <1>2, <3>1
    <3>3. f \in [T -> 0 .. (MaxChunks - 1)]
      <4> HIDE DEF rank, T
      <4> QED
        BY <1>1, <3>1, <3>2
    <3>4. \A c, d \in T : f[c] = f[d] => c = d
      <4> HIDE DEF rank, T
      <4> QED
        BY <2>1, <3>1 DEF Injection, IsInjective
    <3> QED
      BY <3>3, <3>4 DEF Injection, IsInjective
  <2>4. f \in Surjection(T, 0 .. (MaxChunks - 1))
    <3>1. f \in [T -> 0 .. (MaxChunks - 1)]
      BY <2>3 DEF Injection
    <3>2. ASSUME NEW k \in 0 .. (MaxChunks - 1) PROVE \E c \in T : f[c] = k
      <4>1. k \in 0 .. (n - 1) /\ k < MaxChunks
        BY <1>1, <1>7
      <4>2. PICK c \in S : rank[c] = k
        BY <2>2, <4>1
      <4>3. c \in T
        BY <1>5, <4>1, <4>2
      <4> QED
        BY <4>2, <4>3
    <3> QED
      BY <3>1, <3>2 DEF Surjection
  <2>5. IsFiniteSet(0 .. (MaxChunks - 1)) /\ Cardinality(0 .. (MaxChunks - 1)) = MaxChunks
    <3>1. MaxChunks - 1 \in Int /\ ~(0 > MaxChunks - 1) /\ (MaxChunks - 1) - 0 + 1 = MaxChunks
      BY <1>1
    <3> QED
      BY <3>1, FS_Interval
  <2>6. Cardinality(T) = MaxChunks
    <3> HIDE DEF f, T
    <3> QED
      BY <2>3, <2>4, <2>5, FS_Injection
  <2> QED
    BY <2>6
<1> QED
  BY <1>1, <1>6, <1>7

\* The ids of a page come before the ids of what is left, so the chunks before
\* the next offset are the ones before this one and the page.
LEMMA PagesFollow ==
  ASSUME index = Chunks, NEW offset \in Nat,
         NEW c \in From(offset) \ Page(offset),
         \A d \in From(offset) \ Page(offset) : IdRank[c] <= IdRank[d]
  PROVE  {e \in Chunks : IdRank[e] < IdRank[c]}
           = {e \in Chunks : IdRank[e] < offset} \union Page(offset)
<1> DEFINE F    == From(offset)
           B(e) == {d \in F : IdRank[d] < IdRank[e]}
<1>1. /\ F = {e \in Chunks : IdRank[e] >= offset} /\ F \subseteq Chunks
      /\ Page(offset) = {e \in F : Cardinality(B(e)) < PageSize}
  BY DEF From, Page
<1>2. /\ \A e \in Chunks : IdRank[e] \in Nat
      /\ \A e, d \in Chunks : IdRank[e] = IdRank[d] => e = d
      /\ PageSize \in Nat
  BY ExtractionAssumption
<1>3. \A e \in F : IsFiniteSet(B(e)) /\ Cardinality(B(e)) \in Nat
  <2> TAKE e \in F
  <2>1. B(e) \in SUBSET Chunks
    BY <1>1
  <2>2. IsFiniteSet(Chunks)
    BY FS_Interval, ExtractionAssumption DEF Chunks
  <2> QED
    BY <2>1, <2>2, FS_Subset, FS_CardinalityType
<1>4. c \in F /\ c \in Chunks /\ ~(Cardinality(B(c)) < PageSize)
  BY <1>1
<1>5. ASSUME NEW p \in Page(offset) PROVE p \in F /\ p \in Chunks /\ IdRank[p] < IdRank[c]
  <2>1. p \in F /\ p \in Chunks /\ Cardinality(B(p)) < PageSize
    BY <1>1
  <2>2. ASSUME IdRank[c] < IdRank[p] PROVE FALSE
    <3>1. B(c) \in SUBSET B(p)
      BY <1>1, <1>2, <1>4, <2>1, <2>2
    <3>2. Cardinality(B(c)) <= Cardinality(B(p))
      BY <1>3, <2>1, <3>1, FS_Subset
    <3> QED
      BY <1>2, <1>3, <1>4, <2>1, <3>2
  <2>3. IdRank[p] # IdRank[c]
    BY <1>2, <1>4, <2>1
  <2> QED
    BY <1>2, <1>4, <2>1, <2>2, <2>3
<1>6. ASSUME NEW e \in Chunks, IdRank[e] < IdRank[c], ~(IdRank[e] < offset)
      PROVE  e \in Page(offset)
  <2>1. e \in F
    BY <1>1, <1>2, <1>6
  <2>2. ~(IdRank[c] <= IdRank[e])
    BY <1>2, <1>4, <1>6
  <2> QED
    BY <2>1, <2>2
<1>7. ASSUME NEW e \in Chunks, IdRank[e] < offset PROVE IdRank[e] < IdRank[c]
  BY <1>1, <1>2, <1>4, <1>7
<1> QED
  BY <1>5, <1>6, <1>7

LEMMA InitLoads == Init => LoadInv
<1> SUFFICES ASSUME Init PROVE LoadInv
  OBVIOUS
<1>1. ReadyIsIndexed
  BY DEF Init, ReadyIsIndexed, UnderWay
<1>2. \A r \in Runs : LoadsWhole(run[r])
  BY IdleRunIsGood DEF Init, LoadsWhole
<1> QED
  BY <1>1, <1>2, InitInv DEF LoadInv

\* One run takes a step and the document stays.
LEMMA OneRunLoads ==
  ASSUME LoadInv, Inv', NEW r \in Runs, NEW new, LoadsWhole(new),
         run' = [run EXCEPT ![r] = new], UNCHANGED ingestion
  PROVE  LoadInv'
<1>1. ReadyIsIndexed'
  BY DEF LoadInv, ReadyIsIndexed, UnderWay, ingestion
<1>2. ASSUME NEW q \in Runs PROVE LoadsWhole(run[q])'
  <2>1. run'[q] = IF q = r THEN new ELSE run[q]
    BY DEF LoadInv, Inv, ExtractTypeOK
  <2>2. LoadsWhole(run'[q])
    BY <2>1 DEF LoadInv
  <2> QED
    BY <2>2 DEF LoadsWhole, Undisturbed, ingestion
<1> QED
  BY <1>1, <1>2 DEF LoadInv

LEMMA EndedLoads ==
  ASSUME NEW at \in {"refused", "failed"}
  PROVE  LoadsWhole(Ended(at))
<1>1. Ended(at).at = at
  BY DEF Ended, IdleRun
<1> HIDE DEF Ended
<1> QED
  BY <1>1 DEF LoadsWhole

LEMMA AskLoads ==
  ASSUME LoadInv, Inv', NEW r \in Runs, Ask(r)
  PROVE  LoadInv'
<1> DEFINE asked == [IdleRun EXCEPT !.at = "loading", !.raced = tangled]
<1>1. CASE Extractable
  <2>1. run' = [run EXCEPT ![r] = asked] /\ UNCHANGED ingestion
    BY <1>1 DEF Ask
  <2>2. asked.at = "loading" /\ asked.loaded = {} /\ asked.offset = 0 /\ asked.raced = tangled
    BY DEF IdleRun
  <2> HIDE DEF asked
  <2>3. document.live /\ document.status = "ready"
    BY <1>1 DEF Extractable
  <2>4. asked.loaded = {c \in Chunks : IdRank[c] < asked.offset}
    BY <2>2, ExtractionAssumption
  <2>5. ~tangled => index \in {Chunks, {}}
    BY <2>3 DEF LoadInv, ReadyIsIndexed
  <2>6. LoadsWhole(asked)
    BY <2>2, <2>3, <2>4, <2>5 DEF LoadsWhole, Undisturbed
  <2> QED
    BY <2>1, <2>6, OneRunLoads
<1>2. CASE ~Extractable
  <2>1. run' = [run EXCEPT ![r] = Ended("refused")] /\ UNCHANGED ingestion
    BY <1>2 DEF Ask
  <2> QED
    BY <2>1, EndedLoads, OneRunLoads
<1> QED
  BY <1>1, <1>2

\* The last page of a document that stayed READY completes it.
LEMMA ScrollLoads ==
  ASSUME LoadInv, Inv', NEW r \in Runs, Scroll(r)
  PROVE  LoadInv'
<1> DEFINE x    == run[r]
           page == Page(x.offset)
           rest == From(x.offset) \ page
           all  == x.loaded \union page
<1>1. /\ x \in Run /\ x.at = "loading" /\ LoadsWhole(x) /\ index \subseteq Chunks
      /\ x.offset \in Nat /\ x.loaded \in SUBSET Chunks
      /\ x.raced \/ index = Chunks \/ (index = {} /\ x.loaded = {})
  <2>1. x \in Run /\ x.at = "loading" /\ LoadsWhole(x) /\ index \subseteq Chunks
    BY DEF LoadInv, Inv, ExtractTypeOK, Scroll
  <2> QED
    BY <2>1 DEF Run, LoadsWhole, Undisturbed
<1>2. UNCHANGED ingestion /\ run \in [Runs -> Run]
  BY DEF Scroll, LoadInv, Inv, ExtractTypeOK
<1>3. page \subseteq Chunks
  BY <1>1 DEF Page, From
<1>4. ASSUME NEW c \in rest, \A d \in rest : IdRank[c] <= IdRank[d],
             run' = [run EXCEPT ![r].loaded = all, ![r].offset = IdRank[c]]
      PROVE  LoadInv'
  <2> DEFINE new == [x EXCEPT !.loaded = all, !.offset = IdRank[c]]
  <2>1. run' = [run EXCEPT ![r] = new]
    <3> HIDE DEF all, rest, page
    <3> QED
      BY <1>2, <1>4
  <2>2. /\ new.at = "loading" /\ new.raced = x.raced /\ new.loaded = all
        /\ new.offset = IdRank[c]
    <3> HIDE DEF all, rest, page
    <3> QED
      BY <1>1 DEF Run
  <2>3. ASSUME ~x.raced PROVE index = Chunks /\ all = {e \in Chunks : IdRank[e] < IdRank[c]}
    <3>1. index = Chunks /\ x.loaded = {e \in Chunks : IdRank[e] < x.offset}
      <4>1. index # {}
        BY <1>4 DEF From
      <4> QED
        BY <1>1, <2>3, <4>1 DEF LoadsWhole, Undisturbed
    <3>2. {e \in Chunks : IdRank[e] < IdRank[c]}
            = {e \in Chunks : IdRank[e] < x.offset} \union page
      BY <1>1, <1>4, <3>1, PagesFollow
    <3> QED
      BY <3>1, <3>2
  <2>4. LoadsWhole(new)
    <3> HIDE DEF new, all, rest, page, x
    <3>1. CASE x.raced
      BY <2>2, <3>1 DEF LoadsWhole
    <3>2. CASE ~x.raced
      <4>1. document.live /\ document.status = "ready" /\ ~tangled
        BY <1>1, <3>2 DEF LoadsWhole, Undisturbed
      <4> QED
        BY <2>2, <2>3, <3>2, <4>1 DEF LoadsWhole, Undisturbed
    <3> QED
      BY <3>1, <3>2
  <2> HIDE DEF new
  <2> QED
    BY <1>2, <2>1, <2>4, OneRunLoads
<1>5. ASSUME rest = {} \/ ~(Cardinality(all) < MaxChunks), all # {},
             run' = [run EXCEPT ![r] = [x EXCEPT !.loaded = Truncated(all), !.offset = 0,
                                                 !.at = "slicing"]]
      PROVE  LoadInv'
  <2> DEFINE new == [x EXCEPT !.loaded = Truncated(all), !.offset = 0, !.at = "slicing"]
  <2>1. run' = [run EXCEPT ![r] = new]
    BY <1>5
  <2>2. new.at = "slicing" /\ new.raced = x.raced /\ new.loaded = Truncated(all)
    <3> HIDE DEF all, rest, page
    <3> QED
      BY <1>1 DEF Run
  <2>3. all \in SUBSET Chunks
    BY <1>1, <1>3
  <2>4. ASSUME ~x.raced, rest = {} PROVE all = Chunks
    <3>1. index = Chunks /\ x.loaded = {e \in Chunks : IdRank[e] < x.offset}
      <4>1. index = {} /\ x.loaded = {} => all = {}
        BY DEF Page, From
      <4> QED
        BY <1>1, <1>5, <2>4, <4>1 DEF LoadsWhole, Undisturbed
    <3>2. From(x.offset) = {e \in Chunks : IdRank[e] >= x.offset}
      BY <3>1 DEF From
    <3>3. From(x.offset) \subseteq page
      BY <2>4
    <3>4. \A e \in Chunks : IdRank[e] < x.offset \/ IdRank[e] >= x.offset
      BY <1>1, ExtractionAssumption
    <3> QED
      BY <2>3, <3>1, <3>2, <3>3, <3>4
  <2>5. /\ \/ Truncated(all) = all /\ Cardinality(all) <= MaxChunks
           \/ Cardinality(Truncated(all)) = MaxChunks
        /\ Cardinality(all) \in Nat
    <3> HIDE DEF all
    <3>1. IsFiniteSet(all)
      <4>1. IsFiniteSet(Chunks)
        BY FS_Interval, ExtractionAssumption DEF Chunks
      <4> QED
        BY <2>3, <4>1, FS_Subset
    <3> QED
      BY <2>3, <3>1, Truncation, FS_CardinalityType
  <2>6. x.raced \/ Truncated(all) = Chunks \/ Cardinality(Truncated(all)) = MaxChunks
    <3> HIDE DEF all, rest, page, x
    <3> QED
      BY <1>5, <2>4, <2>5, ExtractionAssumption
  <2>7. LoadsWhole(new)
    <3> HIDE DEF new, all, rest, page, x
    <3> QED
      BY <2>2, <2>6 DEF LoadsWhole
  <2> HIDE DEF new
  <2> QED
    BY <1>2, <2>1, <2>7, OneRunLoads
<1>6. ASSUME run' = [run EXCEPT ![r] = Ended("refused")]
      PROVE  LoadInv'
  BY <1>2, <1>6, EndedLoads, OneRunLoads
<1>7. CASE rest # {} /\ Cardinality(all) < MaxChunks
  <2>1. \E c \in rest : /\ \A d \in rest : IdRank[c] <= IdRank[d]
                        /\ run' = [run EXCEPT ![r].loaded = all, ![r].offset = IdRank[c]]
    BY <1>7 DEF Scroll
  <2> QED
    BY <1>4, <2>1
<1>8. CASE ~(rest # {} /\ Cardinality(all) < MaxChunks)
  <2>1. \/ run' = [run EXCEPT ![r] = Ended("refused")]
        \/ /\ all # {}
           /\ run' = [run EXCEPT ![r] = [x EXCEPT !.loaded = Truncated(all), !.offset = 0,
                                                  !.at = "slicing"]]
    <3>1. run' = [run EXCEPT ![r] =
                   IF all = {} THEN Ended("refused")
                   ELSE [x EXCEPT !.loaded = Truncated(all), !.offset = 0, !.at = "slicing"]]
      BY <1>2, <1>8 DEF Scroll
    <3> HIDE DEF all, rest, page, x
    <3> QED
      BY <3>1
  <2> QED
    BY <1>5, <1>6, <1>8, <2>1
<1> QED
  BY <1>7, <1>8

\* Once it is loaded, what a request has of the document stays as it is.
LEMMA ReadingLoads ==
  ASSUME LoadInv, Inv', NEW r \in Runs,
         Slice(r) \/ LastWindow(r) \/ Propose(r) \/ NextWindow(r)
  PROVE  LoadInv'
<1> DEFINE x == run[r]
           y == run'[r]
<1>1. run \in [Runs -> Run] /\ x \in Run /\ LoadsWhole(x)
  BY DEF LoadInv, Inv, ExtractTypeOK
<1>2. UNCHANGED ingestion
  BY DEF Slice, LastWindow, Propose, NextWindow
<1>3. /\ run' = [run EXCEPT ![r] = y]
      /\ y.loaded = x.loaded /\ y.raced = x.raced
      /\ x.at \in {"slicing", "reading"} /\ y.at \in {"slicing", "reading", "found"}
  <2>1. CASE Slice(r)
    <3>1. PICK c \in x.loaded \ x.sliced :
            LET current == x.current
                full    == current # {} /\ Chars(current) + length[c] > WindowChars
            IN run' = [run EXCEPT
                 ![r].sliced  = @ \union {c},
                 ![r].windows = IF full THEN Append(@, current) ELSE @,
                 ![r].current = (IF full THEN Overlap(@) ELSE @) \union {c}]
      BY <2>1 DEF Slice
    <3>2. PICK sliced, windows, current :
            run' = [run EXCEPT ![r].sliced = sliced, ![r].windows = windows,
                               ![r].current = current]
      BY <3>1, <1>1
    <3> QED
      BY <1>1, <2>1, <3>2 DEF Slice, Run
  <2>2. CASE LastWindow(r)
    BY <1>1, <2>2 DEF LastWindow, Run
  <2>3. CASE Propose(r)
    <3> DEFINE window == x.windows[x.next]
    <3>1. PICK p \in Menu :
            run' = [run EXCEPT
                ![r].seen      = Absorbed(r, p, window),
                ![r].proposals = @ + 1,
                ![r].quoted    = @ \union (IF p.text # Empty /\ Within(p.source, window) # {}
                                             THEN {<<RefOf(p), p.text>>} ELSE {})]
      BY <2>3 DEF Propose
    <3> DEFINE seen   == Absorbed(r, p, window)
               quoted == x.quoted \union (IF p.text # Empty /\ Within(p.source, window) # {}
                                            THEN {<<RefOf(p), p.text>>} ELSE {})
               new    == [x EXCEPT !.seen = seen, !.proposals = x.proposals + 1,
                                   !.quoted = quoted]
    <3>2. run' = [run EXCEPT ![r] = new]
      BY <1>1, <3>1
    <3> HIDE DEF seen, quoted
    <3>3. new.loaded = x.loaded /\ new.raced = x.raced /\ new.at = x.at
      BY <1>1 DEF Run
    <3>4. x.at = "reading"
      BY <2>3 DEF Propose
    <3> HIDE DEF new
    <3> QED
      BY <1>1, <3>2, <3>3, <3>4
  <2>4. CASE NextWindow(r)
    BY <1>1, <2>4 DEF NextWindow, Run
  <2> QED
    BY <2>1, <2>2, <2>3, <2>4
<1> HIDE DEF x, y
<1>4. LoadsWhole(y)
  BY <1>1, <1>3 DEF LoadsWhole
<1> QED
  BY <1>2, <1>3, <1>4, OneRunLoads

\* Every step of the document's ingestion keeps ReadyIsIndexed.
LEMMA DocumentIsIndexed ==
  ASSUME LoadInv, Inv', DocumentStep
  PROVE  ReadyIsIndexed'
<1>1. /\ document \in Document /\ index \subseteq Chunks /\ job \in [Jobs -> Job]
      /\ tangled \in BOOLEAN /\ N \in Nat /\ Chunks = 1 .. N
  BY ExtractionAssumption DEF LoadInv, Inv, ExtractTypeOK, Chunks
<1>2. ASSUME NEW j \in Jobs, NEW step, NEW done, Move(j, step, done)
      PROVE  \A k \in Jobs : /\ k # j => job'[k] = job[k]
                             /\ k = j => job'[k].step = step /\ job'[k].done = done
  BY <1>1, <1>2 DEF Move
<1>3. ASSUME NEW status, SetStatus(status)
      PROVE  document'.live = document.live /\ (document.live => document'.status = status)
  BY <1>1, <1>3 DEF SetStatus, Document
<1>4. ASSUME NEW j \in Jobs, Report(j), ~tangled' PROVE ReadyIsIndexed'
  <2>1. PICK step \in {"stages", "purge"} : Move(j, step, 0)
    BY <1>4 DEF Report
  <2>2. \A k \in Jobs : /\ k # j => job'[k] = job[k]
                        /\ k = j => job'[k].step = step
    BY <1>2, <2>1
  <2>3. \A k \in Jobs \ {j} : ~UnderWay(k)
    <3>1. CASE job[j].step = "sent"
      BY <1>1, <1>4, <3>1 DEF Report, Tangles
    <3>2. CASE job[j].step = "stages"
      <4>1. ~tangled /\ UnderWay(j)
        BY <1>4, <3>2 DEF Report, UnderWay
      <4> QED
        BY <4>1 DEF LoadInv, ReadyIsIndexed
    <3> QED
      BY <1>4, <3>1, <3>2 DEF Report
  <2>4. \A k \in Jobs \ {j} : job'[k].step \in {"sent", "ended"}
    BY <2>2, <2>3 DEF UnderWay
  <2>5. document'.live => document'.status = "pending"
    BY <1>3, <1>4 DEF Report
  <2> QED
    BY <2>2, <2>4, <2>5 DEF ReadyIsIndexed, UnderWay
<1>5. ASSUME NEW j \in Jobs, UnderWay(j), ~tangled
      PROVE  \A k \in Jobs \ {j} : job[k].step \in {"sent", "ended"}
  BY <1>5 DEF LoadInv, ReadyIsIndexed, UnderWay
\* The job that moves is the only one under way, before and after.
<1>6. ASSUME NEW j \in Jobs, UnderWay(j), ~tangled, NEW step, NEW done, Move(j, step, done),
             step \in {"stages", "purge", "upsert"} /\ document'.live =>
               document'.status = "pending",
             step = "upsert" => index' = 1 .. done,
             step = "record" => index' = Chunks,
             document'.live /\ document'.status = "ready" => index' \in {Chunks, {}}
      PROVE  ReadyIsIndexed'
  <2>1. \A k \in Jobs \ {j} : job'[k].step \in {"sent", "ended"}
    BY <1>2, <1>5, <1>6
  <2>2. job'[j].step = step /\ job'[j].done = done
    BY <1>2, <1>6
  <2> QED
    BY <1>6, <2>1, <2>2 DEF ReadyIsIndexed, UnderWay
<1>7. ASSUME NEW j \in Jobs, Purge(j), ~tangled' PROVE ReadyIsIndexed'
  <2>1. UnderWay(j) /\ ~tangled /\ Move(j, "upsert", 0) /\ index' = {} /\ document' = document
    BY <1>7 DEF Purge, UnderWay
  <2>2. document.live => document.status = "pending"
    BY <1>7, <2>1 DEF LoadInv, ReadyIsIndexed, Purge
  <2>3. index' = 1 .. 0
    BY <2>1
  <2> QED
    BY <1>6, <2>1, <2>2, <2>3
<1>8. ASSUME NEW j \in Jobs, UpsertBatch(j), ~tangled' PROVE ReadyIsIndexed'
  <2>1. UnderWay(j) /\ ~tangled /\ document' = document /\ job[j].step = "upsert"
    BY <1>8 DEF UpsertBatch, UnderWay
  <2>2. PICK c \in job[j].done + 1 .. N : /\ index' = index \union (job[j].done + 1 .. c)
                                          /\ Move(j, "upsert", c)
    BY <1>8 DEF UpsertBatch
  <2>3. /\ document.live => document.status = "pending"
        /\ index = 1 .. job[j].done /\ job[j].done \in 0 .. N
    BY <1>1, <2>1 DEF LoadInv, ReadyIsIndexed, Job
  <2>4. index' = 1 .. c
    BY <1>1, <2>2, <2>3
  <2> QED
    BY <1>6, <2>1, <2>2, <2>3, <2>4
<1>9. ASSUME NEW j \in Jobs, ReportReady(j) \/ Record(j), ~tangled' PROVE ReadyIsIndexed'
  <2>1. UnderWay(j) /\ ~tangled /\ index' = index
    BY <1>9 DEF ReportReady, Record, UnderWay
  <2>2. index = Chunks
    BY <1>1, <1>9, <2>1 DEF LoadInv, ReadyIsIndexed, ReportReady, Record
  <2>3. \E step \in {"record", "ended"} : Move(j, step, N)
    BY <1>9 DEF ReportReady, Record
  <2> QED
    BY <1>6, <2>1, <2>2, <2>3
<1>10. ASSUME NEW j \in Jobs, Stops(j) \/ Fails(j), ~tangled' PROVE ReadyIsIndexed'
  <2>1. UnderWay(j) /\ ~tangled /\ index' = index
    BY <1>10 DEF Stops, Fails, UnderWay
  <2>2. \E step \in {"sent", "ended"} : Move(j, step, 0)
    BY <1>10 DEF Stops, Fails
  <2>3. document'.live /\ document'.status = "ready" => index \in {Chunks, {}}
    <3>1. CASE Stops(j)
      <4>1. document' = document
        BY <3>1 DEF Stops
      <4> QED
        BY <2>1, <4>1 DEF LoadInv, ReadyIsIndexed
    <3>2. CASE Fails(j)
      <4>1. SetStatus("pending")
        BY <3>2 DEF Fails
      <4>2. document'.live => document'.status = "pending"
        BY <1>3, <4>1
      <4> QED
        BY <4>2
    <3> QED
      BY <1>10, <3>1, <3>2
  <2> QED
    BY <1>6, <2>1, <2>2, <2>3
<1>11. ASSUME DeleteVectors, ~tangled' PROVE ReadyIsIndexed'
  <2>1. \A j \in Jobs : job'[j].step \in {"sent", "ended"}
    BY <1>11 DEF DeleteVectors, UnderWay
  <2>2. index' = {}
    BY <1>11 DEF DeleteVectors
  <2> QED
    BY <2>1, <2>2 DEF ReadyIsIndexed, UnderWay
<1>12. ASSUME HideRow \/ DeletionDies, ~tangled' PROVE ReadyIsIndexed'
  <2>1. /\ job' = job /\ index' = index /\ ~tangled
        /\ document'.live => document.live /\ document'.status = document.status
    <3>1. CASE HideRow
      BY <1>1, <1>12, <3>1 DEF HideRow, Document
    <3>2. CASE DeletionDies
      BY <1>1, <1>12, <3>2 DEF DeletionDies, Document
    <3> QED
      BY <1>12, <3>1, <3>2
  <2> QED
    BY <2>1 DEF LoadInv, ReadyIsIndexed, UnderWay
<1>13. CASE tangled'
  BY <1>13 DEF ReadyIsIndexed
<1> QED
  BY <1>4, <1>7, <1>8, <1>9, <1>10, <1>11, <1>12, <1>13 DEF DocumentStep, JobStep

\* What disturbs a request that loads tells it so.
LEMMA DocumentLoads ==
  ASSUME LoadInv, Inv', DocumentStep
  PROVE  LoadInv'
<1>1. /\ document \in Document /\ job \in [Jobs -> Job] /\ run \in [Runs -> Run]
  BY DEF LoadInv, Inv, ExtractTypeOK
<1>2. ReadyIsIndexed'
  BY DocumentIsIndexed
<1>3. ASSUME NEW q \in Runs PROVE LoadsWhole(run[q])'
  <2> DEFINE x == run[q]
             y == run'[q]
  <2>1. x \in Run /\ LoadsWhole(x)
    BY <1>1 DEF LoadInv
  <2>2. CASE Races
    <3>1. y = IF x.at = "loading" THEN [x EXCEPT !.raced = TRUE] ELSE x
      BY <2>2 DEF Races
    <3>2. y.at = x.at /\ y.loaded = x.loaded /\ (y.raced \/ (x.at # "loading" /\ y = x))
      BY <2>1, <3>1 DEF Run
    <3>3. y.at = "loading" => y.raced
      BY <3>2
    <3>4. y.at \in {"slicing", "reading", "found"} =>
            y.raced \/ y.loaded = Chunks \/ Cardinality(y.loaded) = MaxChunks
      <4> HIDE DEF x, y
      <4> QED
        BY <2>1, <3>2 DEF LoadsWhole
    <3> HIDE DEF x
    <3> QED
      BY <3>3, <3>4 DEF LoadsWhole
  <2>3. CASE /\ run' = run
             /\ document.live /\ document.status = "ready" /\ ~tangled =>
                  /\ document'.live /\ document'.status = "ready" /\ ~tangled'
                  /\ index' = index
    <3>1. y = x
      BY <2>3
    <3>2. CASE x.at = "loading" /\ ~x.raced
      <4>1. Undisturbed(x)
        BY <2>1, <3>2 DEF LoadsWhole
      <4>2. Undisturbed(x)'
        BY <2>3, <4>1 DEF Undisturbed
      <4> QED
        BY <2>3, <3>2, <4>2 DEF LoadsWhole
    <3>3. CASE ~(x.at = "loading" /\ ~x.raced)
      BY <2>1, <2>3, <3>3 DEF LoadsWhole
    <3> QED
      BY <3>2, <3>3
  <2>4. ASSUME NEW j \in Jobs, JobStep(j), ~Races
        PROVE  /\ run' = run
               /\ document.live /\ document.status = "ready" /\ ~tangled =>
                    /\ document'.live /\ document'.status = "ready" /\ ~tangled'
                    /\ index' = index
    <3>1. CASE Purge(j) \/ UpsertBatch(j) \/ ReportReady(j) \/ Fails(j)
      <4>1. job[j].step \in {"stages", "purge", "upsert"} /\ run' = run
        BY <3>1 DEF Purge, UpsertBatch, ReportReady, Fails
      <4> QED
        BY <4>1 DEF LoadInv, ReadyIsIndexed
    <3>2. CASE Record(j)
      BY <1>1, <3>2 DEF Record, SetStatus, Document
    <3>3. CASE Stops(j)
      BY <3>3 DEF Stops
    <3> QED
      BY <2>4, <3>1, <3>2, <3>3 DEF JobStep, Report
  <2>5. CASE DeletionDies
    <3>1. /\ run' = run /\ index' = index /\ tangled' = tangled
          /\ document'.live = document.live /\ document'.status = document.status
      BY <1>1, <2>5 DEF DeletionDies, Document
    <3> QED
      BY <2>3, <3>1
  <2>6. CASE DeleteVectors \/ HideRow
    BY <2>2, <2>6 DEF DeleteVectors, HideRow
  <2> QED
    BY <2>2, <2>3, <2>4, <2>5, <2>6 DEF DocumentStep
<1> QED
  BY <1>2, <1>3 DEF LoadInv

LEMMA StepLoads == LoadInv /\ [Next]_vars => LoadInv'
<1> SUFFICES ASSUME LoadInv, [Next]_vars PROVE LoadInv'
  OBVIOUS
<1>1. Inv'
  BY StepInv DEF LoadInv
<1>2. CASE UNCHANGED <<ingestion, run>>
  <2>1. \A r \in Runs : LoadsWhole(run'[r])
    BY <1>2 DEF LoadInv
  <2> QED
    BY <1>1, <1>2, <2>1
       DEF LoadInv, ReadyIsIndexed, UnderWay, LoadsWhole, Undisturbed, ingestion
<1>3. CASE DocumentStep
  BY <1>1, <1>3, DocumentLoads
<1>4. ASSUME NEW r \in Runs, RunStep(r) PROVE LoadInv'
  <2>1. CASE RunFails(r)
    <3>1. LoadsWhole(Ended("failed"))
      BY EndedLoads
    <3>2. run' = [run EXCEPT ![r] = Ended("failed")] /\ UNCHANGED ingestion
      BY <2>1 DEF RunFails
    <3> QED
      BY <1>1, <3>1, <3>2, OneRunLoads
  <2> QED
    BY <1>1, <1>4, <2>1, AskLoads, ScrollLoads, ReadingLoads DEF RunStep
<1> QED
  BY <1>2, <1>3, <1>4 DEF Next, vars, DocumentStep

\* Whatever the size of a page, the order of the ids and the number of jobs, a
\* request that gets past loading has the document whole, up to _MAX_CHUNKS,
\* unless the document stopped being READY meanwhile or executions of its job
\* had overlapped.
THEOREM DocumentsAreLoadedWhole == Spec => []LoadedWhole
<1>1. Spec => []LoadInv
  BY InitLoads, StepLoads, PTL DEF Spec
<1>2. LoadInv => LoadedWhole
  BY DEF LoadInv, LoadsWhole, LoadedWhole
<1> QED
  BY <1>1, <1>2, PTL
=============================================================================
