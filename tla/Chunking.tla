------------------------------ MODULE Chunking ------------------------------
(***************************************************************************)
(* From a stored file to the chunks that are indexed.                      *)
(*                                                                         *)
(* The probe chooses a strategy, Unstructured partitions the file into     *)
(* blocks, the blocks become elements under their headings, and the        *)
(* elements are gathered, cut and folded into chunks (unstructured_parser, *)
(* pdf_probe, semantic_chunker, and the two checks of the pipeline).       *)
(*                                                                         *)
(* A text is its number and its length; a chunk's body is a sequence of    *)
(* pieces of texts, so that what a chunk holds, and in which order, can be *)
(* told.  Lengths are in units; separators and blanks have none.           *)
(***************************************************************************)
EXTENDS Integers, SequencesExt

CONSTANTS
  Files,       \* the files that may be uploaded
  SamplePages, \* _SAMPLE_PAGES
  Scanned,     \* _SCANNED_CHARS_PER_PAGE
  Stray,       \* the longest text that is not "real content"
  MinUsable,   \* _MIN_USABLE_CHARS
  MinChunk,    \* MIN_CHUNK_SIZE
  Overlap,     \* DEFAULT_OVERLAP
  ChunkSize,   \* DEFAULT_CHUNK_SIZE
  MaxChunk     \* MAX_CHUNK_SIZE

\* ParsedElement's chunk_type: a list, a caption or a form field is treated as
\* narrative.  A page that is not known is 0.
Kinds == {"title", "narrative", "table", "header_footer"}

\* clause: the text matches _CLAUSE_START.  label: it matches once text follows,
\* as a number that stands alone does.  rows: the lengths of the rows of a
\* table's markup, its header first; none if there is no markup.
Block == [kind : Kinds, clause : BOOLEAN, label : BOOLEAN, page : Nat, depth : Nat, size : Nat,
          rows : Seq(Nat)]

\* layer: the length of the text layer of each page of a PDF.
File == [mime : {"pdf", "sheet", "other"}, locked : BOOLEAN, layer : Seq(Nat),
         blocks : Seq(Block)]

ASSUME ChunkingAssumption ==
  /\ Files \subseteq File
  /\ {SamplePages, Scanned, Stray, MinUsable, MinChunk, ChunkSize, MaxChunk} \subseteq Nat \ {0}
  /\ Overlap \in Nat /\ Overlap < ChunkSize /\ ChunkSize < MaxChunk

VARIABLES
  file,
  at,       \* the stage the pipeline is in, or how it ended
  strategy,
  elements, \* parsed
  next,     \* the element, then the chunk, that is looked at next
  buffer,   \* narrative gathered so far
  chunks,
  merged

vars == <<file, at, strategy, elements, next, buffer, chunks, merged>>

Failures == {"encrypted", "corrupt", "unsupported", "empty", "retry"}

Smaller(m, n) == IF m < n THEN m ELSE n
Total(lengths) == FoldLeft(LAMBDA sum, n : sum + n, 0, lengths)

\* MIN_CHUNK_SIZE and DEFAULT_OVERLAP: a part that begins with a carried tail is
\* too long to be folded.
ASSUME SizesAssumption == MinChunk <= Overlap

\* Unstructured: a table is as long as its rows, and none of them is empty; the
\* pages of a file are known throughout or not at all.
ASSUME ParsersAssumption ==
  \A f \in Files :
    /\ \A k \in DOMAIN f.blocks : f.blocks[k].rows # <<>> =>
         /\ Total(f.blocks[k].rows) = f.blocks[k].size
         /\ \A r \in DOMAIN f.blocks[k].rows : f.blocks[k].rows[r] > 0
    /\ \/ \A k \in DOMAIN f.blocks : f.blocks[k].page = 0
       \/ \A k \in DOMAIN f.blocks : f.blocks[k].page > 0

-----------------------------------------------------------------------------
(* Parsing. *)

\* probe_pdf: every so many pages, as many as are sampled.
Sampled(layer) ==
  LET sample == Smaller(SamplePages, Len(layer))
      step   == Len(layer) \div sample
  IN [i \in 1 .. sample |-> layer[(i - 1) * step + 1]]

HasTextLayer(layer) == Total(Sampled(layer)) >= Scanned * Smaller(SamplePages, Len(layer))

\* _choose_strategy
ChooseStrategy ==
  /\ at = "stored"
  /\ IF file.mime = "pdf" /\ (file.locked \/ file.layer = <<>>)
       THEN at' = (IF file.locked THEN "encrypted" ELSE "corrupt") /\ UNCHANGED strategy
       ELSE /\ at' = "partition"
            /\ strategy' = IF file.mime = "sheet" THEN "native_tabular"
                           ELSE IF file.mime = "pdf" /\ ~HasTextLayer(file.layer) THEN "hi_res"
                           ELSE "fast"
  /\ UNCHANGED <<file, elements, next, buffer, chunks, merged>>

\* Unstructured: the fast strategy sees nothing of a page without a text layer.
Partitioned ==
  LET sees(b) == file.mime = "pdf" /\ strategy = "fast" => file.layer[b.page] > 0
      pick(seen, b) == IF sees(b) THEN Append(seen, b) ELSE seen
  IN FoldLeft(pick, <<>>, file.blocks)

\* _convert: a block without text or markup is noise; a heading takes the place
\* of those at its depth and below.
Converted(blocks) ==
  LET convert(done, b) ==
        LET i     == Len(done.elements) + 1
            stack == IF b.kind # "title" THEN done.stack
                     ELSE Append(SubSeq(done.stack, 1, Smaller(b.depth, Len(done.stack))), i)
        IN IF b.size = 0 THEN done
           ELSE [stack |-> stack,
                 elements |-> Append(done.elements,
                   [kind |-> b.kind, clause |-> b.clause, label |-> b.label, page |-> b.page,
                    size |-> b.size, rows |-> b.rows, section |-> stack])]
  IN FoldLeft(convert, [stack |-> <<>>, elements |-> <<>>], blocks).elements

\* parse_document, from _partition to the check of what it yielded.
Partition ==
  /\ at = "partition"
  /\ \/ \* _partition translates what Unstructured raises.
        /\ at' \in Failures \ {"empty"}
        /\ UNCHANGED elements
     \/ /\ elements' = Converted(Partitioned)
        /\ at' = IF Total([i \in DOMAIN elements' |-> elements'[i].size]) < MinUsable
                   THEN "empty" ELSE "chunking"
  /\ next' = 1
  /\ UNCHANGED <<file, strategy, buffer, chunks, merged>>

-----------------------------------------------------------------------------
(* Cutting texts. *)

\* A piece of the text of element of; a body is a sequence of pieces.
Whole(i) == [of |-> i, from |-> 0, size |-> elements[i].size]
Length(body) == Total([i \in DOMAIN body |-> body[i].size])

\* current[-overlap:]
Carried(body, overlap) ==
  LET first == CHOOSE k \in DOMAIN body :
                 /\ Length(SubSeq(body, k + 1, Len(body))) < overlap
                 /\ \A j \in 1 .. k - 1 : Length(SubSeq(body, j + 1, Len(body))) >= overlap
      rest  == SubSeq(body, first + 1, Len(body))
      kept  == Smaller(body[first].size, overlap - Length(rest))
  IN IF overlap = 0 THEN <<>>
     ELSE <<[body[first] EXCEPT !.from = @ + body[first].size - kept, !.size = kept]>> \o rest

\* _recursive_split of several texts: their separator comes first, and a text
\* that is too long by itself is left as it is.
Gathered(body, size, overlap) ==
  LET add(done, piece) ==
        IF done.current # <<>> /\ Length(done.current) + piece.size > size
          THEN [parts   |-> Append(done.parts, done.current),
                current |-> Append(Carried(done.current, overlap), piece)]
          ELSE [done EXCEPT !.current = Append(@, piece)]
      all == FoldLeft(add, [parts |-> <<>>, current |-> <<>>], body)
  IN Append(all.parts, all.current)

\* Mutant: the last part is as long as the others.
CutPastEnd(piece, size, overlap) ==
  LET step == size - overlap
  IN [i \in 1 .. (piece.size + step - 1) \div step |->
       <<[piece EXCEPT !.from = @ + (i - 1) * step, !.size = size]>>]
\* _recursive_split of one text.  Sentences are not told apart: it is cut where
\* an unbroken run would be.
Cut(piece, size, overlap) ==
  LET step == size - overlap
  IN [i \in 1 .. (piece.size + step - 1) \div step |->
       <<[piece EXCEPT !.from = @ + (i - 1) * step,
                       !.size = Smaller(size, @ - (i - 1) * step)]>>]

Split(body, size, overlap) ==
  IF Length(body) <= size THEN <<body>>
  ELSE IF Len(body) = 1 THEN Cut(body[1], size, overlap)
  ELSE Gathered(body, size, overlap)

-----------------------------------------------------------------------------
(* Chunking. *)

\* Chunk; split tells whether it is one part of several.
NewChunk(kind, i, body, split) ==
  [kind |-> kind, body |-> body, page |-> elements[i].page, section |-> elements[i].section,
   clause |-> FALSE, split |-> split]

\* Mutant: the page of the first element, whatever it holds.
FirstPage(held) == elements[held[1]].page
\* Prefer a page number from an element with real content.
Page(held) ==
  LET real == {k \in DOMAIN held : elements[held[k]].page # 0 /\ elements[held[k]].size > Stray}
  IN elements[held[IF real = {} THEN 1 ELSE Min(real)]].page

\* _CLAUSE_START.match on the joined text.
OpensClause(held) ==
  elements[held[1]].clause \/ (elements[held[1]].label /\ Len(held) > 1)

\* _emit_narrative
Narrative(held) ==
  LET parts == Split([k \in DOMAIN held |-> Whole(held[k])], ChunkSize, Overlap)
  IN [k \in DOMAIN parts |->
       [NewChunk("narrative", held[1], parts[k], Len(parts) > 1) EXCEPT
          !.page = Page(held), !.clause = OpensClause(held) /\ k = 1]]

Row(i, k) == [of |-> i, from |-> Total(SubSeq(elements[i].rows, 1, k - 1)),
              size |-> elements[i].rows[k]]

\* _split_table_by_rows: the header is repeated in every part.
ByRows(i) ==
  LET header == <<Row(i, 1)>>
      add(done, k) ==
        IF Length(done.current) + elements[i].rows[k] > MaxChunk /\ done.current # header
          THEN [parts |-> Append(done.parts, done.current), current |-> Append(header, Row(i, k))]
          ELSE [done EXCEPT !.current = Append(@, Row(i, k))]
      all == FoldLeft(add, [parts |-> <<>>, current |-> header],
                      [k \in 1 .. Len(elements[i].rows) - 1 |-> k + 1])
  IN IF all.current = header THEN all.parts ELSE Append(all.parts, all.current)

\* _emit_table
Table(i) ==
  LET parts == IF elements[i].size <= MaxChunk THEN <<<<Whole(i)>>>>
               ELSE IF elements[i].rows = <<>> THEN Split(<<Whole(i)>>, MaxChunk, 0)
               ELSE ByRows(i)
  IN [k \in DOMAIN parts |-> NewChunk("table", i, parts[k], Len(parts) > 1)]

\* flush
Flushed(held) == IF held = <<>> THEN chunks ELSE chunks \o Narrative(held)

\* Mutant: a table leaves the narrative before it in the buffer.
TableAhead(i) == chunks' = chunks \o Table(i) /\ UNCHANGED buffer
\* A table ends whatever narrative preceded it.
EmitTable(i) == chunks' = Flushed(buffer) \o Table(i) /\ buffer' = <<>>

\* A heading and a numbered clause start a new chunk; enough text ends one.
Gather(i) ==
  LET opens  == elements[i].kind = "title" \/ (buffer # <<>> /\ elements[i].clause)
      before == IF opens THEN Flushed(buffer) ELSE chunks
      held   == Append(IF opens THEN <<>> ELSE buffer, i)
      full   == Total([k \in DOMAIN held |-> elements[held[k]].size]) >= ChunkSize
  IN IF full /\ elements[i].kind # "title"
       THEN chunks' = before \o Narrative(held) /\ buffer' = <<>>
       ELSE chunks' = before /\ buffer' = held

\* One turn of chunk_elements.
TakeElement ==
  /\ at = "chunking" /\ next \in DOMAIN elements
  /\ CASE elements[next].kind = "header_footer" -> UNCHANGED <<chunks, buffer>>
       [] elements[next].kind = "table"         -> EmitTable(next)
       [] OTHER                                 -> Gather(next)
  /\ next' = next + 1
  /\ UNCHANGED <<file, at, strategy, elements, merged>>

LastFlush ==
  /\ at = "chunking" /\ next \notin DOMAIN elements
  /\ chunks' = Flushed(buffer) /\ buffer' = <<>>
  /\ at' = "merging" /\ next' = 1
  /\ UNCHANGED <<file, strategy, elements, merged>>

\* Mutant: a clause is folded like any other text.
FoldsClauses(previous, chunk) ==
  /\ previous.kind # "table" /\ chunk.kind # "table"
  /\ Length(previous.body) < MinChunk /\ previous.page = chunk.page
\* _merge_undersized
Folds(previous, chunk) ==
  /\ previous.kind # "table" /\ chunk.kind # "table" /\ ~chunk.clause
  /\ Length(previous.body) < MinChunk /\ previous.page = chunk.page

Folded(previous, chunk) ==
  [chunk EXCEPT !.body = previous.body \o @, !.clause = previous.clause,
                !.section = IF previous.section # <<>> THEN previous.section ELSE @]

\* One turn of _merge_undersized.
Merge ==
  /\ at = "merging" /\ next \in DOMAIN chunks
  /\ merged' = IF merged # <<>> /\ Folds(Last(merged), chunks[next])
                 THEN Append(Front(merged), Folded(Last(merged), chunks[next]))
                 ELSE Append(merged, chunks[next])
  /\ next' = next + 1
  /\ UNCHANGED <<file, at, strategy, elements, buffer, chunks>>

\* A document without a chunk is not indexed.
Finish ==
  /\ at = "merging" /\ next \notin DOMAIN chunks
  /\ at' = IF merged = <<>> THEN "empty" ELSE "indexed"
  /\ UNCHANGED <<file, strategy, elements, next, buffer, chunks, merged>>

-----------------------------------------------------------------------------
Init ==
  /\ file \in Files
  /\ at = "stored" /\ strategy = "none"
  /\ elements = <<>> /\ next = 1 /\ buffer = <<>>
  /\ chunks = <<>> /\ merged = <<>>

Next == ChooseStrategy \/ Partition \/ TakeElement \/ LastFlush \/ Merge \/ Finish

Spec == Init /\ [][Next]_vars

-----------------------------------------------------------------------------
(* Properties. *)

Holds(chunk, i, offset) ==
  \E k \in DOMAIN chunk.body : /\ chunk.body[k].of = i
                               /\ chunk.body[k].from <= offset
                               /\ offset < chunk.body[k].from + chunk.body[k].size

IsChunk(chunk) ==
  /\ chunk.kind \in {"narrative", "table"} /\ chunk.body # <<>>
  /\ chunk.clause \in BOOLEAN /\ chunk.split \in BOOLEAN
  /\ \A k \in DOMAIN chunk.body :
       /\ chunk.body[k].of \in DOMAIN elements
       /\ chunk.body[k].size > 0
       /\ chunk.body[k].from + chunk.body[k].size <= elements[chunk.body[k].of].size

ChunkingTypeOK ==
  /\ file \in File
  /\ at \in {"stored", "partition", "chunking", "merging", "indexed"} \union Failures
  /\ strategy \in {"none", "fast", "hi_res", "native_tabular"}
  /\ next \in Nat
  /\ \A k \in DOMAIN buffer : buffer[k] \in DOMAIN elements
  /\ \A k \in DOMAIN chunks : IsChunk(chunks[k])
  /\ \A k \in DOMAIN merged : IsChunk(merged[k])

\* A table above the ceiling whose markup has a single row.
HeaderOnly(i) == elements[i].size > MaxChunk /\ Len(elements[i].rows) = 1

\* Every word that was parsed, page furniture and tables of one enormous row
\* aside, can be retrieved from the indexed document, and the chunks follow it:
\* whatever is cut and folded, no element is dropped and none changes places.
\* What the parser did not see is not an element: the scanned pages of a PDF
\* whose other pages hold enough text are lost before (probe_pdf).
ContentIsKept ==
  at = "indexed" =>
    /\ \A i \in DOMAIN elements : elements[i].kind # "header_footer" /\ ~HeaderOnly(i) =>
         \A offset \in 0 .. elements[i].size - 1 :
           \E k \in DOMAIN merged : Holds(merged[k], i, offset)
    /\ \A k, l \in DOMAIN merged : k <= l =>
         Head(merged[k].body).of <= Last(merged[l].body).of

\* "Tables are atomic, clause boundaries are hard split points": no chunk holds
\* a table and something else, no part of a table is without its header, and a
\* numbered clause is never glued to what precedes it.
BoundariesHold ==
  \A k \in DOMAIN merged :
    LET body == merged[k].body
    IN /\ \A p \in DOMAIN body :
            elements[body[p].of].kind = "table" \/ elements[body[p].of].clause
              => body[p].of = body[1].of
       /\ merged[k].kind = "table" /\ merged[k].split /\ elements[body[1].of].rows # <<>>
            => body[1].from = 0 /\ Len(body) > 1

\* A chunk that is not part of a cut text is cited at the page its first real
\* content stands on, however many headings and pages were folded into it.
CitesItsPage ==
  \A k \in DOMAIN merged : ~merged[k].split =>
    LET held == [p \in DOMAIN merged[k].body |-> elements[merged[k].body[p].of]]
        real == {p \in DOMAIN held : held[p].size > Stray}
    IN IF real = {} THEN merged[k].page = held[1].page
       ELSE merged[k].page = held[CHOOSE p \in real : \A q \in real : p <= q].page

\* "Citing that page sends the reviewer to the wrong place": no chunk is cited
\* at a page that ends before the first of its words.
PageIsItsOwn ==
  at = "indexed" => \A k \in DOMAIN merged :
    elements[Head(merged[k].body).of].page <= merged[k].page
=============================================================================
