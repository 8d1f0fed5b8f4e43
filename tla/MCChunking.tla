----------------------------- MODULE MCChunking -----------------------------
(* Small instances of Chunking. *)
EXTENDS Chunking

CONSTANTS MaxBlocks  \* blocks of a file; one more of the texts that are gathered

B(kind, clause, depth, size, rows) ==
  [kind |-> kind, clause |-> clause, label |-> FALSE, depth |-> depth, size |-> size,
   rows |-> rows, page |-> 0]

\* A clause's number by itself.
Number == [B("narrative", FALSE, 0, 1, <<>>) EXCEPT !.label = TRUE]

\* Texts below and above each threshold; a table that fits, one without markup,
\* one of several rows and one of a single row.
Texts == {
  B("title", FALSE, 0, 1, <<>>), B("narrative", FALSE, 0, 1, <<>>),
  B("narrative", FALSE, 0, 2, <<>>), B("narrative", FALSE, 0, 3, <<>>),
  B("narrative", FALSE, 0, 8, <<>>), B("narrative", TRUE, 0, 2, <<>>), Number }
Blocks == Texts \union {
  B("title", FALSE, 1, 2, <<>>), B("narrative", TRUE, 0, 8, <<>>),
  B("table", FALSE, 0, 4, <<1, 3>>), B("table", FALSE, 0, 10, <<1, 3, 3, 3>>),
  B("header_footer", FALSE, 0, 1, <<>>) }
RareBlocks == {
  B("title", TRUE, 0, 2, <<>>), B("narrative", FALSE, 0, 0, <<>>),
  B("table", FALSE, 0, 10, <<>>), B("table", FALSE, 0, 10, <<10>>) }

\* Page numbers of n blocks, in order.
Paged(n) == {pages \in [1 .. n -> 1 .. 2] : \A i \in 2 .. n : pages[i - 1] <= pages[i]}

SeqsOf(S, n) == UNION {[1 .. k -> S] : k \in 0 .. n}

\* A digital PDF of any blocks; the other files have one block on each page.
Digital == LET pdfs(S, n) == [1 .. n -> S] \X Paged(n) IN
           {[mime |-> "pdf", locked |-> FALSE, layer |-> <<9, 9>>,
             blocks |-> [i \in DOMAIN bs |-> [bs[i] EXCEPT !.page = pages[i]]]] :
             <<bs, pages>> \in pdfs(Texts, MaxBlocks + 1)
                                 \union UNION {pdfs(Blocks, n) : n \in 0 .. MaxBlocks}}
Rare == {[mime |-> "pdf", locked |-> FALSE, layer |-> <<9, 9>>,
          blocks |-> [i \in DOMAIN bs |-> [bs[i] EXCEPT !.page = i]]] :
          bs \in [1 .. 2 -> Blocks \union RareBlocks]}
Scans == {[mime |-> "pdf", locked |-> locked, layer |-> layer,
           blocks |-> [i \in DOMAIN layer |-> [b EXCEPT !.page = i]]] :
           locked \in BOOLEAN, layer \in SeqsOf({0, 1, 9}, 3), b \in Blocks}
Others == {[mime |-> mime, locked |-> FALSE, layer |-> <<>>, blocks |-> bs] :
           mime \in {"sheet", "other"}, bs \in SeqsOf(Blocks, 2)}

AllFiles == Digital \union Rare \union Scans \union Others
=============================================================================
