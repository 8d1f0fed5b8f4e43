----------------------------- MODULE MCAnswering -----------------------------
(* A small instance of Answering. *)
EXTENDS Answering

CONSTANTS q1, us, them, w1, w2

\* What the workspace w1 may cite, g and p, and what it may not: the tender,
\* another workspace's document, another tenant's.
MCChunks == {"g", "p", "tender", "other", "theirs"}
MCOwner == [c \in MCChunks |-> IF c = "theirs" THEN them ELSE us]
MCSpace == [c \in MCChunks |-> IF c \in {"g", "theirs"} THEN Global
                               ELSE IF c = "other" THEN w2 ELSE w1]
MCKind  == [c \in MCChunks |-> IF c = "tender" THEN "tender" ELSE "knowledge_base"]
\* The parser has numbered the page of p from 0.
MCPage  == [c \in MCChunks |-> IF c = "p" THEN 0 ELSE 1]

\* A citation by name, by position, of a chunk that was not supplied, and one
\* whose name and position disagree.
Cites == {{}} \union
  {{raw} : raw \in {[source |-> "g", index |-> 1, quote |-> "quoted"],
                    [source |-> None, index |-> 0, quote |-> "quoted"],
                    [source |-> Unknown, index |-> 0, quote |-> "quoted"],
                    [source |-> "tender", index |-> 0, quote |-> "quoted"],
                    [source |-> "p", index |-> 0, quote |-> ""]}}
\* Two sentences in one block, in two or in three, the sentinel alone or with
\* one of them, and no block at all.
Cuts == {<<{1, 2, 3, 4}>>, <<{1, 2}, {3, 4}>>, <<{1}, {2, 3, 4}>>, <<{1, 2, 3}, {4}>>,
         <<{1}, {2, 3}, {4}>>, <<{0}>>, <<{0, 1, 2}>>, <<{}>>, << >>}
Cutting(cut) == {[i \in 1 .. Len(cut) |-> [halves |-> cut[i], cites |-> cites[i]]]
                   : cites \in [1 .. Len(cut) -> Cites]}
MCContents == {content \in UNION {Cutting(cut) : cut \in Cuts} :
                 \A i \in 1 .. Len(content) - 1 :
                   Cited(content[i]) \/ Cited(content[i + 1])}
=============================================================================
