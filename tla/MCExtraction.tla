---------------------------- MODULE MCExtraction ----------------------------
(* Small documents and a small model for Extraction. *)
EXTENDS Extraction, TLC

CONSTANTS r1, j1, j2

\* Three chunks: any two fit a window, all three do, or the outer ones fill
\* one alone.
SomeLayouts == {<<2, 2, 2>>, <<1, 2, 2>>, <<5, 1, 5>>}
\* Ids are hashes: not in document order.
HashedIds   == <<3, 1, 2>>

\* "head" occurs twice, "split" runs from the second chunk into the third.
SomeSpans   == {"head", "split"}
Occurrences == [s \in SomeSpans |-> IF s = "head" THEN {<<1, 1>>, <<3, 3>>} ELSE {<<2, 3>>}]

\* A reference in two cases, two wordings of it that begin alike and another.
SomeRefs  == {"A1", "a1"}
SomeTexts == {"t", "t'", "u"}
RefKeys   == [r \in SomeRefs |-> "a1"]
TextKeys  == [t \in SomeTexts |-> IF t = "u" THEN "u" ELSE "t"]

\* An unnumbered item, a numbered one quoted from either span and worded in
\* three ways, one whose span is not in the document and one with no wording.
SomeProposals ==
  {[ref |-> "", text |-> "t", source |-> "head"],
   [ref |-> "A1", text |-> "t", source |-> "split"],
   [ref |-> "a1", text |-> "t'", source |-> "head"],
   [ref |-> "A1", text |-> "u", source |-> "head"],
   [ref |-> "", text |-> "t", source |-> "invented"],
   [ref |-> "A1", text |-> "", source |-> "head"]}

Symmetry == Permutations(Jobs)
=============================================================================
