\* A document that is ingested again while a run loads its chunks.
SPECIFICATION Spec
CONSTANTS
  r1 = r1
  j1 = j1
  j2 = j2
  Jobs = {j1}
  Runs = {r1}
  N = 3
  Layouts <- SomeLayouts
  WindowChars = 5
  PageSize = 2
  MaxChunks = 3
  IdRank <- HashedIds
  Spans <- SomeSpans
  At <- Occurrences
  Refs <- SomeRefs
  Texts <- SomeTexts
  RefKey <- RefKeys
  TextKey <- TextKeys
  Empty = ""
  Invented = "invented"
  Menu <- SomeProposals
  MaxProposals = 2
\* Requests end, and nothing asks for another.
CHECK_DEADLOCK FALSE
INVARIANT NoPartialMatrix
