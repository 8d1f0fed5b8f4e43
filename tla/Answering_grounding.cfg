\* One request, of either tenant and workspace, over an index that changes.
\* Requests share nothing but the index, which each reads once.
SPECIFICATION Spec
CONSTANTS
  q1 = q1
  us = us
  them = them
  w1 = w1
  w2 = w2
  Requests = {q1}
  Tenants = {us, them}
  Workspaces = {w1, w2}
  Global = Global
  Chunks <- MCChunks
  Owner <- MCOwner
  Space <- MCSpace
  Kind <- MCKind
  Page <- MCPage
  Quotes = {"quoted"}
  Empty = ""
  Unknown = "unknown"
  None = None
  Sentences = 2
  Claims = {1, 2}
  Contents <- MCContents
  Scores = {20, 60, 120}
  RetrieveK = 3
  TopK = 2
  MinScore = 35
  MinCoverage = 90
INVARIANT AnswerTypeOK
INVARIANT EvidenceInScope
INVARIANT AttributedAsCited
INVARIANT VerifiedIsGrounded
\* Requests end, and nothing asks for another.
CHECK_DEADLOCK FALSE
