\* One export of a mandatory and an optional requirement that are answered,
\* rewritten, approved and revoked meanwhile.
SPECIFICATION ExportSpec
CONSTANTS
  r1 = r1
  r2 = r2
  manager = manager
  t1 = t1
  t2 = t2
  Ids = {i1, i2}
  Refs = {r1, r2}
  Texts = {t1, t2}
  NoText = NoText
  Clients = {manager}
  Role <- MCRole
  NoClient = NoClient
  NoId = NoId
  NoRef = NoRef
  Sessions = {s1, s2}
  Requirements <- TwoRequirements
  Outcomes <- OneOutcome
  NoteInputs = {"none"}
  MaxVersion = 3
  Exports = {x1}
  NoSession = NoSession
  RefOrder <- MCRefOrder
  MaxListed = 2
SYMMETRY Symmetry
INVARIANT ExportTypeOK
INVARIANT OnlySignedWordsLeave
INVARIANT QuietFileIsComplete
INVARIANT QuietFileIsRecorded
INVARIANT ExportKeepsGateOpen
PROPERTY MarkedAfterRendered
PROPERTY ImplementsProposals
