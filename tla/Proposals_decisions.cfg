\* A manager and an expert decide on and rewrite one answer.
SPECIFICATION Spec
CONSTANTS
  r1 = r1
  r2 = r2
  manager = manager
  colleague = colleague
  expert = expert
  t1 = t1
  t2 = t2
  Ids = {i1}
  Refs = {r1}
  Texts = {t1, t2}
  NoText = NoText
  Clients = {manager, expert}
  Role <- MCRole
  NoClient = NoClient
  NoId = NoId
  NoRef = NoRef
  Sessions = {s1, s2}
  Requirements <- OneRequirement
  Outcomes <- AllOutcomes
  NoteInputs = {"none", "blank", "written"}
  MaxVersion = 4
SYMMETRY Symmetry
INVARIANT TypeOK
INVARIANT SignatureCoversText
INVARIANT SignatureIsAccountable
INVARIANT VersionNamesContent
PROPERTY ImplementsSignOff
PROPERTY NoDecisionLost
