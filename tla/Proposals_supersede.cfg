\* Decisions and exports race two regenerations of one requirement.
SPECIFICATION Spec
CONSTANTS
  r1 = r1
  r2 = r2
  manager = manager
  colleague = colleague
  expert = expert
  t1 = t1
  t2 = t2
  Ids = {i1, i2, i3}
  Refs = {r1}
  Texts = {t1}
  NoText = NoText
  Clients = {manager}
  Role <- MCRole
  NoClient = NoClient
  NoId = NoId
  NoRef = NoRef
  Sessions = {s1, s2}
  Requirements <- OneRequirement
  Outcomes <- OneOutcome
  NoteInputs = {"none","blank","written"}
  MaxVersion = 3
SYMMETRY Symmetry
INVARIANT OneCurrentRow
INVARIANT HistoryIsAChain
PROPERTY NoDecisionLost
PROPERTY ExportedIsFinal
 
