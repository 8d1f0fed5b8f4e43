--------------------------- MODULE ProposalsProofs ---------------------------
(***************************************************************************)
(* Theorems about Proposals, for any number of rows, sessions and clients: *)
(* what signatures stand on, and the versions of an answer, one of which   *)
(* is live with a chain behind it, for any number of generations and       *)
(* extractions at once.                                                    *)
(***************************************************************************)
EXTENDS Proposals, FiniteSetTheorems, TLAPS

-----------------------------------------------------------------------------
(***************************************************************************)
(* The inductive invariant.  The safety properties speak of committed rows *)
(* only; what keeps them is what every open transaction holds in memory:   *)
(* each loaded row is changed in one of three ways, each of which is sound *)
(* for the content that was loaded, and a content is named by its version. *)
(***************************************************************************)

\* A signature is on these words, by an accountable person.
Signature(row) ==
  SignedOff(row) => /\ row.signed = FinalText(row)
                    /\ HasWords(row.signed)
                    /\ row.reviewer \in Managers
                    /\ row.cited \/ row.notes = "written"

\* A generation or an extraction replaces the row.
Superseding(old, new) == Present(old) /\ new = Superseded(old)

\* A decision, an edit or an export moves the row on by one version.
Deciding(old, new) ==
  /\ Present(old) /\ Present(new)
  /\ old.status # "exported"
  /\ new.version = old.version + 1
  /\ new.current = old.current
  /\ Signature(new)
  /\ new.status = "exported" => SignedOff(old) /\ FinalText(new) = FinalText(old)

Inserting(old, new) ==
  old = NoRow /\ Present(new) /\ ~SignedOff(new)

Change(old, new) ==
  new = old \/ Superseding(old, new) \/ Deciding(old, new) \/ Inserting(old, new)

SignaturesHold == \A i \in Ids : Signature(rows[i])
AbsentIsBlank  == \A i \in Ids : ~Present(rows[i]) => rows[i] = NoRow
ChangesAreSound ==
  \A s \in Sessions, i \in Ids : Change(session[s].loaded[i], session[s].staged[i])
NewKeysAreUnused ==
  \A s \in Sessions : \A i \in Dirty(s) :
     ~Present(session[s].loaded[i]) => ~Present(rows[i])
NewKeysDiffer ==
  \A s1, s2 \in Sessions : \A i \in Dirty(s1) \intersect Dirty(s2) :
     ~Present(session[s1].loaded[i]) => s1 = s2

Inv == /\ TypeOK
       /\ VersionNamesContent
       /\ SignaturesHold
       /\ AbsentIsBlank
       /\ ChangesAreSound
       /\ NewKeysAreUnused
       /\ NewKeysDiffer

-----------------------------------------------------------------------------
(* The rows that the code makes are rows. *)

LEMMA NextVersion ==
  ASSUME NEW row \in Row, row.version < MaxVersion
  PROVE  row.version + 1 \in 0 .. MaxVersion
BY ConstantsAssumption DEF Row

LEMMA ReviewedType ==
  ASSUME NEW row \in Row, NEW c \in Clients, NEW q \in ReviewRequest,
         row.version < MaxVersion, view[c] \in View
  PROVE  Reviewed(row, c, q) \in Row
<1> DEFINE version == row.version + 1
           notes   == IF q.notes = "none" THEN row.notes ELSE q.notes
           sme     == IF q.sme = NoClient THEN row.sme ELSE q.sme
           signed  == IF q.action = "approved" THEN view[c].text ELSE NoText
<1>1. version \in 0 .. MaxVersion
  BY NextVersion
<1>2. notes \in Notes
  BY ConstantsAssumption DEF Row, ReviewRequest
<1>3. sme \in Clients \union {NoClient}
  BY DEF Row, ReviewRequest
<1>4. signed \in Texts \union {NoText}
  BY DEF View
<1>5. q.action \in ProposalStatus
  BY DEF ReviewRequest, ProposalStatus
<1> HIDE DEF version, notes, sme, signed
<1>6. [row EXCEPT !.status = q.action, !.reviewer = c, !.version = version,
                  !.notes = notes, !.sme = sme, !.signed = signed] \in Row
  BY <1>1, <1>2, <1>3, <1>4, <1>5, Zenon DEF Row
<1> QED
  BY <1>6, Zenon DEF Reviewed, version, notes, sme, signed

LEMMA RewrittenType ==
  ASSUME NEW row \in Row, NEW t \in Texts, NEW n \in NoteInputs,
         row.version < MaxVersion
  PROVE  Rewritten(row, t, n) \in Row
<1> DEFINE version  == row.version + 1
           notes    == IF n = "none" THEN row.notes ELSE n
           status   == IF row.status = "approved" THEN "pending_review" ELSE row.status
           reviewer == IF row.status = "approved" THEN NoClient ELSE row.reviewer
<1>1. version \in 0 .. MaxVersion
  BY NextVersion
<1>2. notes \in Notes
  BY ConstantsAssumption DEF Row
<1>3. status \in ProposalStatus \union {"absent"}
  BY DEF Row, ProposalStatus
<1>4. reviewer \in Clients \union {NoClient}
  BY DEF Row
<1> HIDE DEF version, notes, status, reviewer
<1>5. [row EXCEPT !.edited = t, !.version = version, !.notes = notes,
                  !.status = status, !.reviewer = reviewer, !.signed = NoText] \in Row
  BY <1>1, <1>2, <1>3, <1>4, Zenon DEF Row
<1> QED
  BY <1>5, Zenon DEF Rewritten, version, notes, status, reviewer

LEMMA ExportedType ==
  ASSUME NEW row \in Row, row.version < MaxVersion
  PROVE  Exported(row) \in Row
<1>1. "exported" \in ProposalStatus
  BY DEF ProposalStatus
<1> QED
  BY <1>1, NextVersion, Zenon DEF Exported, Row

LEMMA SupersededType ==
  ASSUME NEW row \in Row
  PROVE  Superseded(row) \in Row
BY DEF Superseded, Row

LEMMA NoRowType == NoRow \in Row /\ ~Present(NoRow)
BY ConstantsAssumption DEF NoRow, Row, Notes, Present

LEMMA SeenType ==
  ASSUME TypeOK, NEW s \in Sessions, NEW i \in Ids
  PROVE  Seen(s, i) \in Row
BY DEF Seen, TypeOK, Session

LEMMA NewRowType ==
  ASSUME TypeOK, NEW s \in Sessions, NEW q \in Requirements, NEW o \in Outcome,
         RoomFor(s, q)
  PROVE  NewRow(s, q, o) \in Row
<1> DEFINE prior    == GetCurrent(s, q.ref)
           last     == CHOOSE i \in prior : TRUE
           version  == IF prior = {} THEN 1 ELSE Seen(s, last).version + 1
           previous == IF prior = {} THEN NoId ELSE last
<1>1. prior # {} => last \in prior
  OBVIOUS
<1>2. prior \subseteq Ids
  BY DEF GetCurrent, CurrentRows, Inserted, Dirty
<1>3. version \in 0 .. MaxVersion
  <2>1. CASE prior = {}
    BY <2>1, ConstantsAssumption
  <2>2. CASE prior # {}
    <3>1. Seen(s, last).version < MaxVersion /\ Seen(s, last) \in Row
      BY <2>2, <1>1, <1>2, SeenType DEF RoomFor
    <3> QED
      BY <2>2, <3>1, NextVersion
  <2> QED
    BY <2>1, <2>2
<1>4. previous \in Ids \union {NoId}
  BY <1>1, <1>2
<1>5. q.ref \in Refs \union {NoRef} /\ q.mandatory \in BOOLEAN
  BY ConstantsAssumption
<1>6. /\ o.answer \in Texts \union {NoText} /\ o.cited \in BOOLEAN
      /\ o.status \in ProposalStatus
  BY DEF Outcome, ProposalStatus
<1> HIDE DEF version, previous
<1>7. [NoRow EXCEPT !.ref = q.ref, !.mandatory = q.mandatory,
                    !.answer = o.answer, !.cited = o.cited,
                    !.status = o.status,
                    !.current = TRUE, !.version = version,
                    !.previous = previous] \in Row
  BY <1>3, <1>4, <1>5, <1>6, NoRowType, Zenon DEF Row
<1> QED
  BY <1>7, Zenon DEF NewRow, version, previous

LEMMA NewRowFields ==
  ASSUME NEW s, NEW q, NEW o
  PROVE  /\ NewRow(s, q, o).status = o.status
         /\ NewRow(s, q, o).current = TRUE
         /\ NewRow(s, q, o).ref = q.ref
BY DEF NewRow, NoRow

-----------------------------------------------------------------------------
(* Opening a transaction: one lemma for all the requests that do. *)

LEMMA SameContentReflexive ==
  ASSUME NEW row
  PROVE  SameContent(row, row)
BY DEF SameContent

Modes == {"none", "register", "overwrite"}

LEMMA StageKeepsType ==
  ASSUME TypeOK, NEW s \in Sessions, NEW c \in Clients \union {NoClient}, NEW mode \in Modes,
         NEW changed, \A i \in DOMAIN changed : i \in Ids => changed[i] \in Row,
         Stage(s, c, mode, changed), UNCHANGED <<rows, view>>
  PROVE  TypeOK'
<1> DEFINE loaded == [i \in Ids |-> IF i \in DOMAIN changed /\ i \notin Dirty(s) THEN rows[i]
                                    ELSE session[s].loaded[i]]
           staged == [i \in Ids |-> IF i \in DOMAIN changed THEN changed[i]
                                    ELSE session[s].staged[i]]
           new    == [client |-> c, mode |-> mode, looked |-> {}, known |-> session[s].known,
                      loaded |-> loaded, staged |-> staged]
<1>1. session[s] \in Session
  BY DEF TypeOK
<1>2. loaded \in [Ids -> Row] /\ staged \in [Ids -> Row]
  BY <1>1 DEF TypeOK, Session
<1>3. session' = [session EXCEPT ![s] = new]
  BY DEF Stage
<1> HIDE DEF loaded, staged
<1>4. new \in Session
  BY <1>1, <1>2 DEF Session, Modes
<1> HIDE DEF new
<1> QED
  BY <1>3, <1>4 DEF TypeOK

\* What session s holds of row i before it writes it.
Base(s, i) == IF i \in Dirty(s) THEN session[s].loaded[i] ELSE rows[i]

LEMMA Staged ==
  ASSUME TypeOK, NEW s \in Sessions, NEW c, NEW mode, NEW changed, Stage(s, c, mode, changed)
  PROVE  /\ \A i \in Ids : i \in DOMAIN changed =>
               /\ session'[s].loaded[i] = Base(s, i)
               /\ session'[s].staged[i] = changed[i]
         /\ \A i \in Ids : i \notin DOMAIN changed =>
               /\ session'[s].loaded[i] = session[s].loaded[i]
               /\ session'[s].staged[i] = session[s].staged[i]
         /\ \A z \in Sessions : z # s => session'[z] = session[z]
         /\ session'[s].client = c /\ session'[s].mode = mode
         /\ session'[s].looked = {} /\ session'[s].known = session[s].known
BY DEF Stage, TypeOK, Base

\* What a request may put into its transaction.
Sound(s, changed) ==
  \A i \in DOMAIN changed : /\ i \in Ids
                            /\ changed[i] \in Row
                            /\ Change(Base(s, i), changed[i])
                            /\ i \in Dirty(s) \/ Present(rows[i]) \/ i \in UnusedIds

LEMMA StageKeepsInv ==
  ASSUME Inv, NEW s \in Sessions, NEW c \in Clients \union {NoClient}, NEW mode \in Modes,
         NEW changed, Sound(s, changed), Stage(s, c, mode, changed), UNCHANGED <<rows, view>>
  PROVE  Inv'
<1> USE DEF Sound
<1>1. TypeOK'
  BY StageKeepsType DEF Inv
<1>t. TypeOK
  BY DEF Inv
<1>2. VersionNamesContent'
  <2>1. ASSUME NEW z \in Sessions, NEW i \in Ids, Present(session'[z].loaded[i])
        PROVE  /\ Present(rows[i])
               /\ session'[z].loaded[i].version <= rows[i].version
               /\ session'[z].loaded[i].version = rows[i].version =>
                     SameContent(session'[z].loaded[i], rows[i])
    <3>1. CASE session'[z].loaded[i] = session[z].loaded[i]
      BY <2>1, <3>1 DEF Inv, VersionNamesContent
    <3>2. CASE session'[z].loaded[i] = rows[i]
      <4>1. rows[i].version \in Int
        BY DEF Inv, TypeOK, Row
      <4> QED
        BY <2>1, <3>2, <4>1, SameContentReflexive
    <3> QED
      BY <1>t, <3>1, <3>2, Staged DEF Base
  <2> QED
    BY <2>1 DEF Inv, VersionNamesContent
<1>3. SignaturesHold' /\ AbsentIsBlank'
  BY DEF Inv, SignaturesHold, AbsentIsBlank
<1>4. ChangesAreSound'
  <2>1. ASSUME NEW z \in Sessions, NEW i \in Ids
        PROVE  Change(session'[z].loaded[i], session'[z].staged[i])
    <3>1. CASE z # s \/ i \notin DOMAIN changed
      BY <1>t, <3>1, Staged DEF Inv, ChangesAreSound
    <3>2. CASE z = s /\ i \in DOMAIN changed
      BY <1>t, <3>2, Staged
    <3> QED
      BY <3>1, <3>2
  <2> QED
    BY <2>1 DEF ChangesAreSound
\* What is dirty now was dirty before or has just been changed.
<1>5. ASSUME NEW z \in Sessions, NEW i \in Dirty(z)'
      PROVE  /\ i \in Ids
             /\ \/ i \in Dirty(z) /\ session'[z].loaded[i] = session[z].loaded[i]
                \/ /\ z = s /\ i \in DOMAIN changed /\ i \notin Dirty(s)
                   /\ session'[z].loaded[i] = rows[i]
  <2>1. i \in Ids /\ session'[z].staged[i] # session'[z].loaded[i]
    BY DEF Dirty
  <2>2. CASE z # s \/ i \notin DOMAIN changed
    BY <1>t, <2>1, <2>2, Staged DEF Dirty
  <2>3. CASE z = s /\ i \in DOMAIN changed
    BY <1>t, <2>1, <2>3, Staged DEF Base
  <2> QED
    BY <2>2, <2>3
<1>6. NewKeysAreUnused'
  <2>1. ASSUME NEW z \in Sessions, NEW i \in Dirty(z)', ~Present(session'[z].loaded[i])
        PROVE  ~Present(rows[i])
    BY <1>5, <2>1 DEF Inv, NewKeysAreUnused
  <2> QED
    BY <2>1 DEF NewKeysAreUnused
<1>7. NewKeysDiffer'
  <2>1. ASSUME NEW s1 \in Sessions, NEW s2 \in Sessions,
               NEW i \in Dirty(s1)', i \in Dirty(s2)',
               ~Present(session'[s1].loaded[i])
        PROVE  s1 = s2
    <3>1. ~Present(rows[i])
      BY <1>6, <2>1 DEF NewKeysAreUnused
    <3>2. i \in DOMAIN changed /\ i \notin Dirty(s) => \A z \in Sessions : i \notin Dirty(z)
      BY <3>1 DEF UnusedIds
    <3> QED
      BY <1>5, <2>1, <3>2 DEF Inv, NewKeysDiffer
  <2> QED
    BY <2>1 DEF NewKeysDiffer
<1> QED
  BY <1>1, <1>2, <1>3, <1>4, <1>6, <1>7 DEF Inv

\* A session that has ended, or has not begun, holds nothing.
LEMMA IdleHoldsNothing ==
  /\ IdleSession \in Session
  /\ \A i \in Ids : IdleSession.loaded[i] = NoRow /\ IdleSession.staged[i] = NoRow
BY NoRowType DEF IdleSession, Session, EmptyTable

LEMMA IdleIsClean ==
  ASSUME NEW s \in Sessions, Idle(s)
  PROVE  /\ Dirty(s) = {}
         /\ \A i \in Ids : Base(s, i) = rows[i] /\ Seen(s, i) = rows[i]
         /\ \A r : GetCurrent(s, r) = CurrentRows(r)
<1>1. Dirty(s) = {}
  BY IdleHoldsNothing DEF Idle, Dirty
<1> QED
  BY <1>1 DEF Base, Seen, GetCurrent, Inserted

-----------------------------------------------------------------------------
(* Each request changes the rows it loads in one of the sound ways. *)

LEMMA ViewedRowIsPresent ==
  ASSUME Inv, NEW c \in Clients, view[c].id \in Ids
  PROVE  Present(rows[view[c].id])
BY ConstantsAssumption DEF Inv, VersionNamesContent

LEMMA ReviewedIsDecided ==
  ASSUME Inv, NEW c \in Clients, NEW q \in ReviewRequest, view[c].id \in Ids,
         Fresh(c, rows[view[c].id]),
         q.action \in TRANSITIONS[rows[view[c].id].status],
         MayReview(c, q.action, rows[view[c].id]),
         q.action = "approved" => HasEvidence(rows[view[c].id], q)
  PROVE  Deciding(rows[view[c].id], Reviewed(rows[view[c].id], c, q))
<1> DEFINE row == rows[view[c].id]
           new == Reviewed(row, c, q)
<1>1. row \in Row /\ Present(row)
  BY ViewedRowIsPresent DEF Inv, TypeOK
<1>2. row.status # "exported"
  BY DEF TRANSITIONS
<1>3. /\ new.status = q.action /\ new.version = row.version + 1
      /\ new.current = row.current /\ new.reviewer = c
      /\ new.answer = row.answer /\ new.edited = row.edited
      /\ new.cited = row.cited
      /\ new.notes = IF q.notes = "none" THEN row.notes ELSE q.notes
      /\ new.signed = IF q.action = "approved" THEN view[c].text ELSE NoText
  BY <1>1 DEF Reviewed, Row
<1>4. Present(new)
  BY <1>3 DEF Present, ReviewRequest
<1>5. ASSUME SignedOff(new) PROVE Signature(new)
  <2>1. q.action = "approved"
    BY <1>3, <1>5 DEF SignedOff, SIGNED_OFF, ReviewRequest
  <2>2. view[c].text = FinalText(row) /\ HasWords(FinalText(row))
    <3>1. view[c].id # NoId
      BY ConstantsAssumption
    <3> QED
      BY <2>1, <3>1 DEF Inv, VersionNamesContent, Fresh, HasEvidence
  <2>3. c \in Managers
    BY <2>1, ConstantsAssumption DEF MayReview, Managers, UserRoles
  <2>4. FinalText(new) = FinalText(row)
    BY <1>3 DEF FinalText
  <2>5. new.cited \/ new.notes = "written"
    BY <1>3, <2>1 DEF HasEvidence
  <2> QED
    BY <1>3, <2>1, <2>2, <2>3, <2>4, <2>5 DEF Signature
<1>6. Signature(new)
  BY <1>5 DEF Signature
<1> QED
  BY <1>1, <1>2, <1>3, <1>4, <1>6 DEF Deciding, ReviewRequest

LEMMA RewrittenIsDecided ==
  ASSUME NEW row \in Row, Present(row), row.status \in EDITABLE, NEW t, NEW n
  PROVE  Deciding(row, Rewritten(row, t, n))
<1> DEFINE new == Rewritten(row, t, n)
<1>1. /\ new.status = IF row.status = "approved" THEN "pending_review" ELSE row.status
      /\ new.version = row.version + 1
      /\ new.current = row.current
  BY DEF Rewritten, Row
<1>2. row.status # "exported"
  BY DEF EDITABLE
<1>3. Present(new) /\ ~SignedOff(new) /\ new.status # "exported"
  BY <1>1, <1>2 DEF Present, SignedOff, SIGNED_OFF
<1> QED
  BY <1>1, <1>2, <1>3 DEF Deciding, Signature

LEMMA ExportedIsDecided ==
  ASSUME NEW row \in Row, row.status = "approved", Signature(row)
  PROVE  Deciding(row, Exported(row))
<1> DEFINE new == Exported(row)
<1>1. /\ new.status = "exported" /\ new.version = row.version + 1
      /\ new.current = row.current /\ new.reviewer = row.reviewer
      /\ new.answer = row.answer /\ new.edited = row.edited
      /\ new.cited = row.cited /\ new.notes = row.notes
      /\ new.signed = row.signed
  BY DEF Exported, Row
<1>2. FinalText(new) = FinalText(row)
  BY <1>1 DEF FinalText
<1>3. Signature(new)
  BY <1>1, <1>2 DEF Signature, SignedOff, SIGNED_OFF
<1> QED
  BY <1>1, <1>2, <1>3 DEF Deciding, Present, SignedOff, SIGNED_OFF

LEMMA ReviewIsSound ==
  ASSUME Inv, NEW s \in Sessions, NEW c \in Clients, NEW q \in ReviewRequest,
         Review(s, c, q)
  PROVE  Sound(s, [k \in {view[c].id} |-> Reviewed(rows[view[c].id], c, q)])
<1> DEFINE i == view[c].id
<1>1. i \in Ids /\ rows[i] \in Row /\ view[c] \in View /\ rows[i].version < MaxVersion
  BY DEF Inv, TypeOK, Review
<1>2. Present(rows[i])
  BY <1>1, ViewedRowIsPresent
<1>3. Reviewed(rows[i], c, q) \in Row
  BY <1>1, ReviewedType
<1>4. Deciding(rows[i], Reviewed(rows[i], c, q))
  BY <1>1, ReviewedIsDecided DEF Review
<1>5. Base(s, i) = rows[i]
  BY <1>1, IdleIsClean DEF Review
<1> QED
  BY <1>1, <1>2, <1>3, <1>4, <1>5 DEF Change, Sound

LEMMA ReviewKeepsInv ==
  ASSUME Inv, NEW s \in Sessions, NEW c \in Clients, NEW q \in ReviewRequest,
         Review(s, c, q)
  PROVE  Inv'
<1> DEFINE changed == [k \in {view[c].id} |-> Reviewed(rows[view[c].id], c, q)]
<1>1. Stage(s, c, "none", changed) /\ UNCHANGED <<rows, view>>
  BY DEF Review
<1>2. Sound(s, changed)
  BY ReviewIsSound
<1> HIDE DEF changed
<1> QED
  BY <1>1, <1>2, StageKeepsInv DEF Modes

LEMMA EditIsSound ==
  ASSUME Inv, NEW s \in Sessions, NEW c \in Clients, NEW t \in Texts,
         NEW n \in NoteInputs, Edit(s, c, t, n)
  PROVE  Sound(s, [k \in {view[c].id} |-> Rewritten(rows[view[c].id], t, n)])
<1> DEFINE i == view[c].id
<1>1. i \in Ids /\ rows[i] \in Row /\ rows[i].version < MaxVersion
  BY DEF Inv, TypeOK, Edit
<1>2. Present(rows[i])
  BY <1>1, ViewedRowIsPresent
<1>3. Rewritten(rows[i], t, n) \in Row
  BY <1>1, RewrittenType
<1>4. Deciding(rows[i], Rewritten(rows[i], t, n))
  BY <1>1, <1>2, RewrittenIsDecided DEF Edit
<1>5. Base(s, i) = rows[i]
  BY <1>1, IdleIsClean DEF Edit
<1> QED
  BY <1>1, <1>2, <1>3, <1>4, <1>5 DEF Change, Sound

LEMMA EditKeepsInv ==
  ASSUME Inv, NEW s \in Sessions, NEW c \in Clients, NEW t \in Texts,
         NEW n \in NoteInputs, Edit(s, c, t, n)
  PROVE  Inv'
<1> DEFINE changed == [k \in {view[c].id} |-> Rewritten(rows[view[c].id], t, n)]
<1>1. Stage(s, c, "none", changed) /\ UNCHANGED <<rows, view>>
  BY DEF Edit
<1>2. Sound(s, changed)
  BY EditIsSound
<1> HIDE DEF changed
<1> QED
  BY <1>1, <1>2, StageKeepsInv DEF Modes

LEMMA MarkingIsSound ==
  ASSUME Inv, NEW s \in Sessions, NEW I \in SUBSET Ids, MarkExported(s, I)
  PROVE  Sound(s, [i \in StillApproved(I) |-> Exported(rows[i])])
<1>1. ASSUME NEW i \in StillApproved(I)
      PROVE  /\ i \in Ids /\ Exported(rows[i]) \in Row
             /\ Change(Base(s, i), Exported(rows[i])) /\ Present(rows[i])
  <2>1. /\ i \in Ids /\ rows[i] \in Row /\ rows[i].status = "approved"
        /\ rows[i].version < MaxVersion /\ Signature(rows[i]) /\ Base(s, i) = rows[i]
    BY IdleIsClean DEF StillApproved, MarkExported, Inv, TypeOK, SignaturesHold
  <2> QED
    BY <2>1, ExportedType, ExportedIsDecided DEF Change, Present
<1> QED
  BY <1>1 DEF Sound

LEMMA MarkExportedKeepsInv ==
  ASSUME Inv, NEW s \in Sessions, NEW I \in SUBSET Ids, MarkExported(s, I)
  PROVE  Inv'
<1> DEFINE changed == [i \in StillApproved(I) |-> Exported(rows[i])]
<1>1. Stage(s, NoClient, "none", changed) /\ UNCHANGED <<rows, view>>
  BY DEF MarkExported
<1>2. Sound(s, changed)
  BY MarkingIsSound
<1> HIDE DEF changed
<1> QED
  BY <1>1, <1>2, StageKeepsInv DEF Modes

\* get_current finds a live row of the requirement, committed or just inserted.
LEMMA PriorIsLive ==
  ASSUME Inv, NEW s \in Sessions, NEW r, NEW i \in GetCurrent(s, r)
  PROVE  /\ i \in Ids /\ Seen(s, i) \in Row /\ Present(Seen(s, i))
         /\ Seen(s, i).current /\ Seen(s, i).ref = r
         /\ \/ i \in Dirty(s) /\ Inserting(Base(s, i), Seen(s, i))
            \/ /\ i \notin Dirty(s) /\ Base(s, i) = Seen(s, i)
               /\ rows[i] = Seen(s, i) /\ i \in CurrentRows(r)
<1>1. i \in Ids
  BY DEF GetCurrent, Inserted, CurrentRows, Dirty
<1>2. Seen(s, i) \in Row
  BY <1>1, SeenType DEF Inv
<1>3. CASE i \in Inserted(s, r)
  <2>1. /\ i \in Dirty(s) /\ ~Present(session[s].loaded[i])
        /\ session[s].staged[i].current /\ session[s].staged[i].ref = r
    BY <1>3 DEF Inserted
  <2>2. Inserting(session[s].loaded[i], session[s].staged[i])
    BY <1>1, <2>1 DEF Inv, ChangesAreSound, Change, Dirty, Superseding, Deciding
  <2> QED
    BY <1>1, <1>2, <2>1, <2>2 DEF Seen, Base, Inserting
<1>4. CASE i \in CurrentRows(r) /\ i \notin Dirty(s)
  <2>1. Present(rows[i])
    BY <1>1, <1>4 DEF CurrentRows, Inv, AbsentIsBlank, NoRow
  <2> QED
    BY <1>1, <1>2, <1>4, <2>1 DEF Seen, Base, CurrentRows
<1> QED
  BY <1>3, <1>4 DEF GetCurrent

\* save_generation.
LEMMA SavedChanges ==
  ASSUME Inv, NEW s \in Sessions, NEW q \in Requirements, NEW o \in Outcome,
         NEW new \in UnusedIds, RoomFor(s, q), NEW i \in DOMAIN Saved(s, q, o, new)
  PROVE  /\ i \in Ids /\ Saved(s, q, o, new)[i] \in Row
         /\ \/ /\ i \in GetCurrent(s, q.ref) /\ i # new
               /\ Saved(s, q, o, new)[i] = Superseded(Seen(s, i))
               /\ Superseding(Base(s, i), Saved(s, q, o, new)[i]) \/ i \in Dirty(s)
               /\ i \in Dirty(s) => Inserting(Base(s, i), Saved(s, q, o, new)[i])
            \/ /\ i = new /\ i \notin GetCurrent(s, q.ref) /\ i \notin Dirty(s)
               /\ Saved(s, q, o, new)[i] = NewRow(s, q, o)
               /\ Inserting(Base(s, i), Saved(s, q, o, new)[i])
<1> DEFINE prior   == GetCurrent(s, q.ref)
           changed == Saved(s, q, o, new)
<1>1. DOMAIN changed = prior \union {new}
  BY DEF Saved
<1>2. new \in Ids /\ new \notin Dirty(s) /\ rows[new] = NoRow
  BY DEF UnusedIds, Inv, AbsentIsBlank
<1>3. new \notin prior
  BY <1>2, PriorIsLive, NoRowType
<1>4. CASE i \in prior
  <2>1. changed[i] = Superseded(Seen(s, i))
    BY <1>4 DEF Saved
  <2>2. /\ i \in Ids /\ Seen(s, i) \in Row /\ Present(Seen(s, i))
        /\ \/ i \in Dirty(s) /\ Inserting(Base(s, i), Seen(s, i))
           \/ i \notin Dirty(s) /\ Base(s, i) = Seen(s, i)
    BY <1>4, PriorIsLive
  <2>3. Superseded(Seen(s, i)) \in Row
    BY <2>2, SupersededType
  <2>4. Superseded(Seen(s, i)).status = Seen(s, i).status
    BY <2>2 DEF Superseded, Row
  <2>5. i \in Dirty(s) => Inserting(Base(s, i), Superseded(Seen(s, i)))
    BY <2>2, <2>4 DEF Inserting, Present, SignedOff
  <2> QED
    BY <1>3, <1>4, <2>1, <2>2, <2>3, <2>5 DEF Superseding
<1>5. CASE i = new
  <2>1. changed[i] = NewRow(s, q, o)
    BY <1>3, <1>5 DEF Saved
  <2>2. NewRow(s, q, o) \in Row
    BY NewRowType DEF Inv
  <2>3. Present(NewRow(s, q, o)) /\ ~SignedOff(NewRow(s, q, o))
    <3>1. NewRow(s, q, o).status = o.status
      BY NewRowFields, Zenon
    <3> QED
      BY <3>1 DEF Outcome, Present, SignedOff, SIGNED_OFF
  <2>4. Base(s, i) = NoRow
    BY <1>2, <1>5 DEF Base
  <2> QED
    BY <1>2, <1>3, <1>5, <2>1, <2>2, <2>3, <2>4 DEF Inserting
<1> QED
  BY <1>1, <1>4, <1>5

LEMMA SavedIsSound ==
  ASSUME Inv, NEW s \in Sessions, NEW q \in Requirements, NEW o \in Outcome,
         NEW new \in UnusedIds, RoomFor(s, q)
  PROVE  Sound(s, Saved(s, q, o, new))
<1> DEFINE changed == Saved(s, q, o, new)
<1> SUFFICES ASSUME NEW i \in DOMAIN changed
             PROVE  /\ i \in Ids /\ changed[i] \in Row /\ Change(Base(s, i), changed[i])
                    /\ i \in Dirty(s) \/ Present(rows[i]) \/ i \in UnusedIds
  BY DEF Sound
<1>1. /\ i \in Ids /\ changed[i] \in Row
      /\ \/ /\ i \in GetCurrent(s, q.ref)
            /\ Superseding(Base(s, i), changed[i]) \/ i \in Dirty(s)
            /\ i \in Dirty(s) => Inserting(Base(s, i), changed[i])
         \/ i = new /\ Inserting(Base(s, i), changed[i])
  BY SavedChanges
<1>2. i \in GetCurrent(s, q.ref) => i \in Dirty(s) \/ Present(rows[i])
  BY PriorIsLive
<1> HIDE DEF changed
<1> QED
  BY <1>1, <1>2 DEF Change

LEMMA SaveGenerationKeepsInv ==
  ASSUME Inv, NEW s \in Sessions, NEW mode \in Modes, NEW q \in Requirements,
         NEW o \in Outcome, SaveGeneration(s, mode, q, o)
  PROVE  Inv'
<1>1. PICK new \in UnusedIds : Stage(s, NoClient, mode, Saved(s, q, o, new))
  BY DEF SaveGeneration
<1>2. RoomFor(s, q) /\ UNCHANGED <<rows, view>>
  BY DEF SaveGeneration
<1>3. Sound(s, Saved(s, q, o, new))
  BY <1>2, SavedIsSound
<1> QED
  BY <1>1, <1>2, <1>3, StageKeepsInv

\* Every request that saves does so by save_generation.
LEMMA SavingSaves ==
  ASSUME NEW s \in Sessions,
         \/ \E q \in Requirements, o \in Outcomes : Generate(s, q, o)
         \/ \E q \in Requirements : SaveFound(s, q) \/ Overwrite(s, q)
  PROVE  \E mode \in Modes, q \in Requirements, o \in Outcome :
            /\ SaveGeneration(s, mode, q, o)
            /\ mode = "register" => session[s].looked = {q} /\ o = Unanswered
            /\ mode = "none" => Idle(s)
            /\ mode = "overwrite" => Idle(s) \/ session[s].mode = "overwrite"
<1>1. Unanswered \in Outcome
  BY DEF Unanswered, Outcome
<1>2. ASSUME NEW q \in Requirements, NEW o \in Outcomes, Generate(s, q, o)
      PROVE  o \in Outcome /\ SaveGeneration(s, "none", q, o) /\ Idle(s)
  BY <1>2, ConstantsAssumption DEF Generate
<1>3. ASSUME NEW q \in Requirements, SaveFound(s, q)
      PROVE  SaveGeneration(s, "register", q, Unanswered) /\ session[s].looked = {q}
  BY <1>3 DEF SaveFound
<1>4. ASSUME NEW q \in Requirements, Overwrite(s, q)
      PROVE  /\ SaveGeneration(s, "overwrite", q, Unanswered)
             /\ Idle(s) \/ session[s].mode = "overwrite"
  BY <1>4 DEF Overwrite
<1> QED
  BY <1>1, <1>2, <1>3, <1>4 DEF Modes

\* A look changes nothing but what the session has looked up.
LEMMA LookChanges ==
  ASSUME TypeOK, NEW s \in Sessions, NEW q \in Requirements, LookUp(s, q)
  PROVE  /\ UNCHANGED <<rows, view>> /\ TypeOK'
         /\ \A z \in Sessions : /\ session'[z].loaded = session[z].loaded
                                /\ session'[z].staged = session[z].staged
                                /\ session'[z].client = session[z].client
                                /\ Dirty(z)' = Dirty(z)
         /\ \A z \in Sessions : z # s => session'[z] = session[z]
         /\ session'[s].mode = "register" /\ session'[s].looked = {q}
         /\ session'[s].known = IF Idle(s) THEN {i \in Ids : Present(rows[i])}
                                ELSE session[s].known
<1> DEFINE known == IF Idle(s) THEN {i \in Ids : Present(rows[i])} ELSE session[s].known
<1>1. session' = [session EXCEPT ![s].mode = "register", ![s].looked = {q}, ![s].known = known]
  BY DEF LookUp
<1>2. UNCHANGED <<rows, view>>
  BY DEF LookUp
<1>3. session[s] \in Session /\ known \in SUBSET Ids /\ session \in [Sessions -> Session]
  BY DEF TypeOK, Session
<1> HIDE DEF known
<1>4. [session[s] EXCEPT !.mode = "register", !.looked = {q}, !.known = known] \in Session
  BY <1>3 DEF Session
<1>5. session'[s] = [session[s] EXCEPT !.mode = "register", !.looked = {q}, !.known = known]
  BY <1>1, <1>3
<1>6. \A z \in Sessions : z # s => session'[z] = session[z]
  BY <1>1, <1>3
<1>7. /\ session'[s].loaded = session[s].loaded /\ session'[s].staged = session[s].staged
      /\ session'[s].client = session[s].client
      /\ session'[s].mode = "register" /\ session'[s].looked = {q} /\ session'[s].known = known
  BY <1>3, <1>5 DEF Session
<1>8. \A z \in Sessions : /\ session'[z].loaded = session[z].loaded
                          /\ session'[z].staged = session[z].staged
                          /\ session'[z].client = session[z].client
  BY <1>6, <1>7
<1>9. TypeOK'
  BY <1>1, <1>2, <1>3, <1>4 DEF TypeOK
<1> QED
  BY <1>2, <1>6, <1>7, <1>8, <1>9 DEF Dirty, known

LEMMA LookUpKeepsInv ==
  ASSUME Inv, NEW s \in Sessions, NEW q \in Requirements, LookUp(s, q)
  PROVE  Inv'
<1>1. /\ UNCHANGED <<rows, view>> /\ TypeOK'
      /\ \A z \in Sessions : /\ session'[z].loaded = session[z].loaded
                             /\ session'[z].staged = session[z].staged
                             /\ Dirty(z)' = Dirty(z)
  BY LookChanges DEF Inv
<1>2. VersionNamesContent' /\ SignaturesHold' /\ AbsentIsBlank' /\ ChangesAreSound'
  BY <1>1 DEF Inv, VersionNamesContent, SignaturesHold, AbsentIsBlank, ChangesAreSound
<1>3. NewKeysAreUnused' /\ NewKeysDiffer'
  BY <1>1 DEF Inv, NewKeysAreUnused, NewKeysDiffer
<1> QED
  BY <1>1, <1>2, <1>3 DEF Inv

LEMMA ProduceKeepsInv ==
  ASSUME Inv, NEW s \in Sessions, Produce(s)
  PROVE  Inv'
BY SavingSaves, SaveGenerationKeepsInv, LookUpKeepsInv DEF Produce

LEMMA OpenKeepsInv ==
  ASSUME Inv, NEW c \in Clients, NEW i \in Ids, Open(c, i)
  PROVE  Inv'
<1> DEFINE seen == [id |-> i, version |-> rows[i].version, text |-> FinalText(rows[i])]
<1>1. view' = [view EXCEPT ![c] = seen] /\ UNCHANGED <<rows, session>> /\ Present(rows[i])
  BY DEF Open
<1>2. seen \in View
  BY DEF Inv, TypeOK, View, Row, FinalText
<1>3. TypeOK'
  BY <1>1, <1>2 DEF Inv, TypeOK
<1>4. VersionNamesContent'
  <2>1. ASSUME NEW d \in Clients, view'[d].id # NoId
        PROVE  /\ Present(rows[view'[d].id])
               /\ view'[d].version <= rows[view'[d].id].version
               /\ view'[d].version = rows[view'[d].id].version =>
                     view'[d].text = FinalText(rows[view'[d].id])
    <3>1. CASE d = c
      <4>1. view'[d] = seen /\ rows[i].version \in Int
        BY <1>1, <3>1 DEF Inv, TypeOK, Row
      <4> QED
        BY <1>1, <4>1
    <3>2. CASE d # c
      BY <1>1, <2>1, <3>2 DEF Inv, TypeOK, VersionNamesContent
    <3> QED
      BY <3>1, <3>2
  <2> QED
    BY <1>1, <2>1 DEF Inv, VersionNamesContent
<1>5. /\ SignaturesHold' /\ AbsentIsBlank' /\ ChangesAreSound'
      /\ NewKeysAreUnused' /\ NewKeysDiffer'
  BY <1>1 DEF Inv, SignaturesHold, AbsentIsBlank, ChangesAreSound, NewKeysAreUnused,
              NewKeysDiffer, Dirty
<1> QED
  BY <1>3, <1>4, <1>5 DEF Inv

-----------------------------------------------------------------------------
(* Committing: what a flush can do to one row. *)

\* The row is superseded, or it takes one decision made on the content it
\* still has, or it is new.
RowStep(s, i) ==
  \/ rows'[i] = rows[i]
  \/ Superseding(rows[i], rows'[i])
  \/ /\ Present(rows[i])
     /\ SameContent(session[s].loaded[i], rows[i])
     /\ SameContent(session[s].staged[i], rows'[i])
     /\ Deciding(rows[i], rows'[i])
  \/ Inserting(rows[i], rows'[i])

\* Rows with one content differ in nothing a decision or a signature is about.
LEMMA SameContentAgrees ==
  ASSUME NEW a \in Row, NEW b \in Row, SameContent(a, b)
  PROVE  /\ Present(a) <=> Present(b)
         /\ a.status = b.status /\ a.version = b.version
         /\ FinalText(a) = FinalText(b)
         /\ Signature(a) <=> Signature(b)
<1> DEFINE a0 == [a EXCEPT !.current = FALSE]
           b0 == [b EXCEPT !.current = FALSE]
<1>1. a0 = b0
  BY DEF SameContent
<1>2. /\ a0.status = a.status /\ a0.version = a.version /\ a0.answer = a.answer
      /\ a0.edited = a.edited /\ a0.signed = a.signed
      /\ a0.reviewer = a.reviewer /\ a0.cited = a.cited /\ a0.notes = a.notes
  BY DEF Row
<1>3. /\ b0.status = b.status /\ b0.version = b.version /\ b0.answer = b.answer
      /\ b0.edited = b.edited /\ b0.signed = b.signed
      /\ b0.reviewer = b.reviewer /\ b0.cited = b.cited /\ b0.notes = b.notes
  BY DEF Row
<1> HIDE DEF a0, b0
<1> QED
  BY <1>1, <1>2, <1>3 DEF Present, FinalText, Signature, SignedOff

\* is_current is no part of the content.
LEMMA CurrentIsNoContent ==
  ASSUME NEW a \in Row, NEW b
  PROVE  /\ [a EXCEPT !.current = b].current = b
         /\ SameContent(a, [a EXCEPT !.current = b])
         /\ [a EXCEPT !.current = a.current] = a
BY DEF Row, SameContent

LEMMA CommitStepsRow ==
  ASSUME Inv, NEW s \in Sessions, Commit(s), NEW i \in Ids
  PROVE  RowStep(s, i) /\ rows'[i] \in Row
<1> DEFINE old == session[s].loaded[i]
           new == session[s].staged[i]
<1>1. old \in Row /\ new \in Row /\ rows[i] \in Row /\ Change(old, new)
  BY DEF Inv, TypeOK, Session, ChangesAreSound
<1>2. rows'[i] = Written(s, i)
  BY DEF Commit
<1>3. CASE i \notin Dirty(s)
  BY <1>1, <1>2, <1>3 DEF Written, RowStep
<1>4. CASE i \in Dirty(s) /\ ~Present(old)
  <2>1. Inserting(old, new)
    BY <1>1, <1>4 DEF Change, Dirty, Superseding, Deciding
  <2>2. rows[i] = NoRow
    BY <1>4 DEF Inv, NewKeysAreUnused, AbsentIsBlank
  <2>3. rows'[i] = new
    BY <1>2, <1>4 DEF Written
  <2> QED
    BY <1>1, <2>1, <2>2, <2>3 DEF RowStep, Inserting
<1>5. CASE i \in Dirty(s) /\ Present(old)
  <2>1. SameContent(old, rows[i])
    BY <1>5 DEF Commit, StaleRow, Inv, VersionNamesContent
  <2>2. /\ Present(rows[i]) /\ rows[i].version = old.version
        /\ rows[i].status = old.status /\ FinalText(rows[i]) = FinalText(old)
    BY <1>1, <1>5, <2>1, SameContentAgrees
  <2>3. CASE Superseding(old, new)
    <3>1. new.current = FALSE /\ old.current # new.current
      BY <1>1, <1>5, <2>3, CurrentIsNoContent DEF Superseding, Superseded, Dirty, Row
    <3>2. rows'[i] = [rows[i] EXCEPT !.current = new.current]
      BY <1>2, <1>5, <3>1 DEF Written
    <3>3. Superseding(rows[i], rows'[i])
      BY <2>2, <3>1, <3>2 DEF Superseding, Superseded
    <3> QED
      BY <1>1, <3>3, SupersededType DEF RowStep, Superseding
  <2>4. CASE Deciding(old, new)
    <3>1. rows'[i] = [new EXCEPT !.current = rows[i].current]
      BY <1>2, <1>5, <2>4 DEF Written, Deciding
    <3>2. rows'[i] \in Row
      BY <1>1, <3>1 DEF Row
    <3>3. SameContent(new, rows'[i]) /\ rows'[i].current = rows[i].current
      BY <1>1, <3>1, CurrentIsNoContent
    <3>4. /\ Present(rows'[i]) /\ rows'[i].version = new.version
          /\ Signature(rows'[i]) /\ rows'[i].status = new.status
          /\ FinalText(rows'[i]) = FinalText(new)
      BY <1>1, <2>4, <3>2, <3>3, SameContentAgrees DEF Deciding
    <3>5. Deciding(rows[i], rows'[i])
      BY <2>2, <2>4, <3>3, <3>4 DEF Deciding, SignedOff
    <3> QED
      BY <2>1, <2>2, <3>2, <3>3, <3>5 DEF RowStep
  <2>5. new # old /\ ~Inserting(old, new)
    BY <1>5, NoRowType DEF Dirty, Inserting
  <2> QED
    BY <1>1, <2>3, <2>4, <2>5 DEF Change
<1> QED
  BY <1>3, <1>4, <1>5

\* What a committed step cannot undo: a row stays, its version never goes
\* back, and its content changes only together with its version.
LEMMA RowStepOrdersVersions ==
  ASSUME NEW s, NEW i \in Ids, RowStep(s, i), rows[i] \in Row, rows'[i] \in Row,
         Present(rows[i])
  PROVE  /\ Present(rows'[i])
         /\ \/ rows'[i].version = rows[i].version /\ SameContent(rows[i], rows'[i])
            \/ rows'[i].version = rows[i].version + 1
<1>1. CASE rows'[i] = rows[i]
  BY <1>1, SameContentReflexive
<1>2. CASE Superseding(rows[i], rows'[i])
  <2>1. SameContent(rows[i], rows'[i])
    BY <1>2, CurrentIsNoContent DEF Superseding, Superseded
  <2> QED
    BY <2>1, SameContentAgrees
<1>3. CASE Deciding(rows[i], rows'[i])
  BY <1>3 DEF Deciding
<1>4. CASE Inserting(rows[i], rows'[i])
  BY <1>4, NoRowType DEF Inserting
<1> QED
  BY <1>1, <1>2, <1>3, <1>4 DEF RowStep

\* A session that has ended.
LEMMA EndedSession ==
  ASSUME TypeOK, NEW s \in Sessions, session' = [session EXCEPT ![s] = IdleSession]
  PROVE  /\ session'[s] = IdleSession
         /\ \A z \in Sessions : z # s => session'[z] = session[z]
         /\ session' \in [Sessions -> Session]
         /\ \A z \in Sessions : \A i \in Dirty(z)' : z # s /\ i \in Ids /\ i \in Dirty(z)
<1>1. /\ session'[s] = IdleSession
      /\ \A z \in Sessions : z # s => session'[z] = session[z]
      /\ session' \in [Sessions -> Session]
  BY IdleHoldsNothing DEF TypeOK
<1>2. ASSUME NEW z \in Sessions, NEW i \in Dirty(z)'
      PROVE  z # s /\ i \in Ids /\ i \in Dirty(z)
  BY <1>1, IdleHoldsNothing DEF Dirty
<1> QED
  BY <1>1, <1>2

LEMMA CommitKeepsInv ==
  ASSUME Inv, NEW s \in Sessions, Commit(s)
  PROVE  Inv'
<1>1. /\ session' = [session EXCEPT ![s] = IdleSession]
      /\ rows' = [i \in Ids |-> Written(s, i)] /\ view' = view /\ TypeOK
  BY DEF Commit, Inv
<1>2. \A i \in Ids : /\ RowStep(s, i) /\ rows'[i] \in Row /\ rows[i] \in Row
  BY CommitStepsRow, <1>1 DEF TypeOK
<1>3. TypeOK'
  BY <1>1, <1>2, EndedSession DEF TypeOK
<1>4. ASSUME NEW i \in Ids, Present(rows[i])
      PROVE  /\ Present(rows'[i])
             /\ \/ rows'[i].version = rows[i].version /\ SameContent(rows[i], rows'[i])
                \/ rows'[i].version = rows[i].version + 1
  BY <1>2, <1>4, RowStepOrdersVersions
<1>5. VersionNamesContent'
  <2>1. ASSUME NEW c \in Clients, view[c].id # NoId
        PROVE  /\ Present(rows'[view[c].id])
               /\ view[c].version <= rows'[view[c].id].version
               /\ view[c].version = rows'[view[c].id].version =>
                     view[c].text = FinalText(rows'[view[c].id])
    <3> DEFINE i == view[c].id
    <3>1. /\ i \in Ids /\ Present(rows[i]) /\ view[c].version <= rows[i].version
          /\ view[c].version = rows[i].version => view[c].text = FinalText(rows[i])
          /\ view[c].version \in Int /\ rows[i].version \in Int
      BY <1>1, <1>2, <2>1 DEF Inv, VersionNamesContent, TypeOK, View, Row
    <3>2. CASE rows'[i].version = rows[i].version /\ SameContent(rows[i], rows'[i])
      BY <1>2, <1>4, <3>1, <3>2, SameContentAgrees
    <3>3. CASE rows'[i].version = rows[i].version + 1
      BY <1>4, <3>1, <3>3
    <3> QED
      BY <1>4, <3>1, <3>2, <3>3
  <2>2. ASSUME NEW z \in Sessions, NEW i \in Ids, Present(session'[z].loaded[i])
        PROVE  /\ Present(rows'[i])
               /\ session'[z].loaded[i].version <= rows'[i].version
               /\ session'[z].loaded[i].version = rows'[i].version =>
                     SameContent(session'[z].loaded[i], rows'[i])
    <3> DEFINE old == session'[z].loaded[i]
    <3>1. old = session[z].loaded[i]
      BY <1>1, <2>2, EndedSession, IdleHoldsNothing, NoRowType
    <3>2. old \in Row /\ old.version \in Int /\ rows[i].version \in Int
      BY <1>1, <1>2, <3>1 DEF TypeOK, Session, Row
    <3>3. /\ Present(rows[i]) /\ old.version <= rows[i].version
          /\ old.version = rows[i].version => SameContent(old, rows[i])
      BY <2>2, <3>1 DEF Inv, VersionNamesContent
    <3>4. CASE rows'[i].version = rows[i].version /\ SameContent(rows[i], rows'[i])
      BY <1>4, <3>2, <3>3, <3>4 DEF SameContent
    <3>5. CASE rows'[i].version = rows[i].version + 1
      BY <1>4, <3>2, <3>3, <3>5
    <3> QED
      BY <1>4, <3>3, <3>4, <3>5
  <2> QED
    BY <1>1, <2>1, <2>2 DEF VersionNamesContent
<1>6. AbsentIsBlank'
  <2>1. ASSUME NEW i \in Ids, ~Present(rows'[i])
        PROVE  rows'[i] = NoRow
    BY <1>2, <1>4, <2>1 DEF Inv, AbsentIsBlank, RowStep, Superseding, Deciding, Inserting
  <2> QED
    BY <2>1 DEF AbsentIsBlank
<1>7. SignaturesHold'
  <2>1. ASSUME NEW i \in Ids
        PROVE  Signature(rows'[i])
    <3>1. Signature(rows[i]) /\ rows[i] \in Row /\ rows'[i] \in Row
      BY <1>2 DEF Inv, SignaturesHold
    <3>2. CASE Superseding(rows[i], rows'[i])
      BY <3>1, <3>2, CurrentIsNoContent, SameContentAgrees DEF Superseding, Superseded
    <3> QED
      BY <1>2, <3>1, <3>2 DEF RowStep, Deciding, Inserting, Signature
  <2> QED
    BY <2>1 DEF SignaturesHold
<1>8. ChangesAreSound'
  <2>1. ASSUME NEW z \in Sessions, NEW i \in Ids
        PROVE  Change(session'[z].loaded[i], session'[z].staged[i])
    BY <1>1, EndedSession, IdleHoldsNothing DEF Inv, ChangesAreSound, Change
  <2> QED
    BY <2>1 DEF ChangesAreSound
<1>9. NewKeysAreUnused'
  <2>1. ASSUME NEW z \in Sessions, NEW i \in Dirty(z)', ~Present(session'[z].loaded[i])
        PROVE  ~Present(rows'[i])
    <3>1. /\ z # s /\ i \in Ids /\ i \in Dirty(z) /\ session'[z] = session[z]
          /\ ~Present(rows[i])
      BY <1>1, <2>1, EndedSession DEF Inv, NewKeysAreUnused
    \* Were i new in s as well, z and s would be the same session.
    <3>2. i \notin Dirty(s)
      <4>1. Present(session[s].loaded[i]) => Present(rows[i])
        BY <3>1 DEF Inv, VersionNamesContent
      <4> QED
        BY <3>1, <4>1 DEF Inv, NewKeysDiffer
    <3> QED
      BY <1>1, <3>1, <3>2 DEF Written
  <2> QED
    BY <2>1 DEF NewKeysAreUnused
<1>10. NewKeysDiffer'
  <2>1. ASSUME NEW s1 \in Sessions, NEW s2 \in Sessions,
               NEW i \in Dirty(s1)', i \in Dirty(s2)',
               ~Present(session'[s1].loaded[i])
        PROVE  s1 = s2
    BY <1>1, <2>1, EndedSession DEF Inv, NewKeysDiffer
  <2> QED
    BY <2>1 DEF NewKeysDiffer
<1> QED
  BY <1>3, <1>5, <1>6, <1>7, <1>8, <1>9, <1>10 DEF Inv

LEMMA RollbackKeepsInv ==
  ASSUME Inv, NEW s \in Sessions, Rollback(s)
  PROVE  Inv'
<1>1. /\ session' = [session EXCEPT ![s] = IdleSession]
      /\ UNCHANGED <<rows, view>> /\ TypeOK
  BY DEF Rollback, Inv
<1>2. TypeOK' /\ SignaturesHold' /\ AbsentIsBlank'
  BY <1>1, EndedSession DEF Inv, TypeOK, SignaturesHold, AbsentIsBlank
<1>3. VersionNamesContent'
  <2>1. ASSUME NEW z \in Sessions, NEW i \in Ids, Present(session'[z].loaded[i])
        PROVE  z # s /\ session'[z] = session[z]
    BY <1>1, <2>1, EndedSession, IdleHoldsNothing, NoRowType
  <2> QED
    BY <1>1, <2>1 DEF Inv, VersionNamesContent
<1>4. ChangesAreSound'
  <2>1. ASSUME NEW z \in Sessions, NEW i \in Ids
        PROVE  Change(session'[z].loaded[i], session'[z].staged[i])
    BY <1>1, EndedSession, IdleHoldsNothing DEF Inv, ChangesAreSound, Change
  <2> QED
    BY <2>1 DEF ChangesAreSound
<1>5. NewKeysAreUnused' /\ NewKeysDiffer'
  <2>1. \A z \in Sessions : \A i \in Dirty(z)' :
           i \in Dirty(z) /\ session'[z] = session[z]
    BY <1>1, EndedSession
  <2> QED
    BY <1>1, <2>1 DEF Inv, NewKeysAreUnused, NewKeysDiffer
<1> QED
  BY <1>2, <1>3, <1>4, <1>5 DEF Inv

-----------------------------------------------------------------------------
(* The theorems. *)

LEMMA InitEstablishesInv ==
  ASSUME Init
  PROVE  Inv
<1>1. TypeOK
  <2>1. NoView \in View
    BY ConstantsAssumption DEF NoView, View
  <2> QED
    BY <2>1, NoRowType, IdleHoldsNothing DEF Init, TypeOK, EmptyTable
<1>2. \A s \in Sessions, i \in Ids :
         session[s].loaded[i] = NoRow /\ session[s].staged[i] = NoRow
  BY IdleHoldsNothing DEF Init
<1>3. VersionNamesContent
  BY <1>2, NoRowType DEF Init, VersionNamesContent, NoView
<1>4. \A i \in Ids : rows[i] = NoRow
  BY DEF Init, EmptyTable
<1>5. SignaturesHold /\ AbsentIsBlank
  <2>1. ~SignedOff(NoRow)
    BY DEF SignedOff, SIGNED_OFF, NoRow
  <2> QED
    BY <1>4, <2>1 DEF SignaturesHold, AbsentIsBlank, Signature
<1>6. ChangesAreSound /\ NewKeysAreUnused /\ NewKeysDiffer
  BY <1>2 DEF ChangesAreSound, Change, NewKeysAreUnused, NewKeysDiffer, Dirty
<1> QED
  BY <1>1, <1>3, <1>5, <1>6 DEF Inv

LEMMA NextKeepsInv ==
  ASSUME Inv, [Next]_vars
  PROVE  Inv'
<1>1. CASE Read
  BY <1>1, OpenKeepsInv DEF Read
<1>2. ASSUME NEW s \in Sessions, Decide(s) PROVE Inv'
  BY <1>2, ReviewKeepsInv, EditKeepsInv DEF Decide
<1>3. ASSUME NEW s \in Sessions, Produce(s) PROVE Inv'
  BY <1>3, ProduceKeepsInv
<1>4. ASSUME NEW s \in Sessions, NEW I \in SUBSET Ids, MarkExported(s, I) PROVE Inv'
  BY <1>4, MarkExportedKeepsInv
<1>5. ASSUME NEW s \in Sessions, Commit(s) PROVE Inv'
  BY <1>5, CommitKeepsInv
<1>6. ASSUME NEW s \in Sessions, Rollback(s) PROVE Inv'
  BY <1>6, RollbackKeepsInv
<1>7. CASE UNCHANGED vars
  BY <1>7 DEF vars, Inv, TypeOK, VersionNamesContent, SignaturesHold, AbsentIsBlank,
              ChangesAreSound, NewKeysAreUnused, NewKeysDiffer, Dirty
<1> QED
  BY <1>1, <1>2, <1>3, <1>4, <1>5, <1>6, <1>7 DEF Next

\* The inductive invariant holds in every reachable state: whatever requests
\* are in flight, each is about to change the rows it loaded soundly.
THEOREM InvHolds == Spec => []Inv
<1>1. Init => Inv
  BY InitEstablishesInv
<1>2. Inv /\ [Next]_vars => Inv'
  BY NextKeepsInv
<1> QED
  BY <1>1, <1>2, PTL DEF Spec

\* Rows, sessions and screens keep their types: no request writes a status,
\* a user or a version that the columns do not have.
THEOREM TypeCorrect == Spec => []TypeOK
<1>1. Inv => TypeOK
  BY DEF Inv
<1> QED
  BY <1>1, InvHolds, PTL

\* A version number names one content, so a matching expected_version proves
\* that nothing has moved (_require_fresh, version_id_col).
THEOREM VersionsNameContents == Spec => []VersionNamesContent
<1>1. Inv => VersionNamesContent
  BY DEF Inv
<1> QED
  BY <1>1, InvHolds, PTL

\* The signature on an answer is on the words its approver had on screen.
THEOREM SignaturesCoverTexts == Spec => []SignatureCoversText
<1>1. Inv => SignatureCoversText
  BY DEF Inv, SignaturesHold, Signature, SignatureCoversText
<1> QED
  BY <1>1, InvHolds, PTL

\* Every signed-off answer names an owner or bid manager, and cites a source
\* or carries a written note.
THEOREM SignaturesAreAccountable == Spec => []SignatureIsAccountable
<1>1. Inv => SignatureIsAccountable
  BY DEF Inv, SignaturesHold, Signature, SignatureIsAccountable
<1> QED
  BY <1>1, InvHolds, PTL

\* Only a commit writes rows, and it moves each of them by a RowStep.
LEMMA OnlyCommitsWrite ==
  ASSUME Inv, [Next]_vars, rows' # rows
  PROVE  \E s \in Sessions : Commit(s) /\ \A i \in Ids : RowStep(s, i)
<1>1. PICK s \in Sessions : Commit(s)
  BY DEF Next, vars, Read, Open, Decide, Review, Edit, Produce, Generate, LookUp,
         SaveFound, Overwrite, SaveGeneration, MarkExported, Rollback
<1> QED
  BY <1>1, CommitStepsRow

\* No decision is lost: content changes only from what the writer had loaded.
THEOREM DecisionsAreNotLost == Spec => NoDecisionLost
<1> DEFINE Kept == \A i \in Ids :
       Present(rows[i]) /\ ~SameContent(rows[i], rows'[i]) =>
         \E s \in Sessions : /\ session[s] # session'[s]
                             /\ SameContent(session[s].loaded[i], rows[i])
                             /\ SameContent(session[s].staged[i], rows'[i])
<1>1. Inv /\ [Next]_vars => Kept
  <2> SUFFICES ASSUME Inv, [Next]_vars, NEW i \in Ids, Present(rows[i]),
                      ~SameContent(rows[i], rows'[i])
               PROVE  \E s \in Sessions :
                         /\ session[s] # session'[s]
                         /\ SameContent(session[s].loaded[i], rows[i])
                         /\ SameContent(session[s].staged[i], rows'[i])
    OBVIOUS
  <2>1. rows' # rows
    BY SameContentReflexive
  <2>2. PICK s \in Sessions : Commit(s) /\ RowStep(s, i)
    BY <2>1, OnlyCommitsWrite
  <2>3. rows[i] \in Row
    BY DEF Inv, TypeOK
  <2>4. ~Superseding(rows[i], rows'[i])
    BY <2>3, CurrentIsNoContent DEF Superseding, Superseded
  <2>5. /\ SameContent(session[s].loaded[i], rows[i])
        /\ SameContent(session[s].staged[i], rows'[i])
    BY <2>2, <2>4, SameContentReflexive, NoRowType DEF RowStep, Inserting
  <2>6. session'[s] = IdleSession
    BY <2>2, EndedSession DEF Commit, Inv
  <2>7. session[s] # IdleSession
    <3>1. Dirty(s) # {}
      BY <2>2 DEF Commit
    <3> QED
      BY <3>1, IdleHoldsNothing DEF Dirty
  <2> QED
    BY <2>5, <2>6, <2>7
<1> QED
  BY <1>1, InvHolds, PTL DEF Spec, NoDecisionLost

\* What has been exported never changes again.
THEOREM ExportsAreFinal == Spec => ExportedIsFinal
<1> DEFINE Final == \A i \in Ids :
       rows[i].status = "exported" => SameContent(rows[i], rows'[i])
<1>1. Inv /\ [Next]_vars => Final
  <2> SUFFICES ASSUME Inv, [Next]_vars, NEW i \in Ids, rows[i].status = "exported"
               PROVE  SameContent(rows[i], rows'[i])
    OBVIOUS
  <2>1. CASE rows' = rows
    BY <2>1, SameContentReflexive
  <2>2. CASE rows' # rows
    <3>1. PICK s \in Sessions : RowStep(s, i)
      BY <2>2, OnlyCommitsWrite
    <3>2. Present(rows[i]) /\ rows[i] \in Row
      BY DEF Present, Inv, TypeOK
    <3>3. rows'[i] = rows[i] \/ Superseding(rows[i], rows'[i])
      BY <3>1, <3>2, NoRowType DEF RowStep, Deciding, Inserting
    <3> QED
      BY <3>2, <3>3, SameContentReflexive, CurrentIsNoContent DEF Superseding, Superseded
  <2> QED
    BY <2>1, <2>2
<1> QED
  BY <1>1, InvHolds, PTL DEF Spec, ExportedIsFinal

-----------------------------------------------------------------------------
(***************************************************************************)
(* The versions of an answer. Neither OneCurrentRow nor HistoryIsAChain is *)
(* inductive: a transaction that inserts a successor was opened on a table *)
(* that may have changed since.  What holds of the open transactions is    *)
(* that each of them adds links to the chain in pairs: a row it replaces   *)
(* has one successor in the same transaction, and a successor that names a *)
(* previous row replaces that row.  A registration that finds a reference  *)
(* twice replaces a row it has inserted itself.                            *)
(***************************************************************************)
Loaded(s, i) == session[s].loaded[i]
After(s, i)  == session[s].staged[i]

Inserts(s)     == {j \in Dirty(s) : ~Present(Loaded(s, j))}
LiveInserts(s) == {j \in Inserts(s) : After(s, j).current}
Supersedes(s)  == {i \in Dirty(s) : Superseding(Loaded(s, i), After(s, i))}
Replaced(s)    == Supersedes(s) \union (Inserts(s) \ LiveInserts(s))

LiveInsertsDiffer(s) ==
  \A j, k \in LiveInserts(s) : After(s, j).ref = After(s, k).ref => j = k

InsertsEndLive(s) ==
  \A j \in Inserts(s) : \E k \in LiveInserts(s) : After(s, k).ref = After(s, j).ref

SupersededDiffer(s) ==
  \A i, k \in Supersedes(s) : After(s, i).ref = After(s, k).ref => i = k

SuccessorsReplace(s) ==
  \A j \in Inserts(s) : After(s, j).previous # NoId =>
     /\ After(s, j).previous \in Replaced(s)
     /\ After(s, After(s, j).previous).ref = After(s, j).ref

ReplacedHaveSuccessors(s) ==
  \A i \in Replaced(s) : \E j \in Inserts(s) : After(s, j).previous = i

SuccessorsDiffer(s) ==
  \A j, k \in Inserts(s) :
     After(s, j).previous # NoId /\ After(s, j).previous = After(s, k).previous => j = k

DecisionsKeepLinks(s) ==
  \A i \in Dirty(s) : Deciding(Loaded(s, i), After(s, i)) =>
     /\ After(s, i).ref = Loaded(s, i).ref
     /\ After(s, i).previous = Loaded(s, i).previous

Extends(s) == /\ LiveInsertsDiffer(s)
              /\ InsertsEndLive(s)
              /\ SupersededDiffer(s)
              /\ SuccessorsReplace(s)
              /\ ReplacedHaveSuccessors(s)
              /\ SuccessorsDiffer(s)
              /\ DecisionsKeepLinks(s)

\* The same of the table.
LiveRowsDiffer ==
  \A i, j \in Ids : rows[i].current /\ rows[j].current /\ rows[i].ref = rows[j].ref => i = j

SomeRowIsLive ==
  \A i \in Ids : Present(rows[i]) =>
     \E k \in Ids : rows[k].current /\ rows[k].ref = rows[i].ref

PreviousIsSuperseded ==
  \A j \in Ids : rows[j].previous # NoId =>
     LET i == rows[j].previous
     IN  Present(rows[i]) /\ ~rows[i].current /\ rows[j].ref = rows[i].ref

SupersededIsPrevious ==
  \A i \in Ids : Present(rows[i]) /\ ~rows[i].current =>
     \E j \in Ids : rows[j].previous = i

SuccessorIsUnique ==
  \A j, k \in Ids : rows[j].previous # NoId /\ rows[j].previous = rows[k].previous => j = k

HistoryInv == /\ Inv
              /\ \A s \in Sessions : Extends(s)
              /\ LiveRowsDiffer
              /\ SomeRowIsLive
              /\ PreviousIsSuperseded
              /\ SupersededIsPrevious
              /\ SuccessorIsUnique

-----------------------------------------------------------------------------
(* Opening a transaction, and saving in one. *)

\* A request that only decides on rows keeps every link.
LEMMA DecisionsExtend ==
  ASSUME Inv, NEW s \in Sessions, Idle(s), NEW c, NEW changed, Sound(s, changed),
         Stage(s, c, "none", changed),
         \A i \in DOMAIN changed : /\ Present(rows[i])
                                   /\ changed[i].version = rows[i].version + 1
                                   /\ changed[i].ref = rows[i].ref
                                   /\ changed[i].previous = rows[i].previous
  PROVE  Extends(s)'
<1>1. TypeOK
  BY DEF Inv
<1>2. ASSUME NEW i \in Dirty(s)'
      PROVE  /\ i \in Ids /\ i \in DOMAIN changed
             /\ Loaded(s, i)' = rows[i] /\ After(s, i)' = changed[i]
  <2>1. i \in Ids /\ session'[s].staged[i] # session'[s].loaded[i]
    BY DEF Dirty
  <2>2. i \in DOMAIN changed
    BY <1>1, <2>1, Staged, IdleHoldsNothing DEF Idle
  <2> QED
    BY <1>1, <2>1, <2>2, Staged, IdleIsClean DEF Loaded, After
<1>3. Inserts(s)' = {}
  BY <1>2 DEF Inserts
<1>4. ASSUME NEW i \in Supersedes(s)'
      PROVE  FALSE
  <2>1. i \in DOMAIN changed /\ i \in Ids /\ Superseding(rows[i], changed[i])
    BY <1>2 DEF Supersedes
  <2>2. rows[i] \in Row /\ rows[i].version \in Int
    BY <2>1 DEF Inv, TypeOK, Row
  <2>3. changed[i].version = rows[i].version
    BY <2>1, <2>2, CurrentIsNoContent, SupersededType, SameContentAgrees
       DEF Superseding, Superseded
  <2> QED
    BY <2>1, <2>2, <2>3
<1>5. DecisionsKeepLinks(s)'
  BY <1>2 DEF DecisionsKeepLinks
<1>6. Supersedes(s)' = {}
  BY <1>4
<1>7. Replaced(s)' = {} /\ LiveInserts(s)' = {}
  BY <1>3, <1>6 DEF Replaced, LiveInserts
<1> QED
  BY <1>3, <1>5, <1>6, <1>7 DEF Extends, LiveInsertsDiffer, InsertsEndLive, SupersededDiffer,
                                SuccessorsReplace, ReplacedHaveSuccessors, SuccessorsDiffer

LEMMA ReviewExtends ==
  ASSUME Inv, NEW s \in Sessions, NEW c \in Clients, NEW q \in ReviewRequest,
         Review(s, c, q)
  PROVE  Extends(s)'
<1> DEFINE i == view[c].id
           new == Reviewed(rows[i], c, q)
           changed == [k \in {i} |-> new]
<1>1. i \in Ids /\ rows[i] \in Row /\ Present(rows[i])
  BY ViewedRowIsPresent DEF Inv, TypeOK, Review
<1>2. /\ new.version = rows[i].version + 1
      /\ new.ref = rows[i].ref /\ new.previous = rows[i].previous
  BY <1>1 DEF Reviewed, Row
<1>3. Sound(s, changed)
  BY ReviewIsSound
<1>4. Idle(s) /\ Stage(s, c, "none", changed)
  BY DEF Review
<1> HIDE DEF new
<1>5. \A k \in DOMAIN changed : /\ Present(rows[k]) /\ changed[k].version = rows[k].version + 1
                               /\ changed[k].ref = rows[k].ref
                               /\ changed[k].previous = rows[k].previous
  BY <1>1, <1>2
<1> HIDE DEF changed
<1> QED
  BY <1>3, <1>4, <1>5, DecisionsExtend

LEMMA EditExtends ==
  ASSUME Inv, NEW s \in Sessions, NEW c \in Clients, NEW t \in Texts,
         NEW n \in NoteInputs, Edit(s, c, t, n)
  PROVE  Extends(s)'
<1> DEFINE i == view[c].id
           new == Rewritten(rows[i], t, n)
           changed == [k \in {i} |-> new]
<1>1. i \in Ids /\ rows[i] \in Row /\ Present(rows[i])
  BY ViewedRowIsPresent DEF Inv, TypeOK, Edit
<1>2. /\ new.version = rows[i].version + 1
      /\ new.ref = rows[i].ref /\ new.previous = rows[i].previous
  BY <1>1 DEF Rewritten, Row
<1>3. Sound(s, changed)
  BY EditIsSound
<1>4. Idle(s) /\ Stage(s, c, "none", changed)
  BY DEF Edit
<1> HIDE DEF new
<1>5. \A k \in DOMAIN changed : /\ Present(rows[k]) /\ changed[k].version = rows[k].version + 1
                               /\ changed[k].ref = rows[k].ref
                               /\ changed[k].previous = rows[k].previous
  BY <1>1, <1>2
<1> HIDE DEF changed
<1> QED
  BY <1>3, <1>4, <1>5, DecisionsExtend

LEMMA MarkingExtends ==
  ASSUME Inv, NEW s \in Sessions, NEW I \in SUBSET Ids, MarkExported(s, I)
  PROVE  Extends(s)'
<1> DEFINE changed == [i \in StillApproved(I) |-> Exported(rows[i])]
<1>1. ASSUME NEW i \in DOMAIN changed
      PROVE  /\ Present(rows[i])
             /\ changed[i].version = rows[i].version + 1
             /\ changed[i].ref = rows[i].ref
             /\ changed[i].previous = rows[i].previous
  <2>1. i \in Ids /\ rows[i] \in Row /\ rows[i].status = "approved"
    BY DEF StillApproved, MarkExported, Inv, TypeOK
  <2> QED
    BY <2>1 DEF Exported, Present, Row
<1>2. Sound(s, changed) /\ Idle(s) /\ Stage(s, NoClient, "none", changed)
  BY MarkingIsSound DEF MarkExported
<1> HIDE DEF changed
<1> QED
  BY <1>1, <1>2, DecisionsExtend

\* A requirement has at most one row that get_current finds.
LEMMA OnePrior ==
  ASSUME LiveRowsDiffer, NEW s \in Sessions, Extends(s), NEW r,
         NEW i \in GetCurrent(s, r), NEW k \in GetCurrent(s, r)
  PROVE  i = k
<1>1. CASE Inserted(s, r) # {}
  <2>1. i \in Inserted(s, r) /\ k \in Inserted(s, r)
    BY <1>1 DEF GetCurrent
  <2> QED
    BY <2>1 DEF Extends, LiveInsertsDiffer, LiveInserts, Inserts, Inserted, Loaded, After
<1>2. CASE Inserted(s, r) = {}
  <2>1. i \in CurrentRows(r) /\ k \in CurrentRows(r)
    BY <1>2 DEF GetCurrent
  <2> QED
    BY <2>1 DEF LiveRowsDiffer, CurrentRows
<1> QED
  BY <1>1, <1>2

\* save_generation: the new row continues the one that get_current found.
LEMMA NewRowContinues ==
  ASSUME LiveRowsDiffer, NEW s \in Sessions, Extends(s), NEW q, NEW o
  PROVE  /\ \A i \in GetCurrent(s, q.ref) : NewRow(s, q, o).previous = i
         /\ GetCurrent(s, q.ref) = {} => NewRow(s, q, o).previous = NoId
<1> DEFINE prior == GetCurrent(s, q.ref)
<1>1. \A i, k \in prior : i = k
  BY OnePrior
<1>2. \A i \in prior : (CHOOSE k \in prior : TRUE) = i
  BY <1>1
<1>3. NewRow(s, q, o).previous = IF prior = {} THEN NoId ELSE CHOOSE k \in prior : TRUE
  BY DEF NewRow, NoRow
<1> HIDE DEF prior
<1> QED
  BY <1>2, <1>3 DEF prior

\* What save_generation does to the links of a transaction.
LEMMA SavedLinks ==
  ASSUME Inv, LiveRowsDiffer, NEW s \in Sessions, Extends(s), NEW mode \in Modes,
         NEW q \in Requirements, NEW o \in Outcome, NEW new \in UnusedIds, RoomFor(s, q),
         Stage(s, NoClient, mode, Saved(s, q, o, new))
  PROVE  LET prior == GetCurrent(s, q.ref)
         IN  /\ Inserts(s)' = Inserts(s) \union {new}
             /\ LiveInserts(s)' = (LiveInserts(s) \ prior) \union {new}
             /\ Supersedes(s)' = Supersedes(s) \union (prior \ Dirty(s))
             /\ \A i \in Inserts(s) \union Supersedes(s) :
                   /\ After(s, i)'.ref = After(s, i).ref
                   /\ After(s, i)'.previous = After(s, i).previous
             /\ \A i \in prior : After(s, i)'.ref = q.ref
             /\ After(s, new)'.ref = q.ref
             /\ \A i \in prior : After(s, new)'.previous = i
             /\ prior = {} => After(s, new)'.previous = NoId
             /\ new \notin Dirty(s) /\ prior \intersect Dirty(s) \subseteq LiveInserts(s)
             /\ DecisionsKeepLinks(s)'
<1> DEFINE prior   == GetCurrent(s, q.ref)
           changed == Saved(s, q, o, new)
<1>1. TypeOK /\ DOMAIN changed = prior \union {new}
  BY DEF Inv, Saved
<1>2. ASSUME NEW i \in Ids, i \notin prior, i # new
      PROVE  Loaded(s, i)' = Loaded(s, i) /\ After(s, i)' = After(s, i)
  BY <1>1, <1>2, Staged DEF Loaded, After
<1>3. /\ new \in Ids /\ new \notin prior /\ new \notin Dirty(s)
      /\ Loaded(s, new)' = NoRow /\ After(s, new)' = NewRow(s, q, o)
      /\ Present(NewRow(s, q, o))
  <2>1. /\ new \in Ids /\ new \notin prior /\ new \notin Dirty(s)
        /\ changed[new] = NewRow(s, q, o) /\ Inserting(Base(s, new), changed[new])
    BY <1>1, SavedChanges
  <2> QED
    BY <1>1, <2>1, Staged DEF Inserting, Loaded, After
<1>4. ASSUME NEW i \in prior
      PROVE  /\ i \in Ids /\ i # new
             /\ Loaded(s, i)' = Base(s, i) /\ After(s, i)' = Superseded(Seen(s, i))
             /\ Seen(s, i) \in Row /\ Seen(s, i).current /\ Seen(s, i).ref = q.ref
             /\ Superseded(Seen(s, i)).ref = q.ref /\ Superseded(Seen(s, i)).current = FALSE
             /\ Superseded(Seen(s, i)).previous = Seen(s, i).previous
             /\ Superseded(Seen(s, i)).version = Seen(s, i).version
             /\ Superseded(Seen(s, i)).status = Seen(s, i).status
  <2>1. i \in Ids /\ i # new /\ changed[i] = Superseded(Seen(s, i))
    BY <1>1, <1>3, SavedChanges
  <2>2. Seen(s, i) \in Row /\ Seen(s, i).current /\ Seen(s, i).ref = q.ref
    BY PriorIsLive
  <2>3. /\ Superseded(Seen(s, i)).ref = Seen(s, i).ref /\ Superseded(Seen(s, i)).current = FALSE
        /\ Superseded(Seen(s, i)).previous = Seen(s, i).previous
        /\ Superseded(Seen(s, i)).version = Seen(s, i).version
        /\ Superseded(Seen(s, i)).status = Seen(s, i).status
    BY <2>2 DEF Superseded, Row
  <2> QED
    BY <1>1, <2>1, <2>2, <2>3, Staged DEF Loaded, After
\* A row inserted by this transaction, and a committed one.
<1>5. ASSUME NEW i \in prior, i \in Dirty(s)
      PROVE  /\ Base(s, i) = Loaded(s, i) /\ Seen(s, i) = After(s, i)
             /\ ~Present(Loaded(s, i)) /\ i \in LiveInserts(s)
             /\ i \in Inserts(s)' /\ i \notin LiveInserts(s)' /\ i \notin Supersedes(s)'
  <2>1. Inserting(Base(s, i), Seen(s, i))
    BY <1>5, PriorIsLive
  <2>2. Base(s, i) = Loaded(s, i) /\ Seen(s, i) = After(s, i)
    BY <1>5 DEF Base, Seen, Loaded, After
  <2>3. ~Present(Loaded(s, i)) /\ Present(After(s, i))
    BY <2>1, <2>2, NoRowType DEF Inserting
  <2>4. i \in LiveInserts(s)
    BY <1>4, <1>5, <2>2, <2>3 DEF LiveInserts, Inserts
  <2>5. Loaded(s, i)' # After(s, i)'
    BY <1>4, <2>2, <2>3 DEF Present
  <2>6. i \in Dirty(s)'
    BY <1>4, <2>5 DEF Dirty, Loaded, After
  <2> QED
    BY <1>4, <2>2, <2>3, <2>4, <2>6 DEF Inserts, LiveInserts, Supersedes, Superseding
<1>6. ASSUME NEW i \in prior, i \notin Dirty(s)
      PROVE  /\ Base(s, i) = Seen(s, i) /\ Present(Seen(s, i))
             /\ i \in Supersedes(s)' /\ i \notin Inserts(s)'
  <2>1. Base(s, i) = Seen(s, i) /\ Present(Seen(s, i))
    BY <1>6, PriorIsLive
  <2>2. Loaded(s, i)' # After(s, i)'
    BY <1>4, <2>1
  <2>3. i \in Dirty(s)'
    BY <1>4, <2>2 DEF Dirty, Loaded, After
  <2> QED
    BY <1>4, <2>1, <2>3 DEF Supersedes, Inserts, Superseding
<1>7. /\ new \in Inserts(s)' /\ new \in LiveInserts(s)' /\ new \notin Supersedes(s)'
      /\ new \in Dirty(s)'
  <2>1. new \in Dirty(s)'
    BY <1>3, NoRowType DEF Dirty, Loaded, After
  <2>2. NewRow(s, q, o).current = TRUE
    BY NewRowFields
  <2> QED
    BY <1>3, <2>1, <2>2, NoRowType DEF Inserts, LiveInserts, Supersedes, Superseding
<1>8. ASSUME NEW i \in Ids, i \notin prior, i # new
      PROVE  /\ i \in Dirty(s)' <=> i \in Dirty(s)
             /\ i \in Inserts(s)' <=> i \in Inserts(s)
             /\ i \in LiveInserts(s)' <=> i \in LiveInserts(s)
             /\ i \in Supersedes(s)' <=> i \in Supersedes(s)
  BY <1>2, <1>8 DEF Dirty, Inserts, LiveInserts, Supersedes, Loaded, After
<1>9. /\ Inserts(s) \subseteq Dirty(s) /\ LiveInserts(s) \subseteq Inserts(s)
      /\ Supersedes(s) \subseteq Dirty(s) /\ Dirty(s) \subseteq Ids
      /\ Supersedes(s) \intersect Inserts(s) = {}
  BY DEF Inserts, LiveInserts, Supersedes, Dirty, Superseding
<1>10. Inserts(s)' \subseteq Ids /\ LiveInserts(s)' \subseteq Ids /\ Supersedes(s)' \subseteq Ids
  BY DEF Inserts, LiveInserts, Supersedes, Dirty
<1> HIDE DEF prior, changed
<1>11. Inserts(s)' = Inserts(s) \union {new}
  BY <1>3, <1>5, <1>6, <1>7, <1>8, <1>9, <1>10
<1>12. LiveInserts(s)' = (LiveInserts(s) \ prior) \union {new}
  <2>1. LiveInserts(s)' \subseteq Inserts(s)'
    BY DEF LiveInserts
  <2> QED
    BY <1>3, <1>5, <1>6, <1>7, <1>8, <1>9, <1>10, <2>1
<1>13. Supersedes(s)' = Supersedes(s) \union (prior \ Dirty(s))
  BY <1>3, <1>5, <1>6, <1>7, <1>8, <1>9, <1>10
<1>14. ASSUME NEW i \in Inserts(s) \union Supersedes(s)
       PROVE  /\ After(s, i)'.ref = After(s, i).ref
              /\ After(s, i)'.previous = After(s, i).previous
  <2>1. i \in Ids /\ i \in Dirty(s) /\ i # new
    BY <1>3, <1>9
  <2>2. CASE i \in prior
    BY <1>4, <1>5, <2>1, <2>2
  <2> QED
    BY <1>2, <2>1, <2>2
<1>15. /\ \A i \in prior : NewRow(s, q, o).previous = i
       /\ prior = {} => NewRow(s, q, o).previous = NoId
  BY NewRowContinues DEF prior
<1>16. ASSUME NEW i \in Dirty(s)', Deciding(Loaded(s, i)', After(s, i)')
       PROVE  /\ After(s, i)'.ref = Loaded(s, i)'.ref
              /\ After(s, i)'.previous = Loaded(s, i)'.previous
  <2>1. i \in Ids
    BY DEF Dirty
  <2>2. i # new
    BY <1>3, <1>16, NoRowType DEF Deciding
  <2>3. i \notin prior
    <3>1. SUFFICES ASSUME i \in prior PROVE FALSE
      OBVIOUS
    <3>2. i \notin Dirty(s)
      BY <1>4, <1>5, <1>16, <3>1 DEF Deciding
    <3>3. Seen(s, i).version \in Int
      <4>1. Seen(s, i) \in Row
        BY <1>4, <3>1
      <4> QED
        BY <4>1 DEF Row
    <3> QED
      BY <1>4, <1>6, <1>16, <3>1, <3>2, <3>3 DEF Deciding
  <2>4. i \in Dirty(s) /\ Loaded(s, i)' = Loaded(s, i) /\ After(s, i)' = After(s, i)
    BY <1>2, <1>8, <2>1, <2>2, <2>3
  <2> QED
    BY <1>16, <2>4 DEF Extends, DecisionsKeepLinks
<1>17. DecisionsKeepLinks(s)'
  BY <1>16 DEF DecisionsKeepLinks
<1>18. \A i \in prior : After(s, i)'.ref = q.ref
  BY <1>4
<1>19. After(s, new)'.ref = q.ref
  <2>1. NewRow(s, q, o).ref = q.ref
    BY NewRowFields
  <2> QED
    BY <1>3, <2>1
<1>20. prior \intersect Dirty(s) \subseteq LiveInserts(s)
  BY <1>5
<1> QED
  BY <1>3, <1>11, <1>12, <1>13, <1>14, <1>15, <1>17, <1>18, <1>19, <1>20, Zenon DEF prior

LEMMA SaveExtends ==
  ASSUME Inv, LiveRowsDiffer, NEW s \in Sessions, Extends(s), NEW mode \in Modes,
         NEW q \in Requirements, NEW o \in Outcome, SaveGeneration(s, mode, q, o)
  PROVE  Extends(s)'
<1>1. PICK new \in UnusedIds : Stage(s, NoClient, mode, Saved(s, q, o, new))
  BY DEF SaveGeneration
<1>2. RoomFor(s, q)
  BY DEF SaveGeneration
<1> DEFINE prior == GetCurrent(s, q.ref)
<1>3. /\ Inserts(s)' = Inserts(s) \union {new}
      /\ LiveInserts(s)' = (LiveInserts(s) \ prior) \union {new}
      /\ Supersedes(s)' = Supersedes(s) \union (prior \ Dirty(s))
      /\ \A i \in Inserts(s) \union Supersedes(s) :
            /\ After(s, i)'.ref = After(s, i).ref
            /\ After(s, i)'.previous = After(s, i).previous
      /\ \A i \in prior : After(s, i)'.ref = q.ref
      /\ After(s, new)'.ref = q.ref
      /\ \A i \in prior : After(s, new)'.previous = i
      /\ prior = {} => After(s, new)'.previous = NoId
      /\ new \notin Dirty(s) /\ prior \intersect Dirty(s) \subseteq LiveInserts(s)
      /\ DecisionsKeepLinks(s)'
  BY <1>1, <1>2, SavedLinks, Zenon
<1>4. /\ Inserts(s) \subseteq Dirty(s) /\ LiveInserts(s) \subseteq Inserts(s)
      /\ Supersedes(s) \subseteq Dirty(s)
      /\ Supersedes(s) \intersect Inserts(s) = {}
  BY DEF Inserts, LiveInserts, Supersedes, Superseding
<1>5. \A j \in LiveInserts(s) : After(s, j).ref = q.ref => j \in prior
  <2>1. ASSUME NEW j \in LiveInserts(s), After(s, j).ref = q.ref
        PROVE  j \in Inserted(s, q.ref)
    BY <2>1 DEF LiveInserts, Inserts, Inserted, Loaded, After
  <2> QED
    BY <2>1 DEF GetCurrent
\* A live insert of the requirement hides the committed row it superseded.
<1>6. ASSUME NEW j \in LiveInserts(s), After(s, j).ref = q.ref
      PROVE  prior \subseteq Dirty(s)
  <2>1. j \in Inserted(s, q.ref)
    BY <1>6 DEF LiveInserts, Inserts, Inserted, Loaded, After
  <2> QED
    BY <2>1 DEF GetCurrent, Inserted
<1>7. Replaced(s)' = Replaced(s) \union prior
  <2>1. Replaced(s)' = Supersedes(s)' \union (Inserts(s)' \ LiveInserts(s)')
    BY DEF Replaced
  <2>2. new \notin prior
    BY <1>1, PriorIsLive, NoRowType DEF UnusedIds
  <2> HIDE DEF prior
  <2> QED
    BY <1>3, <1>4, <2>1, <2>2 DEF Replaced
<1>8. Replaced(s) \subseteq Inserts(s) \union Supersedes(s)
  BY DEF Replaced
<1> HIDE DEF prior
<1>9. LiveInsertsDiffer(s)'
  <2>1. ASSUME NEW j \in LiveInserts(s)', NEW k \in LiveInserts(s)',
               After(s, j)'.ref = After(s, k)'.ref
        PROVE  j = k
    <3>1. ASSUME NEW m \in LiveInserts(s) \ prior
          PROVE  After(s, m)'.ref = After(s, m).ref /\ After(s, m).ref # q.ref
      BY <1>3, <1>4, <1>5
    <3> QED
      BY <1>3, <2>1, <3>1 DEF Extends, LiveInsertsDiffer
  <2> QED
    BY <2>1 DEF LiveInsertsDiffer
<1>10. InsertsEndLive(s)'
  <2>1. ASSUME NEW j \in Inserts(s)'
        PROVE  \E k \in LiveInserts(s)' : After(s, k)'.ref = After(s, j)'.ref
    <3>1. CASE j = new
      BY <1>3, <3>1
    <3>2. CASE j \in Inserts(s)
      <4>1. PICK k \in LiveInserts(s) : After(s, k).ref = After(s, j).ref
        BY <3>2 DEF Extends, InsertsEndLive
      <4>2. After(s, k)'.ref = After(s, j)'.ref
        BY <1>3, <1>4, <3>2, <4>1
      <4> QED
        BY <1>3, <4>1, <4>2
    <3> QED
      BY <1>3, <3>1, <3>2
  <2> QED
    BY <2>1 DEF InsertsEndLive
<1>11. ASSUME NEW i \in Supersedes(s), After(s, i).ref = q.ref
       PROVE  prior \subseteq Dirty(s)
  <2>1. PICK j \in Inserts(s) : After(s, j).previous = i
    BY DEF Extends, ReplacedHaveSuccessors, Replaced
  <2>2. i # NoId
    BY ConstantsAssumption DEF Supersedes, Dirty
  <2>3. After(s, j).ref = q.ref
    BY <1>11, <2>1, <2>2 DEF Extends, SuccessorsReplace
  <2>4. PICK k \in LiveInserts(s) : After(s, k).ref = q.ref
    BY <2>3 DEF Extends, InsertsEndLive
  <2> QED
    BY <1>6, <2>4
<1>12. SupersededDiffer(s)'
  <2>1. ASSUME NEW i \in Supersedes(s)', NEW k \in Supersedes(s)',
               After(s, i)'.ref = After(s, k)'.ref
        PROVE  i = k
    <3>1. CASE i \in Supersedes(s) /\ k \in Supersedes(s)
      BY <1>3, <2>1, <3>1 DEF Extends, SupersededDiffer
    <3>2. CASE i \in prior /\ k \in prior
      BY <1>3, <3>2
    <3>3. CASE i \in Supersedes(s) /\ k \in prior \ Dirty(s)
      BY <1>3, <1>11, <2>1, <3>3
    <3>4. CASE i \in prior \ Dirty(s) /\ k \in Supersedes(s)
      BY <1>3, <1>11, <2>1, <3>4
    <3> QED
      BY <1>3, <3>1, <3>2, <3>3, <3>4
  <2> QED
    BY <2>1 DEF SupersededDiffer
<1>13. ASSUME NEW j \in Inserts(s)', After(s, j)'.previous # NoId,
              NEW i, i = After(s, j)'.previous
       PROVE  i \in Replaced(s)' /\ After(s, i)'.ref = After(s, j)'.ref
  <2>1. CASE j = new
    BY <1>3, <1>7, <1>13, <2>1
  <2>2. CASE j \in Inserts(s)
    <3>1. i = After(s, j).previous /\ After(s, j)'.ref = After(s, j).ref
      BY <1>3, <1>13, <2>2
    <3>2. i \in Replaced(s) /\ After(s, i).ref = After(s, j).ref
      BY <1>13, <2>2, <3>1 DEF Extends, SuccessorsReplace
    <3> QED
      BY <1>3, <1>7, <1>8, <3>1, <3>2
  <2> QED
    BY <1>3, <2>1, <2>2
<1>14. SuccessorsReplace(s)'
  BY <1>13 DEF SuccessorsReplace
<1>15. ReplacedHaveSuccessors(s)'
  <2>1. ASSUME NEW i \in Replaced(s)'
        PROVE  \E j \in Inserts(s)' : After(s, j)'.previous = i
    <3>1. CASE i \in prior
      BY <1>3, <3>1
    <3>2. CASE i \in Replaced(s)
      <4>1. PICK j \in Inserts(s) : After(s, j).previous = i
        BY <3>2 DEF Extends, ReplacedHaveSuccessors
      <4> QED
        BY <1>3, <4>1
    <3> QED
      BY <1>7, <3>1, <3>2
  <2> QED
    BY <2>1 DEF ReplacedHaveSuccessors
\* The row that the new one replaces was not replaced before.
<1>16. prior \intersect Replaced(s) = {}
  BY <1>3, <1>4 DEF Replaced
<1>17. SuccessorsDiffer(s)'
  <2>1. ASSUME NEW j \in Inserts(s), After(s, j)'.previous # NoId,
               After(s, j)'.previous = After(s, new)'.previous
        PROVE  FALSE
    <3>1. PICK i : i = After(s, j).previous
      OBVIOUS
    <3>2. i \in Replaced(s)
      BY <1>3, <2>1, <3>1 DEF Extends, SuccessorsReplace
    <3>3. i \in prior
      BY <1>3, <2>1, <3>1
    <3> QED
      BY <1>16, <3>2, <3>3
  <2>2. ASSUME NEW j \in Inserts(s), NEW k \in Inserts(s), After(s, j)'.previous # NoId,
               After(s, j)'.previous = After(s, k)'.previous
        PROVE  j = k
    BY <1>3, <2>2 DEF Extends, SuccessorsDiffer
  <2>3. ASSUME NEW j \in Inserts(s)', NEW k \in Inserts(s)', After(s, j)'.previous # NoId,
               After(s, j)'.previous = After(s, k)'.previous
        PROVE  j = k
    BY <1>3, <2>1, <2>2, <2>3
  <2> QED
    BY <2>3 DEF SuccessorsDiffer
<1> QED
  BY <1>3, <1>9, <1>10, <1>12, <1>14, <1>15, <1>17 DEF Extends

\* A transaction whose rows no step touches, or that has ended, adds no wrong link.
LEMMA SameSessionExtends ==
  ASSUME NEW z \in Sessions, Extends(z), session'[z].loaded = session[z].loaded,
         session'[z].staged = session[z].staged
  PROVE  Extends(z)'
BY DEF Extends, LiveInsertsDiffer, InsertsEndLive, SupersededDiffer, SuccessorsReplace,
       ReplacedHaveSuccessors, SuccessorsDiffer, DecisionsKeepLinks, Inserts, LiveInserts,
       Supersedes, Replaced, Loaded, After, Dirty

LEMMA IdleSessionExtends ==
  ASSUME NEW z \in Sessions, session'[z] = IdleSession
  PROVE  Extends(z)'
<1>1. Dirty(z)' = {}
  BY IdleHoldsNothing DEF Dirty
<1> QED
  BY <1>1 DEF Extends, LiveInsertsDiffer, InsertsEndLive, SupersededDiffer, SuccessorsReplace,
       ReplacedHaveSuccessors, SuccessorsDiffer, DecisionsKeepLinks, Inserts, LiveInserts,
       Supersedes, Replaced

LEMMA RequestExtends ==
  ASSUME Inv, LiveRowsDiffer, NEW s \in Sessions, Extends(s),
         Decide(s) \/ Produce(s) \/ \E I \in SUBSET Ids : MarkExported(s, I)
  PROVE  Extends(s)'
<1>1. CASE Decide(s)
  BY <1>1, ReviewExtends, EditExtends DEF Decide
<1>2. CASE \E I \in SUBSET Ids : MarkExported(s, I)
  BY <1>2, MarkingExtends
<1>3. ASSUME NEW q \in Requirements, LookUp(s, q)
      PROVE  Extends(s)'
  BY <1>3, LookChanges, SameSessionExtends DEF Inv
<1>4. CASE \/ \E q \in Requirements, o \in Outcomes : Generate(s, q, o)
           \/ \E q \in Requirements : SaveFound(s, q) \/ Overwrite(s, q)
  BY <1>4, SavingSaves, SaveExtends
<1> QED
  BY <1>1, <1>2, <1>3, <1>4 DEF Produce

-----------------------------------------------------------------------------
(* Committing: what the flush does to the links of one row. *)

\* Rows with one content have one place in the chain.
LEMMA SameContentLinks ==
  ASSUME NEW a \in Row, NEW b \in Row, SameContent(a, b)
  PROVE  a.ref = b.ref /\ a.previous = b.previous
<1> DEFINE a0 == [a EXCEPT !.current = FALSE]
           b0 == [b EXCEPT !.current = FALSE]
<1>1. a0 = b0
  BY DEF SameContent
<1>2. a0.ref = a.ref /\ a0.previous = a.previous
  BY DEF Row
<1>3. b0.ref = b.ref /\ b0.previous = b.previous
  BY DEF Row
<1> HIDE DEF a0, b0
<1> QED
  BY <1>1, <1>2, <1>3

LEMMA CommitInserts ==
  ASSUME Inv, NEW s \in Sessions, Commit(s), NEW j \in Inserts(s)
  PROVE  /\ j \in Ids /\ rows[j] = NoRow
         /\ rows'[j] = After(s, j) /\ Present(rows'[j])
<1>1. j \in Ids /\ j \in Dirty(s) /\ ~Present(Loaded(s, j))
  BY DEF Inserts, Dirty
<1>2. rows'[j] = After(s, j)
  BY <1>1 DEF Commit, Written, Loaded, After
<1>3. rows[j] = NoRow
  BY <1>1 DEF Inv, NewKeysAreUnused, AbsentIsBlank, Loaded
<1>4. Present(After(s, j))
  BY <1>1 DEF Inv, ChangesAreSound, Change, Superseding, Deciding, Inserting, Loaded, After, Dirty
<1> QED
  BY <1>1, <1>2, <1>3, <1>4

LEMMA CommitSupersedes ==
  ASSUME Inv, NEW s \in Sessions, Commit(s), NEW i \in Supersedes(s)
  PROVE  /\ i \in Ids /\ Present(rows[i]) /\ rows[i].ref = Loaded(s, i).ref
         /\ rows[i].ref = After(s, i).ref /\ rows'[i] = Superseded(rows[i])
         /\ Present(rows'[i]) /\ ~rows'[i].current
         /\ rows'[i].ref = rows[i].ref /\ rows'[i].previous = rows[i].previous
<1> DEFINE old == session[s].loaded[i]
           new == session[s].staged[i]
<1>1. /\ i \in Ids /\ i \in Dirty(s) /\ Superseding(old, new)
      /\ old \in Row /\ new \in Row /\ rows[i] \in Row /\ new # old
  BY DEF Supersedes, Dirty, Loaded, After, Inv, TypeOK, Session
<1>2. SameContent(old, rows[i]) /\ Present(rows[i])
  BY <1>1 DEF Commit, StaleRow, Superseding, Inv, VersionNamesContent
<1>3. new.current = FALSE /\ old.current # new.current
  BY <1>1, CurrentIsNoContent DEF Superseding, Superseded, Row
<1>4. rows'[i] = Superseded(rows[i])
  BY <1>1, <1>3 DEF Commit, Written, Superseding, Superseded
<1>5. /\ rows'[i].current = FALSE /\ rows'[i].ref = rows[i].ref
      /\ rows'[i].previous = rows[i].previous /\ rows'[i].status = rows[i].status
  BY <1>1, <1>4 DEF Superseded, Row
<1>6. new.ref = old.ref
  BY <1>1 DEF Superseding, Superseded, Row
<1> QED
  BY <1>1, <1>2, <1>4, <1>5, <1>6, SameContentLinks DEF Loaded, After, Present

\* Every other row keeps its place.
LEMMA CommitKeepsOthers ==
  ASSUME Inv, NEW s \in Sessions, Commit(s), Extends(s),
         NEW i \in Ids, i \notin Inserts(s), i \notin Supersedes(s)
  PROVE  /\ Present(rows'[i]) <=> Present(rows[i])
         /\ rows'[i].current = rows[i].current
         /\ rows'[i].ref = rows[i].ref
         /\ rows'[i].previous = rows[i].previous
<1> DEFINE old == session[s].loaded[i]
           new == session[s].staged[i]
<1>1. old \in Row /\ new \in Row /\ rows[i] \in Row /\ Change(old, new)
  BY DEF Inv, TypeOK, Session, ChangesAreSound
<1>2. CASE i \notin Dirty(s)
  BY <1>2 DEF Commit, Written
<1>3. CASE i \in Dirty(s)
  <2>1. Deciding(old, new)
    BY <1>1, <1>3, NoRowType
       DEF Inserts, Supersedes, Loaded, After, Change, Dirty, Inserting
  <2>2. SameContent(old, rows[i]) /\ Present(rows[i])
    BY <1>3, <2>1 DEF Commit, StaleRow, Deciding, Inv, VersionNamesContent
  <2>3. old.ref = rows[i].ref /\ old.previous = rows[i].previous
    BY <1>1, <2>2, SameContentLinks
  <2>4. new.ref = old.ref /\ new.previous = old.previous
    BY <1>3, <2>1 DEF Extends, DecisionsKeepLinks, Loaded, After
  <2>5. rows'[i] = [new EXCEPT !.current = rows[i].current]
    BY <1>3, <2>1 DEF Commit, Written, Deciding
  <2>6. /\ rows'[i].current = rows[i].current /\ rows'[i].ref = new.ref
        /\ rows'[i].previous = new.previous /\ rows'[i].status = new.status
    BY <1>1, <2>5 DEF Row
  <2> QED
    BY <2>1, <2>2, <2>3, <2>4, <2>6 DEF Deciding, Present
<1> QED
  BY <1>2, <1>3

\* What the flush supersedes is live when it commits: had another generation
\* taken its place, the unique index would refuse the successor.
LEMMA SupersededWasLive ==
  ASSUME HistoryInv, NEW s \in Sessions, Commit(s), NEW i \in Supersedes(s)
  PROVE  rows[i].current
<1>1. Inv /\ Extends(s)
  BY DEF HistoryInv
<1>2. i \in Ids /\ Present(rows[i]) /\ rows[i].ref = After(s, i).ref
  BY <1>1, CommitSupersedes
<1>3. PICK j \in LiveInserts(s) : After(s, j).ref = rows[i].ref
  <2>1. PICK j \in Inserts(s) : After(s, j).previous = i
    BY <1>1 DEF Extends, ReplacedHaveSuccessors, Replaced
  <2>2. After(s, j).ref = rows[i].ref
    BY <1>1, <1>2, <2>1, ConstantsAssumption DEF Extends, SuccessorsReplace
  <2> QED
    BY <1>1, <2>2 DEF Extends, InsertsEndLive
<1>4. PICK k \in Ids : rows[k].current /\ rows[k].ref = rows[i].ref
  BY <1>2 DEF HistoryInv, SomeRowIsLive
\* The live row is not superseded along with row i by the same transaction.
<1>5. SUFFICES ASSUME k # i PROVE FALSE
  BY <1>4
<1>6. k \notin Supersedes(s)
  BY <1>1, <1>2, <1>4, <1>5, CommitSupersedes DEF Extends, SupersededDiffer
<1>7. /\ j \in Ids /\ rows[j] = NoRow /\ rows'[j] = After(s, j) /\ rows'[j].current
      /\ j \in Inserts(s)
  BY <1>1, CommitInserts DEF LiveInserts
<1>8. k \notin Inserts(s)
  BY <1>1, <1>4, CommitInserts DEF NoRow
<1>9. rows'[k].current /\ rows'[k].ref = rows[i].ref
  BY <1>1, <1>4, <1>6, <1>8, CommitKeepsOthers
<1>10. \A m \in Ids : rows'[m] = Written(s, m)
  BY DEF Commit
<1>11. Written(s, k).current /\ Written(s, j).current /\ Written(s, k).ref = Written(s, j).ref
  BY <1>3, <1>4, <1>7, <1>9, <1>10
<1>12. k # j
  BY <1>7, <1>8
<1> QED
  BY <1>4, <1>7, <1>11, <1>12 DEF Commit, BreaksUniqueIndex

\* What each row can be to the flush.
LEMMA CommitLinks ==
  ASSUME HistoryInv, NEW s \in Sessions, Commit(s), NEW i \in Ids
  PROVE  /\ i \in Inserts(s) => /\ rows[i] = NoRow /\ rows'[i] = After(s, i)
                               /\ Present(rows'[i])
         /\ i \in Supersedes(s) =>
              /\ Present(rows[i]) /\ Present(rows'[i])
              /\ rows[i].current /\ ~rows'[i].current
              /\ rows'[i].ref = After(s, i).ref
         /\ i \notin Inserts(s) =>
              /\ Present(rows'[i]) <=> Present(rows[i])
              /\ rows'[i].ref = rows[i].ref /\ rows'[i].previous = rows[i].previous
              /\ rows'[i].current = (rows[i].current /\ i \notin Supersedes(s))
<1>1. Inv /\ Extends(s)
  BY DEF HistoryInv
<1>2. CASE i \in Inserts(s)
  <2>1. i \notin Supersedes(s)
    BY <1>2 DEF Inserts, Supersedes, Superseding
  <2> QED
    BY <1>1, <1>2, <2>1, CommitInserts
<1>3. CASE i \in Supersedes(s)
  <2>1. /\ Present(rows[i]) /\ Present(rows'[i]) /\ ~rows'[i].current
        /\ rows'[i].ref = rows[i].ref /\ rows'[i].previous = rows[i].previous
        /\ rows[i].ref = After(s, i).ref
    BY <1>1, <1>3, CommitSupersedes
  <2>2. i \notin Inserts(s)
    BY <1>3 DEF Inserts, Supersedes, Superseding
  <2>3. rows'[i].current \in BOOLEAN
    <3>1. rows'[i] \in Row
      BY <1>1, CommitStepsRow
    <3> QED
      BY <3>1 DEF Row
  <2> QED
    BY <1>3, <2>1, <2>2, <2>3, SupersededWasLive
<1>4. CASE i \notin Inserts(s) /\ i \notin Supersedes(s)
  <2>1. rows[i].current \in BOOLEAN
    BY <1>1 DEF Inv, TypeOK, Row
  <2> QED
    BY <1>1, <1>4, <2>1, CommitKeepsOthers
<1> QED
  BY <1>2, <1>3, <1>4

LEMMA CommitKeepsHistory ==
  ASSUME HistoryInv, NEW s \in Sessions, Commit(s), Inv'
  PROVE  HistoryInv'
<1>1. Inv /\ Extends(s)
  BY DEF HistoryInv
<1>2. ASSUME NEW i \in Ids, i \in Inserts(s)
      PROVE  rows[i] = NoRow /\ rows'[i] = After(s, i) /\ Present(rows'[i])
  BY <1>2, CommitLinks
<1>3. ASSUME NEW i \in Ids, i \in Supersedes(s)
      PROVE  /\ Present(rows[i]) /\ Present(rows'[i])
             /\ rows[i].current /\ ~rows'[i].current
             /\ rows'[i].ref = After(s, i).ref
  BY <1>3, CommitLinks
<1>4. ASSUME NEW i \in Ids, i \notin Inserts(s)
      PROVE  /\ Present(rows'[i]) <=> Present(rows[i])
             /\ rows'[i].ref = rows[i].ref /\ rows'[i].previous = rows[i].previous
             /\ rows'[i].current = (rows[i].current /\ i \notin Supersedes(s))
  BY <1>4, CommitLinks
<1>5. ASSUME NEW i \in Ids, Present(rows[i])
      PROVE  /\ i \notin Inserts(s) /\ Present(rows'[i])
             /\ rows'[i].ref = rows[i].ref /\ rows'[i].previous = rows[i].previous
             /\ ~rows[i].current => ~rows'[i].current
  BY <1>2, <1>4, <1>5, NoRowType
<1>6. Inserts(s) \subseteq Ids /\ LiveInserts(s) \subseteq Inserts(s) /\ Supersedes(s) \subseteq Ids
  BY DEF Inserts, LiveInserts, Supersedes, Dirty
\* A row the transaction replaces, whether it was there before or is its own.
<1>7. ASSUME NEW i \in Replaced(s)
      PROVE  i \in Ids /\ Present(rows'[i]) /\ ~rows'[i].current /\ rows'[i].ref = After(s, i).ref
  BY <1>2, <1>3, <1>6 DEF Replaced, LiveInserts
\* The row a new one names as previous.
<1>8. ASSUME NEW j \in Inserts(s), rows'[j].previous # NoId, NEW i, i = rows'[j].previous
      PROVE  i \in Replaced(s) /\ After(s, i).ref = rows'[j].ref
  <2>1. rows'[j] = After(s, j)
    BY <1>2, <1>6
  <2> QED
    BY <1>1, <1>8, <2>1 DEF Extends, SuccessorsReplace
<1>9. \A z \in Sessions : Extends(z)'
  <2>1. session'[s] = IdleSession /\ \A z \in Sessions : z # s => session'[z] = session[z]
    BY <1>1, EndedSession DEF Commit, Inv
  <2> QED
    BY <2>1, SameSessionExtends, IdleSessionExtends DEF HistoryInv
<1>10. LiveRowsDiffer'
  BY DEF LiveRowsDiffer, Commit, BreaksUniqueIndex
<1>11. SomeRowIsLive'
  <2>1. ASSUME NEW j \in Inserts(s)
        PROVE  \E k \in Ids : rows'[k].current /\ rows'[k].ref = After(s, j).ref
    <3>1. PICK k \in LiveInserts(s) : After(s, k).ref = After(s, j).ref
      BY <1>1 DEF Extends, InsertsEndLive
    <3> QED
      BY <1>2, <1>6, <3>1 DEF LiveInserts
  <2>2. ASSUME NEW i \in Ids, Present(rows'[i])
        PROVE  \E k \in Ids : rows'[k].current /\ rows'[k].ref = rows'[i].ref
    <3>1. CASE i \in Inserts(s)
      BY <1>2, <2>1, <3>1
    <3>2. CASE i \notin Inserts(s)
      <4>1. Present(rows[i]) /\ rows'[i].ref = rows[i].ref
        BY <1>4, <2>2, <3>2
      <4>2. PICK k \in Ids : rows[k].current /\ rows[k].ref = rows[i].ref
        BY <4>1 DEF HistoryInv, SomeRowIsLive
      <4>3. k \notin Inserts(s)
        BY <1>2, <4>2 DEF NoRow
      <4>4. CASE k \in Supersedes(s)
        <5>1. PICK j \in Inserts(s) : After(s, j).previous = k
          BY <1>1, <4>4 DEF Extends, ReplacedHaveSuccessors, Replaced
        <5>2. After(s, j).ref = After(s, k).ref
          BY <1>1, <5>1, ConstantsAssumption DEF Extends, SuccessorsReplace
        <5>3. After(s, k).ref = rows'[i].ref
          BY <1>3, <1>4, <4>1, <4>2, <4>3, <4>4
        <5> QED
          BY <2>1, <5>2, <5>3
      <4>5. CASE k \notin Supersedes(s)
        BY <1>4, <4>1, <4>2, <4>3, <4>5
      <4> QED
        BY <4>4, <4>5
    <3> QED
      BY <3>1, <3>2
  <2> QED
    BY <2>2 DEF SomeRowIsLive
<1>12. ASSUME NEW j \in Ids, rows'[j].previous # NoId, NEW i, i = rows'[j].previous
       PROVE  Present(rows'[i]) /\ ~rows'[i].current /\ rows'[j].ref = rows'[i].ref
  <2>1. CASE j \in Inserts(s)
    BY <1>7, <1>8, <1>12, <2>1
  <2>2. CASE j \notin Inserts(s)
    <3>1. rows[j].previous = i /\ rows'[j].ref = rows[j].ref
      BY <1>4, <1>12, <2>2
    <3>2. i \in Ids
      BY <1>1, <1>12, <3>1 DEF Inv, TypeOK, Row
    <3>3. Present(rows[i]) /\ ~rows[i].current /\ rows[j].ref = rows[i].ref
      BY <1>12, <3>1 DEF HistoryInv, PreviousIsSuperseded
    <3> QED
      BY <1>5, <3>1, <3>2, <3>3
  <2> QED
    BY <2>1, <2>2
<1>13. PreviousIsSuperseded'
  BY <1>12 DEF PreviousIsSuperseded
<1>14. SupersededIsPrevious'
  <2>1. ASSUME NEW i \in Ids, Present(rows'[i]), ~rows'[i].current
        PROVE  \E j \in Ids : rows'[j].previous = i
    <3>1. CASE i \in Replaced(s)
      <4>1. PICK j \in Inserts(s) : After(s, j).previous = i
        BY <1>1, <3>1 DEF Extends, ReplacedHaveSuccessors
      <4> QED
        BY <1>2, <1>6, <4>1
    <3>2. CASE i \notin Replaced(s)
      <4>1. i \notin Inserts(s) /\ Present(rows[i]) /\ ~rows[i].current
        BY <1>2, <1>4, <2>1, <3>2 DEF Replaced, LiveInserts
      <4>2. PICK j \in Ids : rows[j].previous = i
        BY <4>1 DEF HistoryInv, SupersededIsPrevious
      <4>3. j \notin Inserts(s)
        BY <1>2, <4>2, ConstantsAssumption DEF NoRow
      <4> QED
        BY <1>4, <4>2, <4>3
    <3> QED
      BY <3>1, <3>2
  <2> QED
    BY <2>1 DEF SupersededIsPrevious
<1>15. SuccessorIsUnique'
  \* A row that has a successor is no longer live, so it gets no second one.
  <2>1. ASSUME NEW j \in Inserts(s), NEW k \in Ids, k \notin Inserts(s),
               rows'[j].previous # NoId, rows'[j].previous = rows'[k].previous
        PROVE  FALSE
    <3>1. PICK i : i = rows'[j].previous
      OBVIOUS
    <3>2. i \in Replaced(s) /\ i \in Ids
      BY <1>7, <1>8, <2>1, <3>1
    <3>3. rows[k].previous = i
      BY <1>4, <2>1, <3>1
    <3>4. Present(rows[i]) /\ ~rows[i].current
      BY <2>1, <3>1, <3>3 DEF HistoryInv, PreviousIsSuperseded
    <3> QED
      BY <1>2, <1>3, <3>2, <3>4, NoRowType DEF Replaced
  <2>2. ASSUME NEW j \in Inserts(s), NEW k \in Inserts(s),
               rows'[j].previous # NoId, rows'[j].previous = rows'[k].previous
        PROVE  j = k
    <3>1. rows'[j] = After(s, j) /\ rows'[k] = After(s, k)
      BY <1>2, <1>6
    <3> QED
      BY <1>1, <2>2, <3>1 DEF Extends, SuccessorsDiffer
  <2>3. ASSUME NEW j \in Ids, NEW k \in Ids, j \notin Inserts(s), k \notin Inserts(s),
               rows'[j].previous # NoId, rows'[j].previous = rows'[k].previous
        PROVE  j = k
    BY <1>4, <2>3 DEF HistoryInv, SuccessorIsUnique
  <2> QED
    BY <2>1, <2>2, <2>3 DEF SuccessorIsUnique
<1> QED
  BY <1>9, <1>10, <1>11, <1>13, <1>14, <1>15 DEF HistoryInv

-----------------------------------------------------------------------------
(* The theorems. *)

\* A request touches its own transaction and no row.
LEMMA OthersWait ==
  ASSUME TypeOK, NEW s \in Sessions,
         Decide(s) \/ Produce(s) \/ \E I \in SUBSET Ids : MarkExported(s, I)
  PROVE  rows' = rows /\ \A z \in Sessions : z # s => session'[z] = session[z]
<1>1. ASSUME NEW q \in Requirements, LookUp(s, q)
      PROVE  rows' = rows /\ \A z \in Sessions : z # s => session'[z] = session[z]
  BY <1>1, LookChanges
<1>2. CASE \/ \E q \in Requirements, o \in Outcomes : Generate(s, q, o)
           \/ \E q \in Requirements : SaveFound(s, q) \/ Overwrite(s, q)
  <2>1. rows' = rows /\ \E c, mode, changed : Stage(s, c, mode, changed)
    BY <1>2 DEF Generate, SaveFound, Overwrite, SaveGeneration
  <2> QED
    BY <2>1, Staged
<1>3. CASE Decide(s) \/ \E I \in SUBSET Ids : MarkExported(s, I)
  <2>1. rows' = rows /\ \E c, mode, changed : Stage(s, c, mode, changed)
    BY <1>3 DEF Decide, Review, Edit, MarkExported
  <2> QED
    BY <2>1, Staged
<1> QED
  BY <1>1, <1>2, <1>3 DEF Produce

\* A step that writes no row keeps what the invariant says of rows.
LEMMA SameRowsKeepHistory ==
  ASSUME HistoryInv, rows' = rows, Inv', \A z \in Sessions : Extends(z)'
  PROVE  HistoryInv'
BY DEF HistoryInv, LiveRowsDiffer, SomeRowIsLive, PreviousIsSuperseded, SupersededIsPrevious,
       SuccessorIsUnique

LEMMA InitEstablishesHistory ==
  ASSUME Init
  PROVE  HistoryInv
<1>1. \A i \in Ids : rows[i] = NoRow
  BY DEF Init, EmptyTable
<1>2. \A s \in Sessions : Dirty(s) = {}
  BY IdleHoldsNothing DEF Init, Dirty
<1>3. \A s \in Sessions : Extends(s)
  BY <1>2 DEF Extends, LiveInsertsDiffer, InsertsEndLive, SupersededDiffer, SuccessorsReplace,
       ReplacedHaveSuccessors, SuccessorsDiffer, DecisionsKeepLinks, Inserts, LiveInserts,
       Supersedes, Replaced
<1>4. ~NoRow.current /\ NoRow.previous = NoId
  BY DEF NoRow
<1> QED
  BY <1>1, <1>3, <1>4, InitEstablishesInv, NoRowType
     DEF HistoryInv, LiveRowsDiffer, SomeRowIsLive, PreviousIsSuperseded,
         SupersededIsPrevious, SuccessorIsUnique

LEMMA NextKeepsHistory ==
  ASSUME HistoryInv, [Next]_vars
  PROVE  HistoryInv'
<1>1. Inv /\ Inv' /\ TypeOK
  BY NextKeepsInv DEF HistoryInv, Inv
<1>2. ASSUME NEW s \in Sessions,
             Decide(s) \/ Produce(s) \/ \E I \in SUBSET Ids : MarkExported(s, I)
      PROVE  HistoryInv'
  <2>1. Extends(s)'
    BY <1>1, <1>2, RequestExtends DEF HistoryInv
  <2>2. rows' = rows /\ \A z \in Sessions : z # s => session'[z] = session[z]
    BY <1>1, <1>2, OthersWait
  <2> QED
    BY <1>1, <2>1, <2>2, SameSessionExtends, SameRowsKeepHistory DEF HistoryInv
<1>3. ASSUME NEW s \in Sessions, Rollback(s)
      PROVE  HistoryInv'
  <2>1. /\ rows' = rows /\ session'[s] = IdleSession
        /\ \A z \in Sessions : z # s => session'[z] = session[z]
    BY <1>1, <1>3, EndedSession DEF Rollback
  <2> QED
    BY <1>1, <2>1, SameSessionExtends, IdleSessionExtends, SameRowsKeepHistory DEF HistoryInv
<1>4. CASE Read \/ UNCHANGED vars
  <2>1. rows' = rows /\ session' = session
    BY <1>4 DEF Read, Open, vars
  <2> QED
    BY <1>1, <2>1, SameSessionExtends, SameRowsKeepHistory DEF HistoryInv
<1>5. ASSUME NEW s \in Sessions, Commit(s)
      PROVE  HistoryInv'
  BY <1>1, <1>5, CommitKeepsHistory
<1> QED
  BY <1>2, <1>3, <1>4, <1>5 DEF Next

LEMMA HistoryInvHolds == Spec => []HistoryInv
<1>1. Init => HistoryInv
  BY InitEstablishesHistory
<1>2. HistoryInv /\ [Next]_vars => HistoryInv'
  BY NextKeepsHistory
<1> QED
  BY <1>1, <1>2, PTL DEF Spec

-----------------------------------------------------------------------------
(***************************************************************************)
(* A registration without overwrite_existing.  Its looks see the table as  *)
(* it is at that moment, so what is not there at a look was not there when *)
(* the registration began; a committed row that it takes out of its place  *)
(* is one of a requirement for which it has a row of its own.              *)
(***************************************************************************)
KeepsKnown(s) ==
  /\ session[s].mode # "register" => session[s].looked = {}
  /\ session[s].mode = "register" =>
       /\ \A i \in session[s].known : Present(rows[i]) /\ i \notin Dirty(s)
       /\ \A k \in Dirty(s) : Present(rows[k]) => Inserted(s, rows[k].ref) # {}
       /\ \A q \in session[s].looked, i \in session[s].known : rows[i].ref # q.ref

KnownInv == HistoryInv /\ \A s \in Sessions : KeepsKnown(s)

LEMMA IdleKeepsKnown ==
  ASSUME NEW s \in Sessions, session'[s] = IdleSession
  PROVE  KeepsKnown(s)'
BY DEF KeepsKnown, IdleSession

LEMMA SameSessionKeepsKnown ==
  ASSUME NEW s \in Sessions, KeepsKnown(s), session'[s] = session[s], rows' = rows
  PROVE  KeepsKnown(s)'
BY DEF KeepsKnown, Dirty, Inserted

\* A look that finds nothing finds no row that was there at the beginning.
LEMMA LookKeepsKnown ==
  ASSUME HistoryInv, NEW s \in Sessions, KeepsKnown(s), NEW q \in Requirements, LookUp(s, q)
  PROVE  KeepsKnown(s)'
<1>1. /\ rows' = rows /\ Dirty(s)' = Dirty(s)
      /\ session'[s].loaded = session[s].loaded /\ session'[s].staged = session[s].staged
      /\ session'[s].mode = "register" /\ session'[s].looked = {q}
      /\ session'[s].known = IF Idle(s) THEN {i \in Ids : Present(rows[i])}
                             ELSE session[s].known
  BY LookChanges DEF HistoryInv, Inv
<1>2. \A r : Inserted(s, r)' = Inserted(s, r)
  BY <1>1 DEF Inserted
<1>3. /\ \A i \in session'[s].known : i \in Ids /\ Present(rows[i]) /\ i \notin Dirty(s)
      /\ \A k \in Dirty(s) : Present(rows[k]) => Inserted(s, rows[k].ref) # {}
  <2>1. CASE Idle(s)
    BY <1>1, <2>1, IdleIsClean
  <2>2. CASE ~Idle(s)
    <3>1. session[s].mode = "register" /\ session[s].known \subseteq Ids
      BY <2>2 DEF LookUp, HistoryInv, Inv, TypeOK, Session
    <3> QED
      BY <1>1, <2>2, <3>1 DEF KeepsKnown
  <2> QED
    BY <2>1, <2>2
<1>4. ASSUME NEW i \in session'[s].known, rows[i].ref = q.ref
      PROVE  FALSE
  <2>1. PICK k \in Ids : rows[k].current /\ rows[k].ref = q.ref
    BY <1>3, <1>4 DEF HistoryInv, SomeRowIsLive
  <2>2. Inserted(s, q.ref) = {} /\ CurrentRows(q.ref) \ Dirty(s) = {}
    BY DEF LookUp, NotRegistered, GetCurrent
  <2>3. k \in Dirty(s)
    BY <2>1, <2>2 DEF CurrentRows
  <2>4. Present(rows[k])
    BY <2>1 DEF HistoryInv, Inv, AbsentIsBlank, NoRow
  <2> QED
    BY <1>3, <2>1, <2>2, <2>3, <2>4
<1> QED
  BY <1>1, <1>2, <1>3, <1>4 DEF KeepsKnown

\* What is saved after it takes the place of no such row.
LEMMA SaveKeepsKnown ==
  ASSUME HistoryInv, NEW s \in Sessions, KeepsKnown(s), NEW mode \in Modes,
         NEW q \in Requirements, NEW o \in Outcome, SaveGeneration(s, mode, q, o),
         mode = "register" => session[s].looked = {q}
  PROVE  KeepsKnown(s)'
<1> DEFINE prior == GetCurrent(s, q.ref)
<1>1. PICK new \in UnusedIds : Stage(s, NoClient, mode, Saved(s, q, o, new))
  BY DEF SaveGeneration
<1>2. RoomFor(s, q) /\ rows' = rows /\ Inv /\ TypeOK
  BY DEF SaveGeneration, HistoryInv, Inv
<1>3. session'[s].mode = mode /\ session'[s].looked = {} /\ session'[s].known = session[s].known
  BY <1>1, <1>2, Staged
<1>4. SUFFICES ASSUME mode = "register"
               PROVE  KeepsKnown(s)'
  BY <1>3 DEF KeepsKnown
<1>5. /\ \A i \in session[s].known : Present(rows[i]) /\ i \notin Dirty(s) /\ rows[i].ref # q.ref
      /\ \A k \in Dirty(s) : Present(rows[k]) => Inserted(s, rows[k].ref) # {}
  BY <1>4 DEF KeepsKnown
<1>6. DOMAIN Saved(s, q, o, new) = prior \union {new}
  BY DEF Saved
<1>7. ASSUME NEW i \in Ids, i \notin prior, i # new
      PROVE  /\ session'[s].loaded[i] = session[s].loaded[i]
             /\ session'[s].staged[i] = session[s].staged[i]
  BY <1>1, <1>2, <1>6, <1>7, Staged
<1>8. /\ new \in Ids /\ rows[new] = NoRow
      /\ session'[s].loaded[new] = NoRow /\ session'[s].staged[new] = NewRow(s, q, o)
      /\ Present(NewRow(s, q, o))
  <2>1. /\ new \in Ids /\ Saved(s, q, o, new)[new] = NewRow(s, q, o)
        /\ Inserting(Base(s, new), Saved(s, q, o, new)[new])
    BY <1>2, <1>6, SavedChanges
  <2>2. rows[new] = NoRow
    BY <1>2 DEF UnusedIds, Inv, AbsentIsBlank
  <2> QED
    BY <1>1, <1>2, <1>6, <2>1, <2>2, Staged DEF Inserting
<1>9. new \in Inserted(s, q.ref)'
  <2>1. NewRow(s, q, o).current /\ NewRow(s, q, o).ref = q.ref
    BY DEF NewRow, NoRow
  <2> QED
    BY <1>8, <2>1, NoRowType DEF Inserted, Dirty
<1>10. \A k \in prior : k \in Ids /\ (k \in Dirty(s) \/ rows[k].ref = q.ref)
  BY <1>2, PriorIsLive
<1>11. ASSUME NEW k \in Dirty(s)'
       PROVE  k \in Ids /\ (k \in Dirty(s) \/ k = new \/ rows[k].ref = q.ref)
  BY <1>7, <1>10 DEF Dirty
<1>12. ASSUME NEW r, r # q.ref, NEW j \in Inserted(s, r)
       PROVE  j \in Inserted(s, r)'
  <2>1. /\ j \in Ids /\ j \in Dirty(s) /\ ~Present(session[s].loaded[j])
        /\ session[s].staged[j].current /\ session[s].staged[j].ref = r
    BY DEF Inserted, Dirty
  <2>2. j \notin prior
    BY <1>2, <1>12, <2>1, PriorIsLive DEF Seen
  <2>3. j # new
    BY <2>1 DEF UnusedIds
  <2> QED
    BY <1>7, <2>1, <2>2, <2>3 DEF Inserted, Dirty
<1>13. ASSUME NEW i \in session[s].known
       PROVE  Present(rows[i]) /\ i \notin Dirty(s)'
  BY <1>5, <1>8, <1>11, NoRowType
<1>14. ASSUME NEW k \in Dirty(s)', Present(rows[k]), NEW r, r = rows[k].ref
       PROVE  Inserted(s, r)' # {}
  <2>1. CASE r = q.ref
    BY <1>9, <2>1
  <2>2. CASE r # q.ref
    BY <1>5, <1>8, <1>11, <1>12, <1>14, <2>2, NoRowType
  <2> QED
    BY <2>1, <2>2
<1> QED
  BY <1>2, <1>3, <1>4, <1>13, <1>14 DEF KeepsKnown, Inserted

\* A commit of another session moves no row to another requirement.
LEMMA CommitKeepsKnown ==
  ASSUME HistoryInv, NEW s \in Sessions, Commit(s), NEW z \in Sessions, z # s, KeepsKnown(z)
  PROVE  KeepsKnown(z)'
<1>1. session'[z] = session[z] /\ Inv
  BY EndedSession DEF Commit, HistoryInv, Inv
<1>2. Dirty(z)' = Dirty(z) /\ \A r : Inserted(z, r)' = Inserted(z, r)
  BY <1>1 DEF Dirty, Inserted
<1>3. ASSUME NEW i \in Ids, Present(rows[i])
      PROVE  Present(rows'[i]) /\ rows'[i].ref = rows[i].ref
  BY <1>3, CommitLinks, NoRowType
<1>4. ASSUME NEW k \in Dirty(z), Present(rows'[k])
      PROVE  k \in Ids /\ Present(rows[k])
  <2>1. k \in Ids
    BY DEF Dirty
  <2>2. k \in Inserts(s) => FALSE
    <3>1. SUFFICES ASSUME k \in Inserts(s) PROVE FALSE
      OBVIOUS
    <3>2. k \in Dirty(s) /\ ~Present(session[s].loaded[k])
      BY <3>1 DEF Inserts, Loaded
    <3> QED
      BY <1>1, <3>2 DEF Inv, NewKeysDiffer
  <2> QED
    BY <1>4, <2>1, <2>2, CommitLinks
<1>5. session[z].known \subseteq Ids
  BY <1>1 DEF Inv, TypeOK, Session
<1> QED
  BY <1>1, <1>2, <1>3, <1>4, <1>5 DEF KeepsKnown

LEMMA NextKeepsKnown ==
  ASSUME KnownInv, [Next]_vars
  PROVE  KnownInv'
<1>1. HistoryInv /\ HistoryInv' /\ Inv /\ TypeOK
  BY NextKeepsHistory DEF KnownInv, HistoryInv, Inv
<1>2. ASSUME NEW s \in Sessions,
             Decide(s) \/ Produce(s) \/ \E I \in SUBSET Ids : MarkExported(s, I)
      PROVE  KnownInv'
  <2>1. rows' = rows /\ \A z \in Sessions : z # s => session'[z] = session[z]
    BY <1>1, <1>2, OthersWait
  <2>2. ASSUME NEW q \in Requirements, LookUp(s, q)
        PROVE  KeepsKnown(s)'
    BY <1>1, <2>2, LookKeepsKnown DEF KnownInv
  <2>3. ASSUME \/ \E q \in Requirements, o \in Outcomes : Generate(s, q, o)
               \/ \E q \in Requirements : SaveFound(s, q) \/ Overwrite(s, q)
        PROVE  KeepsKnown(s)'
    BY <1>1, <2>3, SavingSaves, SaveKeepsKnown DEF KnownInv
  <2>4. ASSUME Decide(s) \/ \E I \in SUBSET Ids : MarkExported(s, I)
        PROVE  KeepsKnown(s)'
    <3>1. \E c, changed : Stage(s, c, "none", changed)
      BY <2>4 DEF Decide, Review, Edit, MarkExported
    <3>2. session'[s].mode = "none" /\ session'[s].looked = {}
      BY <1>1, <3>1, Staged
    <3> QED
      BY <3>2 DEF KeepsKnown
  <2>5. KeepsKnown(s)'
    BY <1>2, <2>2, <2>3, <2>4 DEF Produce
  <2> QED
    BY <1>1, <2>1, <2>5, SameSessionKeepsKnown DEF KnownInv
<1>3. ASSUME NEW s \in Sessions, Rollback(s)
      PROVE  KnownInv'
  <2>1. /\ rows' = rows /\ session'[s] = IdleSession
        /\ \A z \in Sessions : z # s => session'[z] = session[z]
    BY <1>1, <1>3, EndedSession DEF Rollback
  <2> QED
    BY <1>1, <2>1, SameSessionKeepsKnown, IdleKeepsKnown DEF KnownInv
<1>4. CASE Read \/ UNCHANGED vars
  <2>1. rows' = rows /\ session' = session
    BY <1>4 DEF Read, Open, vars
  <2> QED
    BY <1>1, <2>1, SameSessionKeepsKnown DEF KnownInv
<1>5. ASSUME NEW s \in Sessions, Commit(s)
      PROVE  KnownInv'
  <2>1. session'[s] = IdleSession
    BY <1>1, <1>5, EndedSession DEF Commit
  <2> QED
    BY <1>1, <1>5, <2>1, CommitKeepsKnown, IdleKeepsKnown DEF KnownInv
<1> QED
  BY <1>2, <1>3, <1>4, <1>5 DEF Next

LEMMA KnownInvHolds == Spec => []KnownInv
<1>1. Init => KnownInv
  BY InitEstablishesHistory DEF KnownInv, KeepsKnown, Init, IdleSession
<1>2. KnownInv /\ [Next]_vars => KnownInv'
  BY NextKeepsKnown
<1> QED
  BY <1>1, <1>2, PTL DEF Spec

\* A registration without overwrite_existing leaves every row alone that was
\* there when it began, for any number of requirements it saves and any
\* commits of others between its looks and its saves (extract_and_register).
THEOREM KnownRowsStay == Spec => KnownRowsSurvive
<1> DEFINE Survive == \A s \in Sessions :
       session[s].mode = "register" /\ session'[s] # session[s] =>
         \A i \in session[s].known : rows'[i] = rows[i]
<1>1. KnownInv /\ [Next]_vars => Survive
  <2> SUFFICES ASSUME KnownInv, [Next]_vars, NEW s \in Sessions, session[s].mode = "register",
                      session'[s] # session[s], NEW i \in session[s].known, rows' # rows
               PROVE  rows'[i] = rows[i]
    OBVIOUS
  <2>1. Inv
    BY DEF KnownInv, HistoryInv
  <2>2. PICK z \in Sessions : Commit(z)
    BY <2>1, OnlyCommitsWrite
  <2>3. z = s
    BY <2>1, <2>2, EndedSession DEF Commit, Inv
  <2>4. i \in Ids /\ i \notin Dirty(s)
    BY <2>1 DEF KnownInv, KeepsKnown, Inv, TypeOK, Session
  <2> QED
    BY <2>2, <2>3, <2>4 DEF Commit, Written
<1> QED
  BY <1>1, KnownInvHolds, PTL DEF Spec, KnownRowsSurvive

-----------------------------------------------------------------------------
(* The theorems about versions. *)

\* Whatever generations and extractions run at once, a requirement with any
\* answer has exactly one live one: the export gate counts each requirement
\* once (save_generation, uq_proposals_current_requirement).
THEOREM OneRowIsCurrent == Spec => []OneCurrentRow
<1>1. HistoryInv => OneCurrentRow
  BY DEF HistoryInv, OneCurrentRow, LiveRowsDiffer, SomeRowIsLive, CurrentRows
<1> QED
  BY <1>1, HistoryInvHolds, PTL

\* The versions of an answer form a chain: every superseded row has exactly
\* one successor, for the same requirement, and no live row has one, so two
\* generations cannot both replace the same answer (save_generation).
THEOREM HistoryFormsAChain == Spec => []HistoryIsAChain
<1>1. HistoryInv => HistoryIsAChain
  <2> SUFFICES ASSUME HistoryInv, NEW i \in Ids
               PROVE  LET successors == {j \in Ids : rows[j].previous = i}
                      IN  /\ Cardinality(successors) =
                               IF Present(rows[i]) /\ ~rows[i].current THEN 1 ELSE 0
                          /\ \A j \in successors : rows[j].ref = rows[i].ref
    BY DEF HistoryIsAChain
  <2> DEFINE successors == {j \in Ids : rows[j].previous = i}
  <2>1. i # NoId
    BY ConstantsAssumption
  <2>2. \A j \in successors : /\ Present(rows[i]) /\ ~rows[i].current
                              /\ rows[j].ref = rows[i].ref
    BY <2>1 DEF HistoryInv, PreviousIsSuperseded
  <2>3. CASE Present(rows[i]) /\ ~rows[i].current
    <3>1. PICK j \in Ids : rows[j].previous = i
      BY <2>3 DEF HistoryInv, SupersededIsPrevious
    <3>2. successors = {j}
      BY <2>1, <3>1 DEF HistoryInv, SuccessorIsUnique
    <3>3. Cardinality(successors) = 1
      BY <3>2, FS_Singleton
    <3> QED
      BY <2>2, <2>3, <3>3
  <2>4. CASE ~(Present(rows[i]) /\ ~rows[i].current)
    <3>1. successors = {}
      BY <2>2, <2>4
    <3>2. Cardinality(successors) = 0
      BY <3>1, FS_EmptySet
    <3> QED
      BY <2>2, <2>4, <3>2
  <2> QED
    BY <2>3, <2>4
<1> QED
  BY <1>1, HistoryInvHolds, PTL

==============================================================================
