---------------------------- MODULE SignOffProofs ----------------------------
(***************************************************************************)
(* The table with its sessions and version checks implements the atomic    *)
(* sign-off register, for any number of rows, sessions and clients.        *)
(*                                                                         *)
(* Opening a row is the register's Look.  A request that only fills a      *)
(* session is a stutter: nobody else sees it.  The commit of a session is  *)
(* the whole decision, and the register's guards are about the state at    *)
(* that moment, so the invariant carries what the request checked from its *)
(* checks to its commit: the client still looks at the version the session *)
(* loaded, because it opens no other row while it waits, and the version   *)
(* check of the flush says that the table still has it.                    *)
(***************************************************************************)
EXTENDS ProposalsProofs

-----------------------------------------------------------------------------
\* One row as the register sees it.
AnswerOf(row) == [words |-> FinalText(row),
                  by    |-> IF SignedOff(row) THEN row.reviewer ELSE NoClient,
                  stage |-> StageOf(row)]

Before(s, i) == AnswerOf(session[s].loaded[i])
Later(s, i)  == AnswerOf(session[s].staged[i])

\* Client c has signed, withdrawn (or left unsigned) or rewritten what it
\* has on screen.
Signing(s, c) ==
  LET i == view[c].id
  IN  /\ c \in Managers
      /\ Before(s, i).stage = "open" /\ Before(s, i).words # NoText
      /\ Later(s, i) = [words |-> Before(s, i).words, by |-> c, stage |-> "signed"]

Withdrawing(s, c) ==
  LET i == view[c].id
  IN  /\ Before(s, i).stage \in {"open", "signed"}
      /\ Later(s, i) = [words |-> Before(s, i).words, by |-> NoClient, stage |-> "open"]

Rewriting(s, c) ==
  LET i == view[c].id
  IN  /\ Before(s, i).stage \in {"open", "signed"}
      /\ \E t \in Texts : Later(s, i) = [words |-> t, by |-> NoClient, stage |-> "open"]

DecidesFor(s, c) ==
  /\ session[s].client = c
  /\ view[c].id \in Ids
  /\ Dirty(s) = {view[c].id}
  /\ Present(session[s].loaded[view[c].id])
  /\ session[s].loaded[view[c].id].version = view[c].version
  /\ Signing(s, c) \/ Withdrawing(s, c) \/ Rewriting(s, c)

Publishes(s) ==
  \A i \in Dirty(s) :
     \/ Later(s, i) = Before(s, i)
     \/ /\ Before(s, i).stage = "absent"
        /\ Later(s, i).stage = "open" /\ Later(s, i).by = NoClient

Ships(s) ==
  \A i \in Dirty(s) : /\ Before(s, i).stage = "signed"
                      /\ Later(s, i) = [Before(s, i) EXCEPT !.stage = "shipped"]

\* Every open transaction is one action of the register.
Purposeful(s) == Publishes(s) \/ Ships(s) \/ \E c \in Clients : DecidesFor(s, c)

\* A registration, which saves one row after the other, publishes from its
\* first look to its last save.
Registers(s) == session[s].mode # "none" \/ session[s].looked # {}

SignOffInv == /\ Inv
              /\ \A s \in Sessions : Purposeful(s)
              /\ \A s \in Sessions : Registers(s) => Publishes(s)

-----------------------------------------------------------------------------
(* Rows as answers. *)

LEMMA AnswersOfRows ==
  /\ answersBar = [i \in Ids |-> AnswerOf(rows[i])]
  /\ answersBar' = [i \in Ids |-> AnswerOf(rows'[i])]
BY DEF answersBar, AnswerOf, FinalText, SignedOff, StageOf

LEMMA Stages ==
  ASSUME NEW row
  PROVE  /\ row.status = "absent" => StageOf(row) = "absent"
         /\ row.status = "approved" => StageOf(row) = "signed"
         /\ row.status = "exported" => StageOf(row) = "shipped"
         /\ row.status \notin {"absent", "approved", "exported"} => StageOf(row) = "open"
BY DEF StageOf

LEMMA UnsignedAnswer ==
  ASSUME NEW row, Present(row), ~SignedOff(row)
  PROVE  AnswerOf(row) = [words |-> FinalText(row), by |-> NoClient, stage |-> "open"]
BY Stages DEF AnswerOf, Present, SignedOff, SIGNED_OFF

LEMMA SameContentSameAnswer ==
  ASSUME NEW a \in Row, NEW b \in Row, SameContent(a, b)
  PROVE  AnswerOf(a) = AnswerOf(b)
<1> DEFINE a0 == [a EXCEPT !.current = FALSE]
           b0 == [b EXCEPT !.current = FALSE]
<1>1. a0 = b0
  BY DEF SameContent
<1>2. a0.reviewer = a.reviewer /\ a0.status = a.status
  BY DEF Row
<1>3. b0.reviewer = b.reviewer /\ b0.status = b.status
  BY DEF Row
<1> HIDE DEF a0, b0
<1>4. a.reviewer = b.reviewer /\ a.status = b.status
  BY <1>1, <1>2, <1>3
<1>5. StageOf(a) = StageOf(b)
  BY <1>4 DEF StageOf
<1> QED
  BY <1>4, <1>5, SameContentAgrees DEF AnswerOf, SignedOff

\* The fields of an answer are what its row says.
LEMMA AnswerFields ==
  ASSUME NEW row
  PROVE  /\ AnswerOf(row).words = FinalText(row)
         /\ AnswerOf(row).stage = StageOf(row)
         /\ AnswerOf(row).by = IF SignedOff(row) THEN row.reviewer ELSE NoClient
BY DEF AnswerOf

\* The commit of a session makes of each of its rows what was staged, from
\* what was loaded.
LEMMA CommitAnswers ==
  ASSUME Inv, NEW s \in Sessions, Commit(s), NEW i \in Ids
  PROVE  /\ i \notin Dirty(s) => rows'[i] = rows[i]
         /\ i \in Dirty(s) => /\ AnswerOf(rows[i]) = Before(s, i)
                              /\ AnswerOf(rows'[i]) = Later(s, i)
<1> DEFINE old == session[s].loaded[i]
           new == session[s].staged[i]
<1>1. old \in Row /\ new \in Row /\ rows[i] \in Row /\ Change(old, new)
  BY DEF Inv, TypeOK, Session, ChangesAreSound
<1>2. rows'[i] = Written(s, i)
  BY DEF Commit
<1>3. CASE i \notin Dirty(s)
  BY <1>2, <1>3 DEF Written
<1>4. CASE i \in Dirty(s) /\ ~Present(old)
  <2>1. rows[i] = NoRow /\ old = NoRow
    BY <1>1, <1>4 DEF Inv, NewKeysAreUnused, AbsentIsBlank, Change, Superseding, Deciding,
                      Inserting, Dirty
  <2>2. rows'[i] = new
    BY <1>2, <1>4 DEF Written
  <2> QED
    BY <1>4, <2>1, <2>2 DEF Before, Later
<1>5. CASE i \in Dirty(s) /\ Present(old)
  <2>1. SameContent(old, rows[i])
    BY <1>5 DEF Commit, StaleRow, Inv, VersionNamesContent
  <2>2. AnswerOf(rows[i]) = AnswerOf(old)
    BY <1>1, <2>1, SameContentSameAnswer
  <2>3. CASE Superseding(old, new)
    <3>1. SameContent(old, new)
      BY <1>1, <2>3, CurrentIsNoContent DEF Superseding, Superseded
    <3>2. new.current = FALSE /\ old.current # new.current
      BY <1>1, <1>5, <2>3, CurrentIsNoContent DEF Superseding, Superseded, Dirty, Row
    <3>3. rows'[i] = [rows[i] EXCEPT !.current = FALSE]
      BY <1>2, <1>5, <3>2 DEF Written
    <3>4. SameContent(rows[i], rows'[i])
      BY <1>1, <3>3, CurrentIsNoContent
    <3>5. rows'[i] \in Row
      BY <1>1, CommitStepsRow
    <3>6. AnswerOf(new) = AnswerOf(old) /\ AnswerOf(rows'[i]) = AnswerOf(rows[i])
      BY <1>1, <3>1, <3>4, <3>5, SameContentSameAnswer
    <3> QED
      BY <1>5, <2>2, <3>6 DEF Before, Later
  <2>4. CASE Deciding(old, new)
    <3>1. rows'[i] = [new EXCEPT !.current = rows[i].current]
      BY <1>2, <1>5, <2>4 DEF Written, Deciding
    <3>2. SameContent(new, rows'[i])
      BY <1>1, <3>1, CurrentIsNoContent
    <3>3. rows'[i] \in Row
      BY CommitStepsRow
    <3>4. AnswerOf(new) = AnswerOf(rows'[i])
      BY <1>1, <3>2, <3>3, SameContentSameAnswer
    <3> QED
      BY <1>5, <2>2, <3>4 DEF Before, Later
  <2> QED
    BY <1>1, <1>5, <2>3, <2>4, NoRowType DEF Change, Dirty, Inserting
<1> QED
  BY <1>3, <1>4, <1>5

-----------------------------------------------------------------------------
(* What each request stages. *)

LEMMA StagedOne ==
  ASSUME Inv, NEW s \in Sessions, Idle(s), NEW c \in Clients, NEW changed,
         Stage(s, c, "none", changed),
         NEW i \in Ids, DOMAIN changed = {i}, changed[i].version = rows[i].version + 1
  PROVE  /\ session'[s].client = c
         /\ session'[s].loaded[i] = rows[i] /\ session'[s].staged[i] = changed[i]
         /\ Dirty(s)' = {i}
<1>1. TypeOK
  BY DEF Inv
<1>2. session'[s].client = c
  BY <1>1, Staged
<1>3. /\ session'[s].loaded[i] = rows[i] /\ session'[s].staged[i] = changed[i]
      /\ \A k \in Ids : k # i => session'[s].loaded[k] = session'[s].staged[k]
  BY <1>1, Staged, IdleIsClean, IdleHoldsNothing DEF Idle
<1>4. rows[i].version \in Int
  BY <1>1 DEF TypeOK, Row
<1>5. changed[i] # rows[i]
  BY <1>4
<1> QED
  BY <1>2, <1>3, <1>5 DEF Dirty

LEMMA ReviewDecides ==
  ASSUME Inv, NEW s \in Sessions, NEW c \in Clients, NEW q \in ReviewRequest,
         Review(s, c, q)
  PROVE  Purposeful(s)'
<1> DEFINE i   == view[c].id
           row == rows[i]
           new == Reviewed(row, c, q)
<1>1. i \in Ids /\ row \in Row /\ Present(row) /\ row.version = view[c].version
  BY ViewedRowIsPresent DEF Review, Fresh, Inv, TypeOK
<1>2. /\ new.status = q.action /\ new.version = row.version + 1
      /\ new.reviewer = c /\ FinalText(new) = FinalText(row)
  BY <1>1 DEF Reviewed, Row, FinalText
<1>3. /\ row.status # "exported"
      /\ q.action = "approved" => row.status # "approved"
  BY DEF Review, TRANSITIONS
<1>4. AnswerOf(row).stage \in {"open", "signed"}
  BY <1>1, <1>3, Stages, AnswerFields DEF Present
<1> DEFINE changed == [k \in {i} |-> new]
<1>0. /\ Idle(s) /\ Stage(s, c, "none", changed) /\ view' = view
      /\ DOMAIN changed = {i} /\ changed[i] = new
  BY DEF Review
<1> HIDE DEF new, changed
<1>5. /\ session'[s].client = c
      /\ session'[s].loaded[i] = row /\ session'[s].staged[i] = new
      /\ Dirty(s)' = {i} /\ view' = view
  BY <1>0, <1>1, <1>2, StagedOne
<1>6. Before(s, i)' = AnswerOf(row) /\ Later(s, i)' = AnswerOf(new)
  BY <1>5 DEF Before, Later
<1>7. CASE q.action = "approved"
  <2>1. c \in Managers /\ HasWords(FinalText(row))
    BY <1>7, ConstantsAssumption DEF Review, MayReview, HasEvidence, Managers, UserRoles
  <2>2. AnswerOf(row).stage = "open" /\ AnswerOf(row).words # NoText
    BY <1>1, <1>3, <1>7, <2>1, Stages, AnswerFields DEF Present, HasWords
  <2>3. SignedOff(new) /\ StageOf(new) = "signed"
    BY <1>2, <1>7, Stages DEF SignedOff, SIGNED_OFF
  <2>4. AnswerOf(new) = [words |-> AnswerOf(row).words, by |-> c, stage |-> "signed"]
    BY <1>2, <2>3, AnswerFields DEF AnswerOf
  <2>5. Signing(s, c)'
    BY <1>5, <1>6, <2>1, <2>2, <2>4 DEF Signing
  <2> QED
    BY <1>1, <1>5, <2>5 DEF Purposeful, DecidesFor
<1>8. CASE q.action # "approved"
  <2>1. Present(new) /\ ~SignedOff(new)
    BY <1>2, <1>8 DEF Present, SignedOff, SIGNED_OFF, ReviewRequest
  <2>2. AnswerOf(new) = [words |-> AnswerOf(row).words, by |-> NoClient, stage |-> "open"]
    BY <1>2, <2>1, UnsignedAnswer, AnswerFields
  <2>3. Withdrawing(s, c)'
    BY <1>4, <1>5, <1>6, <2>2 DEF Withdrawing
  <2> QED
    BY <1>1, <1>5, <2>3 DEF Purposeful, DecidesFor
<1> QED
  BY <1>7, <1>8

LEMMA EditDecides ==
  ASSUME Inv, NEW s \in Sessions, NEW c \in Clients, NEW t \in Texts,
         NEW n \in NoteInputs, Edit(s, c, t, n)
  PROVE  Purposeful(s)'
<1> DEFINE i   == view[c].id
           row == rows[i]
           new == Rewritten(row, t, n)
<1>1. i \in Ids /\ row \in Row /\ Present(row) /\ row.version = view[c].version
  BY ViewedRowIsPresent DEF Edit, Fresh, Inv, TypeOK
<1>2. /\ new.status = IF row.status = "approved" THEN "pending_review" ELSE row.status
      /\ new.version = row.version + 1 /\ new.edited = t
  BY <1>1 DEF Rewritten, Row
<1>3. row.status # "exported"
  BY DEF Edit, EDITABLE
<1>4. AnswerOf(row).stage \in {"open", "signed"}
  BY <1>1, <1>3, Stages, AnswerFields DEF Present
<1> DEFINE changed == [k \in {i} |-> new]
<1>0. /\ Idle(s) /\ Stage(s, c, "none", changed) /\ view' = view
      /\ DOMAIN changed = {i} /\ changed[i] = new
  BY DEF Edit
<1> HIDE DEF new, changed
<1>5. /\ session'[s].client = c
      /\ session'[s].loaded[i] = row /\ session'[s].staged[i] = new
      /\ Dirty(s)' = {i} /\ view' = view
  BY <1>0, <1>1, <1>2, StagedOne
<1>6. Before(s, i)' = AnswerOf(row) /\ Later(s, i)' = AnswerOf(new)
  BY <1>5 DEF Before, Later
<1>7. FinalText(new) = t
  BY <1>2, ConstantsAssumption DEF FinalText
<1>8. Present(new) /\ ~SignedOff(new)
  BY <1>1, <1>2, <1>3 DEF Present, SignedOff, SIGNED_OFF
<1>9. AnswerOf(new) = [words |-> t, by |-> NoClient, stage |-> "open"]
  BY <1>7, <1>8, UnsignedAnswer
<1>10. Rewriting(s, c)'
  BY <1>4, <1>5, <1>6, <1>9 DEF Rewriting
<1> QED
  BY <1>1, <1>5, <1>10 DEF Purposeful, DecidesFor

LEMMA MarkingShips ==
  ASSUME Inv, NEW s \in Sessions, NEW I \in SUBSET Ids, MarkExported(s, I)
  PROVE  Purposeful(s)'
<1> DEFINE changed == [i \in StillApproved(I) |-> Exported(rows[i])]
<1>1. Idle(s) /\ Stage(s, NoClient, "none", changed) /\ TypeOK /\ DOMAIN changed = StillApproved(I)
  BY DEF MarkExported, Inv
<1>2. ASSUME NEW i \in StillApproved(I)
      PROVE  /\ AnswerOf(rows[i]).stage = "signed"
             /\ AnswerOf(changed[i]) = [AnswerOf(rows[i]) EXCEPT !.stage = "shipped"]
  <2> DEFINE new == Exported(rows[i])
  <2>1. i \in Ids /\ rows[i] \in Row /\ rows[i].status = "approved"
    BY DEF StillApproved, MarkExported, Inv, TypeOK
  <2>2. /\ new.status = "exported" /\ new.reviewer = rows[i].reviewer
        /\ new.answer = rows[i].answer /\ new.edited = rows[i].edited
    BY <2>1 DEF Exported, Row
  <2>3. changed[i] = new
    OBVIOUS
  <2> HIDE DEF new, changed
  <2>4. /\ FinalText(new) = FinalText(rows[i])
        /\ SignedOff(new) /\ SignedOff(rows[i])
        /\ StageOf(new) = "shipped" /\ StageOf(rows[i]) = "signed"
    BY <2>1, <2>2, Stages DEF FinalText, SignedOff, SIGNED_OFF
  <2> QED
    BY <2>2, <2>3, <2>4 DEF AnswerOf
<1> HIDE DEF changed
<1>3. ASSUME NEW i \in Dirty(s)'
      PROVE  /\ i \in StillApproved(I)
             /\ Before(s, i)' = AnswerOf(rows[i]) /\ Later(s, i)' = AnswerOf(changed[i])
  <2>1. i \in Ids /\ session'[s].staged[i] # session'[s].loaded[i]
    BY DEF Dirty
  <2>2. i \in StillApproved(I)
    BY <1>1, <2>1, Staged, IdleHoldsNothing DEF Idle
  <2> QED
    BY <1>1, <2>1, <2>2, Staged, IdleIsClean DEF Before, Later
<1>4. Ships(s)'
  BY <1>2, <1>3 DEF Ships
<1> QED
  BY <1>4 DEF Purposeful

LEMMA SavingPublishes ==
  ASSUME Inv, NEW s \in Sessions, Publishes(s), NEW mode \in Modes, NEW q \in Requirements,
         NEW o \in Outcome, SaveGeneration(s, mode, q, o)
  PROVE  Publishes(s)'
<1>1. PICK new \in UnusedIds : Stage(s, NoClient, mode, Saved(s, q, o, new))
  BY DEF SaveGeneration
<1> DEFINE changed == Saved(s, q, o, new)
<1>2. TypeOK /\ RoomFor(s, q)
  BY DEF Inv, SaveGeneration
<1>3. ASSUME NEW i \in DOMAIN changed
      PROVE  /\ i \in Ids /\ changed[i] \in Row
             /\ Superseding(Base(s, i), changed[i]) \/ Inserting(Base(s, i), changed[i])
  BY <1>2, SavedChanges
<1> HIDE DEF changed
<1>4. Stage(s, NoClient, mode, changed)
  BY <1>1 DEF changed
<1>5. ASSUME NEW i \in Dirty(s)'
      PROVE  \/ Later(s, i)' = Before(s, i)'
             \/ /\ Before(s, i)'.stage = "absent"
                /\ Later(s, i)'.stage = "open" /\ Later(s, i)'.by = NoClient
  <2>1. i \in Ids /\ session'[s].staged[i] # session'[s].loaded[i]
    BY DEF Dirty
  <2>2. CASE i \notin DOMAIN changed
    <3>1. i \in Dirty(s) /\ Before(s, i)' = Before(s, i) /\ Later(s, i)' = Later(s, i)
      BY <1>2, <1>4, <2>1, <2>2, Staged DEF Dirty, Before, Later
    <3> QED
      BY <3>1 DEF Publishes
  <2>3. CASE i \in DOMAIN changed
    <3> DEFINE old == Base(s, i)
    <3>1. /\ Before(s, i)' = AnswerOf(old) /\ Later(s, i)' = AnswerOf(changed[i])
      BY <1>2, <1>4, <2>1, <2>3, Staged DEF Before, Later
    <3>2. old \in Row
      BY <1>2, <2>1 DEF TypeOK, Session, Base
    <3> HIDE DEF old
    <3>3. CASE Superseding(old, changed[i])
      <4>1. SameContent(old, changed[i]) /\ changed[i] \in Row
        BY <3>2, <3>3, CurrentIsNoContent, SupersededType DEF Superseding, Superseded
      <4> QED
        BY <3>1, <3>2, <4>1, SameContentSameAnswer
    <3>4. CASE Inserting(old, changed[i])
      <4>1. StageOf(old) = "absent"
        BY <3>4, Stages DEF Inserting, NoRow
      <4>2. AnswerOf(changed[i]) =
               [words |-> FinalText(changed[i]), by |-> NoClient, stage |-> "open"]
        BY <3>4, UnsignedAnswer DEF Inserting
      <4> QED
        BY <3>1, <4>1, <4>2, AnswerFields
    <3> QED
      BY <1>3, <2>3, <3>3, <3>4 DEF old
  <2> QED
    BY <2>2, <2>3
<1> QED
  BY <1>5 DEF Publishes

\* A transaction keeps its purpose while it only looks.
LEMMA SamePublishes ==
  ASSUME NEW s \in Sessions, Publishes(s), session'[s].loaded = session[s].loaded,
         session'[s].staged = session[s].staged
  PROVE  Publishes(s)'
BY DEF Publishes, Dirty, Before, Later

LEMMA ProducePublishes ==
  ASSUME SignOffInv, NEW s \in Sessions, Produce(s)
  PROVE  Publishes(s)'
<1>1. Idle(s) => Publishes(s)
  BY IdleIsClean DEF Publishes
<1>2. Inv /\ (Registers(s) => Publishes(s))
  BY DEF SignOffInv
<1>3. ASSUME NEW q \in Requirements, LookUp(s, q)
      PROVE  Publishes(s)'
  <2>1. Publishes(s)
    BY <1>1, <1>2, <1>3 DEF LookUp, Registers
  <2> QED
    BY <1>2, <1>3, <2>1, LookChanges, SamePublishes DEF Inv
<1>4. ASSUME \/ \E q \in Requirements, o \in Outcomes : Generate(s, q, o)
             \/ \E q \in Requirements : SaveFound(s, q) \/ Overwrite(s, q)
      PROVE  Publishes(s)'
  <2>1. PICK mode \in Modes, q \in Requirements, o \in Outcome :
           /\ SaveGeneration(s, mode, q, o)
           /\ mode = "register" => session[s].looked = {q}
           /\ mode = "none" => Idle(s)
           /\ mode = "overwrite" => Idle(s) \/ session[s].mode = "overwrite"
    BY <1>4, SavingSaves
  <2>2. Idle(s) \/ Registers(s)
    BY <2>1 DEF Modes, Registers
  <2> QED
    BY <1>1, <1>2, <2>1, <2>2, SavingPublishes
<1> QED
  BY <1>3, <1>4 DEF Produce

-----------------------------------------------------------------------------
(* The invariant. *)

\* A transaction keeps its purpose while its client waits.
LEMMA SamePurpose ==
  ASSUME NEW z \in Sessions, Purposeful(z), session'[z] = session[z],
         \A c \in Clients : session[z].client = c => view'[c] = view[c]
  PROVE  Purposeful(z)'
<1>1. Dirty(z)' = Dirty(z)
  BY DEF Dirty
<1>2. \A i : Before(z, i)' = Before(z, i) /\ Later(z, i)' = Later(z, i)
  BY DEF Before, Later
<1>3. CASE Publishes(z)
  BY <1>1, <1>2, <1>3 DEF Purposeful, Publishes
<1>4. CASE Ships(z)
  BY <1>1, <1>2, <1>4 DEF Purposeful, Ships
<1>5. ASSUME NEW c \in Clients, DecidesFor(z, c)
      PROVE  DecidesFor(z, c)'
  <2>1. view'[c] = view[c]
    BY <1>5 DEF DecidesFor
  <2> QED
    BY <1>1, <1>2, <1>5, <2>1 DEF DecidesFor, Signing, Withdrawing, Rewriting
<1> QED
  BY <1>3, <1>4, <1>5 DEF Purposeful

LEMMA NextKeepsSignOffInv ==
  ASSUME SignOffInv, [Next]_vars
  PROVE  SignOffInv'
<1>1. Inv /\ Inv' /\ TypeOK
  BY NextKeepsInv DEF SignOffInv, Inv
<1>8. ASSUME NEW z \in Sessions, session'[z] = session[z]
      PROVE  (Registers(z) => Publishes(z))'
  BY <1>8, SamePublishes DEF SignOffInv, Registers
<1>2. ASSUME NEW s \in Sessions, view' = view, Purposeful(s)', (Registers(s) => Publishes(s))',
             \A z \in Sessions : z # s => session'[z] = session[z]
      PROVE  SignOffInv'
  BY <1>1, <1>2, <1>8, SamePurpose DEF SignOffInv
<1>3. ASSUME NEW s \in Sessions,
             Decide(s) \/ Produce(s) \/ \E I \in SUBSET Ids : MarkExported(s, I)
      PROVE  SignOffInv'
  <2>1. view' = view /\ \A z \in Sessions : z # s => session'[z] = session[z]
    BY <1>1, <1>3, OthersWait DEF Decide, Produce, Review, Edit, Generate, LookUp, SaveFound,
                                  Overwrite, SaveGeneration, MarkExported
  <2>2. ASSUME Decide(s) \/ \E I \in SUBSET Ids : MarkExported(s, I)
        PROVE  Purposeful(s)' /\ (Registers(s) => Publishes(s))'
    <3>1. \E c, changed : Stage(s, c, "none", changed)
      BY <2>2 DEF Decide, Review, Edit, MarkExported
    <3>2. ~Registers(s)'
      BY <1>1, <3>1, Staged DEF Registers
    <3> QED
      BY <1>1, <2>2, <3>2, ReviewDecides, EditDecides, MarkingShips DEF Decide
  <2>3. ASSUME Produce(s)
        PROVE  Purposeful(s)' /\ (Registers(s) => Publishes(s))'
    BY <2>3, ProducePublishes DEF Purposeful
  <2> QED
    BY <1>2, <1>3, <2>1, <2>2, <2>3
<1>4. ASSUME NEW s \in Sessions, Commit(s) \/ Rollback(s)
      PROVE  SignOffInv'
  <2>1. /\ view' = view /\ session'[s] = IdleSession
        /\ \A z \in Sessions : z # s => session'[z] = session[z]
    BY <1>1, <1>4, EndedSession DEF Commit, Rollback
  <2>2. Dirty(s)' = {}
    BY <2>1, IdleHoldsNothing DEF Dirty
  <2>3. Purposeful(s)' /\ Publishes(s)'
    BY <2>2 DEF Purposeful, Publishes
  <2> QED
    BY <1>2, <2>1, <2>3
<1>5. ASSUME NEW c \in Clients, NEW i \in Ids, Open(c, i)
      PROVE  SignOffInv'
  <2>1. session' = session /\ \A d \in Clients : d # c => view'[d] = view[d]
    BY <1>1, <1>5 DEF Open, TypeOK
  <2>2. \A z \in Sessions : session[z].client # c
    BY <1>5 DEF Open, Waiting
  <2> QED
    BY <1>1, <1>8, <2>1, <2>2, SamePurpose DEF SignOffInv
<1>6. CASE UNCHANGED vars
  BY <1>1, <1>6, <1>8, SamePurpose DEF vars, SignOffInv
<1> QED
  BY <1>3, <1>4, <1>5, <1>6 DEF Next, Read

LEMMA SignOffInvHolds == Spec => []SignOffInv
<1>1. Init => SignOffInv
  <2> SUFFICES ASSUME Init PROVE SignOffInv
    OBVIOUS
  <2>1. \A s \in Sessions : Dirty(s) = {}
    BY IdleHoldsNothing DEF Init, Dirty
  <2> QED
    BY <2>1, InitEstablishesInv DEF SignOffInv, Purposeful, Publishes
<1>2. SignOffInv /\ [Next]_vars => SignOffInv'
  BY NextKeepsSignOffInv
<1> QED
  BY <1>1, <1>2, PTL DEF Spec

-----------------------------------------------------------------------------
(* The refinement, step by step. *)

LEMMA InitRefines ==
  ASSUME Init
  PROVE  Abstract!Init
<1>1. \A i \in Ids : rows[i] = NoRow
  BY DEF Init, EmptyTable
<1>2. AnswerOf(NoRow) = Abstract!NoAnswer
  BY Stages DEF AnswerOf, Abstract!NoAnswer, NoRow, FinalText, SignedOff, SIGNED_OFF
<1>3. answersBar = [i \in Ids |-> Abstract!NoAnswer]
  BY <1>1, <1>2, AnswersOfRows
<1>4. readingBar = [c \in Clients |-> [id |-> NoId, words |-> NoText]]
  BY DEF Init, readingBar, NoView
<1> QED
  BY <1>3, <1>4 DEF Abstract!Init

\* Opening a row is looking at an answer.
LEMMA OpenRefines ==
  ASSUME Inv, NEW c \in Clients, NEW i \in Ids, Open(c, i)
  PROVE  Abstract!Look(c, i)
<1>1. view' = [view EXCEPT ![c] = [id |-> i, version |-> rows[i].version,
                                   text |-> FinalText(rows[i])]]
  BY DEF Open
<1>2. view \in [Clients -> View] /\ rows' = rows /\ Present(rows[i])
  BY DEF Open, Inv, TypeOK
<1>3. answersBar[i] = AnswerOf(rows[i]) /\ answersBar' = answersBar
  BY <1>2, AnswersOfRows
<1>4. answersBar[i].stage # "absent" /\ answersBar[i].words = FinalText(rows[i])
  BY <1>2, <1>3, AnswerFields DEF StageOf, Present
<1>5. readingBar' = [readingBar EXCEPT ![c] = [id |-> i, words |-> FinalText(rows[i])]]
  BY <1>1, <1>2 DEF readingBar
<1> QED
  BY <1>3, <1>4, <1>5 DEF Abstract!Look

LEMMA OtherSigner ==
  ASSUME NEW words, NEW signer, NEW stage, NEW by, NEW b,
         b = [words |-> words, by |-> signer, stage |-> stage]
  PROVE  [b EXCEPT !.by = by] = [words |-> words, by |-> by, stage |-> stage]
OBVIOUS

\* What the client is looking at when its decision commits.
LEMMA DeciderIsUpToDate ==
  ASSUME Inv, NEW s \in Sessions, Commit(s), NEW c \in Clients, DecidesFor(s, c)
  PROVE  /\ readingBar[c] = [id |-> view[c].id, words |-> FinalText(rows[view[c].id])]
         /\ readingBar' = readingBar
<1>1. PICK i \in Ids : i = view[c].id
  BY DEF DecidesFor
<1>2. ~StaleRow(s, i) /\ view' = view
  BY <1>1 DEF Commit, DecidesFor
<1>3. rows[i].version = view[c].version
  BY <1>1, <1>2 DEF StaleRow, DecidesFor
<1>4. view[c].text = FinalText(rows[i])
  BY <1>1, <1>3, ConstantsAssumption DEF Inv, VersionNamesContent
<1> QED
  BY <1>1, <1>2, <1>4 DEF readingBar

\* A commit is one action of the register, or changes nothing it can see.
LEMMA CommitRefines ==
  ASSUME Inv, NEW s \in Sessions, Commit(s), Purposeful(s)
  PROVE  [Abstract!Next]_(Abstract!vars)
<1>1. /\ answersBar = [i \in Ids |-> AnswerOf(rows[i])]
      /\ answersBar' = [i \in Ids |-> AnswerOf(rows'[i])]
  BY AnswersOfRows
<1>2. ASSUME NEW i \in Ids
      PROVE  /\ i \notin Dirty(s) => answersBar'[i] = answersBar[i]
             /\ i \in Dirty(s) => answersBar[i] = Before(s, i) /\ answersBar'[i] = Later(s, i)
  BY <1>1, CommitAnswers
<1>3. readingBar' = readingBar
  BY DEF Commit, readingBar
<1>4. Dirty(s) \subseteq Ids
  BY DEF Dirty
<1>5. CASE Publishes(s)
  <2>1. CASE answersBar' = answersBar
    BY <1>3, <2>1 DEF Abstract!vars
  <2>2. CASE answersBar' # answersBar
    <3>1. Abstract!Publish
      BY <1>2, <1>3, <1>5, <2>2 DEF Publishes, Abstract!Publish
    <3> QED
      BY <3>1 DEF Abstract!Next
  <2> QED
    BY <2>1, <2>2
<1>6. CASE Ships(s)
  <2>1. Dirty(s) # {} /\ Dirty(s) \in SUBSET {i \in Ids : answersBar[i].stage = "signed"}
    BY <1>2, <1>4, <1>6 DEF Ships, Commit
  <2>2. answersBar' = [i \in Ids |-> IF i \in Dirty(s)
                                     THEN [answersBar[i] EXCEPT !.stage = "shipped"]
                                     ELSE answersBar[i]]
    BY <1>1, <1>2, <1>6 DEF Ships
  <2>3. Abstract!Ship
    BY <1>3, <2>1, <2>2 DEF Abstract!Ship
  <2> QED
    BY <2>3 DEF Abstract!Next
<1>7. ASSUME NEW c \in Clients, DecidesFor(s, c)
      PROVE  [Abstract!Next]_(Abstract!vars)
  <2>1. PICK i \in Ids : i = view[c].id
    BY <1>7 DEF DecidesFor
  <2>2. /\ answersBar[i] = AnswerOf(session[s].loaded[i]) /\ answersBar[i] = AnswerOf(rows[i])
        /\ \A k \in Ids : k # i => answersBar'[k] = answersBar[k]
    BY <1>1, <1>2, <1>7, <2>1 DEF DecidesFor, Before
  <2>3. Abstract!UpToDate(c, i)
    BY <1>7, <2>1, <2>2, DeciderIsUpToDate, AnswerFields DEF Abstract!UpToDate
  <2>9. PICK a : a = answersBar[i]
    OBVIOUS
  <2>10. a = AnswerOf(rows[i])
    BY <2>2, <2>9
  <2>4. a = [words |-> a.words, by |-> a.by, stage |-> a.stage]
    BY <2>10 DEF AnswerOf
  <2>5. i \in Dirty(s)
    BY <1>7, <2>1 DEF DecidesFor
  <2>6. CASE Signing(s, c)
    <3>1. /\ c \in Managers /\ a.stage = "open" /\ a.words # NoText
          /\ answersBar'[i] = [words |-> a.words, by |-> c, stage |-> "signed"]
      BY <1>2, <2>1, <2>5, <2>9, <2>6 DEF Signing
    <3>2. PICK b : b = [a EXCEPT !.stage = "signed"]
      OBVIOUS
    <3>8. [b EXCEPT !.by = c] = [words |-> a.words, by |-> c, stage |-> "signed"]
      <4>1. b = [words |-> a.words, by |-> a.by, stage |-> "signed"]
        BY <2>4, <3>2
      <4> QED
        BY ONLY <4>1, OtherSigner
    <3>9. [b EXCEPT !.by = c] = answersBar'[i]
      BY <3>1, <3>8
    <3>3. answersBar' = [answersBar EXCEPT ![i].stage = "signed", ![i].by = c]
      BY <1>1, <2>2, <2>9, <3>2, <3>9
    <3>4. Abstract!Sign(c, i)
      BY <1>3, <2>3, <2>9, <3>1, <3>3 DEF Abstract!Sign
    <3> QED
      BY <3>4 DEF Abstract!Next
  <2>7. CASE Withdrawing(s, c)
    <3>1. /\ a.stage \in {"open", "signed"}
          /\ answersBar'[i] = [words |-> a.words, by |-> NoClient, stage |-> "open"]
      BY <1>2, <2>1, <2>5, <2>9, <2>7 DEF Withdrawing
    \* A decision on an answer nobody has signed leaves it as open as it was.
    <3>2. CASE a.stage = "open"
      <4>1. a.by = NoClient
        BY <2>10, <3>2, AnswerFields DEF StageOf, SignedOff, SIGNED_OFF
      <4>2. answersBar'[i] = a
        BY <2>4, <3>1, <3>2, <4>1
      <4>3. answersBar' = answersBar
        BY <1>1, <2>2, <2>9, <4>2
      <4> QED
        BY <1>3, <4>3 DEF Abstract!vars
    <3>3. CASE a.stage = "signed"
      <4>1. PICK b : b = [a EXCEPT !.stage = "open"]
        OBVIOUS
      <4>8. [b EXCEPT !.by = NoClient] = [words |-> a.words, by |-> NoClient, stage |-> "open"]
        <5>1. b = [words |-> a.words, by |-> a.by, stage |-> "open"]
          BY <2>4, <4>1
        <5> QED
          BY ONLY <5>1, OtherSigner
      <4>9. [b EXCEPT !.by = NoClient] = answersBar'[i]
        BY <3>1, <4>8
      <4>2. answersBar' = [answersBar EXCEPT ![i].stage = "open", ![i].by = NoClient]
        BY <1>1, <2>2, <2>9, <4>1, <4>9
      <4>3. Abstract!Withdraw(c, i)
        BY <1>3, <2>3, <2>9, <3>3, <4>2 DEF Abstract!Withdraw
      <4> QED
        BY <4>3 DEF Abstract!Next
    <3> QED
      BY <3>1, <3>2, <3>3
  <2>8. CASE Rewriting(s, c)
    <3>1. a.stage \in {"open", "signed"}
      BY <1>2, <2>1, <2>5, <2>9, <2>8 DEF Rewriting
    <3>2. PICK t \in Texts :
             answersBar'[i] = [words |-> t, by |-> NoClient, stage |-> "open"]
      BY <1>2, <2>1, <2>5, <2>9, <2>8 DEF Rewriting
    <3>3. answersBar' =
             [answersBar EXCEPT ![i] = [words |-> t, by |-> NoClient, stage |-> "open"]]
      BY <1>1, <2>2, <2>9, <3>2
    <3>4. Abstract!Rewrite(c, i)
      BY <1>3, <2>3, <2>9, <3>1, <3>3 DEF Abstract!Rewrite
    <3> QED
      BY <3>4 DEF Abstract!Next
  <2> QED
    BY <1>7, <2>6, <2>7, <2>8 DEF DecidesFor
<1> QED
  BY <1>5, <1>6, <1>7 DEF Purposeful

LEMMA NextRefines ==
  ASSUME SignOffInv, [Next]_vars
  PROVE  [Abstract!Next]_(Abstract!vars)
<1>1. ASSUME rows' = rows, view' = view
      PROVE  UNCHANGED Abstract!vars
  BY <1>1, AnswersOfRows DEF Abstract!vars, readingBar
<1>2. CASE Read
  BY <1>2, OpenRefines DEF SignOffInv, Read, Abstract!Next
<1>3. ASSUME NEW s \in Sessions, Commit(s)
      PROVE  [Abstract!Next]_(Abstract!vars)
  BY <1>3, CommitRefines DEF SignOffInv
<1>4. ASSUME NEW s \in Sessions,
             \/ Decide(s) \/ Produce(s) \/ Rollback(s)
             \/ \E I \in SUBSET Ids : MarkExported(s, I)
      PROVE  rows' = rows /\ view' = view
  BY <1>4 DEF Decide, Produce, Review, Edit, Generate, LookUp, SaveFound, Overwrite,
              SaveGeneration, MarkExported, Rollback
<1>5. CASE UNCHANGED vars
  BY <1>1, <1>5 DEF vars
<1> QED
  BY <1>1, <1>2, <1>3, <1>4, <1>5 DEF Next

\* The review gate with its sessions, versions and concurrent commits allows
\* exactly the decisions of the atomic register: a signature is put, by one
\* manager, on the words in front of them as they stand at that moment, and
\* what has shipped is never touched again (ReviewService, save_generation,
\* _mark_exported).
THEOREM ReviewGateImplementsSignOff == Spec => ImplementsSignOff
<1>1. Init => Abstract!Init
  BY InitRefines
<1>2. SignOffInv /\ [Next]_vars => [Abstract!Next]_(Abstract!vars)
  BY NextRefines
<1> QED
  BY <1>1, <1>2, SignOffInvHolds, PTL DEF Spec, ImplementsSignOff, Abstract!Spec
====
