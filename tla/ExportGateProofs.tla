-------------------------- MODULE ExportGateProofs --------------------------
(***************************************************************************)
(* Theorems about ExportGate, for any number of concurrent exports.        *)
(***************************************************************************)
EXTENDS ExportGate, SignOffProofs

-----------------------------------------------------------------------------
(***************************************************************************)
(* The inductive invariant.  A signed-off row carries recorded words; so   *)
(* does every file; and the transaction an export opens to mark its rows   *)
(* stays its own and does nothing but mark.                                *)
(***************************************************************************)

Recorded(i, text) == <<i, text>> \in signatures

RowsAreRecorded ==
  \A i \in Ids : SignedOff(rows[i]) => Recorded(i, FinalText(rows[i]))

MarkingHasSession ==
  \A x \in Exports : job[x].step = "marking" <=> job[x].session \in Sessions

MarkingOnlyMarks ==
  \A x \in Exports : job[x].session \in Sessions =>
     /\ session[job[x].session].mode = "none" /\ session[job[x].session].looked = {}
     /\ Dirty(job[x].session) # {}
     /\ \A i \in Dirty(job[x].session) :
           session[job[x].session].staged[i].status = "exported"

MarkingIsPrivate ==
  \A x, y \in Exports :
     job[x].session = job[y].session /\ job[x].session \in Sessions => x = y

GateInv == /\ Inv
           /\ ExportTypeOK
           /\ RowsAreRecorded
           /\ OnlySignedWordsLeave
           /\ MarkingHasSession
           /\ MarkingOnlyMarks
           /\ MarkingIsPrivate

-----------------------------------------------------------------------------
(* Types of what an export works with. *)

LEMMA ListedAreCurrent == ListedIds \subseteq CurrentIds
BY DEF ListedIds

LEMMA MandatoryIsFinite ==
  Cardinality(MandatoryIds) \in 0 .. Cardinality(Ids)
<1>1. MandatoryIds \subseteq Ids
  BY DEF MandatoryIds, CurrentIds
<1> QED
  BY <1>1, ExportAssumption, FS_Subset, FS_CardinalityType

LEMMA IdleJobType == IdleJob \in Job
<1>1. 0 \in 0 .. Cardinality(Ids)
  BY ExportAssumption, FS_CardinalityType
<1> QED
  BY <1>1 DEF IdleJob, Job

LEMMA LineOfType ==
  ASSUME Inv, NEW i \in CurrentIds
  PROVE  LineOf(i) \in Line
<1>1. i \in Ids /\ rows[i] \in Row /\ rows[i].current
  BY DEF CurrentIds, Inv, TypeOK
<1>2. rows[i].status # "absent"
  BY <1>1 DEF Inv, AbsentIsBlank, Present, NoRow
<1>3. rows[i].status \in ProposalStatus
  BY <1>1, <1>2 DEF Row
<1>4. FinalText(rows[i]) \in Texts \union {NoText}
  BY <1>1 DEF FinalText, Row
<1> QED
  BY <1>1, <1>3, <1>4 DEF LineOf, Line, Row

LEMMA MoveType ==
  ASSUME ExportTypeOK, NEW x \in Exports, NEW from, NEW to \in Job, Move(x, from, to)
  PROVE  /\ job' \in [Exports -> Job]
         /\ job'[x] = to
         /\ \A y \in Exports : y # x => job'[y] = job[y]
BY DEF ExportTypeOK, Move

LEMMA ExportableIds ==
  ASSUME ExportTypeOK, NEW x \in Exports
  PROVE  Exportable(job[x].file) \in SUBSET Ids
BY DEF ExportTypeOK, Job, Exportable, Line

-----------------------------------------------------------------------------
(* Every step of an export is a step of the table. *)

LEMMA ExportStepIsTableStep ==
  ASSUME GateInv, [ExportNext]_allVars
  PROVE  [Next]_vars
<1>1. CASE OtherStep
  BY <1>1 DEF OtherStep, Next
<1>2. CASE \E s \in Sessions : OtherCommit(s)
  BY <1>2 DEF OtherCommit, Next
<1>3. ASSUME NEW x \in Exports, NEW s \in Sessions, StartMarking(x, s)
      PROVE  Next
  BY <1>3, ExportableIds DEF StartMarking, Next, GateInv
<1>4. ASSUME NEW x \in Exports, Marked(x) \/ MarkingFails(x)
      PROVE  Next
  <2>1. job[x].session \in Sessions
    BY <1>4 DEF Marked, MarkingFails, Move, GateInv, MarkingHasSession
  <2> QED
    BY <1>4, <2>1 DEF Marked, MarkingFails, Next
<1>5. ASSUME NEW x \in Exports,
             \/ CountTotal(x) \/ CountApproved(x) \/ ListCurrent(x)
             \/ NothingToMark(x) \/ Send(x) \/ Abandon(x)
      PROVE  UNCHANGED vars
  BY <1>5 DEF CountTotal, CountApproved, ListCurrent, NothingToMark, Send, Abandon
<1>6. CASE UNCHANGED allVars
  BY <1>6 DEF allVars, vars
<1> QED
  BY <1>1, <1>2, <1>3, <1>4, <1>5, <1>6 DEF ExportNext

-----------------------------------------------------------------------------
(* Steps that leave the table alone. *)

\* What the invariant says of the jobs survives when a job takes on another
\* step and file but neither opens nor ends a transaction.
LEMMA JobStepKeepsGateInv ==
  ASSUME GateInv, NEW x \in Exports, UNCHANGED <<vars, signatures>>,
         job' \in [Exports -> Job],
         \A y \in Exports : y # x => job'[y] = job[y],
         job[x].session \notin Sessions,
         job'[x].session = NoSession, job'[x].step # "marking",
         \A l \in Answered(job'[x].file) : Recorded(l.id, l.text),
         shipped' \in SUBSET Line, \A l \in shipped' : Recorded(l.id, l.text)
  PROVE  GateInv'
<1>1. Inv'
  BY DEF vars, GateInv, Inv, TypeOK, VersionNamesContent, SignaturesHold, AbsentIsBlank,
         ChangesAreSound, NewKeysAreUnused, NewKeysDiffer, Dirty
<1>2. ExportTypeOK'
  BY <1>1 DEF GateInv, ExportTypeOK, Inv
<1>3. RowsAreRecorded'
  BY DEF vars, GateInv, RowsAreRecorded, Recorded
<1>4. OnlySignedWordsLeave'
  BY DEF GateInv, OnlySignedWordsLeave, Recorded
<1>5. MarkingHasSession'
  BY ExportAssumption DEF GateInv, MarkingHasSession
<1>6. MarkingOnlyMarks' /\ MarkingIsPrivate'
  BY ExportAssumption DEF vars, GateInv, MarkingOnlyMarks, MarkingIsPrivate, Dirty
<1> QED
  BY <1>1, <1>2, <1>3, <1>4, <1>5, <1>6 DEF GateInv

LEMMA NotMarking ==
  ASSUME GateInv, NEW x \in Exports, job[x].step # "marking"
  PROVE  job[x].session \notin Sessions /\ job[x].session = NoSession
BY DEF GateInv, MarkingHasSession, ExportTypeOK, Job

LEMMA IdleJobIsClean ==
  /\ IdleJob.session = NoSession /\ IdleJob.step = "idle" /\ IdleJob.file = {}
  /\ Answered(IdleJob.file) = {}
BY DEF IdleJob, Answered

LEMMA CollectKeepsGateInv ==
  ASSUME GateInv, NEW x \in Exports,
         CountTotal(x) \/ CountApproved(x) \/ ListCurrent(x)
  PROVE  GateInv'
<1>1. UNCHANGED <<vars, signatures, shipped>>
  BY DEF CountTotal, CountApproved, ListCurrent
<1>2. job[x] \in Job /\ job[x].step # "marking"
  BY DEF CountTotal, CountApproved, ListCurrent, Move, GateInv, ExportTypeOK
<1>3. PICK to : /\ Move(x, job[x].step, to) /\ to \in Job
                /\ to.session = NoSession /\ to.step # "marking"
                /\ \A l \in Answered(to.file) : Recorded(l.id, l.text)
  <2>1. CASE CountTotal(x)
    <3> DEFINE to == [IdleJob EXCEPT !.step = "counting", !.total = Cardinality(MandatoryIds)]
    <3>1. Move(x, job[x].step, to)
      BY <2>1 DEF CountTotal, Move
    <3>2. to \in Job
      BY MandatoryIsFinite, IdleJobType DEF Job
    <3>3. to.session = NoSession /\ to.step = "counting" /\ to.file = {}
      BY DEF IdleJob
    <3> QED
      BY <3>1, <3>2, <3>3 DEF Answered
  <2>2. CASE CountApproved(x)
    <3> DEFINE to == IF Cardinality(SignedOffIds) < job[x].total THEN IdleJob
                     ELSE [job[x] EXCEPT !.step = "listing"]
    <3>1. Move(x, job[x].step, to)
      BY <2>2 DEF CountApproved, Move
    <3>2. to \in Job /\ to.session = NoSession /\ to.step # "marking"
      BY <1>2, IdleJobType, IdleJobIsClean, NotMarking DEF Job
    <3>3. to.file = {} \/ to.file = job[x].file
      BY <1>2, IdleJobIsClean DEF Job
    <3> QED
      BY <3>1, <3>2, <3>3 DEF GateInv, OnlySignedWordsLeave, Recorded, Answered
  <2>3. CASE ListCurrent(x)
    <3> DEFINE file == {LineOf(i) : i \in ListedIds}
               to   == [job[x] EXCEPT !.step = "rendering", !.file = file]
    <3>1. Move(x, job[x].step, to)
      BY <2>3 DEF ListCurrent, Move
    <3>2. file \subseteq Line
      BY LineOfType, ListedAreCurrent DEF GateInv
    <3>3. ASSUME NEW l \in Answered(file)
          PROVE  Recorded(l.id, l.text)
      <4>1. PICK i \in CurrentIds : l = LineOf(i)
        BY ListedAreCurrent DEF Answered
      <4>2. l.id = i /\ l.text = FinalText(rows[i]) /\ SignedOff(rows[i]) /\ i \in Ids
        BY <4>1 DEF Answered, LineOf, CurrentIds
      <4> QED
        BY <4>2 DEF GateInv, RowsAreRecorded
    <3> HIDE DEF file
    <3>4. to \in Job /\ to.session = NoSession /\ to.step = "rendering" /\ to.file = file
      BY <1>2, <3>2, NotMarking DEF Job
    <3> QED
      BY <3>1, <3>3, <3>4
  <2> QED
    BY <2>1, <2>2, <2>3
<1>4. /\ job' \in [Exports -> Job] /\ job'[x] = to
      /\ \A y \in Exports : y # x => job'[y] = job[y]
  BY <1>3, MoveType DEF GateInv
<1>5. job[x].session \notin Sessions
  BY <1>2, NotMarking
<1>6. shipped' \in SUBSET Line /\ \A l \in shipped' : Recorded(l.id, l.text)
  BY <1>1 DEF GateInv, ExportTypeOK, OnlySignedWordsLeave, Recorded
<1> QED
  BY <1>1, <1>3, <1>4, <1>5, <1>6, JobStepKeepsGateInv

LEMMA FinishKeepsGateInv ==
  ASSUME GateInv, NEW x \in Exports, NothingToMark(x) \/ Send(x) \/ Abandon(x)
  PROVE  GateInv'
<1>1. UNCHANGED <<vars, signatures>>
  BY DEF NothingToMark, Send, Abandon
<1>2. job[x] \in Job /\ job[x].step # "marking" /\ job \in [Exports -> Job]
  BY DEF NothingToMark, Send, Abandon, Move, GateInv, ExportTypeOK
<1>3. /\ job' \in [Exports -> Job]
      /\ \A y \in Exports : y # x => job'[y] = job[y]
      /\ job'[x].session = NoSession /\ job'[x].step # "marking"
      /\ job'[x].file = {} \/ job'[x].file = job[x].file
  <2>1. CASE NothingToMark(x)
    <3> DEFINE to == [job[x] EXCEPT !.step = "sending"]
    <3>1. to \in Job /\ to.session = NoSession /\ to.step = "sending" /\ to.file = job[x].file
      BY <1>2, NotMarking DEF Job
    <3> QED
      BY <2>1, <3>1, MoveType DEF NothingToMark, GateInv
  <2>2. CASE Send(x) \/ Abandon(x)
    BY <1>2, <2>2, IdleJobType, IdleJobIsClean DEF Send, Abandon, Move
  <2> QED
    BY <2>1, <2>2
<1>4. \A l \in Answered(job[x].file) : Recorded(l.id, l.text)
  BY DEF GateInv, OnlySignedWordsLeave, Recorded
<1>5. \A l \in Answered(job'[x].file) : Recorded(l.id, l.text)
  BY <1>3, <1>4 DEF Answered
<1>6. shipped' = shipped \/ shipped' = shipped \union Answered(job[x].file)
  BY DEF NothingToMark, Send, Abandon
<1>7. Answered(job[x].file) \in SUBSET Line
  BY <1>2 DEF Answered, Job
<1>8. shipped' \in SUBSET Line /\ \A l \in shipped' : Recorded(l.id, l.text)
  BY <1>4, <1>6, <1>7 DEF GateInv, ExportTypeOK, OnlySignedWordsLeave, Recorded
<1>9. job[x].session \notin Sessions
  BY <1>2, NotMarking
<1> QED
  BY <1>1, <1>3, <1>5, <1>8, <1>9, JobStepKeepsGateInv

-----------------------------------------------------------------------------
(* Steps of the sessions. *)

\* The transactions of the exports stay as they are: every job that marks
\* after the step marked before it, in a session the step left alone.
MarkingUntouched ==
  \A x \in Exports : job'[x].session \in Sessions =>
     /\ job'[x].session = job[x].session
     /\ session'[job[x].session] = session[job[x].session]

LEMMA UntouchedKeepsMarking ==
  ASSUME GateInv, MarkingUntouched
  PROVE  MarkingOnlyMarks' /\ MarkingIsPrivate'
BY DEF GateInv, MarkingUntouched, MarkingOnlyMarks, MarkingIsPrivate, Dirty

\* A request opens a session, or goes on with a registration: never with a
\* transaction that marks.
LEMMA RequestsLeaveMarking ==
  ASSUME GateInv, NEW s \in Sessions, Decide(s) \/ Produce(s)
  PROVE  /\ ~Marking(s)
         /\ Idle(s) \/ session[s].mode # "none" \/ session[s].looked # {}
         /\ rows' = rows
         /\ \A z \in Sessions : z # s => session'[z] = session[z]
<1>1. rows' = rows /\ \A z \in Sessions : z # s => session'[z] = session[z]
  BY OthersWait DEF GateInv, Inv
<1>2. Idle(s) \/ session[s].mode # "none" \/ session[s].looked # {}
  BY DEF Decide, Produce, Review, Edit, Generate, LookUp, SaveFound, Overwrite
<1>3. ~Marking(s)
  BY <1>2, IdleIsClean DEF Marking, GateInv, MarkingOnlyMarks
<1> QED
  BY <1>1, <1>2, <1>3

LEMMA OtherStepLeavesMarking ==
  ASSUME GateInv, OtherStep
  PROVE  UNCHANGED <<rows, job, signatures, shipped>> /\ MarkingUntouched
<1>1. UNCHANGED <<rows, job, signatures, shipped>>
  <2>1. CASE Read
    BY <2>1 DEF OtherStep, exportVars, Read, Open
  <2>2. ASSUME NEW s \in Sessions, Decide(s) \/ Produce(s) PROVE rows' = rows
    BY <2>2, RequestsLeaveMarking
  <2>3. ASSUME NEW s \in Sessions, Rollback(s) PROVE rows' = rows
    BY <2>3 DEF Rollback
  <2> QED
    BY <2>1, <2>2, <2>3 DEF OtherStep, exportVars
<1>2. MarkingUntouched
  <2>1. CASE Read
    BY <1>1, <2>1 DEF Read, Open, MarkingUntouched
  <2>2. ASSUME NEW s \in Sessions, Decide(s) \/ Produce(s) PROVE MarkingUntouched
    BY <1>1, <2>2, RequestsLeaveMarking DEF MarkingUntouched, Marking
  <2>3. ASSUME NEW s \in Sessions, ~Marking(s), Rollback(s) PROVE MarkingUntouched
    BY <1>1, <2>3, EndedSession DEF Rollback, MarkingUntouched, Marking, GateInv, Inv
  <2> QED
    BY <2>1, <2>2, <2>3 DEF OtherStep
<1> QED
  BY <1>1, <1>2

LEMMA OtherStepKeepsGateInv ==
  ASSUME GateInv, OtherStep
  PROVE  GateInv'
<1>1. Inv'
  BY ExportStepIsTableStep, NextKeepsInv DEF GateInv, ExportNext
<1>2. UNCHANGED <<rows, job, signatures, shipped>> /\ MarkingUntouched
  BY OtherStepLeavesMarking
<1>3. ExportTypeOK' /\ RowsAreRecorded' /\ OnlySignedWordsLeave' /\ MarkingHasSession'
  BY <1>1, <1>2 DEF GateInv, ExportTypeOK, Inv, RowsAreRecorded, Recorded,
                    OnlySignedWordsLeave, MarkingHasSession
<1> QED
  BY <1>1, <1>2, <1>3, UntouchedKeepsMarking DEF GateInv

LEMMA StartMarkingKeepsGateInv ==
  ASSUME GateInv, NEW x \in Exports, NEW s \in Sessions, StartMarking(x, s)
  PROVE  GateInv'
<1> DEFINE I       == StillApproved(Exportable(job[x].file))
           changed == [i \in I |-> Exported(rows[i])]
           to      == [job[x] EXCEPT !.step = "marking", !.session = s]
<1>1. Inv'
  BY ExportStepIsTableStep, NextKeepsInv DEF GateInv, ExportNext
<1>2. /\ Stage(s, NoClient, "none", changed) /\ UNCHANGED <<rows, view, signatures, shipped>>
      /\ Idle(s) /\ I # {} /\ I \subseteq Ids
      /\ Move(x, "rendering", to)
  BY ExportableIds DEF StartMarking, MarkExported, GateInv, StillApproved
<1>3. job[x] \in Job
  BY DEF GateInv, ExportTypeOK
<1>4. to \in Job /\ to.session = s /\ to.step = "marking" /\ to.file = job[x].file
  BY <1>3 DEF Job
<1>5. /\ job' \in [Exports -> Job] /\ job'[x] = to
      /\ \A y \in Exports : y # x => job'[y] = job[y]
  BY <1>2, <1>4, MoveType DEF GateInv
<1>6. /\ \A i \in I : session'[s].loaded[i] = rows[i] /\ session'[s].staged[i] = Exported(rows[i])
      /\ \A i \in Ids : i \notin I => session'[s].loaded[i] = session'[s].staged[i]
      /\ \A z \in Sessions : z # s => session'[z] = session[z]
      /\ session'[s].mode = "none" /\ session'[s].looked = {}
  BY <1>2, Staged, IdleIsClean, IdleHoldsNothing DEF GateInv, Inv, Idle
<1>7. \A i \in I : /\ rows[i].status = "approved"
                   /\ Exported(rows[i]).status = "exported"
  BY <1>2 DEF StillApproved, Exported, GateInv, Inv, TypeOK, Row
<1> HIDE DEF I, changed, to
\* The session is the export's own: it was idle, and no other export's was.
<1>8. Dirty(s)' # {} /\ \A i \in Dirty(s)' : session'[s].staged[i].status = "exported"
  <2>1. I \subseteq Dirty(s)' /\ Dirty(s)' \subseteq I
    BY <1>2, <1>6, <1>7 DEF Dirty
  <2> QED
    BY <1>2, <1>6, <1>7, <2>1
<1>9. \A y \in Exports : job[y].session # s
  BY <1>2, IdleIsClean DEF GateInv, MarkingOnlyMarks
<1>10. MarkingOnlyMarks' /\ MarkingIsPrivate'
  <2>1. ASSUME NEW y \in Exports, NEW z \in Sessions, job'[y].session = z
        PROVE  /\ session'[z].mode = "none" /\ session'[z].looked = {}
               /\ Dirty(z)' # {} /\ \A i \in Dirty(z)' : session'[z].staged[i].status = "exported"
    <3>1. CASE y = x
      <4>1. z = s
        BY <1>4, <1>5, <2>1, <3>1
      <4> QED
        BY <1>6, <1>8, <4>1 DEF Dirty
    <3>2. CASE y # x
      <4>1. job[y].session = z /\ z # s
        BY <1>5, <1>9, <2>1, <3>2
      <4>2. session'[z] = session[z]
        BY <1>6, <4>1
      <4> QED
        BY <4>1, <4>2 DEF GateInv, MarkingOnlyMarks, Dirty
    <3> QED
      BY <3>1, <3>2
  <2>2. ASSUME NEW y \in Exports, NEW z \in Exports,
               job'[y].session = job'[z].session, job'[y].session \in Sessions
        PROVE  y = z
    BY <1>4, <1>5, <1>9, <2>2 DEF GateInv, MarkingIsPrivate
  <2> QED
    BY <2>1, <2>2 DEF MarkingOnlyMarks, MarkingIsPrivate
<1>11. MarkingHasSession'
  BY <1>4, <1>5 DEF GateInv, MarkingHasSession
<1>12. OnlySignedWordsLeave' /\ RowsAreRecorded' /\ ExportTypeOK'
  BY <1>1, <1>2, <1>4, <1>5 DEF GateInv, OnlySignedWordsLeave, RowsAreRecorded, Recorded,
                                ExportTypeOK, Inv, Answered
<1> QED
  BY <1>1, <1>10, <1>11, <1>12 DEF GateInv

LEMMA MarkingFailsKeepsGateInv ==
  ASSUME GateInv, NEW x \in Exports, MarkingFails(x)
  PROVE  GateInv'
<1>1. Inv'
  BY ExportStepIsTableStep, NextKeepsInv DEF GateInv, ExportNext
<1>2. job[x].session \in Sessions
  BY DEF MarkingFails, Move, GateInv, MarkingHasSession
<1>3. /\ session' = [session EXCEPT ![job[x].session] = IdleSession]
      /\ UNCHANGED <<rows, view, signatures, shipped>>
      /\ Move(x, "marking", IdleJob)
  BY DEF MarkingFails, Rollback
<1>4. /\ job' \in [Exports -> Job] /\ job'[x] = IdleJob
      /\ \A y \in Exports : y # x => job'[y] = job[y]
  BY <1>3, MoveType, IdleJobType DEF GateInv
<1>5. MarkingUntouched
  BY <1>2, <1>3, <1>4, EndedSession, IdleJobIsClean, ExportAssumption
     DEF MarkingUntouched, GateInv, Inv, MarkingIsPrivate
<1>6. MarkingHasSession'
  BY <1>4, IdleJobIsClean, ExportAssumption DEF GateInv, MarkingHasSession
<1>7. OnlySignedWordsLeave' /\ RowsAreRecorded' /\ ExportTypeOK'
  BY <1>1, <1>3, <1>4, IdleJobIsClean
     DEF GateInv, OnlySignedWordsLeave, RowsAreRecorded, Recorded, ExportTypeOK, Inv
<1> QED
  BY <1>1, <1>5, <1>6, <1>7, UntouchedKeepsMarking DEF GateInv

-----------------------------------------------------------------------------
(* Commits. *)

LEMMA DisturbType ==
  ASSUME job \in [Exports -> Job], NEW own, Disturb(own)
  PROVE  /\ job' \in [Exports -> Job]
         /\ \A x \in Exports : job'[x].file = job[x].file
         /\ \A x \in own \intersect Exports : job'[x].session = NoSession /\ job'[x].step = "sending"
         /\ \A x \in Exports : x \notin own =>
               job'[x].session = job[x].session /\ job'[x].step = job[x].step
<1>1. ASSUME NEW x \in Exports
      PROVE  /\ [job[x] EXCEPT !.step = "sending", !.session = NoSession] \in Job
             /\ [job[x] EXCEPT !.disturbed = TRUE] \in Job
  BY DEF Job
<1>2. job' \in [Exports -> Job]
  BY <1>1 DEF Disturb
<1>3. ASSUME NEW x \in Exports
      PROVE  /\ job'[x].file = job[x].file
             /\ x \in own => job'[x].session = NoSession /\ job'[x].step = "sending"
             /\ x \notin own => job'[x].session = job[x].session /\ job'[x].step = job[x].step
  BY DEF Disturb, Job
<1> QED
  BY <1>2, <1>3

\* What a commit makes exported had been signed off in the same words.
LEMMA ExportedKeepsWords ==
  ASSUME Inv, NEW s \in Sessions, Commit(s), NEW i \in Ids, rows'[i].status = "exported"
  PROVE  SignedOff(rows[i]) /\ FinalText(rows'[i]) = FinalText(rows[i])
<1>1. RowStep(s, i) /\ rows[i] \in Row /\ rows'[i] \in Row
  BY CommitStepsRow DEF Inv, TypeOK
<1>2. SignedOff(rows'[i])
  BY DEF SignedOff, SIGNED_OFF
<1>3. CASE Superseding(rows[i], rows'[i])
  BY <1>1, <1>2, <1>3, CurrentIsNoContent, SameContentAgrees
     DEF Superseding, Superseded, SignedOff
<1> QED
  BY <1>1, <1>2, <1>3 DEF RowStep, Deciding, Inserting

LEMMA OtherCommitKeepsGateInv ==
  ASSUME GateInv, NEW s \in Sessions, OtherCommit(s)
  PROVE  GateInv'
<1> DEFINE signed == {<<i, rows'[i].signed>> : i \in {k \in Ids : rows'[k].status = "approved"}}
<1>1. Inv'
  BY ExportStepIsTableStep, NextKeepsInv DEF GateInv, ExportNext
<1>2. /\ Commit(s) /\ ~Marking(s) /\ Disturb({}) /\ shipped' = shipped
      /\ signatures' = signatures \union signed
      /\ job \in [Exports -> Job]
  BY DEF OtherCommit, GateInv, ExportTypeOK
<1>3. /\ job' \in [Exports -> Job]
      /\ \A x \in Exports : /\ job'[x].file = job[x].file
                            /\ job'[x].session = job[x].session
                            /\ job'[x].step = job[x].step
  BY <1>2, DisturbType
<1>4. ASSUME NEW i \in Ids, rows'[i].status = "approved"
      PROVE  /\ rows'[i].signed = FinalText(rows'[i]) /\ rows'[i].signed \in Texts
  <2>1. rows'[i] \in Row /\ SignedOff(rows'[i])
    BY <1>1, <1>4 DEF Inv, TypeOK, SignedOff, SIGNED_OFF
  <2> QED
    BY <1>1, <2>1 DEF Inv, SignaturesHold, Signature, HasWords, Row
<1>5. ExportTypeOK'
  <2>1. signed \subseteq Ids \X Texts
    BY <1>4
  <2> QED
    BY <1>1, <1>2, <1>3, <2>1 DEF GateInv, ExportTypeOK, Inv
<1>6. RowsAreRecorded'
  <2>1. ASSUME NEW i \in Ids, SignedOff(rows'[i])
        PROVE  <<i, FinalText(rows'[i])>> \in signatures'
    <3>1. CASE rows'[i].status = "approved"
      BY <1>2, <1>4, <3>1
    <3>2. CASE rows'[i].status = "exported"
      BY <1>2, <3>2, ExportedKeepsWords DEF GateInv, RowsAreRecorded, Recorded
    <3> QED
      BY <2>1, <3>1, <3>2 DEF SignedOff, SIGNED_OFF
  <2> QED
    BY <2>1 DEF RowsAreRecorded, Recorded
<1>7. OnlySignedWordsLeave'
  BY <1>2, <1>3 DEF GateInv, OnlySignedWordsLeave, Answered
<1>8. MarkingHasSession'
  BY <1>3 DEF GateInv, MarkingHasSession
<1>9. MarkingUntouched
  BY <1>2, <1>3, EndedSession DEF Commit, MarkingUntouched, Marking, GateInv, Inv
<1> QED
  BY <1>1, <1>5, <1>6, <1>7, <1>8, <1>9, UntouchedKeepsMarking DEF GateInv

LEMMA MarkedKeepsGateInv ==
  ASSUME GateInv, NEW x \in Exports, Marked(x)
  PROVE  GateInv'
<1> DEFINE s == job[x].session
<1>1. Inv'
  BY ExportStepIsTableStep, NextKeepsInv DEF GateInv, ExportNext
<1>2. /\ s \in Sessions /\ Commit(s) /\ Disturb({x})
      /\ UNCHANGED <<signatures, shipped>> /\ job \in [Exports -> Job]
  BY DEF Marked, GateInv, MarkingHasSession, ExportTypeOK
<1>3. /\ job' \in [Exports -> Job]
      /\ \A y \in Exports : job'[y].file = job[y].file
      /\ job'[x].session = NoSession /\ job'[x].step = "sending"
      /\ \A y \in Exports : y # x =>
            job'[y].session = job[y].session /\ job'[y].step = job[y].step
  BY <1>2, DisturbType
<1>4. ExportTypeOK'
  BY <1>1, <1>2, <1>3 DEF GateInv, ExportTypeOK, Inv
<1>5. RowsAreRecorded'
  <2>1. ASSUME NEW i \in Ids, SignedOff(rows'[i])
        PROVE  Recorded(i, FinalText(rows'[i]))
    <3>1. CASE i \notin Dirty(s)
      BY <1>2, <2>1, <3>1 DEF Commit, Written, GateInv, RowsAreRecorded
    \* The transaction only makes rows exported, or its supersede changes nothing.
    <3>2. CASE i \in Dirty(s)
      <4>1. RowStep(s, i) /\ rows[i] \in Row /\ rows'[i] \in Row
        BY <1>2, CommitStepsRow DEF GateInv, Inv, TypeOK
      <4>2. session[s].staged[i].status = "exported" /\ session[s].staged[i] \in Row
        BY <1>2, <3>2 DEF GateInv, MarkingOnlyMarks, Inv, TypeOK, Session
      <4>3. CASE SameContent(session[s].staged[i], rows'[i])
        <5>1. rows'[i].status = "exported"
          BY <4>1, <4>2, <4>3, SameContentAgrees
        <5> QED
          BY <1>2, <5>1, ExportedKeepsWords DEF GateInv, RowsAreRecorded
      <4>4. CASE rows'[i] = rows[i]
        BY <2>1, <4>4 DEF GateInv, RowsAreRecorded
      <4>5. CASE Superseding(rows[i], rows'[i])
        <5>1. SignedOff(rows[i]) /\ FinalText(rows[i]) = FinalText(rows'[i])
          BY <2>1, <4>1, <4>5, CurrentIsNoContent, SameContentAgrees
             DEF Superseding, Superseded, SignedOff
        <5> QED
          BY <5>1 DEF GateInv, RowsAreRecorded
      <4> QED
        BY <2>1, <4>1, <4>3, <4>4, <4>5 DEF RowStep, Inserting
    <3> QED
      BY <3>1, <3>2
  <2> QED
    BY <1>2, <2>1 DEF RowsAreRecorded, Recorded
<1>6. OnlySignedWordsLeave'
  BY <1>2, <1>3 DEF GateInv, OnlySignedWordsLeave, Answered
<1>7. MarkingHasSession'
  <2>1. job'[x].step # "marking" /\ job'[x].session \notin Sessions
    BY <1>3, ExportAssumption
  <2> QED
    BY <1>3, <2>1 DEF GateInv, MarkingHasSession
<1>8. MarkingUntouched
  <2>1. ASSUME NEW y \in Exports, job'[y].session \in Sessions
        PROVE  /\ job'[y].session = job[y].session
               /\ session'[job[y].session] = session[job[y].session]
    <3>1. y # x /\ job'[y].session = job[y].session
      BY <1>3, <2>1, ExportAssumption
    <3>2. job[y].session # s
      BY <2>1, <3>1 DEF GateInv, MarkingIsPrivate
    <3> QED
      BY <1>2, <2>1, <3>1, <3>2, EndedSession DEF Commit, GateInv, Inv
  <2> QED
    BY <2>1 DEF MarkingUntouched
<1> QED
  BY <1>1, <1>4, <1>5, <1>6, <1>7, <1>8, UntouchedKeepsMarking DEF GateInv

-----------------------------------------------------------------------------
(* The theorems. *)

LEMMA ExportInitEstablishesGateInv ==
  ASSUME ExportInit
  PROVE  GateInv
<1>1. Inv
  BY InitEstablishesInv DEF ExportInit
<1>2. job \in [Exports -> Job] /\ \A x \in Exports : job[x] = IdleJob
  BY IdleJobType DEF ExportInit
<1>3. ExportTypeOK
  BY <1>1, <1>2 DEF ExportInit, ExportTypeOK, Inv
<1>4. RowsAreRecorded
  BY NoRowType DEF ExportInit, Init, EmptyTable, RowsAreRecorded, SignedOff, SIGNED_OFF, NoRow
<1>5. OnlySignedWordsLeave
  BY <1>2, IdleJobIsClean DEF ExportInit, OnlySignedWordsLeave
<1>6. MarkingHasSession /\ MarkingOnlyMarks /\ MarkingIsPrivate
  BY <1>2, IdleJobIsClean, ExportAssumption
     DEF MarkingHasSession, MarkingOnlyMarks, MarkingIsPrivate
<1> QED
  BY <1>1, <1>3, <1>4, <1>5, <1>6 DEF GateInv

LEMMA ExportNextKeepsGateInv ==
  ASSUME GateInv, [ExportNext]_allVars
  PROVE  GateInv'
<1>1. CASE OtherStep
  BY <1>1, OtherStepKeepsGateInv
<1>2. ASSUME NEW s \in Sessions, OtherCommit(s) PROVE GateInv'
  BY <1>2, OtherCommitKeepsGateInv
<1>3. ASSUME NEW x \in Exports, CountTotal(x) \/ CountApproved(x) \/ ListCurrent(x)
      PROVE  GateInv'
  BY <1>3, CollectKeepsGateInv
<1>4. ASSUME NEW x \in Exports, NEW s \in Sessions, StartMarking(x, s) PROVE GateInv'
  BY <1>4, StartMarkingKeepsGateInv
<1>5. ASSUME NEW x \in Exports, Marked(x) PROVE GateInv'
  BY <1>5, MarkedKeepsGateInv
<1>6. ASSUME NEW x \in Exports, MarkingFails(x) PROVE GateInv'
  BY <1>6, MarkingFailsKeepsGateInv
<1>7. ASSUME NEW x \in Exports, NothingToMark(x) \/ Send(x) \/ Abandon(x) PROVE GateInv'
  BY <1>7, FinishKeepsGateInv
<1>8. CASE UNCHANGED allVars
  <2>1. Inv'
    BY <1>8, NextKeepsInv DEF allVars, vars, GateInv
  <2> QED
    BY <1>8, <2>1 DEF allVars, GateInv, ExportTypeOK, Inv, RowsAreRecorded, Recorded,
                      OnlySignedWordsLeave, MarkingHasSession, MarkingOnlyMarks,
                      MarkingIsPrivate, Dirty
<1> QED
  BY <1>1, <1>2, <1>3, <1>4, <1>5, <1>6, <1>7, <1>8 DEF ExportNext

\* The inductive invariant of the export holds in every reachable state: what
\* is signed is recorded, and a marking transaction only marks.
THEOREM GateInvHolds == ExportSpec => []GateInv
<1>1. ExportInit => GateInv
  BY ExportInitEstablishesGateInv
<1>2. GateInv /\ [ExportNext]_allVars => GateInv'
  BY ExportNextKeepsGateInv
<1> QED
  BY <1>1, <1>2, PTL DEF ExportSpec

\* Export requests keep their types.
THEOREM ExportTypeCorrect == ExportSpec => []ExportTypeOK
<1>1. GateInv => ExportTypeOK
  BY DEF GateInv
<1> QED
  BY <1>1, GateInvHolds, PTL

\* Every answer in a file was signed off in exactly these words, whatever
\* other requests and exports did between the count, the list and the marking.
THEOREM OnlySignedWordsEverLeave == ExportSpec => []OnlySignedWordsLeave
<1>1. GateInv => OnlySignedWordsLeave
  BY DEF GateInv
<1> QED
  BY <1>1, GateInvHolds, PTL

\* An export is nothing new to the table: every property of Proposals holds
\* of the table under exports as well.
THEOREM ExportImplementsTable == ExportSpec => ImplementsProposals
<1>1. ExportInit => Init
  BY DEF ExportInit
<1>2. GateInv /\ [ExportNext]_allVars => [Next]_vars
  BY ExportStepIsTableStep
<1> QED
  BY <1>1, <1>2, GateInvHolds, PTL DEF ExportSpec, ImplementsProposals, Spec

\* With exports in flight the table still implements the register of atomic
\* decisions, and its versions are still one chain with one live end.
THEOREM ExportsKeepTheRegister ==
  ExportSpec => ImplementsSignOff /\ []OneCurrentRow /\ []HistoryIsAChain
<1>1. ExportSpec => Spec
  BY ExportImplementsTable DEF ImplementsProposals
<1> QED
  BY <1>1, ReviewGateImplementsSignOff, OneRowIsCurrent, HistoryFormsAChain

-----------------------------------------------------------------------------
(***************************************************************************)
(* Who makes rows exported.  On top of GateInv: a file never lists a       *)
(* signed-off row without its words, a marking transaction marks rows of   *)
(* its own file, and no other transaction makes a row exported.            *)
(***************************************************************************)

FilesAreAnswered ==
  \A x \in Exports : \A l \in job[x].file : l.status \in SIGNED_OFF => l.text # NoText

MarkingStaysInFile ==
  \A x \in Exports : job[x].session \in Sessions =>
     Dirty(job[x].session) \subseteq Exportable(job[x].file)

ExportsNothing(s) ==
  \A i \in Ids : session[s].staged[i].status = "exported" =>
                  session[s].loaded[i].status = "exported"

OnlyExportsMark == \A s \in Sessions : ~Marking(s) => ExportsNothing(s)

MarkInv == /\ GateInv
           /\ FilesAreAnswered
           /\ MarkingStaysInFile
           /\ OnlyExportsMark

\* The words of a listed row that is signed off are there.
LEMMA ListIsAnswered ==
  ASSUME GateInv, NEW i \in CurrentIds, LineOf(i).status \in SIGNED_OFF
  PROVE  LineOf(i).text # NoText
<1>1. i \in Ids /\ SignedOff(rows[i]) /\ LineOf(i).text = FinalText(rows[i])
  BY DEF CurrentIds, LineOf, SignedOff
<1> QED
  BY <1>1 DEF GateInv, Inv, SignaturesHold, Signature, HasWords

\* What one step does to the jobs.
LEMMA JobSteps ==
  ASSUME GateInv, [ExportNext]_allVars, NEW x \in Exports
  PROVE  /\ \/ job'[x].file = job[x].file
            \/ job'[x].file = {}
            \/ job'[x].file = {LineOf(i) : i \in ListedIds}
         /\ job'[x].session \in Sessions =>
               /\ job'[x].file = job[x].file
               /\ \/ job'[x].session = job[x].session
                  \/ StartMarking(x, job'[x].session)
<1>1. job \in [Exports -> Job] /\ job[x] \in Job
  BY DEF GateInv, ExportTypeOK
<1>2. CASE UNCHANGED job
  BY <1>2
<1>3. ASSUME NEW y \in Exports, y # x, NEW from, NEW to, Move(y, from, to)
      PROVE  job'[x] = job[x]
  BY <1>1, <1>3 DEF Move
<1>4. ASSUME NEW from, NEW to, Move(x, from, to)
      PROVE  job'[x] = to /\ job[x].step = from
  BY <1>1, <1>4 DEF Move
<1>5. ASSUME NEW y \in Exports,
             CountTotal(y) \/ CountApproved(y) \/ ListCurrent(y) \/ NothingToMark(y) \/ Send(y)
      PROVE  x # y => job'[x] = job[x]
  BY <1>3, <1>5 DEF CountTotal, CountApproved, ListCurrent, NothingToMark, Send
<1>6. CASE CountTotal(x) \/ Send(x)
  <2>1. CASE CountTotal(x)
    <3>1. job'[x] = [IdleJob EXCEPT !.step = "counting", !.total = Cardinality(MandatoryIds)]
      BY <1>4, <2>1 DEF CountTotal
    <3> QED
      BY <3>1, ExportAssumption DEF IdleJob
  <2>2. CASE Send(x)
    <3>1. job'[x] = IdleJob
      BY <1>4, <2>2 DEF Send
    <3> QED
      BY <3>1, ExportAssumption DEF IdleJob
  <2> QED
    BY <1>6, <2>1, <2>2
<1>7. CASE CountApproved(x)
  <2>1. job'[x] = IdleJob \/ job'[x] = [job[x] EXCEPT !.step = "listing"]
    BY <1>4, <1>7 DEF CountApproved
  <2>2. job'[x].file = {} \/ job'[x].file = job[x].file
    BY <1>1, <2>1, IdleJobIsClean DEF Job
  <2>3. job'[x].session \notin Sessions
    BY <1>1, <1>4, <1>7, <2>1, IdleJobIsClean, NotMarking, ExportAssumption
       DEF CountApproved, Job
  <2> QED
    BY <2>2, <2>3
<1>8. CASE ListCurrent(x)
  <2> DEFINE list == {LineOf(i) : i \in ListedIds}
  <2>1. /\ job'[x] = [job[x] EXCEPT !.step = "rendering", !.file = list]
        /\ job[x].step = "listing"
    BY <1>4, <1>8 DEF ListCurrent
  <2> HIDE DEF list
  <2>2. job'[x].file = list /\ job'[x].session = job[x].session
    BY <1>1, <2>1 DEF Job
  <2>3. job[x].session \notin Sessions
    BY <2>1, NotMarking
  <2> QED
    BY <2>2, <2>3 DEF list
<1>9. CASE NothingToMark(x)
  <2>1. job'[x] = [job[x] EXCEPT !.step = "sending"]
    BY <1>4, <1>9 DEF NothingToMark
  <2> QED
    BY <1>1, <2>1 DEF Job
<1>10. ASSUME NEW y \in Exports, Abandon(y)
       PROVE  \/ job'[x] = job[x]
              \/ job'[x].file = {} /\ job'[x].session = NoSession
  BY <1>1, <1>10, IdleJobIsClean DEF Abandon
<1>11. ASSUME NEW y \in Exports, NEW s \in Sessions, StartMarking(y, s)
       PROVE  \/ job'[x] = job[x]
              \/ job'[x].file = job[x].file /\ job'[x].session = s /\ x = y
  <2>1. CASE x # y
    BY <1>3, <1>11, <2>1 DEF StartMarking
  <2>2. CASE x = y
    <3>1. job'[x] = [job[x] EXCEPT !.step = "marking", !.session = s]
      BY <1>4, <1>11, <2>2 DEF StartMarking
    <3> QED
      BY <1>1, <2>2, <3>1 DEF Job
  <2> QED
    BY <2>1, <2>2
<1>12. ASSUME NEW y \in Exports, MarkingFails(y)
       PROVE  \/ job'[x] = job[x]
              \/ job'[x].file = {} /\ job'[x].session = NoSession
  BY <1>1, <1>12, IdleJobIsClean DEF MarkingFails, Move
<1>13. ASSUME NEW own, Disturb(own)
       PROVE  /\ job'[x].file = job[x].file
              /\ job'[x].session = NoSession \/ job'[x].session = job[x].session
  BY <1>1, <1>13, DisturbType
<1>14. CASE OtherStep \/ UNCHANGED allVars
  BY <1>2, <1>14 DEF OtherStep, exportVars, allVars
<1>15. CASE \E s \in Sessions : OtherCommit(s)
  BY <1>13, <1>15, ExportAssumption DEF OtherCommit
<1>16. CASE \E y \in Exports : Marked(y)
  BY <1>13, <1>16, ExportAssumption DEF Marked
<1> QED
  BY <1>5, <1>6, <1>7, <1>8, <1>9, <1>10, <1>11, <1>12, <1>14, <1>15, <1>16, ExportAssumption
     DEF ExportNext

LEMMA FilesStayAnswered ==
  ASSUME MarkInv, [ExportNext]_allVars
  PROVE  FilesAreAnswered'
BY JobSteps, ListIsAnswered, ListedAreCurrent DEF MarkInv, FilesAreAnswered

-----------------------------------------------------------------------------
(* What one step does to the sessions. *)

\* No request but an export makes a row exported.
LEMMA RequestsExportNothing ==
  ASSUME Inv, NEW s \in Sessions, ExportsNothing(s), Decide(s) \/ Produce(s)
  PROVE  ExportsNothing(s)'
<1> DEFINE Harmless(changed) ==
      \A i \in DOMAIN changed : i \in Ids /\ changed[i].status = "exported" =>
                                 Base(s, i).status = "exported"
<1>1. ASSUME NEW c, NEW mode, NEW changed, Stage(s, c, mode, changed), Harmless(changed)
      PROVE  ExportsNothing(s)'
  BY <1>1, Staged DEF Inv, ExportsNothing
<1>2. ASSUME NEW c \in Clients, NEW q \in ReviewRequest, Review(s, c, q)
      PROVE  ExportsNothing(s)'
  <2> DEFINE row == rows[view[c].id]
             changed == [k \in {view[c].id} |-> Reviewed(row, c, q)]
  <2>1. Stage(s, c, "none", changed) /\ row \in Row
    BY <1>2 DEF Review, Inv, TypeOK
  <2>2. Reviewed(row, c, q).status = q.action /\ q.action # "exported"
    BY <2>1 DEF Reviewed, Row, ReviewRequest
  <2> QED
    BY <1>1, <2>1, <2>2
<1>3. ASSUME NEW c \in Clients, NEW t \in Texts, NEW n \in NoteInputs, Edit(s, c, t, n)
      PROVE  ExportsNothing(s)'
  <2> DEFINE row == rows[view[c].id]
             changed == [k \in {view[c].id} |-> Rewritten(row, t, n)]
  <2>1. Stage(s, c, "none", changed) /\ row \in Row
    BY <1>3 DEF Edit, Inv, TypeOK
  <2>2. Rewritten(row, t, n).status # "exported"
    BY <1>3, <2>1 DEF Edit, EDITABLE, Rewritten, Row
  <2> QED
    BY <1>1, <2>1, <2>2
\* What is superseded keeps its status; what is saved is not signed off.
<1>4. ASSUME NEW mode \in Modes, NEW q \in Requirements, NEW o \in Outcome,
             SaveGeneration(s, mode, q, o)
      PROVE  ExportsNothing(s)'
  <2>1. PICK new \in UnusedIds : Stage(s, NoClient, mode, Saved(s, q, o, new)) /\ RoomFor(s, q)
    BY <1>4 DEF SaveGeneration
  <2> DEFINE changed == Saved(s, q, o, new)
  <2>2. ASSUME NEW i \in DOMAIN changed, changed[i].status = "exported"
        PROVE  i \in Ids /\ Base(s, i).status = "exported"
    <3>1. /\ i \in Ids /\ changed[i] \in Row
          /\ \/ Superseding(Base(s, i), changed[i]) \/ Inserting(Base(s, i), changed[i])
      BY <2>1, <2>2, SavedChanges
    <3>2. ~Inserting(Base(s, i), changed[i])
      BY <2>2 DEF Inserting, SignedOff, SIGNED_OFF
    <3>3. Base(s, i) \in Row
      BY <3>1 DEF Base, Inv, TypeOK, Session
    <3> QED
      BY <2>2, <3>1, <3>2, <3>3 DEF Superseding, Superseded, Row
  <2> HIDE DEF changed
  <2>3. Harmless(changed)
    BY <2>2
  <2> QED
    BY <1>1, <2>1, <2>3 DEF changed
<1>5. ASSUME NEW q \in Requirements, LookUp(s, q)
      PROVE  ExportsNothing(s)'
  BY <1>5, LookChanges DEF Inv, ExportsNothing
<1> QED
  BY <1>2, <1>3, <1>4, <1>5, SavingSaves DEF Decide, Produce

\* A session is left alone, ends, or is opened by a request or an export.
LEMMA SessionSteps ==
  ASSUME GateInv, [ExportNext]_allVars, NEW z \in Sessions
  PROVE  \/ session'[z] = session[z]
         \/ session'[z] = IdleSession
         \/ ~Marking(z) /\ (Decide(z) \/ Produce(z)) /\ UNCHANGED job
         \/ ~Marking(z) /\ \E x \in Exports : StartMarking(x, z)
<1>1. CASE UNCHANGED session
  BY <1>1
<1>2. ASSUME NEW s \in Sessions, Commit(s) \/ Rollback(s)
      PROVE  session'[z] = session[z] \/ session'[z] = IdleSession
  BY <1>2, EndedSession DEF Commit, Rollback, GateInv, Inv
<1>3. ASSUME NEW s \in Sessions, Decide(s) \/ Produce(s)
      PROVE  session'[z] = session[z] \/ (z = s /\ ~Marking(z))
  BY <1>3, RequestsLeaveMarking
<1>4. ASSUME NEW x \in Exports, NEW s \in Sessions, StartMarking(x, s)
      PROVE  session'[z] = session[z] \/ (z = s /\ ~Marking(z))
  BY <1>4, Staged, IdleIsClean
     DEF StartMarking, MarkExported, Marking, GateInv, Inv, MarkingOnlyMarks
<1>5. CASE OtherStep
  <2>1. CASE Read
    BY <1>1, <2>1 DEF Read, Open
  <2> QED
    BY <1>2, <1>3, <1>5, <2>1 DEF OtherStep, exportVars
<1>6. CASE \E s \in Sessions : OtherCommit(s)
  BY <1>2, <1>6 DEF OtherCommit
<1>7. ASSUME NEW x \in Exports, Marked(x) \/ MarkingFails(x)
      PROVE  session'[z] = session[z] \/ session'[z] = IdleSession
  <2>1. job[x].session \in Sessions
    BY <1>7 DEF Marked, MarkingFails, Move, GateInv, MarkingHasSession
  <2> QED
    BY <1>2, <1>7, <2>1 DEF Marked, MarkingFails
<1>8. ASSUME NEW x \in Exports,
             \/ CountTotal(x) \/ CountApproved(x) \/ ListCurrent(x)
             \/ NothingToMark(x) \/ Send(x) \/ Abandon(x)
      PROVE  UNCHANGED session
  BY <1>8 DEF CountTotal, CountApproved, ListCurrent, NothingToMark, Send, Abandon, vars
<1>9. CASE UNCHANGED allVars
  BY <1>1, <1>9 DEF allVars
<1> QED
  BY <1>1, <1>4, <1>5, <1>6, <1>7, <1>8, <1>9 DEF ExportNext

\* The session in which an export marks is the export's from its opening on.
LEMMA MarkingStepsStayInFile ==
  ASSUME MarkInv, [ExportNext]_allVars
  PROVE  MarkingStaysInFile'
<1> SUFFICES ASSUME NEW x \in Exports, NEW s \in Sessions, job'[x].session = s
             PROVE  Dirty(s)' \subseteq Exportable(job'[x].file)
  BY DEF MarkingStaysInFile
<1>1. job'[x].file = job[x].file /\ (job[x].session = s \/ StartMarking(x, s))
  BY JobSteps DEF MarkInv
<1>2. CASE StartMarking(x, s)
  <2> DEFINE I == StillApproved(Exportable(job[x].file))
  <2>1. Stage(s, NoClient, "none", [i \in I |-> Exported(rows[i])]) /\ Idle(s)
    BY <1>2 DEF StartMarking, MarkExported
  <2>2. \A i \in Ids : i \notin I => session'[s].loaded[i] = session'[s].staged[i]
    BY <2>1, Staged, IdleHoldsNothing DEF MarkInv, GateInv, Inv, Idle
  <2> QED
    BY <1>1, <2>2 DEF Dirty, StillApproved
<1>3. CASE job[x].session = s /\ ~StartMarking(x, s)
  <2>1. Marking(s)
    BY <1>3 DEF Marking
  <2>2. Dirty(s)' \subseteq Dirty(s)
    <3>1. ASSUME session'[s] = session[s] PROVE Dirty(s)' = Dirty(s)
      BY <3>1 DEF Dirty
    <3>2. ASSUME session'[s] = IdleSession PROVE Dirty(s)' = {}
      BY <3>2, IdleHoldsNothing DEF Dirty
    <3> QED
      BY <2>1, <3>1, <3>2, SessionSteps DEF MarkInv
  <2> QED
    BY <1>1, <1>3, <2>2 DEF MarkInv, MarkingStaysInFile
<1> QED
  BY <1>1, <1>2, <1>3

LEMMA OnlyExportsKeepMarking ==
  ASSUME MarkInv, [ExportNext]_allVars, GateInv'
  PROVE  OnlyExportsMark'
<1> SUFFICES ASSUME NEW z \in Sessions, ~Marking(z)'
             PROVE  ExportsNothing(z)'
  BY DEF OnlyExportsMark
<1>1. CASE session'[z] = IdleSession
  BY <1>1, IdleHoldsNothing DEF ExportsNothing
<1>2. CASE ~Marking(z) /\ (Decide(z) \/ Produce(z))
  BY <1>2, RequestsExportNothing DEF MarkInv, GateInv, OnlyExportsMark
<1>3. CASE session'[z] = session[z] /\ ~Marking(z)
  BY <1>3 DEF MarkInv, OnlyExportsMark, ExportsNothing
\* An export that gives up its session has ended it.
<1>4. CASE session'[z] = session[z] /\ Marking(z) /\ session'[z] # IdleSession
  <2>1. PICK x \in Exports : job[x].session = z
    BY <1>4 DEF Marking
  <2>2. job'[x].session # z
    BY DEF Marking
  <2>3. Dirty(z) # {}
    BY <2>1 DEF MarkInv, GateInv, MarkingOnlyMarks
  <2>4. job \in [Exports -> Job] /\ job[x].step = "marking"
    BY <2>1 DEF MarkInv, GateInv, ExportTypeOK, MarkingHasSession
  <2>5. Marked(x) \/ MarkingFails(x)
    <3>1. ASSUME NEW y \in Exports, NEW from, from # "marking", NEW to, Move(y, from, to)
          PROVE  job'[x] = job[x]
      BY <2>4, <3>1 DEF Move
    <3>2. ASSUME NEW own, Disturb(own), x \notin own
          PROVE  job'[x].session = job[x].session
      BY <2>4, <3>2, DisturbType
    <3>3. ~UNCHANGED job
      BY <2>1, <2>2
    <3>4. ~OtherStep /\ ~UNCHANGED allVars
      BY <3>3 DEF OtherStep, exportVars, allVars
    <3>5. ~\E s \in Sessions : OtherCommit(s)
      BY <2>1, <2>2, <3>2 DEF OtherCommit
    <3>6. ASSUME NEW y \in Exports,
                 \/ CountTotal(y) \/ CountApproved(y) \/ ListCurrent(y) \/ NothingToMark(y)
                 \/ Send(y) \/ \E s \in Sessions : StartMarking(y, s)
          PROVE  FALSE
      BY <2>1, <2>2, <3>1, <3>6
         DEF CountTotal, CountApproved, ListCurrent, NothingToMark, Send, StartMarking
    <3>7. ASSUME NEW y \in Exports, Abandon(y) PROVE FALSE
      BY <2>1, <2>2, <2>4, <3>7 DEF Abandon
    <3>8. ASSUME NEW y \in Exports, y # x, Marked(y) PROVE FALSE
      BY <2>1, <2>2, <3>2, <3>8 DEF Marked
    <3>9. ASSUME NEW y \in Exports, y # x, MarkingFails(y) PROVE FALSE
      BY <2>1, <2>2, <2>4, <3>9 DEF MarkingFails, Move
    <3> QED
      BY <3>4, <3>5, <3>6, <3>7, <3>8, <3>9 DEF ExportNext
  <2>6. session'[z] = IdleSession
    BY <2>1, <2>5, EndedSession DEF Marked, MarkingFails, Commit, Rollback, MarkInv, GateInv, Inv
  <2> QED
    BY <1>4, <2>6
\* An export that opens a session marks in it.
<1>5. ASSUME NEW x \in Exports, StartMarking(x, z) PROVE FALSE
  <2>1. job'[x] = [job[x] EXCEPT !.step = "marking", !.session = z] /\ job[x] \in Job
    BY <1>5 DEF StartMarking, Move, MarkInv, GateInv, ExportTypeOK
  <2> QED
    BY <2>1 DEF Marking, Job
<1> QED
  BY <1>1, <1>2, <1>3, <1>4, <1>5, SessionSteps DEF MarkInv

LEMMA MarkInvHolds == ExportSpec => []MarkInv
<1>1. ExportInit => MarkInv
  <2> SUFFICES ASSUME ExportInit PROVE MarkInv
    OBVIOUS
  <2>1. \A x \in Exports : job[x] = IdleJob
    BY DEF ExportInit
  <2>2. FilesAreAnswered /\ MarkingStaysInFile
    BY <2>1, IdleJobIsClean, ExportAssumption DEF FilesAreAnswered, MarkingStaysInFile
  <2>3. \A s \in Sessions : session[s] = IdleSession
    BY DEF ExportInit, Init
  <2>4. OnlyExportsMark
    BY <2>3, IdleHoldsNothing DEF OnlyExportsMark, ExportsNothing
  <2> QED
    BY <2>2, <2>4, ExportInitEstablishesGateInv DEF MarkInv
<1>2. MarkInv /\ [ExportNext]_allVars => MarkInv'
  <2> SUFFICES ASSUME MarkInv, [ExportNext]_allVars PROVE MarkInv'
    OBVIOUS
  <2>1. GateInv'
    BY ExportNextKeepsGateInv DEF MarkInv
  <2> QED
    BY <2>1, FilesStayAnswered, MarkingStepsStayInFile, OnlyExportsKeepMarking DEF MarkInv
<1> QED
  BY <1>1, <1>2, PTL DEF ExportSpec

\* A transaction that exports nothing commits nothing that is newly exported.
LEMMA CommitExportsNothing ==
  ASSUME Inv, NEW s \in Sessions, ExportsNothing(s), Commit(s),
         NEW i \in Ids, rows'[i].status = "exported"
  PROVE  rows[i].status = "exported"
<1> DEFINE old == session[s].loaded[i]
           new == session[s].staged[i]
<1>1. rows'[i] = Written(s, i) /\ old \in Row /\ new \in Row /\ rows[i] \in Row
  BY DEF Commit, Inv, TypeOK, Session
<1>2. CASE i \notin Dirty(s)
  BY <1>1, <1>2 DEF Written
<1>3. CASE i \in Dirty(s) /\ ~Present(old)
  BY <1>1, <1>3 DEF Written, ExportsNothing, Present
<1>4. CASE i \in Dirty(s) /\ Present(old) /\ new.current # old.current
  BY <1>1, <1>4 DEF Written, Row
<1>5. CASE i \in Dirty(s) /\ Present(old) /\ new.current = old.current
  <2>1. new.status = "exported"
    BY <1>1, <1>5 DEF Written, Row
  <2>2. old.status = "exported"
    BY <2>1 DEF ExportsNothing
  <2>3. SameContent(old, rows[i])
    BY <1>5 DEF Commit, StaleRow, Inv, VersionNamesContent
  <2> QED
    BY <1>1, <2>2, <2>3, SameContentAgrees
<1> QED
  BY <1>2, <1>3, <1>4, <1>5

\* A row becomes exported only by the export that has rendered a file with the
\* row's signed-off answer in it, whatever else runs.
THEOREM RowsAreMarkedAfterRendering == ExportSpec => MarkedAfterRendered
<1> DEFINE Rendered == \A i \in Ids :
       rows[i].status # "exported" /\ rows'[i].status = "exported" =>
         \E x \in Exports : /\ job[x].step = "marking"
                            /\ \E l \in Answered(job[x].file) : l.id = i
<1>1. MarkInv /\ [ExportNext]_allVars => Rendered
  <2> SUFFICES ASSUME MarkInv, [ExportNext]_allVars, NEW i \in Ids,
                      rows[i].status # "exported", rows'[i].status = "exported"
               PROVE  \E x \in Exports : /\ job[x].step = "marking"
                                         /\ \E l \in Answered(job[x].file) : l.id = i
    OBVIOUS
  <2>1. rows' # rows
    OBVIOUS
  <2>2. ASSUME NEW s \in Sessions, OtherCommit(s) PROVE FALSE
    BY <2>2, CommitExportsNothing DEF OtherCommit, MarkInv, GateInv, OnlyExportsMark
  <2>3. PICK x \in Exports : Marked(x)
    <3>1. ASSUME NEW s \in Sessions, Decide(s) \/ Produce(s) PROVE FALSE
      BY <2>1, <3>1, RequestsLeaveMarking DEF MarkInv
    <3>2. ~OtherStep
      BY <2>1, <3>1 DEF OtherStep, Read, Open, Rollback
    <3> QED
      BY <2>1, <2>2, <3>2
         DEF ExportNext, allVars, vars, CountTotal, CountApproved, ListCurrent, StartMarking,
             MarkExported, NothingToMark, MarkingFails, Rollback, Send, Abandon
  <2>4. job[x].step = "marking" /\ job[x].session \in Sessions /\ Commit(job[x].session)
    BY <2>3 DEF Marked, MarkInv, GateInv, MarkingHasSession
  <2>5. i \in Dirty(job[x].session)
    BY <2>4 DEF Commit, Written
  <2>6. PICK l \in job[x].file : l.id = i /\ l.status = "approved"
    BY <2>4, <2>5 DEF MarkInv, MarkingStaysInFile, Exportable
  <2>7. l \in Answered(job[x].file)
    BY <2>6 DEF Answered, MarkInv, FilesAreAnswered, SIGNED_OFF
  <2> QED
    BY <2>4, <2>6, <2>7
<1> QED
  BY <1>1, MarkInvHolds, PTL DEF ExportSpec, MarkedAfterRendered

-----------------------------------------------------------------------------
(***************************************************************************)
(* The export that nobody disturbs.  What it has found out at one          *)
(* statement is still so at the next, because every commit of another      *)
(* session, an export's included, disturbs it.                             *)
(***************************************************************************)
GateIsOpen == MandatoryIds # {} /\ SignedOffIds = MandatoryIds

ListedApproved == {i \in ListedIds : rows[i].status = "approved"}

FileIsTheTable(x) == job[x].file = {LineOf(i) : i \in ListedIds}

\* The transaction of the export is about to freeze every approved answer.
MarksAllApproved(x) ==
  LET s == job[x].session
  IN  /\ Dirty(s) = ListedApproved
      /\ \A i \in ListedApproved : /\ session[s].loaded[i] = rows[i]
                                 /\ session[s].staged[i] = Exported(rows[i])

FileIsRecorded(x) ==
  /\ {l.id : l \in job[x].file} = ListedIds
  /\ \A l \in job[x].file :
        /\ l.mandatory = rows[l.id].mandatory
        /\ l.mandatory => l.status \in SIGNED_OFF /\ l.text # NoText
        /\ l.text # NoText => /\ rows[l.id].status = "exported"
                              /\ FinalText(rows[l.id]) = l.text

Quiet(x) ==
  ~job[x].disturbed =>
    /\ job[x].step = "counting" =>
          MandatoryIds # {} /\ job[x].total = Cardinality(MandatoryIds)
    /\ job[x].step \in {"listing", "rendering", "marking", "sending"} => GateIsOpen
    /\ job[x].step \in {"rendering", "marking"} => FileIsTheTable(x)
    /\ job[x].step = "marking" => MarksAllApproved(x)
    /\ job[x].step = "sending" => FileIsRecorded(x)

QuietInv == GateInv /\ \A x \in Exports : Quiet(x)

\* What the statements of an export read of a table that has not moved.
LEMMA TableStays ==
  ASSUME rows' = rows
  PROVE  /\ CurrentIds' = CurrentIds /\ MandatoryIds' = MandatoryIds
         /\ SignedOffIds' = SignedOffIds /\ ListedApproved' = ListedApproved
         /\ GateIsOpen' = GateIsOpen
         /\ ListedIds' = ListedIds
         /\ {LineOf(i) : i \in ListedIds}' = {LineOf(i) : i \in ListedIds}
<1>1. CurrentIds' = CurrentIds
  BY DEF CurrentIds
<1>2. MandatoryIds' = MandatoryIds /\ ListedIds' = ListedIds
  BY <1>1 DEF MandatoryIds, ListedIds
<1>3. SignedOffIds' = SignedOffIds /\ ListedApproved' = ListedApproved
  BY <1>2 DEF SignedOffIds, ListedApproved
<1>4. {LineOf(i) : i \in ListedIds}' = {LineOf(i) : i \in ListedIds}
  BY <1>2 DEF LineOf
<1> QED
  BY <1>1, <1>2, <1>3, <1>4 DEF GateIsOpen

\* The table, the job and its transaction as they were.
LEMMA SameStaysQuiet ==
  ASSUME NEW x \in Exports, Quiet(x), rows' = rows, job'[x] = job[x],
         job[x].step = "marking" => session'[job[x].session] = session[job[x].session]
  PROVE  Quiet(x)'
<1>1. FileIsTheTable(x)' = FileIsTheTable(x)
  BY TableStays DEF FileIsTheTable
<1>2. job[x].step = "marking" => MarksAllApproved(x)' = MarksAllApproved(x)
  BY TableStays DEF MarksAllApproved, Dirty
<1>3. FileIsRecorded(x)' = FileIsRecorded(x)
  BY TableStays DEF FileIsRecorded
<1> QED
  BY <1>1, <1>2, <1>3, TableStays DEF Quiet

\* The two counts agree only when every mandatory row is signed off.
LEMMA EqualCountsOpenTheGate ==
  ASSUME MandatoryIds # {}, ~(Cardinality(SignedOffIds) < Cardinality(MandatoryIds))
  PROVE  GateIsOpen
<1>1. IsFiniteSet(MandatoryIds)
  BY ExportAssumption, FS_Subset DEF MandatoryIds, CurrentIds
<1>2. SignedOffIds \subseteq MandatoryIds
  BY DEF SignedOffIds
<1>3. /\ IsFiniteSet(SignedOffIds) /\ Cardinality(SignedOffIds) <= Cardinality(MandatoryIds)
      /\ Cardinality(SignedOffIds) = Cardinality(MandatoryIds) => SignedOffIds = MandatoryIds
  BY <1>1, <1>2, FS_Subset
<1>4. Cardinality(MandatoryIds) \in Nat /\ Cardinality(SignedOffIds) \in Nat
  BY <1>1, <1>3, FS_CardinalityType
<1> QED
  BY <1>3, <1>4 DEF GateIsOpen

\* What a file that shows the table as it is may hold.
LEMMA ListedLines ==
  ASSUME GateInv, NEW x \in Exports, GateIsOpen, FileIsTheTable(x)
  PROVE  /\ {l.id : l \in job[x].file} = ListedIds
         /\ Exportable(job[x].file) = ListedApproved
         /\ StillApproved(Exportable(job[x].file)) = ListedApproved
         /\ \A l \in job[x].file :
               /\ l.id \in ListedIds /\ l = LineOf(l.id)
               /\ l.mandatory = rows[l.id].mandatory /\ l.status = rows[l.id].status
               /\ l.mandatory => l.status \in SIGNED_OFF /\ l.text # NoText
               /\ l.text # NoText => /\ SignedOff(rows[l.id])
                                     /\ FinalText(rows[l.id]) = l.text
<1>1. ASSUME NEW i \in ListedIds
      PROVE  /\ LineOf(i).id = i /\ LineOf(i).mandatory = rows[i].mandatory
             /\ LineOf(i).status = rows[i].status
             /\ LineOf(i).text = IF SignedOff(rows[i]) THEN FinalText(rows[i]) ELSE NoText
             /\ LineOf(i) \in job[x].file
  BY DEF LineOf, FileIsTheTable
<1>2. ASSUME NEW l \in job[x].file
      PROVE  l.id \in ListedIds /\ l = LineOf(l.id)
  BY <1>1 DEF FileIsTheTable
<1>3. ASSUME NEW i \in ListedIds, rows[i].mandatory
      PROVE  SignedOff(rows[i]) /\ FinalText(rows[i]) # NoText
  <2>1. SignedOff(rows[i]) /\ i \in Ids
    BY <1>3, ListedAreCurrent DEF GateIsOpen, MandatoryIds, SignedOffIds, CurrentIds
  <2> QED
    BY <2>1 DEF GateInv, Inv, SignaturesHold, Signature, HasWords
<1>4. {l.id : l \in job[x].file} = ListedIds
  BY <1>1, <1>2
<1>5. Exportable(job[x].file) = ListedApproved
  BY <1>1, <1>2 DEF Exportable, ListedApproved
<1>6. StillApproved(ListedApproved) = ListedApproved
  BY DEF StillApproved, ListedApproved
<1>7. ASSUME NEW l \in job[x].file
      PROVE  /\ l.id \in ListedIds /\ l = LineOf(l.id)
             /\ l.mandatory = rows[l.id].mandatory /\ l.status = rows[l.id].status
             /\ l.mandatory => l.status \in SIGNED_OFF /\ l.text # NoText
             /\ l.text # NoText => /\ SignedOff(rows[l.id])
                                   /\ FinalText(rows[l.id]) = l.text
  <2>1. PICK i \in ListedIds : l = LineOf(i) /\ l.id = i
    BY <1>1, <1>2
  <2> QED
    BY <1>1, <1>3, <2>1 DEF SignedOff
<1> QED
  BY <1>4, <1>5, <1>6, <1>7

\* The commit of an undisturbed marking freezes every approved row and moves
\* nothing else.
LEMMA MarkingFreezes ==
  ASSUME GateInv, NEW x \in Exports, job[x].session \in Sessions,
         MarksAllApproved(x), Commit(job[x].session), NEW i \in Ids
  PROVE  /\ rows'[i].current = rows[i].current /\ rows'[i].mandatory = rows[i].mandatory
         /\ rows'[i].ref = rows[i].ref
         /\ SignedOff(rows'[i]) <=> SignedOff(rows[i])
         /\ FinalText(rows'[i]) = FinalText(rows[i])
         /\ i \in ListedIds /\ SignedOff(rows[i]) => rows'[i].status = "exported"
<1> DEFINE s == job[x].session
<1>1. rows'[i] = Written(s, i) /\ rows[i] \in Row
  BY DEF Commit, GateInv, Inv, TypeOK
<1>2. CASE i \notin ListedApproved
  <2>1. rows'[i] = rows[i]
    BY <1>1, <1>2 DEF Written, MarksAllApproved
  <2> QED
    BY <1>2, <2>1 DEF ListedApproved, SignedOff, SIGNED_OFF
<1>3. CASE i \in ListedApproved
  <2>1. /\ i \in Dirty(s) /\ session[s].loaded[i] = rows[i]
        /\ session[s].staged[i] = Exported(rows[i])
    BY <1>3 DEF MarksAllApproved
  <2>2. rows[i].status = "approved" /\ Present(rows[i])
    BY <1>3 DEF ListedApproved, Present
  <2>3. PICK e : e = Exported(rows[i])
    OBVIOUS
  <2>4. /\ e.current = rows[i].current /\ e.mandatory = rows[i].mandatory
        /\ e.ref = rows[i].ref
        /\ e.status = "exported" /\ e.answer = rows[i].answer /\ e.edited = rows[i].edited
        /\ [e EXCEPT !.current = rows[i].current] = e
    BY <1>1, <2>3 DEF Exported, Row
  <2>5. rows'[i] = e
    BY <1>1, <2>1, <2>2, <2>3, <2>4 DEF Written
  <2> QED
    BY <2>2, <2>4, <2>5 DEF SignedOff, SIGNED_OFF, FinalText
<1> QED
  BY <1>2, <1>3

\* An export that marks undisturbed has its file recorded and leaves the gate open.
LEMMA MarkedIsQuiet ==
  ASSUME GateInv, NEW x \in Exports, Quiet(x), Marked(x), ~job[x].disturbed
  PROVE  Quiet(x)'
<1>1. /\ job[x].step = "marking" /\ job[x].session \in Sessions
      /\ Commit(job[x].session) /\ Disturb({x}) /\ job \in [Exports -> Job]
  BY DEF Marked, GateInv, MarkingHasSession, ExportTypeOK
<1>2. GateIsOpen /\ FileIsTheTable(x) /\ MarksAllApproved(x)
  BY <1>1 DEF Quiet
<1>3. job'[x].step = "sending" /\ job'[x].file = job[x].file
  BY <1>1, DisturbType
<1>4. ASSUME NEW i \in Ids
      PROVE  /\ rows'[i].current = rows[i].current /\ rows'[i].mandatory = rows[i].mandatory
             /\ rows'[i].ref = rows[i].ref
             /\ SignedOff(rows'[i]) <=> SignedOff(rows[i])
             /\ FinalText(rows'[i]) = FinalText(rows[i])
             /\ i \in ListedIds /\ SignedOff(rows[i]) => rows'[i].status = "exported"
  BY <1>1, <1>2, MarkingFreezes
<1>5. CurrentIds' = CurrentIds /\ ListedIds' = ListedIds
  <2>1. CurrentIds' = CurrentIds
    BY <1>4 DEF CurrentIds
  <2>2. ASSUME NEW i \in CurrentIds
        PROVE  {k \in CurrentIds \ {i} : RefOrder[rows[k].ref] < RefOrder[rows[i].ref]}
                 = {k \in CurrentIds \ {i} : RefOrder[rows'[k].ref] < RefOrder[rows'[i].ref]}
    BY <1>4 DEF CurrentIds
  <2> QED
    BY <2>1, <2>2 DEF ListedIds
<1>6. MandatoryIds' = MandatoryIds
  BY <1>4, <1>5 DEF MandatoryIds, CurrentIds
<1>7. SignedOffIds' = SignedOffIds
  BY <1>4, <1>6 DEF SignedOffIds, MandatoryIds, CurrentIds
<1>8. GateIsOpen'
  BY <1>2, <1>6, <1>7 DEF GateIsOpen
<1>9. FileIsRecorded(x)'
  <2>1. {l.id : l \in job'[x].file} = ListedIds'
    BY <1>2, <1>3, <1>5, ListedLines
  <2>2. ASSUME NEW l \in job'[x].file
        PROVE  /\ l.mandatory = rows'[l.id].mandatory
               /\ l.mandatory => l.status \in SIGNED_OFF /\ l.text # NoText
               /\ l.text # NoText => /\ rows'[l.id].status = "exported"
                                     /\ FinalText(rows'[l.id]) = l.text
    <3>1. l.id \in ListedIds /\ l.id \in Ids
      BY <1>2, <1>3, <2>2, ListedLines, ListedAreCurrent DEF CurrentIds
    <3> QED
      BY <1>2, <1>3, <1>4, <2>2, <3>1, ListedLines
  <2> QED
    BY <2>1, <2>2 DEF FileIsRecorded
<1> QED
  BY <1>3, <1>8, <1>9 DEF Quiet

\* Nothing to mark: what is signed off in the file had been exported before.
LEMMA NothingToMarkIsQuiet ==
  ASSUME GateInv, NEW x \in Exports, Quiet(x), NothingToMark(x), ~job[x].disturbed
  PROVE  Quiet(x)'
<1>1. /\ job[x].step = "rendering" /\ job[x] \in Job /\ job \in [Exports -> Job]
      /\ job' = [job EXCEPT ![x] = [job[x] EXCEPT !.step = "sending"]]
      /\ StillApproved(Exportable(job[x].file)) = {} /\ rows' = rows
  BY DEF NothingToMark, Move, vars, GateInv, ExportTypeOK
<1>2. GateIsOpen /\ FileIsTheTable(x)
  BY <1>1 DEF Quiet
<1>3. job'[x].step = "sending" /\ job'[x].file = job[x].file
  BY <1>1 DEF Job
<1>4. ListedApproved = {}
  BY <1>1, <1>2, ListedLines
<1>5. \A i \in ListedIds : SignedOff(rows[i]) => rows[i].status = "exported"
  BY <1>4 DEF ListedApproved, SignedOff, SIGNED_OFF
<1>6. FileIsRecorded(x)
  BY <1>2, <1>5, ListedLines DEF FileIsRecorded
<1>7. FileIsRecorded(x)'
  BY <1>1, <1>3, <1>6, TableStays DEF FileIsRecorded
<1>8. GateIsOpen'
  BY <1>1, <1>2, TableStays
<1> QED
  BY <1>3, <1>7, <1>8 DEF Quiet

\* The statements of _collect.
LEMMA CollectIsQuiet ==
  ASSUME GateInv, NEW x \in Exports, Quiet(x),
         CountTotal(x) \/ CountApproved(x) \/ ListCurrent(x), ~job'[x].disturbed
  PROVE  Quiet(x)'
<1>1. rows' = rows /\ job \in [Exports -> Job] /\ job[x] \in Job
  BY DEF CountTotal, CountApproved, ListCurrent, vars, GateInv, ExportTypeOK
<1>2. CASE CountTotal(x)
  <2>1. /\ job'[x].step = "counting" /\ job'[x].total = Cardinality(MandatoryIds)
        /\ MandatoryIds # {}
    BY <1>1, <1>2 DEF CountTotal, Move, IdleJob
  <2> QED
    BY <1>1, <2>1, TableStays DEF Quiet
<1>3. CASE CountApproved(x)
  <2>1. CASE Cardinality(SignedOffIds) < job[x].total
    <3>1. job'[x].step = "idle"
      BY <1>1, <1>3, <2>1 DEF CountApproved, Move, IdleJob
    <3> QED
      BY <3>1 DEF Quiet
  <2>2. CASE ~(Cardinality(SignedOffIds) < job[x].total)
    <3>1. /\ job[x].step = "counting" /\ job'[x].step = "listing"
          /\ job'[x].disturbed = job[x].disturbed
      BY <1>1, <1>3, <2>2 DEF CountApproved, Move, Job
    <3>2. MandatoryIds # {} /\ job[x].total = Cardinality(MandatoryIds)
      BY <3>1 DEF Quiet
    <3>3. GateIsOpen
      BY <2>2, <3>2, EqualCountsOpenTheGate
    <3>4. GateIsOpen'
      BY <1>1, <3>3, TableStays
    <3> QED
      BY <3>1, <3>4 DEF Quiet
  <2> QED
    BY <2>1, <2>2
<1>4. CASE ListCurrent(x)
  <2> DEFINE lines == {LineOf(i) : i \in ListedIds}
  <2> HIDE DEF lines
  <2>1. job' = [job EXCEPT ![x] = [job[x] EXCEPT !.step = "rendering", !.file = lines]]
    BY <1>4 DEF ListCurrent, Move, lines
  <2>2. /\ job'[x].step = "rendering" /\ job'[x].file = lines
        /\ job'[x].disturbed = job[x].disturbed
    BY <1>1, <2>1 DEF Job
  <2>3. job[x].step = "listing"
    BY <1>4 DEF ListCurrent, Move
  <2>4. GateIsOpen
    BY <2>2, <2>3 DEF Quiet
  <2>5. GateIsOpen' /\ FileIsTheTable(x)'
    BY <1>1, <2>2, <2>4, TableStays DEF FileIsTheTable, lines
  <2> QED
    BY <2>2, <2>5 DEF Quiet
<1> QED
  BY <1>2, <1>3, <1>4

\* The transaction opened over an undisturbed file marks all that is approved.
LEMMA StartMarkingIsQuiet ==
  ASSUME GateInv, NEW x \in Exports, NEW s \in Sessions, Quiet(x),
         StartMarking(x, s), ~job'[x].disturbed
  PROVE  Quiet(x)'
<1> DEFINE I == StillApproved(Exportable(job[x].file))
<1>1. /\ rows' = rows /\ job \in [Exports -> Job] /\ job[x] \in Job
      /\ job[x].step = "rendering"
      /\ job' = [job EXCEPT ![x] = [job[x] EXCEPT !.step = "marking", !.session = s]]
      /\ Stage(s, NoClient, "none", [i \in I |-> Exported(rows[i])]) /\ Idle(s)
  BY DEF StartMarking, MarkExported, Move, GateInv, ExportTypeOK
<1>2. /\ job'[x].step = "marking" /\ job'[x].session = s /\ job'[x].file = job[x].file
      /\ job'[x].disturbed = job[x].disturbed
  BY <1>1 DEF Job
<1>3. GateIsOpen /\ FileIsTheTable(x)
  BY <1>1, <1>2 DEF Quiet
<1>4. I = ListedApproved
  BY <1>3, ListedLines
<1>5. /\ \A i \in I : i \in Ids => /\ session'[s].loaded[i] = rows[i]
                                 /\ session'[s].staged[i] = Exported(rows[i])
      /\ \A i \in Ids : i \notin I => session'[s].loaded[i] = session'[s].staged[i]
  BY <1>1, Staged, IdleIsClean, IdleHoldsNothing DEF GateInv, Inv, Idle
<1> HIDE DEF I
<1>6. \A i \in ListedApproved : /\ i \in Ids /\ rows[i].status = "approved"
                                /\ Exported(rows[i]).status = "exported"
  BY ListedAreCurrent DEF ListedApproved, CurrentIds, Exported, GateInv, Inv, TypeOK, Row
<1>7. Dirty(s)' = ListedApproved
  BY <1>4, <1>5, <1>6 DEF Dirty
<1>8. MarksAllApproved(x)'
  BY <1>1, <1>2, <1>4, <1>5, <1>6, <1>7, TableStays DEF MarksAllApproved
<1>9. GateIsOpen' /\ FileIsTheTable(x)'
  BY <1>1, <1>2, <1>3, TableStays DEF FileIsTheTable
<1> QED
  BY <1>2, <1>8, <1>9 DEF Quiet

\* The steps of another export, and of another request, that commit nothing.
LEMMA OtherExportLeavesQuiet ==
  ASSUME GateInv, NEW x \in Exports, NEW y \in Exports, y # x, Quiet(x),
         \/ CountTotal(y) \/ CountApproved(y) \/ ListCurrent(y) \/ NothingToMark(y)
         \/ MarkingFails(y) \/ Send(y) \/ Abandon(y)
         \/ \E s \in Sessions : StartMarking(y, s)
  PROVE  Quiet(x)'
<1>1. job \in [Exports -> Job]
  BY DEF GateInv, ExportTypeOK
<1>2. job'[x] = job[x]
  BY <1>1 DEF CountTotal, CountApproved, ListCurrent, NothingToMark, MarkingFails, Send,
              Abandon, StartMarking, Move
<1>3. rows' = rows
  BY DEF CountTotal, CountApproved, ListCurrent, NothingToMark, MarkingFails, Rollback, Send,
         Abandon, StartMarking, MarkExported, vars
<1>4. SUFFICES ASSUME job[x].step = "marking"
               PROVE  session'[job[x].session] = session[job[x].session]
  BY <1>2, <1>3, SameStaysQuiet
<1>5. job[x].session \in Sessions /\ Dirty(job[x].session) # {}
  BY <1>4 DEF GateInv, MarkingHasSession, MarkingOnlyMarks
<1>6. ASSUME NEW s \in Sessions, StartMarking(y, s)
      PROVE  session'[job[x].session] = session[job[x].session]
  <2>1. Idle(s) /\ \A z \in Sessions : z # s => session'[z] = session[z]
    BY <1>6, Staged DEF StartMarking, MarkExported, GateInv, Inv
  <2> QED
    BY <1>5, <2>1, IdleIsClean
<1>7. ASSUME MarkingFails(y)
      PROVE  session'[job[x].session] = session[job[x].session]
  <2>1. job[y].session \in Sessions
    BY <1>7 DEF MarkingFails, Move, GateInv, MarkingHasSession
  <2>2. job[y].session # job[x].session
    BY <1>5, <2>1 DEF GateInv, MarkingIsPrivate
  <2> QED
    BY <1>5, <1>7, <2>1, <2>2, EndedSession DEF MarkingFails, Rollback, GateInv, Inv
<1> QED
  BY <1>6, <1>7 DEF CountTotal, CountApproved, ListCurrent, NothingToMark, Send, Abandon, vars

LEMMA NextKeepsQuiet ==
  ASSUME QuietInv, [ExportNext]_allVars, NEW x \in Exports
  PROVE  Quiet(x)'
<1>1. GateInv /\ Quiet(x) /\ job \in [Exports -> Job] /\ job[x] \in Job
  BY DEF QuietInv, GateInv, ExportTypeOK
<1>2. SUFFICES ASSUME ~job'[x].disturbed, job'[x].step # "idle"
               PROVE  Quiet(x)'
  BY DEF Quiet
<1>3. ASSUME NEW own, Disturb(own), x \notin own PROVE FALSE
  BY <1>1, <1>2, <1>3 DEF Disturb, Job
<1>4. CASE UNCHANGED allVars
  BY <1>1, <1>4, SameStaysQuiet DEF allVars
<1>5. CASE OtherStep
  <2>1. rows' = rows /\ job' = job /\ MarkingUntouched
    BY <1>1, <1>5, OtherStepLeavesMarking
  <2>2. job[x].step = "marking" => session'[job[x].session] = session[job[x].session]
    BY <1>1, <2>1 DEF MarkingUntouched, GateInv, MarkingHasSession
  <2> QED
    BY <1>1, <2>1, <2>2, SameStaysQuiet
<1>6. ASSUME NEW s \in Sessions, OtherCommit(s) PROVE Quiet(x)'
  BY <1>3, <1>6 DEF OtherCommit
<1>7. ASSUME NEW y \in Exports, Marked(y) PROVE Quiet(x)'
  <2>1. y = x
    BY <1>3, <1>7 DEF Marked
  <2>2. ~job[x].disturbed
    BY <1>1, <1>2, <1>7, <2>1 DEF Marked, Disturb, Job
  <2> QED
    BY <1>1, <1>7, <2>1, <2>2, MarkedIsQuiet
<1>8. CASE CountTotal(x) \/ CountApproved(x) \/ ListCurrent(x)
  BY <1>1, <1>2, <1>8, CollectIsQuiet
<1>9. ASSUME NEW s \in Sessions, StartMarking(x, s) PROVE Quiet(x)'
  BY <1>1, <1>2, <1>9, StartMarkingIsQuiet
<1>10. CASE NothingToMark(x)
  <2>1. ~job[x].disturbed
    BY <1>1, <1>2, <1>10 DEF NothingToMark, Move, Job
  <2> QED
    BY <1>1, <1>10, <2>1, NothingToMarkIsQuiet
<1>11. CASE MarkingFails(x) \/ Send(x) \/ Abandon(x)
  BY <1>1, <1>2, <1>11, IdleJobIsClean DEF MarkingFails, Send, Abandon, Move
<1>12. ASSUME NEW y \in Exports, y # x,
              \/ CountTotal(y) \/ CountApproved(y) \/ ListCurrent(y) \/ NothingToMark(y)
              \/ MarkingFails(y) \/ Send(y) \/ Abandon(y)
              \/ \E s \in Sessions : StartMarking(y, s)
       PROVE  Quiet(x)'
  BY <1>1, <1>12, OtherExportLeavesQuiet
<1> QED
  BY <1>4, <1>5, <1>6, <1>7, <1>8, <1>9, <1>10, <1>11, <1>12 DEF ExportNext

LEMMA QuietInvHolds == ExportSpec => []QuietInv
<1>1. ExportInit => QuietInv
  <2> SUFFICES ASSUME ExportInit PROVE QuietInv
    OBVIOUS
  <2>1. \A x \in Exports : job[x].step = "idle"
    BY IdleJobIsClean DEF ExportInit
  <2> QED
    BY <2>1, ExportInitEstablishesGateInv DEF QuietInv, Quiet
<1>2. QuietInv /\ [ExportNext]_allVars => QuietInv'
  BY ExportNextKeepsGateInv, NextKeepsQuiet DEF QuietInv
<1> QED
  BY <1>1, <1>2, PTL DEF ExportSpec

\* With no more current rows than one export lists, all of them are listed.
LEMMA FewRowsAreAllListed ==
  ASSUME Cardinality(CurrentIds) <= MaxListed
  PROVE  ListedIds = CurrentIds
<1>1. IsFiniteSet(CurrentIds) /\ MaxListed \in Nat
  BY ExportAssumption, FS_Subset DEF CurrentIds
<1>2. ASSUME NEW i \in CurrentIds
      PROVE  i \in ListedIds
  <2> DEFINE before == {k \in CurrentIds \ {i} :
                          RefOrder[rows[k].ref] < RefOrder[rows[i].ref]}
  <2>1. before \in SUBSET CurrentIds /\ i \notin before
    OBVIOUS
  <2> HIDE DEF before
  <2>2. /\ IsFiniteSet(before) /\ Cardinality(before) <= Cardinality(CurrentIds)
        /\ Cardinality(before) # Cardinality(CurrentIds)
    BY <1>1, <2>1, FS_Subset
  <2>3. Cardinality(before) < MaxListed
    BY <1>1, <2>2, FS_CardinalityType
  <2> QED
    BY <2>3 DEF ListedIds, before
<1> QED
  BY <1>2, ListedAreCurrent

\* The gate is exact: a file that leaves undisturbed, from a workspace with no
\* more requirements than one export lists, holds every live requirement, and
\* a signed answer to every mandatory one.
THEOREM QuietFilesAreComplete == ExportSpec => []QuietFileIsComplete
<1>1. QuietInv => QuietFileIsComplete
  <2> SUFFICES ASSUME QuietInv, NEW x \in Exports,
                      job[x].step = "sending", ~job[x].disturbed,
                      Cardinality(CurrentIds) <= MaxListed
               PROVE  /\ \E l \in job[x].file : l.mandatory
                      /\ \A l \in job[x].file : l.mandatory =>
                            l.status \in SIGNED_OFF /\ l.text # NoText
                      /\ {l.id : l \in job[x].file} = CurrentIds
    BY DEF QuietFileIsComplete
  <2>1. GateIsOpen /\ FileIsRecorded(x) /\ ListedIds = CurrentIds
    BY FewRowsAreAllListed DEF QuietInv, Quiet
  <2>2. PICK i \in ListedIds : rows[i].mandatory
    BY <2>1 DEF GateIsOpen, MandatoryIds
  <2>3. PICK l \in job[x].file : l.id = i
    BY <2>1, <2>2 DEF FileIsRecorded
  <2> QED
    BY <2>1, <2>2, <2>3 DEF FileIsRecorded
<1> QED
  BY <1>1, QuietInvHolds, PTL

\* Every answer an undisturbed export ships is frozen in these words before
\* the file leaves.
THEOREM QuietFilesAreRecorded == ExportSpec => []QuietFileIsRecorded
<1>1. QuietInv => QuietFileIsRecorded
  BY DEF QuietInv, Quiet, FileIsRecorded, QuietFileIsRecorded, Answered
<1> QED
  BY <1>1, QuietInvHolds, PTL

\* An undisturbed export leaves the gate open for the next one: marking takes
\* no mandatory answer out of what count_approved counts.
THEOREM ExportsKeepGateOpen == ExportSpec => []ExportKeepsGateOpen
<1>1. QuietInv => ExportKeepsGateOpen
  BY DEF QuietInv, Quiet, GateIsOpen, ExportKeepsGateOpen
<1> QED
  BY <1>1, QuietInvHolds, PTL

=============================================================================
