----------------------------- MODULE ExportGate -----------------------------
(***************************************************************************)
(* ExportService over the proposals table: the gate, the bundle, and the   *)
(* marking of what was shipped.                                            *)
(*                                                                         *)
(* _collect runs the gate and reads the rows in one transaction, but under *)
(* READ COMMITTED each of its three statements (count the mandatory rows,  *)
(* count the signed-off ones, list the current rows) sees the table as it  *)
(* stands at that statement.  The file is rendered from the list outside   *)
(* any transaction, the approved rows are then marked in a second one, and *)
(* the file is handed out when that one has committed.                     *)
(***************************************************************************)
EXTENDS Proposals

CONSTANTS
  Exports,   \* export requests in flight
  NoSession,
  RefOrder,  \* how the database sorts the references
  MaxListed  \* the most rows one export lists: 10,000

ASSUME ExportAssumption ==
  /\ NoSession \notin Sessions
  /\ IsFiniteSet(Ids)
  /\ RefOrder \in [Refs -> Nat]
  /\ \A r, q \in Refs : RefOrder[r] = RefOrder[q] => r = q
  /\ MaxListed \in Nat

VARIABLES
  job,        \* each export request
  signatures, \* auxiliary: every wording ever signed, by row
  shipped     \* auxiliary: every answer that ever left, as it left

exportVars == <<job, signatures, shipped>>
allVars    == <<rows, session, view, job, signatures, shipped>>

\* An ExportRow: what the renderers get to see of a row.
Line == [id : Ids, mandatory : BOOLEAN, status : ProposalStatus,
         text : Texts \union {NoText}]

\* disturbed is auxiliary: another session has committed since the job began.
Job == [step : {"idle", "counting", "listing", "rendering", "marking", "sending"},
        total : 0 .. Cardinality(Ids), file : SUBSET Line,
        session : Sessions \union {NoSession}, disturbed : BOOLEAN]
IdleJob == [step |-> "idle", total |-> 0, file |-> {}, session |-> NoSession,
            disturbed |-> FALSE]

ExportTypeOK ==
  /\ TypeOK
  /\ job \in [Exports -> Job]
  /\ signatures \subseteq Ids \X Texts
  /\ shipped \subseteq Line

-----------------------------------------------------------------------------
CurrentIds   == {i \in Ids : rows[i].current}
MandatoryIds == {i \in CurrentIds : rows[i].mandatory}

\* Mutants of SignedOffIds: any reviewed row counts; an exported one does not.
ReviewedIds == {i \in MandatoryIds : rows[i].status \notin {"draft", "abstained"}}
ApprovedIds == {i \in MandatoryIds : rows[i].status = "approved"}

\* list_current: the first rows in the order of their references.
ListedIds ==
  {i \in CurrentIds :
     LET others == CurrentIds \ {i}
     IN  Cardinality({k \in others : RefOrder[rows[k].ref] < RefOrder[rows[i].ref]})
            < MaxListed}

\* count_approved, over all of them
SignedOffIds == {i \in MandatoryIds : SignedOff(rows[i])}

\* Mutant of LineOf: the wording is there whoever signed it off.
LineWithWords(i) ==
  [id |-> i, mandatory |-> rows[i].mandatory,
   status |-> rows[i].status, text |-> FinalText(rows[i])]

\* _to_row: the wording of a row nobody signed off is dropped here.
LineOf(i) ==
  [id |-> i, mandatory |-> rows[i].mandatory,
   status |-> rows[i].status,
   text |-> IF SignedOff(rows[i]) THEN FinalText(rows[i]) ELSE NoText]

\* Mutants of Exportable: only what the gate counts; what is approved by now.
ExportableMandatory(file) ==
  {l.id : l \in {k \in file : k.status = "approved" /\ k.mandatory}}
ExportableNow(file) == {i \in CurrentIds : rows[i].status = "approved"}

Answered(file)   == {l \in file : l.text # NoText}
Exportable(file) == {l.id : l \in {k \in file : k.status = "approved"}}

Move(x, from, to) == job[x].step = from /\ job' = [job EXCEPT ![x] = to]

\* The first count.  A workspace without mandatory rows is refused.
CountTotal(x) ==
  /\ Managers # {}
  /\ MandatoryIds # {}
  /\ Move(x, "idle", [IdleJob EXCEPT !.step = "counting",
                                     !.total = Cardinality(MandatoryIds)])
  /\ UNCHANGED <<vars, signatures, shipped>>

\* The second count, and the gate.
CountApproved(x) ==
  /\ Move(x, "counting",
          IF Cardinality(SignedOffIds) < job[x].total THEN IdleJob
          ELSE [job[x] EXCEPT !.step = "listing"])
  /\ UNCHANGED <<vars, signatures, shipped>>

\* list_current and the bundle.
ListCurrent(x) ==
  /\ Move(x, "listing", [job[x] EXCEPT !.step = "rendering",
                                       !.file = {LineOf(i) : i \in ListedIds}])
  /\ UNCHANGED <<vars, signatures, shipped>>

\* The file exists: open the transaction that marks its approved rows.
StartMarking(x, s) ==
  /\ MarkExported(s, Exportable(job[x].file))
  /\ Move(x, "rendering", [job[x] EXCEPT !.step = "marking", !.session = s])
  /\ UNCHANGED <<signatures, shipped>>

\* Nothing to mark: everything in the file had been exported before, or was
\* revoked while the file was rendered.
NothingToMark(x) ==
  /\ StillApproved(Exportable(job[x].file)) = {}
  /\ Move(x, "rendering", [job[x] EXCEPT !.step = "sending"])
  /\ UNCHANGED <<vars, signatures, shipped>>

\* A commit is noticed by every export under way except its own.
Disturb(own) ==
  job' = [x \in Exports |->
            IF x \in own THEN [job[x] EXCEPT !.step = "sending", !.session = NoSession]
            ELSE IF job[x].step # "idle" THEN [job[x] EXCEPT !.disturbed = TRUE]
            ELSE job[x]]

\* Mutant of Marked: an UPDATE by primary key, whatever happened to the row.
MarkedByKey(x) ==
  LET s == job[x].session
  IN  /\ job[x].step = "marking"
      /\ rows' = [i \in Ids |-> Written(s, i)]
      /\ session' = [session EXCEPT ![s] = IdleSession]
      /\ Disturb({x})
      /\ UNCHANGED <<view, signatures, shipped>>

Marked(x) ==
  /\ job[x].step = "marking"
  /\ Commit(job[x].session)
  /\ Disturb({x})
  /\ UNCHANGED <<signatures, shipped>>

\* The caller gets an error and no file.
MarkingFails(x) ==
  /\ job[x].session # NoSession
  /\ Rollback(job[x].session)
  /\ Move(x, "marking", IdleJob)
  /\ UNCHANGED <<signatures, shipped>>

Send(x) ==
  /\ Move(x, "sending", IdleJob)
  /\ shipped' = shipped \union Answered(job[x].file)
  /\ UNCHANGED <<vars, signatures>>

\* A renderer that fails (an Arabic PDF without the font), a process killed
\* before the answer left.
Abandon(x) ==
  /\ job[x].step \in {"rendering", "sending"}
  /\ job' = [job EXCEPT ![x] = IdleJob]
  /\ UNCHANGED <<vars, signatures, shipped>>

\* Every other request.
Marking(s) == \E x \in Exports : job[x].session = s

OtherCommit(s) ==
  /\ ~Marking(s)
  /\ Commit(s)
  /\ signatures' = signatures \union
       {<<i, rows'[i].signed>> : i \in {k \in Ids : rows'[k].status = "approved"}}
  /\ Disturb({})
  /\ UNCHANGED shipped

OtherStep ==
  /\ \/ Read
     \/ \E s \in Sessions : \/ Decide(s)
                            \/ Produce(s)
                            \/ ~Marking(s) /\ Rollback(s)
  /\ UNCHANGED exportVars

-----------------------------------------------------------------------------
ExportInit ==
  /\ Init
  /\ job = [x \in Exports |-> IdleJob]
  /\ signatures = {}
  /\ shipped = {}

ExportNext ==
  \/ OtherStep
  \/ \E s \in Sessions : OtherCommit(s)
  \/ \E x \in Exports : \/ CountTotal(x)
                        \/ CountApproved(x)
                        \/ ListCurrent(x)
                        \/ \E s \in Sessions : StartMarking(x, s)
                        \/ NothingToMark(x)
                        \/ Marked(x)
                        \/ MarkingFails(x)
                        \/ Send(x)
                        \/ Abandon(x)

ExportSpec == ExportInit /\ [][ExportNext]_allVars

-----------------------------------------------------------------------------
(***************************************************************************)
(* Properties                                                              *)
(***************************************************************************)

\* Nothing leaves unsigned: every answer in a file that is being rendered or
\* has been sent was at some time signed off in exactly these words, however
\* rows moved between the gate, the list and the marking (_collect, _to_row).
OnlySignedWordsLeave ==
  /\ \A l \in shipped : <<l.id, l.text>> \in signatures
  /\ \A x \in Exports : \A l \in Answered(job[x].file) :
        <<l.id, l.text>> \in signatures

\* The gate itself is exact: when no other request commits while an export
\* runs, and the workspace has no more requirements than one export lists, the
\* file holds all of them, every mandatory one with a signed answer (_collect).
QuietFileIsComplete ==
  \A x \in Exports :
     /\ job[x].step = "sending" /\ ~job[x].disturbed
     /\ Cardinality(CurrentIds) <= MaxListed
     => /\ \E l \in job[x].file : l.mandatory
        /\ \A l \in job[x].file : l.mandatory =>
              l.status \in SIGNED_OFF /\ l.text # NoText
        /\ {l.id : l \in job[x].file} = CurrentIds

\* A quiet export records what it shipped: every answer in the file is
\* frozen in these words before the file leaves (_mark_exported).
QuietFileIsRecorded ==
  \A x \in Exports : job[x].step = "sending" /\ ~job[x].disturbed =>
     \A l \in Answered(job[x].file) :
        rows[l.id].status = "exported" /\ FinalText(rows[l.id]) = l.text

\* An export does not lock the workspace out of the next one: a submission
\* needs the document and the matrix (SIGNED_OFF, count_approved).
ExportKeepsGateOpen ==
  \A x \in Exports : job[x].step = "sending" /\ ~job[x].disturbed =>
     MandatoryIds # {} /\ SignedOffIds = MandatoryIds

\* An answer becomes exported only by the request that has rendered a file
\* with that answer in it, signed off, and never before (export).
MarkedAfterRendered ==
  [][\A i \in Ids : rows[i].status # "exported" /\ rows'[i].status = "exported" =>
       \E x \in Exports : /\ job[x].step = "marking"
                          /\ \E l \in Answered(job[x].file) : l.id = i]_allVars

\* Every step of the export is a step of the table's specification, so what
\* is proved of Proposals holds of the table under exports.
ImplementsProposals == Spec

=============================================================================
