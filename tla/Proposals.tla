------------------------------ MODULE Proposals ------------------------------
(***************************************************************************)
(* The generated_proposals table and every transaction that writes it.     *)
(*                                                                         *)
(* A row is one version of the answer to one tender requirement.  Four     *)
(* kinds of request write rows: a reviewer's decision or rewrite           *)
(* (ReviewService), a generation that supersedes the current row           *)
(* (GenerationService), an extraction that registers unanswered rows       *)
(* (RequirementService), and an export that freezes approved rows          *)
(* (ExportService).                                                        *)
(*                                                                         *)
(* Each request runs in its own SQLAlchemy session: it loads rows, checks  *)
(* its guards on what it loaded, changes the loaded objects, and flushes   *)
(* them.  Other sessions commit in between.  Nothing takes a row lock      *)
(* before the flush, so what stands between two concurrent decisions is    *)
(* the version column and one partial unique index.  A session is modelled *)
(* in two steps: the handler up to its flush (Review, Edit, Generate,      *)
(* MarkExported), and the flush with its commit (Commit).  Row locks are   *)
(* held from flush to commit and uncommitted rows are invisible, so these  *)
(* two are one step for every other session.  The registration of what an  *)
(* extraction found (LookUp, SaveFound, Overwrite) reads and saves one     *)
(* requirement after the other in one session, and others commit between   *)
(* any two of its statements.  It flushes every save, so a request for the *)
(* same row waits for it; here that request may go first and the           *)
(* registration then fails, which commits nothing the code could not.      *)
(***************************************************************************)
EXTENDS Integers, FiniteSets, Functions

CONSTANTS
  Ids,           \* primary keys (random UUIDs, compared for equality only)
  Refs,          \* requirement references of one workspace
  Texts,         \* answer wordings
  NoText,        \* NULL, "" or white space: no words wherever the code looks
  Clients,       \* signed-in browser tabs, each acting for one user
  Role,          \* the role in each client's access token
  NoClient,      \* NULL in a user column
  NoId, NoRef,
  Sessions,      \* concurrent database sessions
  Requirements,  \* what extraction or a generate call names: ref, mandatory
  Outcomes,      \* what the answer chain may return
  NoteInputs,    \* review notes the clients send
  MaxVersion     \* bound on the version column

UserRoles == {"owner", "bid_manager", "sme", "viewer"}
Managers  == {c \in Clients : Role[c] \in {"owner", "bid_manager"}}

ProposalStatus == {"draft", "abstained", "pending_review", "needs_sme",
                   "rejected", "approved", "exported"}
Notes    == {"none", "blank", "written"}   \* NULL, "", something written

\* What AnswerChain.run hands to save_generation.
Outcome == [answer : Texts \union {NoText}, cited : BOOLEAN,
            status : {"draft", "abstained"}]

ASSUME ConstantsAssumption ==
  /\ NoText \notin Texts
  /\ NoClient \notin Clients
  /\ NoId \notin Ids
  /\ NoRef \notin Refs
  /\ Role \in [Clients -> UserRoles]
  /\ Requirements \subseteq [ref : Refs, mandatory : BOOLEAN]
  /\ Outcomes \subseteq Outcome
  /\ \A o \in Outcomes : o.status = "abstained" => o.answer = NoText
  /\ NoteInputs \subseteq Notes
  /\ MaxVersion \in Nat \ {0}

VARIABLES
  rows,     \* the committed table
  session,  \* open transactions, by session
  view      \* what each client has on screen

vars == <<rows, session, view>>

(***************************************************************************)
(* Types.  One column of a row is auxiliary, in no table: signed is the    *)
(* wording the approver had on screen.                                     *)
(***************************************************************************)
Row == [ref       : Refs \union {NoRef},
        mandatory : BOOLEAN,
        answer    : Texts \union {NoText},
        edited    : Texts \union {NoText},
        cited     : BOOLEAN,
        status    : ProposalStatus \union {"absent"},
        reviewer  : Clients \union {NoClient},
        sme       : Clients \union {NoClient},
        notes     : Notes,
        version   : 0 .. MaxVersion,
        current   : BOOLEAN,
        previous  : Ids \union {NoId},
        signed    : Texts \union {NoText}]

\* A primary key no row has been inserted under.
NoRow == [ref |-> NoRef, mandatory |-> FALSE, answer |-> NoText,
          edited |-> NoText, cited |-> FALSE, status |-> "absent",
          reviewer |-> NoClient, sme |-> NoClient,
          notes |-> "none", version |-> 0, current |-> FALSE,
          previous |-> NoId, signed |-> NoText]

EmptyTable == [i \in Ids |-> NoRow]

\* A session is the identity map of an ORM session: rows as loaded and as
\* they stand in memory.  What differs is dirty and is written at the flush.
\* A registration also holds the requirement it has looked up in vain and is
\* about to save.  known is auxiliary: the rows that were there when it began.
Session == [client : Clients \union {NoClient},
            mode   : {"none", "register", "overwrite"},
            looked : SUBSET Requirements, known : SUBSET Ids,
            loaded : [Ids -> Row], staged : [Ids -> Row]]
IdleSession == [client |-> NoClient, mode |-> "none", looked |-> {}, known |-> {},
                loaded |-> EmptyTable, staged |-> EmptyTable]

View == [id : Ids \union {NoId}, version : 0 .. MaxVersion,
         text : Texts \union {NoText}]
NoView == [id |-> NoId, version |-> 0, text |-> NoText]

TypeOK ==
  /\ rows \in [Ids -> Row]
  /\ session \in [Sessions -> Session]
  /\ view \in [Clients -> View]

(***************************************************************************)
(* Rows                                                                    *)
(***************************************************************************)
Present(row)   == row.status # "absent"
FinalText(row) == IF row.edited # NoText THEN row.edited ELSE row.answer
HasWords(t)    == t # NoText

SIGNED_OFF == {"approved", "exported"}
SignedOff(row) == row.status \in SIGNED_OFF

\* get_current: the live row of one requirement, if there is one.
CurrentRows(ref) == {i \in Ids : rows[i].current /\ rows[i].ref = ref}

(***************************************************************************)
(* Sessions                                                                *)
(***************************************************************************)
Dirty(s)    == {i \in Ids : session[s].staged[i] # session[s].loaded[i]}
Idle(s)     == session[s] = IdleSession
Waiting(c)  == \E s \in Sessions : session[s].client = c
UnusedIds   == {i \in Ids : /\ ~Present(rows[i])
                            /\ \A s \in Sessions : i \notin Dirty(s)}

\* Session s, for client c, takes up changed rows: those it has not changed
\* before are loaded now.
Stage(s, c, mode, changed) ==
  session' = [session EXCEPT ![s] =
    [client |-> c, mode |-> mode, looked |-> {}, known |-> session[s].known,
     loaded |-> [i \in Ids |-> IF i \in DOMAIN changed /\ i \notin Dirty(s) THEN rows[i]
                              ELSE session[s].loaded[i]],
     staged |-> [i \in Ids |-> IF i \in DOMAIN changed THEN changed[i]
                              ELSE session[s].staged[i]]]]

\* Mutant of StaleRow: no version_id_col.
NeverStale(s, i) == FALSE

\* The UPDATE carries "WHERE version = <loaded version>": a row another
\* session moved in the meantime matches nothing and raises StaleDataError.
StaleRow(s, i) == /\ Present(session[s].loaded[i])
                  /\ rows[i].version # session[s].loaded[i].version

\* What the flush leaves in row i.  Only changed columns are written, so a
\* supersede touches is_current and a decision leaves is_current alone.
Written(s, i) ==
  LET old == session[s].loaded[i]
      new == session[s].staged[i]
  IN  IF i \notin Dirty(s) THEN rows[i]
      ELSE IF ~Present(old) THEN new
      ELSE IF new.current # old.current THEN [rows[i] EXCEPT !.current = new.current]
      ELSE [new EXCEPT !.current = rows[i].current]

\* Mutant of BreaksUniqueIndex: no partial unique index.
NoIndex(s) == FALSE

\* uq_proposals_current_requirement: one live row per requirement.
BreaksUniqueIndex(s) ==
  \E i, j \in Ids : /\ i # j
                    /\ Written(s, i).current /\ Written(s, j).current
                    /\ Written(s, i).ref = Written(s, j).ref

(***************************************************************************)
(* Reading: GET /proposals/{id} puts a row on a client's screen.  A client *)
(* waits for the answer to its own request before it opens another row     *)
(* (a second browser tab is a second client).                              *)
(***************************************************************************)
Open(c, i) ==
  /\ ~Waiting(c)
  /\ Present(rows[i])
  /\ view' = [view EXCEPT ![c] = [id      |-> i,
                                  version |-> rows[i].version,
                                  text    |-> FinalText(rows[i])]]
  /\ UNCHANGED <<rows, session>>

(***************************************************************************)
(* ReviewService.apply_action                                              *)
(***************************************************************************)
TRANSITIONS ==
  [draft          |-> {"pending_review", "needs_sme", "approved", "rejected"},
   abstained      |-> {"pending_review", "needs_sme", "rejected"},
   pending_review |-> {"approved", "rejected", "needs_sme"},
   needs_sme      |-> {"pending_review", "approved", "rejected"},
   rejected       |-> {"pending_review", "needs_sme"},
   approved       |-> {"rejected", "pending_review", "needs_sme"},
   exported       |-> {}]

\* The request body: ProposalReviewAction and its validator.  Its strings
\* arrive stripped, so white space alone is "blank" and not "written".
ReviewRequest == [action : {"approved", "rejected", "needs_sme", "pending_review"},
                  notes : NoteInputs, sme : Clients \union {NoClient}, ack : BOOLEAN]
WellFormed(q) ==
  /\ q.action = "needs_sme" => q.sme # NoClient
  /\ q.action = "rejected" => q.notes = "written"
  /\ q.ack => q.action = "approved"

\* Mutant of Fresh: expected_version is not compared.
AnyVersion(c, row) == TRUE

Fresh(c, row) == row.version = view[c].version

\* Mutant of MayReview: the expert signs off what is assigned to them.
ExpertMayApprove(c, action, row) ==
  Role[c] # "viewer" /\ (Role[c] = "sme" => row.sme = c)

MayReview(c, action, row) ==
  /\ Role[c] # "viewer"
  /\ Role[c] = "sme" => action \notin {"approved", "rejected"} /\ row.sme = c

HasEvidence(row, q) ==
  /\ HasWords(FinalText(row))
  /\ row.cited \/ (q.ack /\ q.notes = "written")

\* touch_reviewed.  The approver's signature is on the words on c's screen.
Reviewed(row, c, q) ==
  [row EXCEPT !.status   = q.action,
              !.reviewer = c,
              !.version  = @ + 1,
              !.notes    = IF q.notes = "none" THEN @ ELSE q.notes,
              !.sme      = IF q.sme = NoClient THEN @ ELSE q.sme,
              !.signed   = IF q.action = "approved" THEN view[c].text ELSE NoText]

Review(s, c, q) ==
  LET i == view[c].id
  IN  /\ Idle(s) /\ ~Waiting(c)
      /\ i \in Ids
      /\ WellFormed(q)
      /\ Fresh(c, rows[i])
      /\ q.action \in TRANSITIONS[rows[i].status]
      /\ MayReview(c, q.action, rows[i])
      /\ q.action = "approved" => HasEvidence(rows[i], q)
      /\ rows[i].version < MaxVersion
      /\ Stage(s, c, "none", [k \in {i} |-> Reviewed(rows[i], c, q)])
      /\ UNCHANGED <<rows, view>>

(***************************************************************************)
(* ReviewService.apply_edit                                                *)
(***************************************************************************)
\* Mutant of EDITABLE: what has been exported can still be edited.
AlsoExported == ProposalStatus

EDITABLE == ProposalStatus \ {"exported"}

MayEdit(c, row) ==
  /\ Role[c] # "viewer"
  /\ Role[c] = "sme" => row.sme = c

\* ProposalRepository.apply_edit: an edit of an approved row revokes it.
Rewritten(row, text, notes) ==
  LET revoked == row.status = "approved"
  IN  [row EXCEPT !.edited   = text,
                  !.version  = @ + 1,
                  !.notes    = IF notes = "none" THEN @ ELSE notes,
                  !.status   = IF revoked THEN "pending_review" ELSE @,
                  !.reviewer = IF revoked THEN NoClient ELSE @,
                  !.signed   = NoText]

Edit(s, c, text, notes) ==
  LET i == view[c].id
  IN  /\ Idle(s) /\ ~Waiting(c)
      /\ i \in Ids
      /\ Fresh(c, rows[i])
      /\ rows[i].status \in EDITABLE
      /\ MayEdit(c, rows[i])
      /\ rows[i].version < MaxVersion
      /\ Stage(s, c, "none", [k \in {i} |-> Rewritten(rows[i], text, notes)])
      /\ UNCHANGED <<rows, view>>

(***************************************************************************)
(* ProposalRepository.save_generation                                      *)
(***************************************************************************)
\* get_current as session s sees the table: the row it has inserted itself
\* before the committed one it then superseded.
Inserted(s, ref) ==
  {i \in Dirty(s) : /\ ~Present(session[s].loaded[i])
                    /\ session[s].staged[i].current /\ session[s].staged[i].ref = ref}
GetCurrent(s, ref) ==
  IF Inserted(s, ref) # {} THEN Inserted(s, ref) ELSE CurrentRows(ref) \ Dirty(s)

Seen(s, i) == IF i \in Dirty(s) THEN session[s].staged[i] ELSE rows[i]

NewRow(s, q, o) ==
  LET prior == GetCurrent(s, q.ref)
  IN  [NoRow EXCEPT !.ref       = q.ref,
                    !.mandatory = q.mandatory,
                    !.answer    = o.answer,
                    !.cited     = o.cited,
                    !.status    = o.status,
                    !.current   = TRUE,
                    !.version   = IF prior = {} THEN 1
                                  ELSE Seen(s, CHOOSE i \in prior : TRUE).version + 1,
                    !.previous  = IF prior = {} THEN NoId
                                  ELSE CHOOSE i \in prior : TRUE]

Superseded(row) == [row EXCEPT !.current = FALSE]

\* What save_generation does to the table for requirement q, answered by o
\* and stored under the primary key new.
Saved(s, q, o, new) ==
  LET prior == GetCurrent(s, q.ref)
  IN  [i \in prior \union {new} |-> IF i \in prior THEN Superseded(Seen(s, i))
                                    ELSE NewRow(s, q, o)]

RoomFor(s, q) == \A i \in GetCurrent(s, q.ref) : Seen(s, i).version < MaxVersion

SaveGeneration(s, mode, q, o) ==
  /\ RoomFor(s, q)
  /\ \E new \in UnusedIds : Stage(s, NoClient, mode, Saved(s, q, o, new))
  /\ UNCHANGED <<rows, view>>

\* GenerationService.answer_and_save, from the point where the chain has
\* answered: the chain runs before the transaction and reads no row.
Generate(s, q, o) ==
  /\ Idle(s)
  /\ \E c \in Clients : Role[c] # "viewer"
  /\ SaveGeneration(s, "none", q, o)

(***************************************************************************)
(* RequirementService.extract_and_register, the transaction that writes.   *)
(* For every requirement the chain found, and it may find one reference    *)
(* twice, get_current looks for a row: one that is there is left alone     *)
(* unless the caller asked to overwrite, and otherwise save_generation     *)
(* reads again and saves an unanswered row.                                *)
(***************************************************************************)
Unanswered == [answer |-> NoText, cited |-> FALSE, status |-> "draft"]

\* Mutant of NotRegistered: what is registered is not skipped.
AsIfNew(s, q) == TRUE

NotRegistered(s, q) == GetCurrent(s, q.ref) = {}

\* The look that finds nothing.  One that finds a row changes nothing.
LookUp(s, q) ==
  /\ Managers # {}
  /\ Idle(s) \/ session[s].mode = "register"
  /\ session[s].looked = {}
  /\ NotRegistered(s, q)
  /\ session' = [session EXCEPT ![s].mode = "register", ![s].looked = {q},
                                ![s].known = IF Idle(s) THEN {i \in Ids : Present(rows[i])}
                                             ELSE @]
  /\ UNCHANGED <<rows, view>>

SaveFound(s, q) ==
  /\ session[s].looked = {q}
  /\ SaveGeneration(s, "register", q, Unanswered)

\* overwrite_existing: what the look finds does not matter.
Overwrite(s, q) ==
  /\ Managers # {}
  /\ Idle(s) \/ session[s].mode = "overwrite"
  /\ SaveGeneration(s, "overwrite", q, Unanswered)

(***************************************************************************)
(* ExportService._mark_exported: the collected rows that are still         *)
(* approved become exported.  Which rows an export collects is ExportGate. *)
(***************************************************************************)
\* Mutants of Exported: no new revision; the mapper generates one as well.
ExportedSilently(row) == [row EXCEPT !.status = "exported"]
ExportedTwice(row) == [row EXCEPT !.status = "exported", !.version = @ + 2]

Exported(row) == [row EXCEPT !.status = "exported", !.version = @ + 1]

StillApproved(I) == {i \in I : rows[i].status = "approved"}

MarkExported(s, I) ==
  /\ Idle(s)
  /\ StillApproved(I) # {}
  /\ \A i \in StillApproved(I) : rows[i].version < MaxVersion
  /\ Stage(s, NoClient, "none", [i \in StillApproved(I) |-> Exported(rows[i])])
  /\ UNCHANGED <<rows, view>>

(***************************************************************************)
(* The flush and commit, or the failure of either                          *)
(***************************************************************************)
Commit(s) ==
  /\ Dirty(s) # {} /\ session[s].looked = {}
  /\ \A i \in Dirty(s) : ~StaleRow(s, i)
  /\ ~BreaksUniqueIndex(s)
  /\ rows' = [i \in Ids |-> Written(s, i)]
  /\ session' = [session EXCEPT ![s] = IdleSession]
  /\ UNCHANGED view

\* StaleDataError, IntegrityError, a lost connection or a killed process.
Rollback(s) ==
  /\ ~Idle(s)
  /\ session' = [session EXCEPT ![s] = IdleSession]
  /\ UNCHANGED <<rows, view>>

-----------------------------------------------------------------------------
Init ==
  /\ rows = EmptyTable
  /\ session = [s \in Sessions |-> IdleSession]
  /\ view = [c \in Clients |-> NoView]

Read == \E c \in Clients, i \in Ids : Open(c, i)

Decide(s) ==
  \/ \E c \in Clients, q \in ReviewRequest : Review(s, c, q)
  \/ \E c \in Clients, t \in Texts, n \in NoteInputs : Edit(s, c, t, n)

Produce(s) ==
  \/ \E q \in Requirements, o \in Outcomes : Generate(s, q, o)
  \/ \E q \in Requirements : LookUp(s, q) \/ SaveFound(s, q) \/ Overwrite(s, q)

Next ==
  \/ Read
  \/ \E s \in Sessions : \/ Decide(s)
                         \/ Produce(s)
                         \/ \E I \in SUBSET Ids : MarkExported(s, I)
                         \/ Commit(s)
                         \/ Rollback(s)

Spec == Init /\ [][Next]_vars

-----------------------------------------------------------------------------
(***************************************************************************)
(* Properties                                                              *)
(***************************************************************************)

\* A requirement that has any row has exactly one live row, so it can be
\* neither counted twice nor lost by the export gate, whichever generations
\* and extractions ran at once (save_generation, the partial unique index).
OneCurrentRow ==
  \A i \in Ids : Present(rows[i]) =>
     \E j \in CurrentRows(rows[i].ref) : CurrentRows(rows[i].ref) = {j}

\* The versions of an answer form a chain: a row gives up its place to one
\* successor, for the same requirement, and never without one, so the live row
\* leads back through previous_version_id to every earlier version
\* (save_generation, the partial unique index).
HistoryIsAChain ==
  \A i \in Ids :
    LET successors == {j \in Ids : rows[j].previous = i}
    IN  /\ Cardinality(successors) =
             IF Present(rows[i]) /\ ~rows[i].current THEN 1 ELSE 0
        /\ \A j \in successors : rows[j].ref = rows[i].ref

\* The text of a signed-off row is the text its approver had on screen when
\* they approved: no edit, regeneration or concurrent decision can slide
\* other words under a signature (apply_action, apply_edit, _require_fresh).
SignatureCoversText ==
  \A i \in Ids : SignedOff(rows[i]) =>
     /\ rows[i].signed = FinalText(rows[i])
     /\ HasWords(rows[i].signed)

\* A signed-off row names the owner or bid manager who approved it, and one
\* that cites nothing carries that person's written note, also after later
\* decisions, edits and the export (_require_role, _require_evidence,
\* approved_requires_reviewer, _mark_exported).
SignatureIsAccountable ==
  \A i \in Ids : SignedOff(rows[i]) =>
     /\ rows[i].reviewer \in Managers
     /\ rows[i].cited \/ rows[i].notes = "written"

\* A registration without overwrite_existing leaves every row alone that was
\* in the table when it began, however its looks, its saves and the commits
\* of others fall between each other (extract_and_register).
KnownRowsSurvive ==
  [][\A s \in Sessions : session[s].mode = "register" /\ session'[s] # session[s] =>
        \A i \in session[s].known : rows'[i] = rows[i]]_vars

\* Equality up to is_current, the one column a supersede writes.
SameContent(r1, r2) == [r1 EXCEPT !.current = FALSE] = [r2 EXCEPT !.current = FALSE]

\* A version number names one content: whoever holds row i at its present
\* version, on screen or in an open transaction, holds what the table holds.
\* Without it an expected_version that matches proves nothing.
VersionNamesContent ==
  /\ \A c \in Clients : view[c].id # NoId =>
        LET row == rows[view[c].id]
        IN  /\ Present(row) /\ view[c].version <= row.version
            /\ view[c].version = row.version => view[c].text = FinalText(row)
  /\ \A s \in Sessions, i \in Ids :
        LET old == session[s].loaded[i]
        IN  Present(old) =>
              /\ Present(rows[i]) /\ old.version <= rows[i].version
              /\ old.version = rows[i].version => SameContent(old, rows[i])

\* No decision is lost: whenever the content of a row changes, it changes
\* from exactly the content the writing session had loaded.
NoDecisionLost ==
  [][\A i \in Ids : Present(rows[i]) /\ ~SameContent(rows[i], rows'[i]) =>
       \E s \in Sessions : /\ session[s] # session'[s]
                           /\ SameContent(session[s].loaded[i], rows[i])
                           /\ SameContent(session[s].staged[i], rows'[i])]_vars

\* What went out in a submission stays what it was: no request that was
\* already past its checks when the export committed can still change it.
ExportedIsFinal ==
  [][\A i \in Ids : rows[i].status = "exported" => SameContent(rows[i], rows'[i])]_vars

-----------------------------------------------------------------------------
(***************************************************************************)
(* Refinement: seen through what a row says and who signed it, the table   *)
(* with its sessions and version checks is the atomic sign-off register.   *)
(***************************************************************************)
StageOf(row) == CASE row.status = "absent"   -> "absent"
                  [] row.status = "approved" -> "signed"
                  [] row.status = "exported" -> "shipped"
                  [] OTHER                   -> "open"

answersBar == [i \in Ids |-> [words |-> FinalText(rows[i]),
                              by    |-> IF SignedOff(rows[i]) THEN rows[i].reviewer
                                        ELSE NoClient,
                              stage |-> StageOf(rows[i])]]
readingBar == [c \in Clients |-> [id |-> view[c].id, words |-> view[c].text]]

Abstract == INSTANCE SignOff WITH answers <- answersBar, reading <- readingBar

\* Every behaviour of the sessions is a behaviour of the atomic register:
\* concurrency adds no decision, and takes none away (ReviewService).
ImplementsSignOff == Abstract!Spec

=============================================================================
