------------------------------- MODULE SignOff -------------------------------
(***************************************************************************)
(* What the review gate promises, without versions, sessions or indexes:   *)
(* an answer is signed by one manager who has its words in front of them,  *)
(* a signature lasts until the answer is withdrawn, rewritten or shipped,  *)
(* and what has shipped is never touched again.  Every decision is one     *)
(* atomic step on an answer that is still what the client is looking at.   *)
(***************************************************************************)
CONSTANTS Ids, Texts, NoText, Clients, Managers, NoClient, NoId

VARIABLES
  answers,  \* every answer ever produced
  reading   \* the answer, and the words, each client is looking at

vars == <<answers, reading>>

Answer == [words : Texts \union {NoText}, by : Clients \union {NoClient},
           stage : {"absent", "open", "signed", "shipped"}]

NoAnswer == [words |-> NoText, by |-> NoClient, stage |-> "absent"]

\* Client c is looking at answer i, exactly as it stands.
UpToDate(c, i) ==
  reading[c] = [id |-> i, words |-> answers[i].words]

Look(c, i) ==
  /\ answers[i].stage # "absent"
  /\ reading' = [reading EXCEPT ![c] = [id |-> i, words |-> answers[i].words]]
  /\ UNCHANGED answers

\* Generation and extraction add unsigned answers and touch no other.
Publish ==
  /\ answers' # answers
  /\ \A i \in Ids : \/ answers'[i] = answers[i]
                    \/ /\ answers[i].stage = "absent"
                       /\ answers'[i].stage = "open"
                       /\ answers'[i].by = NoClient
  /\ UNCHANGED reading

Sign(c, i) ==
  /\ c \in Managers
  /\ UpToDate(c, i)
  /\ answers[i].stage = "open"
  /\ answers[i].words # NoText
  /\ answers' = [answers EXCEPT ![i].stage = "signed", ![i].by = c]
  /\ UNCHANGED reading

\* A rejection, an escalation or a return to review.
Withdraw(c, i) ==
  /\ UpToDate(c, i)
  /\ answers[i].stage = "signed"
  /\ answers' = [answers EXCEPT ![i].stage = "open", ![i].by = NoClient]
  /\ UNCHANGED reading

Rewrite(c, i) ==
  /\ UpToDate(c, i)
  /\ answers[i].stage \in {"open", "signed"}
  /\ \E t \in Texts :
        answers' = [answers EXCEPT ![i] = [words |-> t, by |-> NoClient, stage |-> "open"]]
  /\ UNCHANGED reading

Ship ==
  /\ \E sent \in SUBSET {i \in Ids : answers[i].stage = "signed"} :
        /\ sent # {}
        /\ answers' = [i \in Ids |-> IF i \in sent
                                     THEN [answers[i] EXCEPT !.stage = "shipped"]
                                     ELSE answers[i]]
  /\ UNCHANGED reading

Init ==
  /\ answers = [i \in Ids |-> NoAnswer]
  /\ reading = [c \in Clients |-> [id |-> NoId, words |-> NoText]]

Next ==
  \/ Publish
  \/ Ship
  \/ \E c \in Clients, i \in Ids :
        Look(c, i) \/ Sign(c, i) \/ Withdraw(c, i) \/ Rewrite(c, i)

Spec == Init /\ [][Next]_vars
=============================================================================
