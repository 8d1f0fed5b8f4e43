----------------------------- MODULE MCProposals -----------------------------
(* Small instances of Proposals. *)
EXTENDS Proposals, TLC

CONSTANTS r1, r2, manager, colleague, expert, t1, t2

\* Two bid managers and one subject-matter expert.
MCRole == [c \in Clients |-> CASE c = manager -> "bid_manager"
                                [] c = colleague -> "owner"
                                [] OTHER -> "sme"]

\* One mandatory requirement, or one mandatory and one optional.
OneRequirement  == {[ref |-> r1, mandatory |-> TRUE]}
TwoRequirements == {[ref |-> r1, mandatory |-> TRUE],
                    [ref |-> r2, mandatory |-> FALSE]}

Cited     == [answer |-> t1, cited |-> TRUE, status |-> "draft"]
Uncited   == [answer |-> t1, cited |-> FALSE, status |-> "draft"]
Abstained == [answer |-> NoText, cited |-> FALSE,
              status |-> "abstained"]
OneOutcome  == {Cited}
AllOutcomes == {Cited, Uncited, Abstained}

Symmetry == Permutations(Ids) \union Permutations(Sessions)
=============================================================================
