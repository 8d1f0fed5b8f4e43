---------------------------- MODULE MCExportGate ----------------------------
(* Small instances of ExportGate. *)
EXTENDS ExportGate, TLC

CONSTANTS r1, r2, manager, t1, t2

\* r1 comes first.
MCRefOrder == [r \in Refs |-> IF r = r1 THEN 1 ELSE 2]

MCRole == [c \in Clients |-> "bid_manager"]

TwoRequirements == {[ref |-> r1, mandatory |-> TRUE],
                    [ref |-> r2, mandatory |-> FALSE]}

OneOutcome == {[answer |-> t1, cited |-> TRUE,
                status |-> "draft"]}

Symmetry == Permutations(Ids) \union Permutations(Sessions) \union Permutations(Exports)
=============================================================================
