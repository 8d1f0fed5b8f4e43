---------------------------- MODULE MCIngestion ----------------------------
(* Small instances of Ingestion. *)
EXTENDS Ingestion, TLC

CONSTANTS d1, d2, c1, c2, c3, u1, u2, w1, w2

Symmetry == Permutations(Docs) \union Permutations(Uploads) \union Permutations(Workers)
=============================================================================
