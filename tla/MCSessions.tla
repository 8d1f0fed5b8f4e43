----------------------------- MODULE MCSessions -----------------------------
(* Small instances of Sessions. *)
EXTENDS Sessions

CONSTANTS t1, c1, c2

OneTab == [c \in Calls |-> t1]
=============================================================================
