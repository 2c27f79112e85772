--------------------------- MODULE MCResultStorage ---------------------------
(* Instances of ResultStorage for TLC. *)
EXTENDS ResultStorage

CONSTANTS c1, c2, i1, i2

OwnIds == [c \in Calls |-> IF c = c1 THEN i1 ELSE i2]
=============================================================================
