---------------------------- MODULE MCResManager ----------------------------
(* Instances of ResManager for TLC. *)
EXTENDS ResManager

CONSTANTS r1, r2, r3
=============================================================================
