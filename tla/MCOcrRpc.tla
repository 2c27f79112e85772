------------------------------ MODULE MCOcrRpc ------------------------------
(* Instances of OcrRpc for TLC. *)
EXTENDS OcrRpc, TLC

CONSTANTS c1, c2, kA, kB, w1, w2, p1, p2

(* The preprocessor chains.                                                 *)
NoChain == [c \in Calls |-> <<>>]
OneChain == [c \in Calls |-> IF c = c1 THEN <<kA>> ELSE <<>>]
TwoInChain == [c \in Calls |-> IF c = c1 THEN <<kA, kB>> ELSE <<kB>>]

(* The preprocessors.                                                       *)
NoPreps == [p \in {} |-> kA]
OnePrep == p1 :> kA
TwoPreps == (p1 :> kA) @@ (p2 :> kB)

SyncAndPost == [c \in Calls |-> IF c = c1 THEN "sync" ELSE "post"]

(* ksuids, or a req_id both clients chose.                                  *)
OwnIds == [c \in Calls |-> c]
SameId == [c \in Calls |-> "req_id"]
=============================================================================
