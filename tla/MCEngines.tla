------------------------------ MODULE MCEngines ------------------------------
(* Instances of Engines for TLC. *)
EXTENDS Engines, TLC

CONSTANTS r1, r2, j1, j2, t1, p1

(* Two clients chose the same req_id.  Where they ask for the same, it is   *)
(* as if the second run were a redelivery of the first, with the images     *)
(* marked to tell them apart.                                               *)
TwoClients == (r1 :> j1) @@ (r2 :> j2)
SameId == [j \in Jobs |-> "req_id"]
ByUrl == [j \in Jobs |-> "url"]

OfFirst == [t \in Scans |-> j1]
FirstImage == [p \in Passes |-> j1]

Kind(args, type, format, optimize) ==
    [args |-> args, type |-> type, format |-> format, optimize |-> optimize]

(* Each path through processImageFile, with and without a conversion.       *)
SomeKinds == {Kind(TRUE, "PDF", "COMBINEDPDF", TRUE), Kind(TRUE, "TIFF", "TXT", FALSE),
              Kind(TRUE, "TIFF", "OCRLAYERONLY", FALSE), Kind(TRUE, "PDF", "COMBINEDPDF", FALSE),
              Kind(FALSE, "TIFF", "other", FALSE), Kind(TRUE, "UNKNOWN", "TXT", FALSE)}

(* The components share no variable, so only one of them moves at a time.   *)
OneAtATime ==
    Cardinality({k \in 1..3 : \/ k = 1 /\ pc # [r \in Runs |-> "idle"]
                              \/ k = 2 /\ tpc # [t \in Scans |-> "idle"]
                              \/ k = 3 /\ ppc # [p \in Passes |-> "idle"]}) <= 1
=============================================================================
