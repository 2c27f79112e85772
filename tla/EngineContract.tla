--------------------------- MODULE EngineContract ---------------------------
(***************************************************************************)
(* What an engine promises to its worker, with no file, program or format  *)
(* in sight: a run returns once, or its process is gone and it never does; *)
(* and a run that met no other one, and in which nothing failed, returns   *)
(* an error or the result of its own request.                              *)
(***************************************************************************)
CONSTANTS
    Runs,       \* calls of ProcessRequest
    Partners,   \* Partners[r]: the other runs in the files of r
    Errors,     \* results that are errors
    Dones,      \* results that are not
    Own,        \* Own[r]: the one that belongs to the request of r
    NoResult    \* no result yet

VARIABLES
    state,      \* state[r]: "idle", "working", "returned", "dead" or "orphan"
    result,     \* what r returned
    disturbed,  \* runs that worked in their files together with another
    flawed      \* runs in which something failed

contractVars == <<state, result, disturbed, flawed>>

Init ==
    /\ state = [r \in Runs |-> "idle"]
    /\ result = [r \in Runs |-> NoResult]
    /\ disturbed = {} /\ flawed = {}

-----------------------------------------------------------------------------
(* The dead leave their files alone, an orphaned program does not.          *)
Met(r) == {q \in Partners[r] : state[q] \in {"working", "orphan"}}

Enters(r, s) ==
    /\ state[r] = "idle" /\ state' = [state EXCEPT ![r] = s]
    /\ disturbed' = disturbed \cup Met(r) \cup {q \in {r} : Met(r) # {}}
    /\ flawed' \in {flawed, flawed \cup {r}}

Begin(r) == Enters(r, "working") /\ UNCHANGED result

(* A run that fails at once has touched its files all the same.             *)
Refuse(r) ==
    /\ Enters(r, "returned")
    /\ \E x \in Errors : result' = [result EXCEPT ![r] = x]

Flaw(r) ==
    /\ state[r] = "working"
    /\ flawed' = flawed \cup {r}
    /\ UNCHANGED <<state, result, disturbed>>

Return(r) ==
    /\ state[r] = "working" /\ state' = [state EXCEPT ![r] = "returned"]
    /\ \E x \in Errors \cup (IF r \in disturbed \cup flawed THEN Dones ELSE {Own[r]}) :
        result' = [result EXCEPT ![r] = x]
    /\ UNCHANGED <<disturbed, flawed>>

(* The process of r is gone; a program it started may live on, and end.     *)
Die(r) ==
    /\ \/ state[r] = "working" /\ \E s \in {"dead", "orphan"} : state' = [state EXCEPT ![r] = s]
       \/ state[r] = "orphan" /\ state' = [state EXCEPT ![r] = "dead"]
    /\ UNCHANGED <<result, disturbed, flawed>>

Next == \E r \in Runs : Begin(r) \/ Refuse(r) \/ Flaw(r) \/ Return(r) \/ Die(r)

Spec == Init /\ [][Next]_contractVars
=============================================================================
