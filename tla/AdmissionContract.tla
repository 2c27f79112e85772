------------------------- MODULE AdmissionContract -------------------------
(***************************************************************************)
(* What the http daemon promises at its door: a request to /ocr enters only *)
(* if it found the gate open, a stop shuts the gate for good, and the      *)
(* daemon leaves, once called, when no deferred request is counted.  No    *)
(* manager, mutex or report is in sight.                                   *)
(***************************************************************************)
CONSTANTS
    Requests,   \* HTTP requests for OCR
    Uploads,    \* those that no gate stops
    Deferred    \* those that are counted

VARIABLES
    gate,       \* "open", "shut" or "stopped"
    tickets,    \* requests that found the gate open
    place,      \* place[r]: "outside", "refused", "inside", "counted" or "done"
    closing     \* "serving", "called", "leaving" or "exited"

contractVars == <<gate, tickets, place, closing>>

Init ==
    /\ gate = "shut" /\ tickets = {}
    /\ place = [r \in Requests |-> "outside"]
    /\ closing = "serving"

-----------------------------------------------------------------------------
Swing == /\ gate # "stopped" /\ gate' \in {"open", "shut"}
         /\ UNCHANGED <<tickets, place, closing>>

Stop == /\ gate # "stopped" /\ closing # "serving"
        /\ gate' = "stopped"
        /\ UNCHANGED <<tickets, place, closing>>

(* A ticket stays good: between the look at the gate and the entrance the   *)
(* gate may shut and the stop come.                                         *)
Knock(r) == /\ gate = "open" /\ place[r] = "outside"
            /\ tickets' = tickets \cup {r}
            /\ UNCHANGED <<gate, place, closing>>

Move(r, from, to) == /\ place[r] \in from /\ place' = [place EXCEPT ![r] = to]
                     /\ UNCHANGED <<gate, tickets, closing>>

Enter(r) == r \in tickets \cup Uploads /\ Move(r, {"outside"}, "inside")
Refuse(r) == r \notin Uploads /\ Move(r, {"outside"}, "refused")
Count(r) == r \in Deferred /\ Move(r, {"inside"}, "counted")
Finish(r) == Move(r, {"inside", "counted"}, "done")

Close(from, to) == closing = from /\ closing' = to /\ UNCHANGED <<gate, tickets, place>>

Call == Close("serving", "called")
Leave == Close("called", "leaving") /\ \A r \in Requests : place[r] # "counted"
Exit == Close("leaving", "exited")

Next ==
    /\ closing # "exited"
    /\ \/ Swing \/ Stop \/ Call \/ Leave \/ Exit
       \/ \E r \in Requests : Knock(r) \/ Enter(r) \/ Refuse(r) \/ Count(r) \/ Finish(r)

Spec == Init /\ [][Next]_contractVars
=============================================================================
