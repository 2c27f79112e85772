--------------------------- MODULE ResultContract ---------------------------
(***************************************************************************)
(* What the daemon promises of deferred calls, with no counter, timer,     *)
(* retry or goroutine in sight: an accepted call is listed under its id    *)
(* once; its result is received once, by one receiver; and an id is struck *)
(* off only after a call of that id was received or given up.              *)
(***************************************************************************)
CONSTANTS
    Calls,      \* the deferred calls
    Ids,        \* request ids
    IdOf,       \* IdOf[c]: the id of c; calls may share one
    Receivers,  \* who may receive a result
    None        \* no call

VARIABLES
    listed,     \* listed[i]: the call that a client who asks for i is led to
    accepted,   \* calls that were listed
    answered,   \* calls whose result has come
    receiver,   \* receiver[c]: who received it, or "nobody"
    over        \* calls that were given up

contractVars == <<listed, accepted, answered, receiver, over>>

Init ==
    /\ listed = [i \in Ids |-> None]
    /\ accepted = {} /\ answered = {} /\ over = {}
    /\ receiver = [c \in Calls |-> "nobody"]

-----------------------------------------------------------------------------
(* A later call of the same id takes the place of an earlier one.           *)
Accept(c) ==
    /\ c \notin accepted
    /\ accepted' = accepted \cup {c}
    /\ listed' = [listed EXCEPT ![IdOf[c]] = c]
    /\ UNCHANGED <<answered, receiver, over>>

(* The result may come before the call is accepted.                         *)
Answer(c) ==
    /\ c \notin answered
    /\ answered' = answered \cup {c}
    /\ UNCHANGED <<listed, accepted, receiver, over>>

Receive(c, x) ==
    /\ c \in accepted \cap answered /\ receiver[c] = "nobody"
    /\ receiver' = [receiver EXCEPT ![c] = x]
    /\ UNCHANGED <<listed, accepted, answered, over>>

GiveUp(c) ==
    /\ c \in accepted \ over
    /\ over' = over \cup {c}
    /\ UNCHANGED <<listed, accepted, answered, receiver>>

Done(c) == c \in accepted /\ (receiver[c] # "nobody" \/ c \in over)

Strike(i) ==
    /\ listed[i] # None
    /\ \E c \in Calls : IdOf[c] = i /\ Done(c)
    /\ listed' = [listed EXCEPT ![i] = None]
    /\ UNCHANGED <<accepted, answered, receiver, over>>

Next ==
    \/ \E c \in Calls : \/ Accept(c) \/ Answer(c) \/ GiveUp(c)
                       \/ \E x \in Receivers : Receive(c, x)
    \/ \E i \in Ids : Strike(i)

Spec == Init /\ [][Next]_contractVars
=============================================================================
