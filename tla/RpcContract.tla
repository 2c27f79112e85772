----------------------------- MODULE RpcContract -----------------------------
(***************************************************************************)
(* What DecodeImage promises to its handler, with no broker, worker,       *)
(* preprocessor or connection in sight: a call returns once and for all;   *)
(* it is accepted only after its request was sent; at most one answer is   *)
(* ever handed to it; and an answer is the result of a request that was    *)
(* sent, under the name of this call.                                      *)
(***************************************************************************)
CONSTANTS
    Calls,         \* the calls of DecodeImage
    NoCall,        \* no call
    ModeOf,        \* ModeOf[c]: "sync", "poll" or "post"
    AddressedTo    \* AddressedTo[c]: the calls whose answers bear c's name

VARIABLES
    submitted,     \* calls whose request was sent
    outcome,       \* what a call returned
    listening,     \* calls that may still be handed an answer
    chan,          \* the answer that was handed over and not yet received
    got            \* the answer a synchronous call returned

contractVars == <<submitted, outcome, listening, chan, got>>

Init ==
    /\ submitted = {}
    /\ outcome = [c \in Calls |-> "none"]
    /\ listening = Calls
    /\ chan = [c \in Calls |-> {}]
    /\ got = [c \in Calls |-> NoCall]

-----------------------------------------------------------------------------
Ends(c, r) == outcome[c] = "none" /\ outcome' = [outcome EXCEPT ![c] = r]

Submit(c) ==
    /\ outcome[c] = "none" /\ c \notin submitted
    /\ submitted' = submitted \cup {c}
    /\ UNCHANGED <<outcome, listening, chan, got>>

(* The call fails before its request was sent.                              *)
Refuse(c) ==
    /\ c \notin submitted
    /\ \E r \in {"rejected", "error", "emptyOk"} : Ends(c, r)
    /\ UNCHANGED <<submitted, listening, chan, got>>

Accept(c) ==
    /\ c \in submitted /\ ModeOf[c] # "sync"
    /\ Ends(c, "processing")
    /\ UNCHANGED <<submitted, listening, chan, got>>

Receive(c) ==
    /\ c \in submitted /\ ModeOf[c] = "sync"
    /\ \E o \in chan[c] :
        /\ got' = [got EXCEPT ![c] = o]
        /\ chan' = [chan EXCEPT ![c] = @ \ {o}]
    /\ Ends(c, "result")
    /\ UNCHANGED <<submitted, listening>>

TimeOut(c) ==
    /\ c \in submitted /\ ModeOf[c] = "sync"
    /\ Ends(c, "timeout")
    /\ UNCHANGED <<submitted, listening, chan, got>>

(* An answer arrives: the first and the last one.                           *)
Hand(c) ==
    /\ c \in listening
    /\ \E o \in submitted \cap AddressedTo[c] : chan' = [chan EXCEPT ![c] = {o}]
    /\ listening' = listening \ {c}
    /\ UNCHANGED <<submitted, outcome, got>>

(* No answer will.                                                          *)
Deafen(c) ==
    /\ c \in listening
    /\ listening' = listening \ {c}
    /\ UNCHANGED <<submitted, outcome, chan, got>>

Next ==
    \E c \in Calls :
        \/ Submit(c) \/ Refuse(c) \/ Accept(c) \/ Receive(c) \/ TimeOut(c)
        \/ Hand(c) \/ Deafen(c)

Spec == Init /\ [][Next]_contractVars
=============================================================================
