------------------------ MODULE PreprocessorRpcWorker ------------------------
(***************************************************************************)
(* A preprocessor process: the loop of cli-preprocessor/main.go around     *)
(* PreprocessorRpcWorker.Run, and the handle goroutine.  It consumes       *)
(* without acknowledgements, so the broker forgets a request when it sends *)
(* it, and it publishes the request again under the next routing key.      *)
(***************************************************************************)
EXTENDS Broker

CONSTANTS
    Preps,      \* the preprocessor processes
    KeyOf       \* KeyOf[p]: the preprocessor p runs, its bindingKey

ASSUME PrepsAssumption == KeyOf \in [Preps -> PrepKeys]

VARIABLES
    ppc,        \* where the process stands: "main", "hung" or the step of handle
    pcur,       \* the delivery handle works on
    psession,   \* the AMQP session of the process
    pbuf,       \* deliveries in the process that handle has not taken
    applied     \* history: the preprocessors that were run on a request

prepVars == <<ppc, pcur, psession, pbuf, applied>>

PrepTypeOK ==
    /\ ppc \in [Preps -> {"main", "hung", "range", "busy"}]
    /\ pcur \in [Preps -> Calls \cup {NoCall}]
    /\ psession \in [Preps -> {"none", "open", "lost"}]
    /\ pbuf \in [Preps -> SUBSET Calls]
    /\ applied \in [Calls -> Seq(PrepKeys)]
    /\ \A p \in Preps : (pcur[p] \in Calls) <=> (ppc[p] = "busy")

PrepInit ==
    /\ ppc = [p \in Preps |-> "main"]
    /\ pcur = [p \in Preps |-> NoCall]
    /\ psession = [p \in Preps |-> "none"]
    /\ pbuf = [p \in Preps |-> {}]
    /\ applied = [c \in Calls |-> <<>>]

-----------------------------------------------------------------------------
PrepRun(p) ==
    /\ ppc[p] = "main"
    /\ ppc' = [ppc EXCEPT ![p] = "range"]
    /\ psession' = [psession EXCEPT ![p] = "open"]
    /\ declared' = declared \cup {KeyOf[p]}
    /\ UNCHANGED <<pcur, pbuf, applied>>
    /\ UNCHANGED <<queue, left, bound, callback, dropped, faults>>

(* Fault: Run returns an error.  It is logged, and the main loop waits for  *)
(* a Done that no handle will ever send.                                    *)
PrepRunFails(p) ==
    /\ ppc[p] = "main" /\ Fault
    /\ ppc' = [ppc EXCEPT ![p] = "hung"]
    /\ UNCHANGED <<pcur, psession, pbuf, applied>>
    /\ UNCHANGED <<declared, queue, left, bound, callback, dropped>>

(* Without acknowledgements a delivered request has left the broker.        *)
BrokerHandsOver(p, c) ==
    /\ psession[p] = "open" /\ c \in queue[KeyOf[p]]
    /\ queue' = [queue EXCEPT ![KeyOf[p]] = @ \ {c}]
    /\ pbuf' = [pbuf EXCEPT ![p] = @ \cup {c}]
    /\ UNCHANGED <<ppc, pcur, psession, applied>>
    /\ UNCHANGED <<declared, left, bound, callback, dropped, faults>>

PrepTakes(p, c) ==
    /\ ppc[p] = "range" /\ c \in pbuf[p]
    /\ ppc' = [ppc EXCEPT ![p] = "busy"]
    /\ pcur' = [pcur EXCEPT ![p] = c]
    /\ pbuf' = [pbuf EXCEPT ![p] = @ \ {c}]
    /\ UNCHANGED <<psession, applied, brokerVars>>

(* Faulty variant: the delivery is handled again although it was published. *)
NextDeliveryRetried(p) == UNCHANGED <<ppc, pcur>>

NextDelivery(p) ==
    /\ ppc' = [ppc EXCEPT ![p] = "range"]
    /\ pcur' = [pcur EXCEPT ![p] = NoCall]

(* handleDelivery: preprocess the image and publish the request again.      *)
PrepForwards(p) ==
    /\ ppc[p] = "busy" /\ psession[p] = "open"
    /\ applied' = [applied EXCEPT ![pcur[p]] = Append(@, KeyOf[p])]
    /\ PublishRequest(pcur[p])
    /\ NextDelivery(p)
    /\ UNCHANGED <<psession, pbuf>>
    /\ UNCHANGED <<declared, bound, callback, faults>>

(* handleDelivery fails, at its image or, on a broken session, when it      *)
(* publishes: that is logged, and the request is gone.                      *)
PrepLosesRequest(p) ==
    /\ ppc[p] = "busy"
    /\ dropped' = dropped \cup {pcur[p]}
    /\ NextDelivery(p)
    /\ UNCHANGED <<psession, pbuf, applied>>
    /\ UNCHANGED <<declared, queue, left, bound, callback>>

PrepPublishFails(p) ==
    psession[p] = "lost" /\ PrepLosesRequest(p) /\ UNCHANGED faults

(* Fault: preprocessImage returns an error.                                 *)
PreprocessFails(p) == Fault /\ PrepLosesRequest(p)

(* The deliveries channel is closed, with it go the buffered deliveries.    *)
PrepDeliveriesClosed(p) ==
    /\ ppc[p] = "range" /\ psession[p] = "lost"
    /\ ppc' = [ppc EXCEPT ![p] = "main"]
    /\ psession' = [psession EXCEPT ![p] = "none"]
    /\ pbuf' = [pbuf EXCEPT ![p] = {}]
    /\ dropped' = dropped \cup pbuf[p]
    /\ UNCHANGED <<pcur, applied>>
    /\ UNCHANGED <<declared, queue, left, bound, callback, faults>>

-----------------------------------------------------------------------------
(* Fault: the session breaks; the process does not notice at once.          *)
PrepSessionLost(p) ==
    /\ psession[p] = "open" /\ Fault
    /\ psession' = [psession EXCEPT ![p] = "lost"]
    /\ UNCHANGED <<ppc, pcur, pbuf, applied>>
    /\ UNCHANGED <<declared, queue, left, bound, callback, dropped>>

(* Fault: the process is killed and started again.                          *)
PrepCrashes(p) ==
    /\ ppc[p] \in {"range", "busy"} /\ Fault
    /\ dropped' = dropped \cup pbuf[p] \cup ({pcur[p]} \ {NoCall})
    /\ ppc' = [ppc EXCEPT ![p] = "main"]
    /\ pcur' = [pcur EXCEPT ![p] = NoCall]
    /\ psession' = [psession EXCEPT ![p] = "none"]
    /\ pbuf' = [pbuf EXCEPT ![p] = {}]
    /\ UNCHANGED applied
    /\ UNCHANGED <<declared, queue, left, bound, callback>>

PrepStep(p) ==
    \/ PrepRun(p) \/ PrepForwards(p) \/ PrepPublishFails(p)
    \/ PrepDeliveriesClosed(p)
    \/ \E c \in Calls : PrepTakes(p, c)

PrepFault(p) ==
    \/ PrepRunFails(p) \/ PreprocessFails(p)
    \/ PrepSessionLost(p) \/ PrepCrashes(p)
=============================================================================
