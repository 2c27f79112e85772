------------------------------- MODULE OcrRpc -------------------------------
(***************************************************************************)
(* The RPC core of open-ocr: the DecodeImage calls of one http daemon, the *)
(* preprocessors and the OCR workers, joined by the broker.                *)
(***************************************************************************)
EXTENDS OcrRpcClient, OcrRpcWorker, PreprocessorRpcWorker

vars == <<brokerVars, clientVars, workerVars, prepVars>>

TypeOK == BrokerTypeOK /\ ClientTypeOK /\ WorkerTypeOK /\ PrepTypeOK

Init == BrokerInit /\ ClientInit /\ WorkerInit /\ PrepInit

-----------------------------------------------------------------------------
Call(c) == ClientStep(c) /\ UNCHANGED <<workerVars, prepVars>>
Listen(c) == ListenerStep(c) /\ UNCHANGED <<workerVars, prepVars>>
Work(w) == WorkerStep(w) /\ UNCHANGED <<clientVars, prepVars>>
Preprocess(p) == PrepStep(p) /\ UNCHANGED <<clientVars, workerVars>>
DeliverToWorker(w) == /\ \E c \in Calls : BrokerDelivers(w, c)
                      /\ UNCHANGED <<clientVars, prepVars>>
DeliverToPrep(p) == /\ \E c \in Calls : BrokerHandsOver(p, c)
                    /\ UNCHANGED <<clientVars, workerVars>>

CallFault(c) == ClientFault(c) /\ UNCHANGED <<workerVars, prepVars>>
WorkFault(w) == WorkerFault(w) /\ UNCHANGED <<clientVars, prepVars>>
PreprocessFault(p) == PrepFault(p) /\ UNCHANGED <<clientVars, workerVars>>

(* Fault: the broker restarts.  Every connection breaks; transient messages *)
(* and exclusive queues are gone, the durable work queues stay.             *)
BrokerRestarts ==
    /\ Fault
    /\ queue' = [k \in Keys |-> {}]
    /\ bound' = {}
    /\ callback' = callback \/ callback' = [c \in Calls |-> {}]
    /\ conn' = [c \in Calls |-> IF conn[c] = "open" THEN "lost" ELSE conn[c]]
    /\ unacked' = [w \in Workers |-> {}]
    /\ wsession' = [w \in Workers |->
                        IF wsession[w] = "open" THEN "lost" ELSE wsession[w]]
    /\ psession' = [p \in Preps |->
                        IF psession[p] = "open" THEN "lost" ELSE psession[p]]
    /\ UNCHANGED <<declared, left, dropped, cpc, reply, got, listener, chan>>
    /\ UNCHANGED <<wpc, wcur, wbuf, stuck, ppc, pcur, pbuf, applied>>

Next ==
    \/ \E c \in Calls : Call(c) \/ Listen(c) \/ CallFault(c)
    \/ \E w \in Workers : Work(w) \/ DeliverToWorker(w) \/ WorkFault(w)
    \/ \E p \in Preps : Preprocess(p) \/ DeliverToPrep(p) \/ PreprocessFault(p)
    \/ BrokerRestarts

Spec == Init /\ [][Next]_vars

(* Goroutines that can run do run, their timers expire, and the broker      *)
(* delivers to a consumer with room.  No fault is ever required.            *)
Fairness ==
    /\ \A c \in Calls : WF_vars(Call(c)) /\ WF_vars(Listen(c))
    /\ \A w \in Workers : WF_vars(Work(w)) /\ WF_vars(DeliverToWorker(w))
    /\ \A p \in Preps : WF_vars(Preprocess(p)) /\ WF_vars(DeliverToPrep(p))

FairSpec == Spec /\ Fairness

-----------------------------------------------------------------------------
Submitted(c) == cpc[c] = "published" \/ reply[c] \in {"processing", "result", "timeout"}

(* Somebody still listens for the answer of a call that was published.      *)
Awaited(c) == Submitted(c) /\ listener[c] = "listening" /\ c \in bound

(* Where the request of c is: in a work queue, sent to a worker that has    *)
(* not acknowledged it, or in a preprocessor.                               *)
Holders(c) ==
    ({"queue"} \X {k \in Keys : c \in queue[k]})
    \cup ({"unacked"} \X {w \in Workers : c \in unacked[w]})
    \cup ({"buffer"} \X {p \in Preps : c \in pbuf[p]})
    \cup ({"preprocessor"} \X {p \in Preps : c = pcur[p]})

(* No request disappears unnoticed: as long as a call listens, its request  *)
(* is in a queue, unacknowledged or in a preprocessor, or an answer waits,  *)
(* or it was dropped by a preprocessor or for want of a queue.  No crash,   *)
(* lost session or panic of an OCR worker loses a request                   *)
(* (ocr_rpc_worker.go:189-205: the answer goes out before the Ack).         *)
NoSilentLoss ==
    \A c \in Calls :
        Awaited(c) => Holders(c) # {} \/ callback[c] # {} \/ c \in dropped

(* A request is at one place at most, so no two workers with a live session *)
(* and no worker and preprocessor ever hold the same request               *)
(* (ocr_rpc_worker.go:129-137, preprocessor_rpc_worker.go:116-124).         *)
OnePlace == \A c \in Calls : \A x, y \in Holders(c) : x = y

(* A call with an id of its own is answered with the result of its own      *)
(* request, whatever was redelivered (ocr_rpc_client.go:351, 375).          *)
OwnId(c) == IdOf[c] = NoId \/ \A d \in Calls \ {c} : IdOf[d] # IdOf[c]
OwnAnswer ==
    \A c \in Calls : OwnId(c) => /\ chan[c] \subseteq {c}
                                 /\ got[c] \in {c, NoCall}

(* At most one call holds a callback queue of a given name, so an answer    *)
(* reaches at most one listener (ocr_rpc_client.go:299-306, exclusive).     *)
OneListenerPerName ==
    \A c, d \in bound : SameQueue(c, d) => c = d

(* All preprocessors of the chain have run, each once and the last entry    *)
(* first, before an OCR worker gets the request (openapi3.0.yml:122, "all   *)
(* preprocessors will run in a chain before ocr is performed").             *)
ChainBeforeOcr ==
    \A w \in Workers : wcur[w] # NoCall =>
        LET n == Len(ChainOf[wcur[w]])
        IN  applied[wcur[w]] = [i \in 1..n |-> ChainOf[wcur[w]][n + 1 - i]]

(* Each handle goroutine left behind stands for one broken session, however *)
(* many deliveries it had: a worker leaks at most one per fault             *)
(* (ocr_rpc_worker.go:196-211, the second send on Done).                    *)
LeakBounded == \A w \in Workers : stuck[w] <= faults

(* Only a call that failed leaves a connection behind that nobody will      *)
(* close: every other one that outlives DecodeImage still has its callback  *)
(* queue and a listener, whose deferred call closes it                      *)
(* (ocr_rpc_client.go:102-104 "if we close the connection here", 354-359).  *)
OnlyErrorsLeak ==
    \A c \in Calls :
        conn[c] = "open" /\ cpc[c] = "done" /\ reply[c] # "error" =>
            c \in bound /\ listener[c] \in {"listening", "sent"}

-----------------------------------------------------------------------------
(* The composed system keeps what DecodeImage promises (RpcContract): one   *)
(* return, acceptance only of requests that were sent, at most one answer,  *)
(* and that one under the call's own name, whatever crashes, is redelivered *)
(* or breaks (ocr_rpc_client.go:197-211, 283-291, 342-381).                 *)
Contract == INSTANCE RpcContract WITH
    AddressedTo <- [c \in Calls |-> {d \in Calls : SameQueue(d, c)}],
    submitted <- {c \in Calls : Submitted(c)},
    outcome <- reply,
    listening <- {c \in Calls : listener[c] \in {"none", "listening"}}

KeepsContract == Contract!Spec

-----------------------------------------------------------------------------
(* DecodeImage always returns to its handler, whatever fails                *)
(* (ocr_rpc_client.go:284-290).                                             *)
EveryCallReturns == \A c \in Calls : (cpc[c] # "new") ~> (cpc[c] = "done")

(* A call that listens is answered in the end, unless its request was       *)
(* dropped on the way to the OCR queue, waits for a preprocessor that hung, *)
(* or its own connection broke.  Failing workers only delay the answer      *)
(* (cli-worker/main.go:61-84).                                              *)
Stranded(c) ==
    \E k \in PrepKeys : /\ c \in queue[k]
                       /\ \A p \in Preps : KeyOf[p] = k => ppc[p] = "hung"
EveryRequestAnswered ==
    \A c \in Calls : Awaited(c) ~> (~Awaited(c) \/ c \in dropped \/ Stranded(c))

(* cli-preprocessor/main.go:33, "inifinite loop, since sometimes worker <-> *)
(* rabbitmq connection gets broken": a preprocessor that starts over gets   *)
(* back to consuming.                                                       *)
PrepReconnects == \A p \in Preps : (ppc[p] # "range") ~> (ppc[p] = "range")
=============================================================================
