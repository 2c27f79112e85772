---------------------------- MODULE OcrRpcWorker ----------------------------
(***************************************************************************)
(* The OCR worker process: the endless loop of cli-worker/main.go around   *)
(* OcrRpcWorker.Run, and the handle goroutine that takes one delivery at a *)
(* time, runs the engine, publishes the answer and only then acknowledges. *)
(* A process that panics or crashes is started again by its supervisor.    *)
(***************************************************************************)
EXTENDS Broker

CONSTANTS
    Workers,          \* the worker processes
    NumParallelJobs,  \* prefetch count of a worker's channel
    Unsupported       \* calls that make the worker panic: NewOcrEngine knows
                      \* nothing of their engine, or config_vars is no object

ASSUME WorkersAssumption == NumParallelJobs \in Nat \ {0}

VARIABLES
    wpc,        \* where the process stands: "main", or the step of handle
    wcur,       \* the delivery handle works on
    wsession,   \* the AMQP session of the process
    wbuf,       \* deliveries in the process that handle has not taken
    unacked,    \* unacked[w]: what the broker waits for w to acknowledge
    stuck       \* stuck[w]: handle goroutines blocked for ever on Done

workerVars == <<wpc, wcur, wsession, wbuf, unacked, stuck>>

WorkerTypeOK ==
    /\ wpc \in [Workers -> {"main", "range", "engine", "respond", "ack"}]
    /\ wcur \in [Workers -> Calls \cup {NoCall}]
    /\ wsession \in [Workers -> {"none", "open", "lost"}]
    /\ wbuf \in [Workers -> SUBSET Calls]
    /\ unacked \in [Workers -> SUBSET Calls]
    /\ stuck \in [Workers -> Nat]
    /\ \A w \in Workers :
        (wcur[w] \in Calls) <=> (wpc[w] \in {"engine", "respond", "ack"})

WorkerInit ==
    /\ wpc = [w \in Workers |-> "main"]
    /\ wcur = [w \in Workers |-> NoCall]
    /\ wsession = [w \in Workers |-> "none"]
    /\ wbuf = [w \in Workers |-> {}]
    /\ unacked = [w \in Workers |-> {}]
    /\ stuck = [w \in Workers |-> 0]

-----------------------------------------------------------------------------
(* Run: dial, set the prefetch count, declare exchange and queue, consume,  *)
(* start handle.  A Run that fails panics and the process starts over,      *)
(* which is a step that changes nothing.                                    *)
WorkerRun(w) ==
    /\ wpc[w] = "main"
    /\ wpc' = [wpc EXCEPT ![w] = "range"]
    /\ wsession' = [wsession EXCEPT ![w] = "open"]
    /\ declared' = declared \cup {OcrKey}
    /\ UNCHANGED <<wcur, wbuf, unacked, stuck>>
    /\ UNCHANGED <<queue, left, bound, callback, dropped, faults>>

(* The broker delivers within the prefetch count.                           *)
BrokerDelivers(w, c) ==
    /\ wsession[w] = "open" /\ c \in queue[OcrKey]
    /\ Cardinality(unacked[w]) < NumParallelJobs
    /\ queue' = [queue EXCEPT ![OcrKey] = @ \ {c}]
    /\ unacked' = [unacked EXCEPT ![w] = @ \cup {c}]
    /\ wbuf' = [wbuf EXCEPT ![w] = @ \cup {c}]
    /\ UNCHANGED <<wpc, wcur, wsession, stuck>>
    /\ UNCHANGED <<declared, left, bound, callback, dropped, faults>>

(* handle takes the next delivery, also one of a session lost since.        *)
WorkerTakes(w, c) ==
    /\ wpc[w] = "range" /\ c \in wbuf[w]
    /\ wpc' = [wpc EXCEPT ![w] = "engine"]
    /\ wcur' = [wcur EXCEPT ![w] = c]
    /\ wbuf' = [wbuf EXCEPT ![w] = @ \ {c}]
    /\ UNCHANGED <<wsession, unacked, stuck, brokerVars>>

(* Faulty variant: the delivery is acknowledged before its answer is sent.  *)
EngineRunsAckingFirst(w) ==
    /\ wpc[w] = "engine" /\ wcur[w] \notin Unsupported
    /\ wpc' = [wpc EXCEPT ![w] = "respond"]
    /\ unacked' = [unacked EXCEPT ![w] = @ \ {wcur[w]}]
    /\ UNCHANGED <<wcur, wsession, wbuf, stuck, brokerVars>>

(* resultForDelivery: a failing engine gives an error result, which is an   *)
(* answer like any other.                                                   *)
EngineRuns(w) ==
    /\ wpc[w] = "engine" /\ wcur[w] \notin Unsupported
    /\ wpc' = [wpc EXCEPT ![w] = "respond"]
    /\ UNCHANGED <<wcur, wsession, wbuf, unacked, stuck, brokerVars>>

(* sendRpcResponse.                                                         *)
SendRpcResponse(w) ==
    /\ wpc[w] = "respond" /\ wsession[w] = "open"
    /\ PublishAnswer(wcur[w])
    /\ wpc' = [wpc EXCEPT ![w] = "ack"]
    /\ UNCHANGED <<wcur, wsession, wbuf, unacked, stuck>>
    /\ UNCHANGED <<declared, queue, left, bound, dropped, faults>>

(* The session broke, but the write into it still succeeded.                *)
RespondIntoBrokenSession(w) ==
    /\ wpc[w] = "respond" /\ wsession[w] = "lost"
    /\ wpc' = [wpc EXCEPT ![w] = "ack"]
    /\ UNCHANGED <<wcur, wsession, wbuf, unacked, stuck, brokerVars>>

(* Faulty variant: handle tells the main loop, but does not leave its loop. *)
RespondFailsStaying(w) ==
    /\ wpc[w] = "respond" /\ wsession[w] = "lost"
    /\ stuck' = [stuck EXCEPT ![w] = @ + 1]
    /\ UNCHANGED <<wpc, wcur, wsession, wbuf, unacked, brokerVars>>

(* The session broke and sendRpcResponse fails.  handle tells the main      *)
(* loop, leaves its loop and tells it once more: nobody receives that, so   *)
(* the goroutine stays.  The main loop starts over.                         *)
RespondFails(w) ==
    /\ wpc[w] = "respond" /\ wsession[w] = "lost"
    /\ wpc' = [wpc EXCEPT ![w] = "main"]
    /\ wcur' = [wcur EXCEPT ![w] = NoCall]
    /\ wsession' = [wsession EXCEPT ![w] = "none"]
    /\ wbuf' = [wbuf EXCEPT ![w] = {}]
    /\ stuck' = [stuck EXCEPT ![w] = @ + 1]
    /\ UNCHANGED <<unacked, brokerVars>>

(* d.Ack; on a broken session it fails, which is only logged.               *)
Ack(w) ==
    /\ wpc[w] = "ack"
    /\ unacked' = [unacked EXCEPT ![w] = @ \ {wcur[w]}]
    /\ wpc' = [wpc EXCEPT ![w] = "range"]
    /\ wcur' = [wcur EXCEPT ![w] = NoCall]
    /\ UNCHANGED <<wsession, wbuf, stuck, brokerVars>>

(* Faulty variant: the main loop is not told that handle has ended.         *)
DeliveriesClosedSilently(w) ==
    /\ wpc[w] = "range" /\ wsession[w] = "lost"
    /\ wbuf' = [wbuf EXCEPT ![w] = {}]
    /\ UNCHANGED <<wpc, wsession, wcur, unacked, stuck, brokerVars>>

(* The deliveries channel is closed, buffered deliveries may be dropped     *)
(* with it.  handle ends and the main loop starts over.                     *)
DeliveriesClosed(w) ==
    /\ wpc[w] = "range" /\ wsession[w] = "lost"
    /\ wpc' = [wpc EXCEPT ![w] = "main"]
    /\ wsession' = [wsession EXCEPT ![w] = "none"]
    /\ wbuf' = [wbuf EXCEPT ![w] = {}]
    /\ UNCHANGED <<wcur, unacked, stuck, brokerVars>>

-----------------------------------------------------------------------------
(* The broker puts what w did not acknowledge back into the queue.          *)
Requeue(w) ==
    /\ queue' = [queue EXCEPT ![OcrKey] = @ \cup unacked[w]]
    /\ unacked' = [unacked EXCEPT ![w] = {}]

(* Fault: the session breaks; the process does not notice at once.          *)
WorkerSessionLost(w) ==
    /\ wsession[w] = "open" /\ Fault
    /\ wsession' = [wsession EXCEPT ![w] = "lost"]
    /\ Requeue(w)
    /\ UNCHANGED <<wpc, wcur, wbuf, stuck>>
    /\ UNCHANGED <<declared, left, bound, callback, dropped>>

(* The process ends, wherever it stands, and is started again.              *)
ProcessEnds(w) ==
    /\ wpc' = [wpc EXCEPT ![w] = "main"]
    /\ wcur' = [wcur EXCEPT ![w] = NoCall]
    /\ wsession' = [wsession EXCEPT ![w] = "none"]
    /\ wbuf' = [wbuf EXCEPT ![w] = {}]
    /\ stuck' = [stuck EXCEPT ![w] = 0]
    /\ Requeue(w)
    /\ UNCHANGED <<declared, left, bound, callback, dropped>>

(* NewOcrEngine returned nil and the call through it panics, or the type     *)
(* assertion on config_vars does.                                           *)
WorkerPanics(w) ==
    /\ wpc[w] = "engine" /\ wcur[w] \in Unsupported
    /\ ProcessEnds(w)
    /\ UNCHANGED faults

(* Fault: the process is killed.                                            *)
WorkerCrashes(w) == wpc[w] # "main" /\ Fault /\ ProcessEnds(w)

WorkerStep(w) ==
    \/ WorkerRun(w) \/ EngineRuns(w) \/ WorkerPanics(w)
    \/ SendRpcResponse(w) \/ RespondIntoBrokenSession(w) \/ RespondFails(w)
    \/ Ack(w) \/ DeliveriesClosed(w)
    \/ \E c \in Calls : WorkerTakes(w, c)

WorkerFault(w) == WorkerSessionLost(w) \/ WorkerCrashes(w)
=============================================================================
