------------------------------- MODULE Broker -------------------------------
(***************************************************************************)
(* RabbitMQ as the client, the OCR workers and the preprocessors use it:   *)
(* one direct exchange, durable work queues named by their routing key,    *)
(* and one exclusive, auto-deleted callback queue per DecodeImage call.    *)
(* The broker itself is not part of the repository; every operator here    *)
(* is what the code under src/ relies on.                                  *)
(*                                                                         *)
(* A request message is named by the call that published it.  Of its body  *)
(* only the part of PreprocessorChain that is still to run is kept.  All   *)
(* messages are transient and published with mandatory = false.  The order *)
(* of a queue and the priorities are abstracted: a queue is a set, so any  *)
(* message of it may be delivered next.                                    *)
(***************************************************************************)
EXTENDS Integers, FiniteSets, Sequences

CONSTANTS
    Calls,      \* the calls of DecodeImage
    OcrKey,     \* RabbitConfig.RoutingKey, the queue of the OCR workers
    PrepKeys,   \* names a request may carry in its PreprocessorChain
    ChainOf,    \* ChainOf[c]: the PreprocessorChain call c was sent with
    IdOf,       \* IdOf[c]: OcrRequest.RequestID of call c
    NoId,       \* the empty RequestID, which the upload handler leaves unset
    NoCall,     \* no call
    MaxFaults   \* bound on the faults of one behaviour

Keys == PrepKeys \cup {OcrKey}

ASSUME CallsAssumption == NoCall \notin Calls
ASSUME KeysAssumption == OcrKey \notin PrepKeys
ASSUME ChainAssumption == ChainOf \in [Calls -> Seq(PrepKeys)]
ASSUME FaultsAssumption == MaxFaults \in Nat

VARIABLES
    declared,   \* the work queues some consumer has declared
    queue,      \* queue[k]: requests ready in work queue k
    left,       \* left[c]: how many entries of ChainOf[c] the message still has
    bound,      \* calls whose callback queue exists
    callback,   \* callback[c]: calls whose answer waits in c's callback queue
    dropped,    \* history: calls whose request was dropped on its way
    faults      \* faults so far

brokerVars == <<declared, queue, left, bound, callback, dropped, faults>>

BrokerTypeOK ==
    /\ declared \subseteq Keys
    /\ queue \in [Keys -> SUBSET Calls]
    /\ left \in [Calls -> Nat]
    /\ \A c \in Calls : left[c] <= Len(ChainOf[c])
    /\ bound \subseteq Calls
    /\ callback \in [Calls -> SUBSET Calls]
    /\ dropped \subseteq Calls
    /\ faults \in 0..MaxFaults

BrokerInit ==
    /\ declared = {}
    /\ queue = [k \in Keys |-> {}]
    /\ left = [c \in Calls |-> Len(ChainOf[c])]
    /\ bound = {}
    /\ callback = [c \in Calls |-> {}]
    /\ dropped = {}
    /\ faults = 0

-----------------------------------------------------------------------------
(* Faulty variant: one fixed name for all callback queues.                  *)
SameQueueAlways(c, d) == TRUE

(* The name of a callback queue: the request id, or one the broker makes up *)
(* when the id is empty.                                                    *)
SameQueue(c, d) == c = d \/ (IdOf[c] = IdOf[d] /\ IdOf[c] # NoId)

(* Faulty variants: the first entry is cut off; an empty chain is cut too.  *)
NextKeyFirst(c) == IF left[c] = 0 THEN OcrKey
                   ELSE ChainOf[c][Len(ChainOf[c]) + 1 - left[c]]
LeftAfterUnchecked(c) == left[c] - 1

(* OcrRequest.nextPreprocessor: the routing key is the LAST entry of the    *)
(* chain, which is cut off, and the OCR queue when the chain is empty.      *)
NextKey(c) == IF left[c] = 0 THEN OcrKey ELSE ChainOf[c][left[c]]
LeftAfter(c) == IF left[c] = 0 THEN 0 ELSE left[c] - 1

(* A published request goes to the queue of its routing key; without such   *)
(* a queue the broker drops it and tells nobody.                            *)
PublishRequest(c) ==
    /\ left' = [left EXCEPT ![c] = LeftAfter(c)]
    /\ IF NextKey(c) \in declared
       THEN /\ queue' = [queue EXCEPT ![NextKey(c)] = @ \cup {c}]
            /\ UNCHANGED dropped
       ELSE /\ dropped' = dropped \cup {c}
            /\ UNCHANGED queue

(* A published answer goes to the callback queue of that name, if there is  *)
(* one.                                                                     *)
PublishAnswer(c) ==
    callback' = [d \in Calls |-> IF d \in bound /\ SameQueue(c, d)
                                 THEN callback[d] \cup {c}
                                 ELSE callback[d]]

(* The connection of call c is gone: its exclusive queue goes with it.      *)
Unbind(c) == bound' = bound \ {c}

(* One more fault.                                                          *)
Fault == faults < MaxFaults /\ faults' = faults + 1
=============================================================================
