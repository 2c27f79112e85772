---------------------------- MODULE OcrRpcClient ----------------------------
(***************************************************************************)
(* OcrRpcClient.DecodeImage and the listener goroutine it starts,          *)
(* handleRPCResponse.  Each call of DecodeImage has its own connection,    *)
(* its own callback queue and its own rpcResponseChan.                     *)
(*                                                                         *)
(* A call ends by returning to its HTTP handler.  For a deferred call the  *)
(* channel is handed to ResultStorage, which owns what follows.            *)
(***************************************************************************)
EXTENDS Broker

CONSTANTS
    ModeOf,     \* ModeOf[c]: "sync", "poll" (deferred) or "post" (reply_to)
    ChanCap     \* capacity of rpcResponseChan, FactorForMessageAccept

ASSUME ModeAssumption == ModeOf \in [Calls -> {"sync", "poll", "post"}]
ASSUME CapAssumption == ChanCap \in Nat \ {0}

VARIABLES
    cpc,        \* where DecodeImage of c stands
    reply,      \* what DecodeImage returned for c
    got,        \* got[c]: the call whose result c was answered with
    conn,       \* c's AMQP connection
    listener,   \* c's handleRPCResponse goroutine
    chan        \* contents of c's rpcResponseChan

clientVars == <<cpc, reply, got, conn, listener, chan>>

ClientTypeOK ==
    /\ cpc \in [Calls -> {"new", "dialed", "subscribed", "published", "done"}]
    /\ reply \in [Calls -> {"none", "rejected", "error", "emptyOk",
                            "processing", "result", "timeout"}]
    /\ got \in [Calls -> Calls \cup {NoCall}]
    /\ conn \in [Calls -> {"none", "open", "closed", "lost"}]
    /\ listener \in [Calls -> {"none", "listening", "sent", "ended"}]
    /\ chan \in [Calls -> SUBSET Calls]

ClientInit ==
    /\ cpc = [c \in Calls |-> "new"]
    /\ reply = [c \in Calls |-> "none"]
    /\ got = [c \in Calls |-> NoCall]
    /\ conn = [c \in Calls |-> "none"]
    /\ listener = [c \in Calls |-> "none"]
    /\ chan = [c \in Calls |-> {}]

-----------------------------------------------------------------------------
Return(c, r) ==
    /\ cpc' = [cpc EXCEPT ![c] = "done"]
    /\ reply' = [reply EXCEPT ![c] = r]

(* checkURLForReplyTo refuses the address: 400 before anything is opened.   *)
RejectReplyTo(c) ==
    /\ cpc[c] = "new" /\ ModeOf[c] = "post"
    /\ Return(c, "rejected")
    /\ UNCHANGED <<got, conn, listener, chan, brokerVars>>

DialFails(c) ==
    /\ cpc[c] = "new" /\ Fault
    /\ Return(c, "error")
    /\ UNCHANGED <<got, conn, listener, chan>>
    /\ UNCHANGED <<declared, queue, left, bound, callback, dropped>>

Dial(c) ==
    /\ cpc[c] = "new"
    /\ cpc' = [cpc EXCEPT ![c] = "dialed"]
    /\ conn' = [conn EXCEPT ![c] = "open"]
    /\ UNCHANGED <<reply, got, listener, chan, brokerVars>>

(* Faulty variant: the callback queue is not exclusive.                     *)
NameTakenNever(c) == FALSE

(* Another call holds the exclusive queue of that name.                     *)
NameTaken(c) == \E d \in bound : SameQueue(c, d)

(* Channel, exchange, callback queue, binding, consumer and the listener.   *)
Subscribe(c) ==
    /\ cpc[c] = "dialed" /\ conn[c] = "open" /\ ~NameTaken(c)
    /\ cpc' = [cpc EXCEPT ![c] = "subscribed"]
    /\ bound' = bound \cup {c}
    /\ listener' = [listener EXCEPT ![c] = "listening"]
    /\ UNCHANGED <<reply, got, conn, chan>>
    /\ UNCHANGED <<declared, queue, left, callback, dropped, faults>>

(* Any of those fails: 500, and the connection stays open.                  *)
SetupFails(c) ==
    /\ cpc[c] = "dialed" /\ (conn[c] = "lost" \/ NameTaken(c))
    /\ Return(c, "error")
    /\ UNCHANGED <<got, conn, listener, chan, brokerVars>>

(* The image cannot be decoded or downloaded: 500, and the connection, the  *)
(* callback queue and the listener stay.                                    *)
ImageFails(c) ==
    /\ cpc[c] = "subscribed" /\ Fault
    /\ Return(c, "error")
    /\ UNCHANGED <<got, conn, listener, chan>>
    /\ UNCHANGED <<declared, queue, left, bound, callback, dropped>>

Publish(c) ==
    /\ cpc[c] = "subscribed" /\ conn[c] = "open"
    /\ PublishRequest(c)
    /\ cpc' = [cpc EXCEPT ![c] = "published"]
    /\ UNCHANGED <<reply, got, conn, listener, chan>>
    /\ UNCHANGED <<declared, bound, callback, faults>>

(* The connection broke, but the write into it still succeeded.             *)
PublishIntoBrokenConnection(c) ==
    /\ cpc[c] = "subscribed" /\ conn[c] = "lost"
    /\ cpc' = [cpc EXCEPT ![c] = "published"]
    /\ UNCHANGED <<reply, got, conn, listener, chan, brokerVars>>

(* The connection broke and the write fails: an empty result, status 500    *)
(* and a nil error, of which the handler makes a 200 with an empty result.  *)
PublishFails(c) ==
    /\ cpc[c] = "subscribed" /\ conn[c] = "lost"
    /\ Return(c, "emptyOk")
    /\ UNCHANGED <<got, conn, listener, chan, brokerVars>>

(* A deferred call returns its id; ResultStorage keeps its channel.         *)
AcceptDeferred(c) ==
    /\ cpc[c] = "published" /\ ModeOf[c] # "sync"
    /\ Return(c, "processing")
    /\ UNCHANGED <<got, conn, listener, chan, brokerVars>>

(* A synchronous call waits for the result ...                              *)
ReceiveResult(c) ==
    /\ cpc[c] = "published" /\ ModeOf[c] = "sync"
    /\ \E o \in chan[c] :
        /\ got' = [got EXCEPT ![c] = o]
        /\ chan' = [chan EXCEPT ![c] = @ \ {o}]
    /\ Return(c, "result")
    /\ UNCHANGED <<conn, listener, brokerVars>>

(* Faulty variant: the timer is set up but never selected on.               *)
WaitTimeoutUnselected(c) ==
    /\ cpc[c] = "published" /\ ModeOf[c] = "sync" /\ chan[c] # {}
    /\ Return(c, "timeout")
    /\ UNCHANGED <<got, conn, listener, chan, brokerVars>>

(* ... or for ResponseCacheTimeout, and leaves everything open behind it.   *)
WaitTimeout(c) ==
    /\ cpc[c] = "published" /\ ModeOf[c] = "sync"
    /\ Return(c, "timeout")
    /\ UNCHANGED <<got, conn, listener, chan, brokerVars>>

-----------------------------------------------------------------------------
(* Faulty variant: the listener does not return after the first answer.     *)
ListenerSendsOn(c) ==
    /\ listener[c] = "listening" /\ Cardinality(chan[c]) < ChanCap
    /\ \E o \in callback[c] :
        /\ chan' = [chan EXCEPT ![c] = @ \cup {o}]
        /\ callback' = [callback EXCEPT ![c] = @ \ {o}]
    /\ UNCHANGED <<cpc, reply, got, conn, listener>>
    /\ UNCHANGED <<declared, queue, left, bound, dropped, faults>>

(* handleRPCResponse takes a delivery and sends it to rpcResponseChan.      *)
ListenerSends(c) ==
    /\ listener[c] = "listening" /\ Cardinality(chan[c]) < ChanCap
    /\ \E o \in callback[c] :
        /\ chan' = [chan EXCEPT ![c] = @ \cup {o}]
        /\ callback' = [callback EXCEPT ![c] = @ \ {o}]
    /\ listener' = [listener EXCEPT ![c] = "sent"]
    /\ UNCHANGED <<cpc, reply, got, conn>>
    /\ UNCHANGED <<declared, queue, left, bound, dropped, faults>>

(* Faulty variant: it returns without closing the connection.               *)
ListenerReturns(c) ==
    /\ listener[c] = "sent"
    /\ listener' = [listener EXCEPT ![c] = "ended"]
    /\ UNCHANGED <<cpc, reply, got, conn, chan, brokerVars>>

(* Its deferred call then closes the connection, the queue goes with it.    *)
ListenerCloses(c) ==
    /\ listener[c] = "sent"
    /\ listener' = [listener EXCEPT ![c] = "ended"]
    /\ conn' = [conn EXCEPT ![c] = IF @ = "open" THEN "closed" ELSE @]
    /\ Unbind(c)
    /\ callback' = [callback EXCEPT ![c] = {}]
    /\ UNCHANGED <<cpc, reply, got, chan>>
    /\ UNCHANGED <<declared, queue, left, dropped, faults>>

(* The deliveries channel was closed by a broken connection: the range loop *)
(* just ends.                                                               *)
ListenerEnds(c) ==
    /\ listener[c] = "listening" /\ conn[c] = "lost"
    /\ listener' = [listener EXCEPT ![c] = "ended"]
    /\ callback' = [callback EXCEPT ![c] = {}]
    /\ UNCHANGED <<cpc, reply, got, conn, chan>>
    /\ UNCHANGED <<declared, queue, left, bound, dropped, faults>>

(* Fault: the connection of c breaks.  Deliveries that already reached the  *)
(* process stay readable.                                                   *)
ClientConnLost(c) ==
    /\ conn[c] = "open" /\ Fault
    /\ conn' = [conn EXCEPT ![c] = "lost"]
    /\ Unbind(c)
    /\ callback' = callback \/ callback' = [callback EXCEPT ![c] = {}]
    /\ UNCHANGED <<cpc, reply, got, listener, chan>>
    /\ UNCHANGED <<declared, queue, left, dropped>>

ClientStep(c) ==
    \/ RejectReplyTo(c) \/ Dial(c) \/ Subscribe(c) \/ SetupFails(c)
    \/ Publish(c) \/ PublishIntoBrokenConnection(c) \/ PublishFails(c)
    \/ AcceptDeferred(c) \/ ReceiveResult(c) \/ WaitTimeout(c)

ListenerStep(c) == ListenerSends(c) \/ ListenerCloses(c) \/ ListenerEnds(c)

ClientFault(c) == DialFails(c) \/ ImageFails(c) \/ ClientConnLost(c)
=============================================================================
