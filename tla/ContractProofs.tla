--------------------------- MODULE ContractProofs ---------------------------
(***************************************************************************)
(* The composed system implements RpcContract: every step of a call or of  *)
(* its listener is a step of the contract, and the broker, the workers,    *)
(* the preprocessors and their faults are not seen at all.                 *)
(***************************************************************************)
EXTENDS DeliveryProofs

(* Only results of requests that were sent travel to a call.                *)
CallbackInv == \A c \in Calls : \A o \in callback[c] : Submitted(o)

(* A listener is started once, by Subscribe, and hands over nothing before  *)
(* the answer it ends with.                                                 *)
HandedInv ==
    \A c \in Calls :
        /\ cpc[c] \in {"new", "dialed"} => listener[c] = "none"
        /\ listener[c] \in {"none", "listening"} => chan[c] = {}

ContractInv == LossInv /\ NameInv /\ CallbackInv /\ HandedInv

-----------------------------------------------------------------------------
LEMMA CallbackInvStep ==
  ASSUME TypeOK, ReplyInv, PublishedInv, CallbackInv, [Next]_vars
  PROVE  CallbackInv'
<1>1. \A c \in Calls : Submitted(c) => Submitted(c)'
  BY SubmittedStays
<1>2. ASSUME \A c \in Calls : callback'[c] \subseteq callback[c]
      PROVE  CallbackInv'
  BY <1>1, <1>2 DEF CallbackInv, TypeOK, BrokerTypeOK
<1>3. ASSUME NEW c \in Calls, Call(c) \/ Listen(c) \/ CallFault(c)
      PROVE  \A d \in Calls : callback'[d] \subseteq callback[d]
  BY <1>3 DEF TypeOK, BrokerTypeOK, Call, Listen, CallFault, ClientStep,
       ListenerStep, ClientFault, RejectReplyTo, Dial, Subscribe, SetupFails,
       Publish, PublishIntoBrokenConnection, PublishFails, AcceptDeferred,
       ReceiveResult, WaitTimeout, ListenerSends, ListenerCloses, ListenerEnds,
       DialFails, ImageFails, ClientConnLost, brokerVars
<1>4. ASSUME NEW w \in Workers, Work(w) \/ DeliverToWorker(w) \/ WorkFault(w)
      PROVE  CallbackInv'
  <2>1. CASE SendRpcResponse(w)
    <3>1. wcur[w] \in Calls /\ Submitted(wcur[w])
      BY <2>1, CallsAssumption DEF SendRpcResponse, PublishedInv, TypeOK, WorkerTypeOK
    <3>2. \A o \in Calls : o = wcur[w] => Submitted(o)'
      BY <1>1, <3>1
    <3>3. \A d \in Calls : callback'[d] \subseteq callback[d] \cup {wcur[w]}
      BY <2>1 DEF SendRpcResponse, PublishAnswer
    <3> QED
      BY <1>1, <3>1, <3>2, <3>3 DEF CallbackInv, TypeOK, BrokerTypeOK
  <2>2. CASE ~SendRpcResponse(w)
    <3>1. UNCHANGED callback
      BY <1>4, <2>2 DEF Work, DeliverToWorker, WorkFault, WorkerStep, WorkerFault,
         WorkerRun, BrokerDelivers, WorkerTakes, EngineRuns,
         RespondIntoBrokenSession, RespondFails, Ack, DeliveriesClosed,
         WorkerSessionLost, WorkerPanics, WorkerCrashes, ProcessEnds, brokerVars
    <3> QED
      BY <1>2, <3>1
  <2> QED
    BY <2>1, <2>2
<1>5. CASE BrokerRestarts
  BY <1>2, <1>5 DEF BrokerRestarts
<1>6. CASE UNCHANGED callback
  BY <1>2, <1>6
<1> QED
  BY <1>2, <1>3, <1>4, <1>5, <1>6, PrepFrame DEF Next, vars, brokerVars

LEMMA HandedInvStep ==
  ASSUME TypeOK, HandedInv, [Next]_vars
  PROVE  HandedInv'
<1> USE DEF TypeOK, ClientTypeOK, HandedInv
<1>1. ASSUME NEW c \in Calls, Call(c) PROVE HandedInv'
  <2>1. CASE ReceiveResult(c)
    BY <2>1 DEF ReceiveResult, Return
  <2>2. CASE Subscribe(c)
    BY <2>2 DEF Subscribe
  <2>3. CASE RejectReplyTo(c) \/ SetupFails(c) \/ PublishFails(c)
             \/ AcceptDeferred(c) \/ WaitTimeout(c)
    BY <2>3 DEF RejectReplyTo, SetupFails, PublishFails, AcceptDeferred,
         WaitTimeout, Return
  <2>4. CASE Dial(c) \/ Publish(c) \/ PublishIntoBrokenConnection(c)
    BY <2>4 DEF Dial, Publish, PublishIntoBrokenConnection
  <2> QED
    BY <1>1, <2>1, <2>2, <2>3, <2>4 DEF Call, ClientStep
<1>2. ASSUME NEW c \in Calls, Listen(c) PROVE HandedInv'
  BY <1>2 DEF Listen, ListenerStep, ListenerSends, ListenerCloses, ListenerEnds
<1>3. ASSUME NEW c \in Calls, CallFault(c) PROVE HandedInv'
  BY <1>3 DEF CallFault, ClientFault, DialFails, ImageFails, ClientConnLost, Return
<1>4. CASE UNCHANGED clientVars
  BY <1>4 DEF clientVars
<1>5. CASE BrokerRestarts
  BY <1>5 DEF BrokerRestarts
<1> QED
  BY <1>1, <1>2, <1>3, <1>4, <1>5, WorkerFrame, PrepFrame DEF Next, vars

LEMMA ContractInvariant == Spec => []ContractInv
<1>1. Init => NameInv /\ CallbackInv /\ HandedInv
  BY DEF Init, BrokerInit, ClientInit, NameInv, CallbackInv, HandedInv
<1>2. TypeOK /\ LossInv /\ NameInv /\ CallbackInv /\ HandedInv /\ [Next]_vars
        => NameInv' /\ CallbackInv' /\ HandedInv'
  BY NameInvStep, CallbackInvStep, HandedInvStep DEF LossInv, ClientInv
<1>3. ContractInv <=> LossInv /\ NameInv /\ CallbackInv /\ HandedInv
  BY DEF ContractInv
<1> QED
  BY <1>1, <1>2, <1>3, LossInvariant, TypeCorrect, PTL DEF Spec

-----------------------------------------------------------------------------
Sent == {c \in Calls : Submitted(c)}
Listening == {c \in Calls : listener[c] \in {"none", "listening"}}

LEMMA ContractInit ==
  ASSUME Init
  PROVE  Contract!Init
<1> QED
  BY DEF Init, ClientInit, Contract!Init, Submitted

(* A call that fails before it sent its request.                            *)
LEMMA Refuses ==
  ASSUME TypeOK, ContractInv, NEW c \in Calls,
         cpc[c] \in {"new", "dialed", "subscribed"},
         \E r \in {"rejected", "error", "emptyOk"} : Return(c, r),
         UNCHANGED <<got, listener, chan>>
  PROVE  Contract!Refuse(c)
<1>1. reply[c] = "none"
  BY DEF ContractInv, LossInv, ClientInv, ReplyInv
<1>2. Sent' = Sent /\ c \notin Sent
  BY <1>1 DEF Sent, Submitted, Return, TypeOK, ClientTypeOK
<1>3. Listening' = Listening
  BY DEF Listening
<1> QED
  BY <1>1, <1>2, <1>3 DEF Contract!Refuse, Contract!Ends, Sent, Listening, Return

(* A call that sends it.                                                    *)
LEMMA Submits ==
  ASSUME TypeOK, ContractInv, NEW c \in Calls, cpc[c] = "subscribed",
         cpc' = [cpc EXCEPT ![c] = "published"],
         UNCHANGED <<reply, got, listener, chan>>
  PROVE  Contract!Submit(c)
<1>1. reply[c] = "none"
  BY DEF ContractInv, LossInv, ClientInv, ReplyInv
<1>2. Sent' = Sent \cup {c} /\ c \notin Sent
  BY <1>1 DEF Sent, Submitted, TypeOK, ClientTypeOK
<1>3. Listening' = Listening
  BY DEF Listening
<1> QED
  BY <1>1, <1>2, <1>3 DEF Contract!Submit, Sent, Listening

(* A call that sent it and returns.                                         *)
LEMMA Returns ==
  ASSUME TypeOK, ContractInv, NEW c \in Calls,
         AcceptDeferred(c) \/ ReceiveResult(c) \/ WaitTimeout(c)
  PROVE  Contract!Accept(c) \/ Contract!Receive(c) \/ Contract!TimeOut(c)
<1>1. reply[c] = "none"
  BY DEF ContractInv, LossInv, ClientInv, ReplyInv, AcceptDeferred, ReceiveResult,
         WaitTimeout
<1>2. Sent' = Sent /\ c \in Sent
  BY <1>1 DEF Sent, Submitted, Return, TypeOK, ClientTypeOK, AcceptDeferred,
     ReceiveResult, WaitTimeout
<1>3. Listening' = Listening
  BY DEF Listening, AcceptDeferred, ReceiveResult, WaitTimeout
<1>4. CASE AcceptDeferred(c)
  BY <1>1, <1>2, <1>3, <1>4
  DEF AcceptDeferred, Contract!Accept, Contract!Ends, Sent, Listening, Return
<1>5. CASE ReceiveResult(c)
  BY <1>1, <1>2, <1>3, <1>5
  DEF ReceiveResult, Contract!Receive, Contract!Ends, Sent, Listening, Return
<1>6. CASE WaitTimeout(c)
  BY <1>1, <1>2, <1>3, <1>6
  DEF WaitTimeout, Contract!TimeOut, Contract!Ends, Sent, Listening, Return
<1> QED
  BY <1>4, <1>5, <1>6

LEMMA Hands ==
  ASSUME TypeOK, ContractInv, NEW c \in Calls, ListenerSends(c)
  PROVE  Contract!Hand(c)
<1> USE DEF TypeOK, BrokerTypeOK, ClientTypeOK, ListenerSends
<1>1. Sent' = Sent
  BY DEF Sent, Submitted
<1>2. c \in Listening /\ Listening' = Listening \ {c}
  BY DEF Listening
<1>3. PICK o \in callback[c] : chan' = [chan EXCEPT ![c] = chan[c] \cup {o}]
  OBVIOUS
<1>0. chan[c] \cup {o} = {o}
  BY DEF ContractInv, HandedInv
<1>4. chan' = [chan EXCEPT ![c] = {o}]
  BY <1>0, <1>3, Zenon
<1>5. o \in Calls /\ o \in Sent /\ SameQueue(o, c)
  BY DEF ContractInv, CallbackInv, NameInv, Sent
<1>6. o \in Sent \cap [d \in Calls |-> {e \in Calls : SameQueue(e, d)}][c]
  BY <1>5
<1>7. UNCHANGED <<reply, got>>
  OBVIOUS
<1> HIDE DEF TypeOK, BrokerTypeOK, ClientTypeOK, ListenerSends
<1> QED
  BY <1>1, <1>2, <1>4, <1>6, <1>7 DEF Contract!Hand, Sent, Listening

(* What the contract does not see.                                          *)
LEMMA Stutters ==
  ASSUME UNCHANGED <<reply, got, chan>>, Sent' = Sent, Listening' = Listening
  PROVE  UNCHANGED Contract!contractVars
<1> QED
  BY DEF Contract!contractVars, Sent, Listening

LEMMA ContractStep ==
  ASSUME TypeOK, ContractInv, [Next]_vars
  PROVE  [Contract!Next]_(Contract!contractVars)
<1>1. ASSUME NEW c \in Calls, Call(c)
      PROVE  [Contract!Next]_(Contract!contractVars)
  <2>1. CASE RejectReplyTo(c) \/ SetupFails(c) \/ PublishFails(c)
    <3>1. Contract!Refuse(c)
      BY <2>1, Refuses DEF RejectReplyTo, SetupFails, PublishFails
    <3> QED
      BY <3>1 DEF Contract!Next
  <2>2. CASE Dial(c) \/ Subscribe(c)
    <3>1. UNCHANGED <<reply, got, chan>> /\ Sent' = Sent
      BY <2>2 DEF Dial, Subscribe, Sent, Submitted, TypeOK, ClientTypeOK
    <3>2. Listening' = Listening
      BY <2>2 DEF Dial, Subscribe, Listening, ContractInv, HandedInv, TypeOK, ClientTypeOK
    <3> QED
      BY <3>1, <3>2, Stutters
  <2>3. CASE Publish(c) \/ PublishIntoBrokenConnection(c)
    <3>1. Contract!Submit(c)
      BY <2>3, Submits DEF Publish, PublishIntoBrokenConnection
    <3> QED
      BY <3>1 DEF Contract!Next
  <2>4. CASE AcceptDeferred(c) \/ ReceiveResult(c) \/ WaitTimeout(c)
    BY <2>4, Returns DEF Contract!Next
  <2> QED
    BY <1>1, <2>1, <2>2, <2>3, <2>4 DEF Call, ClientStep
<1>2. ASSUME NEW c \in Calls, Listen(c)
      PROVE  [Contract!Next]_(Contract!contractVars)
  <2>1. CASE ListenerSends(c)
    BY <2>1, Hands DEF Contract!Next
  <2>2. CASE ListenerCloses(c)
    <3>1. UNCHANGED <<reply, got, chan>> /\ Sent' = Sent
      BY <2>2 DEF ListenerCloses, Sent, Submitted
    <3>2. Listening' = Listening
      BY <2>2 DEF ListenerCloses, Listening, TypeOK, ClientTypeOK
    <3> QED
      BY <3>1, <3>2, Stutters
  <2>3. CASE ListenerEnds(c)
    <3>1. UNCHANGED <<reply, got, chan>> /\ Sent' = Sent
      BY <2>3 DEF ListenerEnds, Sent, Submitted
    <3>2. c \in Listening /\ Listening' = Listening \ {c}
      BY <2>3 DEF ListenerEnds, Listening, TypeOK, ClientTypeOK
    <3>3. Contract!Deafen(c)
      BY <3>1, <3>2 DEF Contract!Deafen, Sent, Listening
    <3> QED
      BY <3>3 DEF Contract!Next
  <2> QED
    BY <1>2, <2>1, <2>2, <2>3 DEF Listen, ListenerStep
<1>3. ASSUME NEW c \in Calls, CallFault(c)
      PROVE  [Contract!Next]_(Contract!contractVars)
  <2>1. CASE DialFails(c) \/ ImageFails(c)
    <3>1. Contract!Refuse(c)
      BY <2>1, Refuses DEF DialFails, ImageFails
    <3> QED
      BY <3>1 DEF Contract!Next
  <2>2. CASE ClientConnLost(c)
    BY <2>2, Stutters DEF ClientConnLost, Sent, Submitted, Listening
  <2> QED
    BY <1>3, <2>1, <2>2 DEF CallFault, ClientFault
<1>4. CASE UNCHANGED clientVars
  BY <1>4, Stutters DEF clientVars, Sent, Submitted, Listening
<1>5. CASE BrokerRestarts
  BY <1>5, Stutters DEF BrokerRestarts, Sent, Submitted, Listening
<1> QED
  BY <1>1, <1>2, <1>3, <1>4, <1>5, WorkerFrame, PrepFrame DEF Next, vars

(* The composed system keeps what DecodeImage promises, for any number of   *)
(* calls, workers and preprocessors and any faults: one return, acceptance  *)
(* only of requests that were sent, at most one answer, and that one under  *)
(* the call's own name (ocr_rpc_client.go:197-211, 283-291, 342-381).       *)
THEOREM ContractIsKept == Spec => KeepsContract
<1>1. Init => Contract!Init
  BY ContractInit
<1>2. TypeOK /\ ContractInv /\ [Next]_vars => [Contract!Next]_(Contract!contractVars)
  BY ContractStep
<1> QED
  BY <1>1, <1>2, TypeCorrect, ContractInvariant, PTL DEF Spec, KeepsContract, Contract!Spec
=============================================================================
