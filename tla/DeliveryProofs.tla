--------------------------- MODULE DeliveryProofs ---------------------------
(***************************************************************************)
(* Who an answer reaches: it travels by the name of a callback queue, which *)
(* one connection at a time can own, and a call with an id of its own      *)
(* shares its name with nobody.                                            *)
(***************************************************************************)
EXTENDS NoSilentLossProofs

(* What reached c was sent to the name of c's callback queue.               *)
NameInv ==
    \A c \in Calls :
        /\ \A o \in callback[c] \cup chan[c] : SameQueue(o, c)
        /\ got[c] # NoCall => SameQueue(got[c], c)

LEMMA NameInvStep ==
  ASSUME TypeOK, NameInv, [Next]_vars
  PROVE  NameInv'
<1> USE DEF TypeOK, BrokerTypeOK, ClientTypeOK, NameInv
<1>1. ASSUME NEW c \in Calls, Call(c) PROVE NameInv'
  <2>1. CASE ReceiveResult(c)
    BY <2>1 DEF ReceiveResult, brokerVars
  <2>2. CASE ~ReceiveResult(c)
    <3>1. UNCHANGED <<callback, chan, got>>
      BY <1>1, <2>2 DEF Call, ClientStep, RejectReplyTo, Dial, Subscribe,
           SetupFails, Publish, PublishIntoBrokenConnection, PublishFails,
           AcceptDeferred, WaitTimeout, brokerVars
    <3> QED
      BY <3>1
  <2> QED
    BY <2>1, <2>2
<1>2. ASSUME NEW c \in Calls, Listen(c) PROVE NameInv'
  <2>1. CASE ListenerSends(c)
    BY <2>1 DEF ListenerSends
  <2>2. CASE ListenerCloses(c) \/ ListenerEnds(c)
    BY <2>2 DEF ListenerCloses, ListenerEnds
  <2> QED
    BY <1>2, <2>1, <2>2 DEF Listen, ListenerStep
<1>3. ASSUME NEW c \in Calls, CallFault(c) PROVE NameInv'
  BY <1>3 DEF CallFault, ClientFault, DialFails, ImageFails, ClientConnLost
<1>4. ASSUME NEW w \in Workers, Work(w) \/ DeliverToWorker(w) \/ WorkFault(w)
      PROVE  NameInv'
  <2>1. UNCHANGED <<chan, got>>
    BY <1>4, WorkerFrame DEF clientVars
  <2>2. CASE SendRpcResponse(w)
    BY <2>1, <2>2 DEF SendRpcResponse, PublishAnswer
  <2>3. CASE ~SendRpcResponse(w)
    <3>1. UNCHANGED callback
      BY <1>4, <2>3 DEF Work, DeliverToWorker, WorkFault, WorkerStep, WorkerFault,
         WorkerRun, BrokerDelivers, WorkerTakes, EngineRuns,
         RespondIntoBrokenSession, RespondFails, Ack, DeliveriesClosed,
         WorkerSessionLost, WorkerPanics, WorkerCrashes, ProcessEnds, brokerVars
    <3> QED
      BY <2>1, <3>1
  <2> QED
    BY <2>2, <2>3
<1>5. ASSUME UNCHANGED <<callback, chan, got>> PROVE NameInv'
  BY <1>5
<1>6. CASE BrokerRestarts
  BY <1>6 DEF BrokerRestarts
<1> QED
  BY <1>1, <1>2, <1>3, <1>4, <1>5, <1>6, PrepFrame
  DEF Next, vars, brokerVars, clientVars

(* A call with an id of its own is answered with the result of its own      *)
(* request, whatever was redelivered (ocr_rpc_client.go:351, 375).          *)
THEOREM AnswersAreOwn == Spec => []OwnAnswer
<1>1. Init => NameInv
  BY DEF Init, BrokerInit, ClientInit, NameInv
<1>2. TypeOK /\ NameInv /\ [Next]_vars => NameInv'
  BY NameInvStep
<1>3. TypeOK /\ NameInv => OwnAnswer
  BY DEF TypeOK, ClientTypeOK, NameInv, OwnAnswer, OwnId, SameQueue
<1> QED
  BY <1>1, <1>2, <1>3, TypeCorrect, PTL DEF Spec

(* At most one call holds a callback queue of a given name, so an answer    *)
(* reaches at most one listener (ocr_rpc_client.go:299-306, exclusive).     *)
THEOREM NamesAreExclusive == Spec => []OneListenerPerName
<1> USE DEF TypeOK, BrokerTypeOK, OneListenerPerName
<1>1. Init => OneListenerPerName
  BY DEF Init, BrokerInit
<1>2. TypeOK /\ OneListenerPerName /\ [Next]_vars => OneListenerPerName'
  <2> SUFFICES ASSUME TypeOK, OneListenerPerName, [Next]_vars
               PROVE  OneListenerPerName'
    OBVIOUS
  <2>1. ASSUME NEW c \in Calls, Subscribe(c) PROVE OneListenerPerName'
    BY <2>1 DEF Subscribe, NameTaken, SameQueue
  <2>2. ASSUME bound' \subseteq bound PROVE OneListenerPerName'
    BY <2>2
  <2>3. ASSUME NEW c \in Calls, Call(c) \/ Listen(c) \/ CallFault(c), ~Subscribe(c)
        PROVE  bound' \subseteq bound
    BY <2>3 DEF Call, Listen, CallFault, ClientStep, ListenerStep, ClientFault,
         RejectReplyTo, Dial, SetupFails, Publish,
         PublishIntoBrokenConnection, PublishFails, AcceptDeferred,
         ReceiveResult, WaitTimeout, ListenerSends, ListenerCloses,
         ListenerEnds, DialFails, ImageFails, ClientConnLost, brokerVars, Unbind
  <2>4. CASE BrokerRestarts
    BY <2>4 DEF BrokerRestarts
  <2> QED
    BY <2>1, <2>2, <2>3, <2>4, WorkerFrame, PrepFrame DEF Next, vars, brokerVars
<1> QED
  BY <1>1, <1>2, TypeCorrect, PTL DEF Spec

-----------------------------------------------------------------------------
(* A call that may still answer owns its connection together with a queue   *)
(* and a listener; before the dial there is no connection to leak.          *)
Attended(c) == c \in bound /\ listener[c] \in {"listening", "sent"}

AttendedInv ==
    \A c \in Calls :
        /\ cpc[c] = "new" => conn[c] = "none"
        /\ reply[c] = "rejected" => conn[c] = "none"
        /\ cpc[c] \notin {"new", "dialed"} /\ reply[c] # "error" /\ conn[c] = "open"
              => Attended(c)

LEMMA AttendedInvStep ==
  ASSUME TypeOK, ClientInv, AttendedInv, [Next]_vars
  PROVE  AttendedInv'
<1> USE DEF TypeOK, BrokerTypeOK, ClientTypeOK, ClientInv, ReplyInv, AttendedInv, Attended
<1>1. ASSUME NEW c \in Calls, Call(c) PROVE AttendedInv'
  <2>1. CASE RejectReplyTo(c) \/ SetupFails(c) \/ PublishFails(c)
    BY <2>1 DEF RejectReplyTo, SetupFails, PublishFails, Return, brokerVars
  <2>2. CASE Dial(c)
    BY <2>2 DEF Dial, brokerVars
  <2>5. CASE Subscribe(c)
    BY <2>5 DEF Subscribe
  <2>3. CASE Publish(c) \/ PublishIntoBrokenConnection(c)
    BY <2>3 DEF Publish, PublishIntoBrokenConnection, brokerVars
  <2>4. CASE AcceptDeferred(c) \/ ReceiveResult(c) \/ WaitTimeout(c)
    <3>1. /\ cpc[c] = "published" /\ reply[c] = "none"
          /\ cpc' = [cpc EXCEPT ![c] = "done"]
          /\ \A d \in Calls \ {c} : reply'[d] = reply[d]
          /\ reply'[c] # "rejected"
          /\ UNCHANGED <<conn, listener, bound>>
      BY <2>4 DEF AcceptDeferred, ReceiveResult, WaitTimeout, Return, brokerVars
    <3> QED
      BY <3>1
  <2> QED
    BY <1>1, <2>1, <2>2, <2>3, <2>4, <2>5 DEF Call, ClientStep
<1>2. ASSUME NEW c \in Calls, Listen(c) PROVE AttendedInv'
  <2>1. CASE ListenerSends(c)
    BY <2>1 DEF ListenerSends
  <2>2. CASE ListenerCloses(c)
    BY <2>2 DEF ListenerCloses, Unbind
  <2>3. CASE ListenerEnds(c)
    BY <2>3 DEF ListenerEnds
  <2> QED
    BY <1>2, <2>1, <2>2, <2>3 DEF Listen, ListenerStep
<1>3. ASSUME NEW c \in Calls, CallFault(c) PROVE AttendedInv'
  BY <1>3 DEF CallFault, ClientFault, DialFails, ImageFails, ClientConnLost, Return, Unbind
<1>4. ASSUME UNCHANGED <<clientVars, bound>> PROVE AttendedInv'
  BY <1>4 DEF clientVars
<1>5. CASE BrokerRestarts
  BY <1>5 DEF BrokerRestarts
<1> QED
  BY <1>1, <1>2, <1>3, <1>4, <1>5, WorkerFrame, PrepFrame DEF Next, vars, brokerVars

(* Only a call that failed leaves a connection behind that nobody will      *)
(* close (ocr_rpc_client.go:102-104, 354-359).                              *)
THEOREM OnlyErrorsLeave == Spec => []OnlyErrorsLeak
<1>1. Init => AttendedInv
  BY DEF Init, BrokerInit, ClientInit, AttendedInv
<1>2. TypeOK /\ ClientInv /\ AttendedInv /\ [Next]_vars => AttendedInv'
  BY AttendedInvStep
<1>3. AttendedInv => OnlyErrorsLeak
  BY DEF AttendedInv, Attended, OnlyErrorsLeak
<1>4. LossInv => ClientInv
  BY DEF LossInv
<1> QED
  BY <1>1, <1>2, <1>3, <1>4, TypeCorrect, LossInvariant, PTL DEF Spec
=============================================================================
