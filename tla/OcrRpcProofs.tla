---------------------------- MODULE OcrRpcProofs ----------------------------
(***************************************************************************)
(* Theorems of OcrRpc, for any number of calls, workers and preprocessors, *)
(* any chains, ids and prefetch counts, and any number of faults.          *)
(***************************************************************************)
EXTENDS OcrRpc, TLAPS

(* The routing key is a queue name, and the chain gets no longer.           *)
LEMMA RoutingKey ==
  ASSUME BrokerTypeOK, NEW c \in Calls
  PROVE  /\ NextKey(c) \in Keys
         /\ LeftAfter(c) \in Nat /\ LeftAfter(c) <= Len(ChainOf[c])
<1>1. ChainOf[c] \in Seq(PrepKeys) /\ left[c] \in Nat /\ left[c] <= Len(ChainOf[c])
  BY ChainAssumption DEF BrokerTypeOK
<1>2. Len(ChainOf[c]) \in Nat
  BY <1>1
<1>3. CASE left[c] = 0
  BY <1>1, <1>2, <1>3 DEF NextKey, LeftAfter, Keys
<1>4. CASE left[c] # 0
  <2>1. left[c] \in 1..Len(ChainOf[c])
    BY <1>1, <1>2, <1>4
  <2>2. ChainOf[c][left[c]] \in PrepKeys
    BY <1>1, <2>1
  <2> QED
    BY <1>1, <1>2, <1>4, <2>2 DEF NextKey, LeftAfter, Keys
<1> QED
  BY <1>3, <1>4

(* Types are preserved, action by action.                                   *)
THEOREM TypeCorrect == Spec => []TypeOK
<1>1. Init => TypeOK
  <2> SUFFICES ASSUME Init PROVE TypeOK
    OBVIOUS
  <2>1. BrokerTypeOK
    <3>1. /\ queue = [k \in Keys |-> {}]
          /\ callback = [c \in Calls |-> {}]
          /\ left = [c \in Calls |-> Len(ChainOf[c])]
      BY DEF Init, BrokerInit
    <3>2. queue \in [Keys -> SUBSET Calls] /\ callback \in [Calls -> SUBSET Calls]
      BY <3>1, Zenon
    <3>3. ASSUME NEW c \in Calls
          PROVE  left[c] \in Nat /\ left[c] <= Len(ChainOf[c])
      <4>1. left[c] = Len(ChainOf[c])
        BY <3>1, Zenon
      <4>2. Len(ChainOf[c]) \in Nat
        BY ChainAssumption
      <4> QED
        BY <4>1, <4>2
    <3>4. left \in [Calls -> Nat]
      BY <3>1, <3>3, Zenon
    <3>5. declared = {} /\ bound = {} /\ dropped = {} /\ faults = 0
      BY DEF Init, BrokerInit
    <3>6. declared \subseteq Keys /\ bound \subseteq Calls /\ dropped \subseteq Calls
      BY <3>5
    <3>7. faults \in 0..MaxFaults
      BY <3>5, FaultsAssumption
    <3> QED
      BY <3>2, <3>3, <3>4, <3>6, <3>7, Zenon DEF BrokerTypeOK
  <2>2. ClientTypeOK
    BY DEF Init, ClientInit, ClientTypeOK
  <2>3. WorkerTypeOK
    BY CallsAssumption DEF Init, WorkerInit, WorkerTypeOK
  <2>4. PrepTypeOK
    <3>1. PrepInit
      BY DEF Init
    <3>2. <<>> \in Seq(PrepKeys)
      OBVIOUS
    <3>3. applied \in [Calls -> Seq(PrepKeys)]
      BY <3>1, <3>2, Zenon DEF PrepInit
    <3>4. /\ ppc \in [Preps -> {"main", "hung", "range", "busy"}]
          /\ pcur \in [Preps -> Calls \cup {NoCall}]
          /\ psession \in [Preps -> {"none", "open", "lost"}]
          /\ pbuf \in [Preps -> SUBSET Calls]
      BY <3>1 DEF PrepInit
    <3>5. \A p \in Preps : (pcur[p] \in Calls) <=> (ppc[p] = "busy")
      BY <3>1, CallsAssumption DEF PrepInit
    <3> QED
      BY <3>3, <3>4, <3>5, Zenon DEF PrepTypeOK
  <2> QED
    BY <2>1, <2>2, <2>3, <2>4 DEF TypeOK
<1> USE CallsAssumption, KeysAssumption, ChainAssumption, FaultsAssumption,
        ModeAssumption, CapAssumption, WorkersAssumption, PrepsAssumption
<1>2. TypeOK /\ [Next]_vars => TypeOK'
  <2> SUFFICES ASSUME TypeOK, [Next]_vars PROVE TypeOK'
    OBVIOUS
  <2> USE DEF TypeOK, BrokerTypeOK, ClientTypeOK, WorkerTypeOK, PrepTypeOK,
              brokerVars, clientVars, workerVars, prepVars
  <2>1. ASSUME NEW c \in Calls, RejectReplyTo(c), UNCHANGED <<workerVars, prepVars>> PROVE TypeOK'
    BY <2>1 DEF RejectReplyTo, Return
  <2>2. ASSUME NEW c \in Calls, Dial(c), UNCHANGED <<workerVars, prepVars>> PROVE TypeOK'
    BY <2>2 DEF Dial
  <2>3. ASSUME NEW c \in Calls, Subscribe(c), UNCHANGED <<workerVars, prepVars>> PROVE TypeOK'
    BY <2>3 DEF Subscribe
  <2>4. ASSUME NEW c \in Calls, SetupFails(c), UNCHANGED <<workerVars, prepVars>> PROVE TypeOK'
    BY <2>4 DEF SetupFails, Return
  <2>5. ASSUME NEW c \in Calls, Publish(c), UNCHANGED <<workerVars, prepVars>> PROVE TypeOK'
    <3>1. NextKey(c) \in Keys /\ LeftAfter(c) \in Nat /\ LeftAfter(c) <= Len(ChainOf[c])
      BY RoutingKey
    <3>2. /\ left' = [left EXCEPT ![c] = LeftAfter(c)]
          /\ queue' = queue \/ queue' = [queue EXCEPT ![NextKey(c)] = @ \cup {c}]
          /\ dropped' = dropped \/ dropped' = dropped \cup {c}
          /\ cpc' = [cpc EXCEPT ![c] = "published"]
          /\ UNCHANGED <<declared, bound, callback, faults, reply, got, conn, listener, chan>>
      BY <2>5 DEF Publish, PublishRequest
    <3>3. BrokerTypeOK'
      <4>1. left' \in [Calls -> Nat] /\ \A d \in Calls : left'[d] <= Len(ChainOf[d])
        BY <3>1, <3>2
      <4>2. queue' \in [Keys -> SUBSET Calls]
        <5>1. queue \in [Keys -> SUBSET Calls]
          OBVIOUS
        <5>2. PICK k \in Keys : k = NextKey(c)
          BY <3>1
        <5>3. queue' = queue \/ queue' = [queue EXCEPT ![k] = @ \cup {c}]
          BY <3>2, <5>2
        <5> HIDE DEF BrokerTypeOK, ClientTypeOK, WorkerTypeOK, PrepTypeOK
        <5> QED
          BY <5>1, <5>3
      <4> QED
        BY <3>2, <4>1, <4>2
    <3>4. ClientTypeOK' /\ WorkerTypeOK' /\ PrepTypeOK'
      BY <2>5, <3>2
    <3> QED
      BY <3>3, <3>4
  <2>6. ASSUME NEW c \in Calls, PublishIntoBrokenConnection(c), UNCHANGED <<workerVars, prepVars>> PROVE TypeOK'
    BY <2>6 DEF PublishIntoBrokenConnection
  <2>7. ASSUME NEW c \in Calls, PublishFails(c), UNCHANGED <<workerVars, prepVars>> PROVE TypeOK'
    BY <2>7 DEF PublishFails, Return
  <2>8. ASSUME NEW c \in Calls, AcceptDeferred(c), UNCHANGED <<workerVars, prepVars>> PROVE TypeOK'
    BY <2>8 DEF AcceptDeferred, Return
  <2>9. ASSUME NEW c \in Calls, ReceiveResult(c), UNCHANGED <<workerVars, prepVars>> PROVE TypeOK'
    BY <2>9 DEF ReceiveResult, Return
  <2>10. ASSUME NEW c \in Calls, WaitTimeout(c), UNCHANGED <<workerVars, prepVars>> PROVE TypeOK'
    BY <2>10 DEF WaitTimeout, Return
  <2>11. ASSUME NEW c \in Calls, ListenerSends(c), UNCHANGED <<workerVars, prepVars>> PROVE TypeOK'
    BY <2>11 DEF ListenerSends
  <2>12. ASSUME NEW c \in Calls, ListenerCloses(c), UNCHANGED <<workerVars, prepVars>> PROVE TypeOK'
    BY <2>12 DEF ListenerCloses, Unbind
  <2>13. ASSUME NEW c \in Calls, ListenerEnds(c), UNCHANGED <<workerVars, prepVars>> PROVE TypeOK'
    BY <2>13 DEF ListenerEnds
  <2>14. ASSUME NEW c \in Calls, DialFails(c), UNCHANGED <<workerVars, prepVars>> PROVE TypeOK'
    BY <2>14 DEF DialFails, Return, Fault
  <2>15. ASSUME NEW c \in Calls, ImageFails(c), UNCHANGED <<workerVars, prepVars>> PROVE TypeOK'
    BY <2>15 DEF ImageFails, Return, Fault
  <2>16. ASSUME NEW c \in Calls, ClientConnLost(c), UNCHANGED <<workerVars, prepVars>> PROVE TypeOK'
    <3>1. callback' \in [Calls -> SUBSET Calls]
      <4>1. callback' = callback \/ callback' = [callback EXCEPT ![c] = {}]
        BY <2>16 DEF ClientConnLost
      <4>2. callback \in [Calls -> SUBSET Calls]
        OBVIOUS
      <4> HIDE DEF TypeOK, BrokerTypeOK, ClientTypeOK, WorkerTypeOK, PrepTypeOK
      <4> QED
        BY <4>1, <4>2
    <3>2. /\ conn' = [conn EXCEPT ![c] = "lost"]
          /\ bound' = bound \ {c} /\ faults' \in 0..MaxFaults
          /\ UNCHANGED <<declared, queue, left, dropped, cpc, reply, got, listener, chan>>
      BY <2>16 DEF ClientConnLost, Fault, Unbind
    <3> QED
      BY <2>16, <3>1, <3>2
  <2>17. ASSUME NEW w \in Workers, WorkerRun(w), UNCHANGED <<clientVars, prepVars>> PROVE TypeOK'
    BY <2>17 DEF WorkerRun, Keys
  <2>18. ASSUME NEW w \in Workers, EngineRuns(w), UNCHANGED <<clientVars, prepVars>> PROVE TypeOK'
    BY <2>18 DEF EngineRuns
  <2>19. ASSUME NEW w \in Workers, WorkerPanics(w), UNCHANGED <<clientVars, prepVars>> PROVE TypeOK'
    BY <2>19 DEF WorkerPanics, ProcessEnds, Requeue, Keys
  <2>20. ASSUME NEW w \in Workers, SendRpcResponse(w), UNCHANGED <<clientVars, prepVars>> PROVE TypeOK'
    BY <2>20 DEF SendRpcResponse, PublishAnswer
  <2>21. ASSUME NEW w \in Workers, RespondIntoBrokenSession(w), UNCHANGED <<clientVars, prepVars>> PROVE TypeOK'
    BY <2>21 DEF RespondIntoBrokenSession
  <2>22. ASSUME NEW w \in Workers, RespondFails(w), UNCHANGED <<clientVars, prepVars>> PROVE TypeOK'
    BY <2>22 DEF RespondFails
  <2>23. ASSUME NEW w \in Workers, Ack(w), UNCHANGED <<clientVars, prepVars>> PROVE TypeOK'
    BY <2>23 DEF Ack
  <2>24. ASSUME NEW w \in Workers, DeliveriesClosed(w), UNCHANGED <<clientVars, prepVars>> PROVE TypeOK'
    BY <2>24 DEF DeliveriesClosed
  <2>25. ASSUME NEW w \in Workers, WorkerSessionLost(w), UNCHANGED <<clientVars, prepVars>> PROVE TypeOK'
    BY <2>25 DEF WorkerSessionLost, Fault, Requeue, Keys
  <2>26. ASSUME NEW w \in Workers, WorkerCrashes(w), UNCHANGED <<clientVars, prepVars>> PROVE TypeOK'
    BY <2>26 DEF WorkerCrashes, Fault, ProcessEnds, Requeue, Keys
  <2>27. ASSUME NEW w \in Workers, NEW c \in Calls, WorkerTakes(w, c),
               UNCHANGED <<clientVars, prepVars>> PROVE TypeOK'
    BY <2>27 DEF WorkerTakes, Keys
  <2>28. ASSUME NEW w \in Workers, NEW c \in Calls, BrokerDelivers(w, c),
               UNCHANGED <<clientVars, prepVars>> PROVE TypeOK'
    BY <2>28 DEF BrokerDelivers, Keys
  <2>29. ASSUME NEW p \in Preps, PrepRun(p), UNCHANGED <<clientVars, workerVars>> PROVE TypeOK'
    BY <2>29 DEF PrepRun, Keys
  <2>30. ASSUME NEW p \in Preps, PrepForwards(p), UNCHANGED <<clientVars, workerVars>> PROVE TypeOK'
    BY <2>30 DEF PrepForwards, PublishRequest, NextKey, LeftAfter, Keys, NextDelivery
  <2>31. ASSUME NEW p \in Preps, PrepPublishFails(p), UNCHANGED <<clientVars, workerVars>> PROVE TypeOK'
    BY <2>31 DEF PrepPublishFails, PrepLosesRequest, NextDelivery
  <2>32. ASSUME NEW p \in Preps, PrepDeliveriesClosed(p), UNCHANGED <<clientVars, workerVars>> PROVE TypeOK'
    BY <2>32 DEF PrepDeliveriesClosed
  <2>33. ASSUME NEW p \in Preps, PrepRunFails(p), UNCHANGED <<clientVars, workerVars>> PROVE TypeOK'
    BY <2>33 DEF PrepRunFails, Fault
  <2>34. ASSUME NEW p \in Preps, PreprocessFails(p), UNCHANGED <<clientVars, workerVars>> PROVE TypeOK'
    BY <2>34 DEF PreprocessFails, Fault, PrepLosesRequest, NextDelivery
  <2>35. ASSUME NEW p \in Preps, PrepSessionLost(p), UNCHANGED <<clientVars, workerVars>> PROVE TypeOK'
    BY <2>35 DEF PrepSessionLost, Fault
  <2>36. ASSUME NEW p \in Preps, PrepCrashes(p), UNCHANGED <<clientVars, workerVars>> PROVE TypeOK'
    BY <2>36 DEF PrepCrashes, Fault
  <2>37. ASSUME NEW p \in Preps, NEW c \in Calls, PrepTakes(p, c),
               UNCHANGED <<clientVars, workerVars>> PROVE TypeOK'
    BY <2>37 DEF PrepTakes, Keys
  <2>38. ASSUME NEW p \in Preps, NEW c \in Calls, BrokerHandsOver(p, c),
               UNCHANGED <<clientVars, workerVars>> PROVE TypeOK'
    BY <2>38 DEF BrokerHandsOver, Keys
  <2>39. CASE BrokerRestarts
    BY <2>39 DEF BrokerRestarts, Fault
  <2>40. CASE UNCHANGED vars
    BY <2>40 DEF vars
  <2> HIDE DEF TypeOK, BrokerTypeOK, ClientTypeOK, WorkerTypeOK, PrepTypeOK,
               brokerVars, clientVars, workerVars, prepVars
  <2>41. ASSUME NEW c \in Calls, Call(c) \/ Listen(c) \/ CallFault(c) PROVE TypeOK'
    BY <2>41, <2>1, <2>2, <2>3, <2>4, <2>5, <2>6, <2>7, <2>8,
       <2>9, <2>10, <2>11, <2>12, <2>13, <2>14, <2>15, <2>16
    DEF Call, Listen, CallFault, ClientStep, ListenerStep, ClientFault
  <2>42. ASSUME NEW w \in Workers, Work(w) \/ DeliverToWorker(w) \/ WorkFault(w)
         PROVE  TypeOK'
    BY <2>42, <2>17, <2>18, <2>19, <2>20, <2>21, <2>22,
       <2>23, <2>24, <2>25, <2>26, <2>27, <2>28
    DEF Work, DeliverToWorker, WorkFault, WorkerStep, WorkerFault
  <2>43. ASSUME NEW p \in Preps, Preprocess(p) \/ DeliverToPrep(p) \/ PreprocessFault(p)
         PROVE  TypeOK'
    BY <2>43, <2>29, <2>30, <2>31, <2>32, <2>33,
       <2>34, <2>35, <2>36, <2>37, <2>38
    DEF Preprocess, DeliverToPrep, PreprocessFault, PrepStep, PrepFault
  <2> QED
    BY <2>39, <2>40, <2>41, <2>42, <2>43 DEF Next
<1> QED
  BY <1>1, <1>2, PTL DEF Spec

-----------------------------------------------------------------------------
(* The fault that broke the present session has not been paid for yet.      *)
LeakInv ==
    \A w \in Workers : /\ stuck[w] <= faults
                       /\ wsession[w] = "lost" => stuck[w] < faults

LEMMA FaultsGrow ==
  ASSUME TypeOK, [Next]_vars
  PROVE  faults \in Nat /\ faults' \in Nat /\ faults <= faults'
<1> USE DEF Fault, TypeOK, BrokerTypeOK, brokerVars, vars
<1>1. ASSUME NEW c \in Calls, Call(c) \/ Listen(c) \/ CallFault(c)
      PROVE  faults' = faults \/ Fault
  BY <1>1 DEF Call, Listen, CallFault, ClientStep, ListenerStep, ClientFault,
         RejectReplyTo, Dial, Subscribe, SetupFails, Publish,
         PublishIntoBrokenConnection, PublishFails, AcceptDeferred,
         ReceiveResult, WaitTimeout, ListenerSends, ListenerCloses,
         ListenerEnds, DialFails, ImageFails, ClientConnLost
<1>2. ASSUME NEW w \in Workers, Work(w) \/ DeliverToWorker(w) \/ WorkFault(w)
      PROVE  faults' = faults \/ Fault
  BY <1>2 DEF Work, DeliverToWorker, WorkFault, WorkerStep, WorkerFault,
         WorkerRun, BrokerDelivers, WorkerTakes, EngineRuns, SendRpcResponse,
         RespondIntoBrokenSession, RespondFails, Ack, DeliveriesClosed,
         WorkerSessionLost, WorkerPanics, WorkerCrashes
<1>3. ASSUME NEW p \in Preps, Preprocess(p) \/ DeliverToPrep(p) \/ PreprocessFault(p)
      PROVE  faults' = faults \/ Fault
  BY <1>3 DEF Preprocess, DeliverToPrep, PreprocessFault, PrepStep, PrepFault,
         PrepRun, BrokerHandsOver, PrepTakes, PrepForwards, PrepPublishFails,
         PrepDeliveriesClosed, PrepRunFails, PreprocessFails,
         PrepSessionLost, PrepCrashes
<1> QED
  BY <1>1, <1>2, <1>3, FaultsAssumption DEF Next, BrokerRestarts

(* A worker leaks at most one handle goroutine per fault, however long it   *)
(* runs (ocr_rpc_worker.go:196-211).                                        *)
THEOREM LeaksAreBounded == Spec => []LeakBounded
<1>1. Init => LeakInv
  BY DEF Init, BrokerInit, WorkerInit, LeakInv
<1>2. TypeOK /\ LeakInv /\ [Next]_vars => LeakInv'
  <2> SUFFICES ASSUME TypeOK, LeakInv, [Next]_vars PROVE LeakInv'
    OBVIOUS
  <2>1. faults \in Nat /\ faults' \in Nat /\ faults <= faults'
    BY FaultsGrow
  <2> USE DEF TypeOK, WorkerTypeOK, LeakInv
  <2>2. ASSUME NEW w \in Workers, Work(w) PROVE LeakInv'
    <3>1. CASE RespondFails(w)
      BY <2>1, <3>1 DEF RespondFails
    <3>2. CASE WorkerPanics(w)
      BY <2>1, <3>2 DEF WorkerPanics, ProcessEnds
    <3>3. CASE ~RespondFails(w) /\ ~WorkerPanics(w)
      <4>1. UNCHANGED stuck /\ \A x \in Workers : wsession'[x] = "lost" => wsession[x] = "lost"
        BY <2>2, <3>3 DEF Work, WorkerStep, WorkerRun, WorkerTakes, EngineRuns,
           SendRpcResponse, RespondIntoBrokenSession, Ack, DeliveriesClosed
      <4> QED
        BY <2>1, <4>1
    <3> QED
      BY <3>1, <3>2, <3>3
  <2>3. ASSUME NEW w \in Workers, DeliverToWorker(w) PROVE LeakInv'
    BY <2>1, <2>3 DEF DeliverToWorker, BrokerDelivers
  <2>4. ASSUME NEW w \in Workers, WorkFault(w) PROVE LeakInv'
    BY <2>1, <2>4 DEF WorkFault, WorkerFault, WorkerSessionLost, WorkerCrashes,
                      ProcessEnds, Fault
  <2>5. CASE BrokerRestarts
    BY <2>1, <2>5 DEF BrokerRestarts, Fault
  <2>6. ASSUME UNCHANGED workerVars PROVE LeakInv'
    BY <2>1, <2>6 DEF workerVars
  <2> QED
    BY <2>2, <2>3, <2>4, <2>5, <2>6
    DEF Next, vars, Call, Listen, CallFault, Preprocess, DeliverToPrep, PreprocessFault
<1>3. LeakInv => LeakBounded
  BY DEF LeakInv, LeakBounded
<1> QED
  BY <1>1, <1>2, <1>3, TypeCorrect, PTL DEF Spec
=============================================================================
