--------------------------- MODULE OnePlaceProofs ---------------------------
(***************************************************************************)
(* Why a request is never at two places: every step leaves the places of a *)
(* request alone, takes some away, or moves it from one to another; and a  *)
(* request is published only while it is nowhere.                          *)
(* And why its chain is behind it wherever the OCR part finds it: at its   *)
(* one place it waits for the next entry, and a step takes it one entry on.*)
(***************************************************************************)
EXTENDS NoSilentLossProofs

(* How a step changes the places of c.                                      *)
Moved(c) == \E x \in Holders(c) : \E y : Holders(c)' \subseteq (Holders(c) \ {x}) \cup {y}
Fewer(c) == Holders(c)' \subseteq Holders(c)

LEMMA MovesKeepOnePlace ==
  ASSUME NEW c, \A x, y \in Holders(c) : x = y, Moved(c) \/ Fewer(c)
  PROVE  \A x, y \in Holders(c)' : x = y
<1> QED
  BY DEF Moved, Fewer

(* A publication out of place x.                                            *)
LEMMA PublicationPlaces ==
  ASSUME TypeOK, NEW c \in Calls, PublishRequest(c)
  PROVE  \E z \in Keys : \A d \in Calls : \A k \in Keys :
            d \in queue'[k] => d \in queue[k] \/ (d = c /\ k = z)
<1>1. NextKey(c) \in Keys
  BY RoutingKey DEF TypeOK
<1>2. queue \in [Keys -> SUBSET Calls]
  BY DEF TypeOK, BrokerTypeOK
<1> QED
  BY <1>1, <1>2 DEF PublishRequest

LEMMA WorkerMoves ==
  ASSUME TypeOK, NEW c \in Calls,
         NEW w \in Workers, Work(w) \/ DeliverToWorker(w) \/ WorkFault(w)
  PROVE  Moved(c) \/ Fewer(c)
<1> USE DEF TypeOK, BrokerTypeOK, WorkerTypeOK
<1>1. UNCHANGED <<pbuf, pcur>>
  BY WorkerFrame DEF prepVars
<1>2. CASE UNCHANGED queue /\ \A x \in Workers : unacked'[x] \subseteq unacked[x]
  BY <1>1, <1>2 DEF Fewer, Holders
<1>3. ASSUME NEW d \in Calls, BrokerDelivers(w, d) PROVE Moved(c) \/ Fewer(c)
  <2>1. CASE d = c
    <3>1. <<"queue", OcrKey>> \in Holders(c)
      BY <1>3, <2>1 DEF BrokerDelivers, Holders, Keys
    <3>2. Holders(c)' \subseteq (Holders(c) \ {<<"queue", OcrKey>>}) \cup {<<"unacked", w>>}
      BY <1>1, <1>3, <2>1 DEF BrokerDelivers, Holders, Keys
    <3> QED
      BY <3>1, <3>2 DEF Moved
  <2>2. CASE d # c
    BY <1>1, <1>3, <2>2 DEF BrokerDelivers, Holders, Keys, Fewer
  <2> QED
    BY <2>1, <2>2
<1>4. ASSUME Requeue(w) PROVE Moved(c) \/ Fewer(c)
  <2>1. CASE c \in unacked[w]
    <3>1. <<"unacked", w>> \in Holders(c)
      BY <2>1 DEF Holders
    <3>2. Holders(c)' \subseteq (Holders(c) \ {<<"unacked", w>>}) \cup {<<"queue", OcrKey>>}
      BY <1>1, <1>4, <2>1 DEF Requeue, Holders, Keys
    <3> QED
      BY <3>1, <3>2 DEF Moved
  <2>2. CASE c \notin unacked[w]
    BY <1>1, <1>4, <2>2 DEF Requeue, Holders, Keys, Fewer
  <2> QED
    BY <2>1, <2>2
<1>5. CASE WorkerRun(w) \/ EngineRuns(w) \/ SendRpcResponse(w)
           \/ RespondIntoBrokenSession(w) \/ RespondFails(w)
           \/ DeliveriesClosed(w) \/ \E d \in Calls : WorkerTakes(w, d)
  <2>1. UNCHANGED <<queue, unacked>>
    BY <1>5 DEF WorkerRun, EngineRuns, SendRpcResponse, RespondIntoBrokenSession,
         RespondFails, DeliveriesClosed, WorkerTakes, brokerVars
  <2> QED
    BY <1>2, <2>1
<1>6. CASE Ack(w)
  BY <1>2, <1>6 DEF Ack, brokerVars
<1> QED
  BY <1>3, <1>4, <1>5, <1>6
  DEF Work, DeliverToWorker, WorkFault, WorkerStep, WorkerFault,
      WorkerPanics, WorkerCrashes, WorkerSessionLost, ProcessEnds

LEMMA PrepMoves ==
  ASSUME TypeOK, NEW c \in Calls,
         NEW p \in Preps, Preprocess(p) \/ DeliverToPrep(p) \/ PreprocessFault(p)
  PROVE  Moved(c) \/ Fewer(c)
<1> USE CallsAssumption DEF TypeOK, BrokerTypeOK, PrepTypeOK
<1>1. UNCHANGED unacked
  BY PrepFrame DEF workerVars
<1>2. CASE PrepForwards(p)
  <2>1. pcur[p] \in Calls /\ PublishRequest(pcur[p])
    BY <1>2 DEF PrepForwards
  <2>2. PICK z \in Keys : \A d \in Calls : \A k \in Keys :
            d \in queue'[k] => d \in queue[k] \/ (d = pcur[p] /\ k = z)
    BY <2>1, PublicationPlaces
  <2>3. CASE c = pcur[p]
    <3>1. <<"preprocessor", p>> \in Holders(c)
      BY <2>3 DEF Holders
    <3>2. Holders(c)' \subseteq (Holders(c) \ {<<"preprocessor", p>>}) \cup {<<"queue", z>>}
      BY <1>1, <1>2, <2>2, <2>3 DEF PrepForwards, NextDelivery, Holders
    <3> QED
      BY <3>1, <3>2 DEF Moved
  <2>4. CASE c # pcur[p]
    BY <1>1, <1>2, <2>2, <2>4 DEF PrepForwards, NextDelivery, Holders, Fewer
  <2> QED
    BY <2>3, <2>4
<1>3. ASSUME NEW d \in Calls, PrepTakes(p, d) PROVE Moved(c) \/ Fewer(c)
  <2>1. CASE d = c
    <3>1. <<"buffer", p>> \in Holders(c)
      BY <1>3, <2>1 DEF PrepTakes, Holders
    <3>2. Holders(c)' \subseteq (Holders(c) \ {<<"buffer", p>>}) \cup {<<"preprocessor", p>>}
      BY <1>1, <1>3, <2>1 DEF PrepTakes, Holders, brokerVars
    <3> QED
      BY <3>1, <3>2 DEF Moved
  <2>2. CASE d # c
    BY <1>1, <1>3, <2>2 DEF PrepTakes, Holders, Fewer, brokerVars
  <2> QED
    BY <2>1, <2>2
<1>4. ASSUME NEW d \in Calls, BrokerHandsOver(p, d) PROVE Moved(c) \/ Fewer(c)
  <2>1. KeyOf[p] \in Keys
    BY PrepsAssumption DEF Keys
  <2>2. CASE d = c
    <3>1. <<"queue", KeyOf[p]>> \in Holders(c)
      BY <1>4, <2>1, <2>2 DEF BrokerHandsOver, Holders
    <3>2. Holders(c)' \subseteq (Holders(c) \ {<<"queue", KeyOf[p]>>}) \cup {<<"buffer", p>>}
      BY <1>1, <1>4, <2>1, <2>2 DEF BrokerHandsOver, Holders
    <3> QED
      BY <3>1, <3>2 DEF Moved
  <2>3. CASE d # c
    BY <1>1, <1>4, <2>1, <2>3 DEF BrokerHandsOver, Holders, Fewer
  <2> QED
    BY <2>2, <2>3
<1>5. CASE PrepRun(p) \/ PrepRunFails(p) \/ PrepSessionLost(p)
  BY <1>1, <1>5 DEF PrepRun, PrepRunFails, PrepSessionLost, Holders, Fewer
<1>6. CASE PrepDeliveriesClosed(p) \/ PrepCrashes(p) \/ PrepLosesRequest(p)
  BY <1>1, <1>6 DEF PrepDeliveriesClosed, PrepCrashes, PrepLosesRequest,
                    NextDelivery, Holders, Fewer
<1> QED
  BY <1>2, <1>3, <1>4, <1>5, <1>6
  DEF Preprocess, DeliverToPrep, PreprocessFault, PrepStep, PrepFault,
      PrepPublishFails, PreprocessFails

(* What is nowhere was not published, or is gone.                           *)
LEMMA UnpublishedIsNowhere ==
  ASSUME PublishedInv, NEW c \in Calls, ~Submitted(c)
  PROVE  Holders(c) = {}
<1> QED
  BY CallsAssumption DEF PublishedInv, Holders

LEMMA ClientMoves ==
  ASSUME TypeOK, ClientInv, PublishedInv, OnePlace, NEW c \in Calls,
         NEW d \in Calls, Call(d) \/ Listen(d) \/ CallFault(d)
  PROVE  \A x, y \in Holders(c)' : x = y
<1>1. UNCHANGED <<unacked, pbuf, pcur>>
  BY ClientFrame DEF workerVars, prepVars
<1>2. CASE UNCHANGED queue
  BY <1>1, <1>2 DEF OnePlace, Holders
<1>3. CASE Publish(d) /\ d = c
  <2>1. Holders(c) = {}
    BY <1>3, UnpublishedIsNowhere DEF Publish, Submitted, ClientInv, ReplyInv
  <2>2. PICK z \in Keys : \A e \in Calls : \A k \in Keys :
            e \in queue'[k] => e \in queue[k] \/ (e = c /\ k = z)
    BY <1>3, PublicationPlaces DEF Publish
  <2>3. Holders(c)' \subseteq {<<"queue", z>>}
    BY <1>1, <2>1, <2>2 DEF Holders
  <2> QED
    BY <2>3
<1>4. CASE Publish(d) /\ d # c
  <2>1. \A k \in Keys : c \in queue'[k] => c \in queue[k]
    BY <1>4, Published DEF Publish
  <2>2. Fewer(c)
    BY <1>1, <2>1 DEF Fewer, Holders
  <2> QED
    BY <2>2, MovesKeepOnePlace DEF OnePlace
<1> QED
  BY <1>2, <1>3, <1>4, ClientQueues

(* A request is at one place at most, so no two workers with a live session *)
(* and no worker and preprocessor ever hold the same request                *)
(* (ocr_rpc_worker.go:129-137, preprocessor_rpc_worker.go:116-124).         *)
THEOREM RequestsAreAtOnePlace == Spec => []OnePlace
<1>1. Init => OnePlace
  BY CallsAssumption DEF Init, BrokerInit, WorkerInit, PrepInit, OnePlace, Holders
<1>2. TypeOK /\ LossInv /\ OnePlace /\ [Next]_vars => OnePlace'
  <2> SUFFICES ASSUME TypeOK, LossInv, OnePlace, [Next]_vars, NEW c \in Calls
               PROVE  \A x, y \in Holders(c)' : x = y
    BY DEF OnePlace
  <2>1. ASSUME Moved(c) \/ Fewer(c) PROVE \A x, y \in Holders(c)' : x = y
    BY <2>1, MovesKeepOnePlace DEF OnePlace
  <2>2. CASE BrokerRestarts
    <3>1. Fewer(c)
      BY <2>2 DEF BrokerRestarts, Fewer, Holders
    <3> QED
      BY <2>1, <3>1
  <2>3. CASE UNCHANGED vars
    BY <2>1, <2>3 DEF vars, brokerVars, workerVars, prepVars, Fewer, Holders
  <2> QED
    BY <2>1, <2>2, <2>3, ClientMoves, WorkerMoves, PrepMoves DEF Next, LossInv
<1> QED
  BY <1>1, <1>2, TypeCorrect, LossInvariant, PTL DEF Spec

-----------------------------------------------------------------------------
(* The chain.  A request on the OCR side has its chain behind it; one that  *)
(* waits at a preprocessor or for it has the entries after the one it waits *)
(* for behind it; and it cannot be on both sides, nor twice among the       *)
(* preprocessors.                                                           *)
AtOcr(c) ==
    \/ c \in queue[OcrKey]
    \/ \E w \in Workers : c \in unacked[w] \/ c \in wbuf[w] \/ c = wcur[w]
AtPrep(c, k) ==
    \/ c \in queue[k]
    \/ \E p \in Preps : KeyOf[p] = k /\ (c \in pbuf[p] \/ c = pcur[p])

(* The last m entries of the chain of c were applied, the last one first.   *)
Behind(c, m) ==
    /\ Len(applied[c]) = m
    /\ \A i \in 1..m : applied[c][i] = ChainOf[c][Len(ChainOf[c]) + 1 - i]

Complete(c) == left[c] = 0 /\ Behind(c, Len(ChainOf[c]))
WaitsFor(c, k) ==
    /\ left[c] < Len(ChainOf[c])
    /\ k = ChainOf[c][left[c] + 1]
    /\ Behind(c, Len(ChainOf[c]) - left[c] - 1)

Chained(c) ==
    /\ ~Submitted(c) => left[c] = Len(ChainOf[c]) /\ Behind(c, 0)
    /\ AtOcr(c) => Complete(c)
    /\ \A k \in PrepKeys : AtPrep(c, k) => WaitsFor(c, k)
ChainInv == \A c \in Calls : Chained(c)

LEMMA ChainTypes ==
  ASSUME TypeOK, NEW c \in Calls
  PROVE  /\ ChainOf[c] \in Seq(PrepKeys) /\ Len(ChainOf[c]) \in Nat
         /\ left[c] \in Nat /\ left[c] <= Len(ChainOf[c])
         /\ applied[c] \in Seq(PrepKeys) /\ Len(applied[c]) \in Nat
<1> QED
  BY ChainAssumption DEF TypeOK, BrokerTypeOK, PrepTypeOK

(* A request that is still to be preprocessed is not on the OCR side.       *)
LEMMA SidesAreApart ==
  ASSUME TypeOK, NEW c \in Calls, NEW k, WaitsFor(c, k)
  PROVE  ~Complete(c)
<1> QED
  BY ChainTypes DEF WaitsFor, Complete, Behind

(* A step that moves c on neither side and applies nothing to it.           *)
LEMMA ChainStays ==
  ASSUME NEW c \in Calls, Chained(c),
         left'[c] = left[c], applied'[c] = applied[c],
         Submitted(c) => Submitted(c)',
         AtOcr(c)' => AtOcr(c),
         \A k \in PrepKeys : AtPrep(c, k)' => AtPrep(c, k)
  PROVE  Chained(c)'
<1> QED
  BY DEF Chained, Complete, WaitsFor, Behind

(* Publishing c, when all it has left is what is not behind it, takes it to *)
(* its next place.                                                          *)
LEMMA ChainAdvances ==
  ASSUME TypeOK, TypeOK', NEW c \in Calls, left'[c] = LeftAfter(c),
         NEW m, m = Len(ChainOf[c]) - left[c], Behind(c, m)',
         NEW k, k = NextKey(c)
  PROVE  /\ k = OcrKey => Complete(c)'
         /\ k # OcrKey => WaitsFor(c, k)'
<1> DEFINE n == Len(ChainOf[c])
<1>1. n \in Nat /\ left[c] \in Nat /\ left[c] <= n
  BY ChainTypes
<1>2. CASE left[c] = 0
  BY <1>1, <1>2 DEF LeftAfter, NextKey, Complete
<1>3. CASE left[c] # 0
  <2>1. left'[c] = left[c] - 1
    BY <1>3 DEF LeftAfter
  <2>2. k = ChainOf[c][left[c]]
    BY <1>3 DEF NextKey
  <2>3. k # OcrKey
    BY <1>1, <1>3, <2>2, ChainTypes, KeysAssumption
  <2>4. left'[c] + 1 = left[c] /\ left'[c] < n /\ n - left'[c] - 1 = m
    BY <1>1, <1>3, <2>1
  <2> QED
    BY <2>2, <2>3, <2>4 DEF WaitsFor
<1> QED
  BY <1>2, <1>3

LEMMA ClientChain ==
  ASSUME TypeOK, TypeOK', ClientInv, PublishedInv, ChainInv, [Next]_vars,
         NEW d \in Calls, Call(d) \/ Listen(d) \/ CallFault(d), NEW c \in Calls
  PROVE  Chained(c)'
<1>1. UNCHANGED <<workerVars, prepVars>>
  BY ClientFrame
<1>2. Submitted(c) => Submitted(c)'
  BY SubmittedStays DEF ClientInv
<1>3. CASE Publish(d) /\ d = c
  <2>1. PICK k : k = NextKey(c)
    OBVIOUS
  <2>2. PICK m : m = Len(ChainOf[c]) - left[c]
    OBVIOUS
  <2>3. ~Submitted(c) /\ Submitted(c)'
    BY <1>3 DEF Publish, Submitted, ClientInv, ReplyInv, TypeOK, ClientTypeOK
  <2>4. left[c] = Len(ChainOf[c]) /\ Behind(c, 0)
    BY <2>3 DEF ChainInv, Chained
  <2>5. Behind(c, m)'
    BY <1>1, <2>2, <2>4, ChainTypes DEF Behind, prepVars
  <2>6. left'[c] = LeftAfter(c)
    BY <1>3 DEF Publish, PublishRequest, TypeOK, BrokerTypeOK
  <2>7. ~AtOcr(c) /\ \A x \in PrepKeys : ~AtPrep(c, x)
    BY <2>3, CallsAssumption DEF AtOcr, AtPrep, PublishedInv, Keys
  <2>8. \A x \in Keys : c \in queue'[x] => c \in queue[x] \/ x = k
    BY <1>3, <2>1 DEF Publish, PublishRequest, TypeOK, BrokerTypeOK
  <2>9. AtOcr(c)' => k = OcrKey
    BY <1>1, <2>7, <2>8 DEF AtOcr, workerVars, Keys
  <2>10. \A x \in PrepKeys : AtPrep(c, x)' => k = x
    BY <1>1, <2>7, <2>8 DEF AtPrep, prepVars, Keys
  <2>11. /\ k = OcrKey => Complete(c)'
         /\ k # OcrKey => WaitsFor(c, k)'
    BY <2>1, <2>2, <2>5, <2>6, ChainAdvances
  <2> QED
    BY <2>3, <2>9, <2>10, <2>11, KeysAssumption DEF Chained
<1>4. CASE ~(Publish(d) /\ d = c)
  <2>1. left'[c] = left[c] /\ \A k \in Keys : c \in queue'[k] => c \in queue[k]
    <3>1. CASE Publish(d)
      <4>1. left' = [left EXCEPT ![d] = LeftAfter(d)]
        BY <3>1 DEF Publish, PublishRequest
      <4>2. \A k \in Keys : queue'[k] \subseteq queue[k] \cup {d}
        BY <3>1, Published DEF Publish
      <4> QED
        BY <1>4, <3>1, <4>1, <4>2 DEF TypeOK, BrokerTypeOK
    <3>2. CASE ~Publish(d)
      BY <3>2 DEF Call, Listen, CallFault, ClientStep, ListenerStep, ClientFault,
         RejectReplyTo, Dial, Subscribe, SetupFails,
         PublishIntoBrokenConnection, PublishFails, AcceptDeferred,
         ReceiveResult, WaitTimeout, ListenerSends, ListenerCloses,
         ListenerEnds, DialFails, ImageFails, ClientConnLost, brokerVars
    <3> QED
      BY <3>1, <3>2
  <2>2. AtOcr(c)' => AtOcr(c)
    BY <1>1, <2>1 DEF AtOcr, workerVars, Keys
  <2>3. \A k \in PrepKeys : AtPrep(c, k)' => AtPrep(c, k)
    BY <1>1, <2>1 DEF AtPrep, prepVars, Keys
  <2> QED
    BY <1>1, <1>2, <2>1, <2>2, <2>3, ChainStays DEF ChainInv, prepVars
<1> QED
  BY <1>3, <1>4

LEMMA WorkerChain ==
  ASSUME TypeOK, ChainInv, ReplyInv, [Next]_vars, NEW w \in Workers,
         Work(w) \/ DeliverToWorker(w) \/ WorkFault(w), NEW c \in Calls
  PROVE  Chained(c)'
<1> USE DEF TypeOK, BrokerTypeOK, WorkerTypeOK
<1>1. UNCHANGED <<clientVars, prepVars>>
  BY WorkerFrame
<1>2. Submitted(c) => Submitted(c)'
  BY SubmittedStays
<1>3. UNCHANGED left /\ \A k \in Keys \ {OcrKey} : queue'[k] = queue[k]
  BY DEF Work, DeliverToWorker, WorkFault, WorkerStep, WorkerFault,
     WorkerRun, BrokerDelivers, WorkerTakes, EngineRuns, SendRpcResponse,
     RespondIntoBrokenSession, RespondFails, Ack, DeliveriesClosed, Requeue,
     WorkerSessionLost, WorkerPanics, WorkerCrashes, ProcessEnds, brokerVars
<1>4. \A k \in PrepKeys : AtPrep(c, k)' => AtPrep(c, k)
  BY <1>1, <1>3, KeysAssumption DEF AtPrep, prepVars, Keys
<1>5. AtOcr(c)' => AtOcr(c)
  <2> DEFINE Shrunk == \A x \in Workers :
                 /\ unacked'[x] \subseteq unacked[x] /\ wbuf'[x] \subseteq wbuf[x]
                 /\ wcur'[x] \in {wcur[x], NoCall}
  <2>1. ASSUME NEW d \in Calls, BrokerDelivers(w, d)
        PROVE  AtOcr(c)' => AtOcr(c)
    <3>1. d \in queue[OcrKey] /\ queue'[OcrKey] \subseteq queue[OcrKey] /\ UNCHANGED wcur
      BY <2>1 DEF BrokerDelivers, Keys
    <3>2. \A x \in Workers : /\ unacked'[x] \subseteq unacked[x] \cup {d}
                             /\ wbuf'[x] \subseteq wbuf[x] \cup {d}
      BY <2>1 DEF BrokerDelivers
    <3> QED
      BY <3>1, <3>2 DEF AtOcr
  <2>2. ASSUME NEW d \in Calls, WorkerTakes(w, d)
        PROVE  AtOcr(c)' => AtOcr(c)
    <3>1. d \in wbuf[w] /\ UNCHANGED <<queue, unacked>>
      BY <2>2 DEF WorkerTakes, brokerVars
    <3>2. \A x \in Workers : wbuf'[x] \subseteq wbuf[x] /\ wcur'[x] \in {wcur[x], d}
      BY <2>2 DEF WorkerTakes
    <3> QED
      BY <3>1, <3>2 DEF AtOcr
  <2>3. CASE WorkerRun(w) \/ EngineRuns(w) \/ SendRpcResponse(w)
             \/ RespondIntoBrokenSession(w)
    <3>1. UNCHANGED <<queue, unacked, wbuf, wcur>>
      BY <2>3 DEF WorkerRun, EngineRuns, SendRpcResponse, RespondIntoBrokenSession,
           brokerVars
    <3> QED
      BY <3>1 DEF AtOcr
  <2>4. CASE RespondFails(w) \/ Ack(w) \/ DeliveriesClosed(w)
    <3>1. UNCHANGED queue
      BY <2>4 DEF RespondFails, Ack, DeliveriesClosed, brokerVars
    <3>2. Shrunk
      <4>1. CASE RespondFails(w) \/ DeliveriesClosed(w)
        BY <4>1 DEF RespondFails, DeliveriesClosed
      <4>2. CASE Ack(w)
        BY <4>2 DEF Ack
      <4> QED
        BY <2>4, <4>1, <4>2
    <3> QED
      BY <3>1, <3>2, CallsAssumption DEF AtOcr
  <2>5. CASE WorkerSessionLost(w) \/ ProcessEnds(w)
    <3>1. Shrunk
      BY <2>5 DEF WorkerSessionLost, ProcessEnds, Requeue
    <3>2. queue'[OcrKey] = queue[OcrKey] \cup unacked[w]
      BY <2>5 DEF WorkerSessionLost, ProcessEnds, Requeue, Keys
    <3> QED
      BY <3>1, <3>2, CallsAssumption DEF AtOcr
  <2> QED
    BY <2>1, <2>2, <2>3, <2>4, <2>5 DEF Work, DeliverToWorker, WorkFault, WorkerStep,
       WorkerFault, WorkerPanics, WorkerCrashes
<1> HIDE DEF TypeOK, BrokerTypeOK, WorkerTypeOK
<1> QED
  BY <1>1, <1>2, <1>3, <1>4, <1>5, ChainStays DEF ChainInv, prepVars

LEMMA ForwardChain ==
  ASSUME TypeOK, TypeOK', PublishedInv, OnePlace, ChainInv,
         NEW p \in Preps, PrepForwards(p), UNCHANGED <<clientVars, workerVars>>,
         NEW c \in Calls
  PROVE  Chained(c)'
<1>1. pcur[p] \in Calls /\ PublishRequest(pcur[p])
  BY DEF PrepForwards, TypeOK, PrepTypeOK
<1>2. PICK e \in Calls : e = pcur[p]
  BY <1>1
<1>3. PICK k : k = NextKey(e)
  OBVIOUS
<1>4. \A d \in Calls : \A x \in Keys :
          d \in queue'[x] => d \in queue[x] \/ (d = e /\ x = k)
  BY <1>1, <1>2, <1>3 DEF PublishRequest, TypeOK, BrokerTypeOK
<1>5. /\ UNCHANGED pbuf
      /\ \A x \in Preps : pcur'[x] \in {pcur[x], NoCall}
      /\ pcur'[p] = NoCall
  BY DEF PrepForwards, NextDelivery, TypeOK, PrepTypeOK
<1>6. CASE c # e
  <2>1. left'[c] = left[c]
    BY <1>1, <1>2, <1>6 DEF PublishRequest, TypeOK, BrokerTypeOK
  <2>2. applied'[c] = applied[c]
    BY <1>2, <1>6 DEF PrepForwards, TypeOK, PrepTypeOK
  <2>3. AtOcr(c)' => AtOcr(c)
    BY <1>4, <1>6 DEF AtOcr, workerVars, Keys
  <2>4. \A x \in PrepKeys : AtPrep(c, x)' => AtPrep(c, x)
    BY <1>4, <1>5, <1>6, CallsAssumption DEF AtPrep, Keys
  <2>5. Submitted(c) => Submitted(c)'
    BY DEF Submitted, clientVars
  <2> QED
    BY <2>1, <2>2, <2>3, <2>4, <2>5, ChainStays DEF ChainInv
<1>7. CASE c = e
  <2>1. AtPrep(c, KeyOf[p]) /\ KeyOf[p] \in PrepKeys
    BY <1>2, <1>7, PrepsAssumption DEF AtPrep
  <2>2. WaitsFor(c, KeyOf[p]) /\ ~Complete(c)
    BY <2>1, SidesAreApart DEF ChainInv, Chained
  <2>3. ~AtOcr(c)
    BY <2>2 DEF ChainInv, Chained
  <2>4. <<"preprocessor", p>> \in Holders(c)
    BY <1>2, <1>7 DEF Holders
  <2>5. ASSUME NEW x \in PrepKeys PROVE c \notin queue[x]
    <3>1. c \in queue[x] => <<"queue", x>> \in Holders(c)
      BY DEF Holders, Keys
    <3>2. <<"queue", x>> # <<"preprocessor", p>>
      OBVIOUS
    <3> QED
      BY <2>4, <3>1, <3>2 DEF OnePlace
  <2>6. ASSUME NEW x \in Preps PROVE c \notin pbuf[x] /\ (c = pcur[x] => x = p)
    <3>1. /\ c \in pbuf[x] => <<"buffer", x>> \in Holders(c)
          /\ c = pcur[x] => <<"preprocessor", x>> \in Holders(c)
      BY DEF Holders
    <3>2. /\ <<"buffer", x>> # <<"preprocessor", p>>
          /\ <<"preprocessor", x>> = <<"preprocessor", p>> => x = p
      OBVIOUS
    <3> QED
      BY <2>4, <3>1, <3>2 DEF OnePlace
  <2>7. PICK m : m = Len(ChainOf[c]) - left[c]
    OBVIOUS
  <2>8. Behind(c, m)'
    <3>1. applied'[c] = Append(applied[c], KeyOf[p])
      BY <1>2, <1>7 DEF PrepForwards, TypeOK, PrepTypeOK
    <3>2. KeyOf[p] = ChainOf[c][left[c] + 1] /\ Behind(c, m - 1) /\ m \in Nat
      BY <2>2, <2>7, ChainTypes DEF WaitsFor
    <3>3. left[c] + 1 = Len(ChainOf[c]) + 1 - m
      BY <2>7, ChainTypes
    <3>4. Len(applied[c]) = m - 1 /\ applied[c] \in Seq(PrepKeys)
      BY <3>2, ChainTypes DEF Behind
    <3>5. Len(applied'[c]) = m /\ applied'[c][m] = KeyOf[p]
      BY <3>1, <3>2, <3>4
    <3>6. \A i \in 1..(m - 1) : applied'[c][i] = applied[c][i]
      BY <3>1, <3>2, <3>4
    <3>7. ASSUME NEW i \in 1..m
          PROVE  applied'[c][i] = ChainOf[c][Len(ChainOf[c]) + 1 - i]
      <4>1. CASE i = m
        BY <3>2, <3>3, <3>5, <4>1
      <4>2. CASE i # m
        <5>1. i \in 1..(m - 1)
          BY <3>2, <4>2
        <5> QED
          BY <3>2, <3>6, <5>1 DEF Behind
      <4> QED
        BY <4>1, <4>2
    <3> QED
      BY <3>5, <3>7 DEF Behind
  <2>9. left'[c] = LeftAfter(c)
    BY <1>1, <1>2, <1>7 DEF PublishRequest, TypeOK, BrokerTypeOK
  <2>10. AtOcr(c)' => k = OcrKey
    BY <1>4, <2>3 DEF AtOcr, workerVars, Keys
  <2>11. \A x \in PrepKeys : AtPrep(c, x)' => k = x
    BY <1>4, <1>5, <2>5, <2>6, CallsAssumption DEF AtPrep, Keys
  <2>12. /\ k = OcrKey => Complete(c)'
         /\ k # OcrKey => WaitsFor(c, k)'
    BY <1>3, <1>7, <2>7, <2>8, <2>9, ChainAdvances
  <2>13. Submitted(c)'
    BY <1>2, <1>7, CallsAssumption DEF PublishedInv, Submitted, clientVars
  <2> QED
    BY <2>10, <2>11, <2>12, <2>13, KeysAssumption DEF Chained
<1> QED
  BY <1>6, <1>7

LEMMA PrepChain ==
  ASSUME TypeOK, TypeOK', ReplyInv, PublishedInv, OnePlace, ChainInv, [Next]_vars,
         NEW p \in Preps, Preprocess(p) \/ DeliverToPrep(p) \/ PreprocessFault(p),
         NEW c \in Calls
  PROVE  Chained(c)'
<1>1. UNCHANGED <<clientVars, workerVars>>
  BY PrepFrame
<1>2. CASE PrepForwards(p)
  BY <1>1, <1>2, ForwardChain
<1>3. CASE ~PrepForwards(p)
  <2>1. UNCHANGED <<left, applied>>
    BY <1>3 DEF Preprocess, DeliverToPrep, PreprocessFault, PrepStep, PrepFault,
       PrepRun, PrepRunFails, BrokerHandsOver, PrepTakes, PrepPublishFails,
       PreprocessFails, PrepLosesRequest, PrepDeliveriesClosed, PrepSessionLost,
       PrepCrashes, brokerVars
  <2>2. /\ AtOcr(c)' => AtOcr(c)
        /\ \A k \in PrepKeys : AtPrep(c, k)' => AtPrep(c, k)
    <3> USE PrepsAssumption DEF TypeOK, BrokerTypeOK, PrepTypeOK, Keys
    <3>0. ASSUME \A k \in Keys : queue'[k] \subseteq queue[k]
          PROVE  AtOcr(c)' => AtOcr(c)
      BY <1>1, <3>0 DEF AtOcr, workerVars
    <3>1. ASSUME NEW d \in Calls, BrokerHandsOver(p, d)
          PROVE  /\ AtOcr(c)' => AtOcr(c)
                 /\ \A k \in PrepKeys : AtPrep(c, k)' => AtPrep(c, k)
      <4>1. UNCHANGED pcur /\ \A k \in Keys : queue'[k] \subseteq queue[k]
        BY <3>1 DEF BrokerHandsOver
      <4>2. \A x \in Preps : c \in pbuf'[x] => c \in pbuf[x] \/ c \in queue[KeyOf[x]]
        BY <3>1 DEF BrokerHandsOver
      <4> QED
        BY <3>0, <4>1, <4>2 DEF AtPrep
    <3>2. ASSUME NEW d \in Calls, PrepTakes(p, d)
          PROVE  /\ AtOcr(c)' => AtOcr(c)
                 /\ \A k \in PrepKeys : AtPrep(c, k)' => AtPrep(c, k)
      <4>1. d \in pbuf[p] /\ UNCHANGED queue
        BY <3>2 DEF PrepTakes, brokerVars
      <4>2. \A x \in Preps : /\ pbuf'[x] \subseteq pbuf[x]
                             /\ pcur'[x] = pcur[x] \/ (x = p /\ pcur'[x] = d)
        BY <3>2 DEF PrepTakes
      <4> QED
        BY <3>0, <4>1, <4>2 DEF AtPrep
    <3>3. CASE PrepRun(p) \/ PrepRunFails(p) \/ PrepSessionLost(p)
      <4>1. UNCHANGED <<queue, pbuf, pcur>>
        BY <3>3 DEF PrepRun, PrepRunFails, PrepSessionLost
      <4> QED
        BY <3>0, <4>1 DEF AtPrep
    <3>4. CASE PrepLosesRequest(p) \/ PrepDeliveriesClosed(p) \/ PrepCrashes(p)
      <4>1. UNCHANGED queue
        BY <3>4 DEF PrepLosesRequest, PrepDeliveriesClosed, PrepCrashes
      <4>2. \A x \in Preps : pcur'[x] \in {pcur[x], NoCall}
        BY <3>4, SMT DEF PrepLosesRequest, NextDelivery, PrepDeliveriesClosed, PrepCrashes
      <4>3. pbuf' \in {pbuf, [pbuf EXCEPT ![p] = {}]}
        BY <3>4 DEF PrepLosesRequest, PrepDeliveriesClosed, PrepCrashes
      <4>4. \A x \in Preps : pbuf'[x] \subseteq pbuf[x]
        BY <4>3
      <4> QED
        BY <3>0, <4>1, <4>2, <4>4, CallsAssumption DEF AtPrep
    <3> HIDE DEF TypeOK, BrokerTypeOK, PrepTypeOK, Keys
    <3>5. CASE Preprocess(p)
      BY <1>3, <3>2, <3>3, <3>4, <3>5 DEF Preprocess, PrepStep, PrepPublishFails
    <3>6. CASE DeliverToPrep(p)
      BY <3>1, <3>6 DEF DeliverToPrep
    <3>7. CASE PreprocessFault(p)
      BY <3>3, <3>4, <3>7 DEF PreprocessFault, PrepFault, PreprocessFails
    <3> QED
      BY <3>5, <3>6, <3>7
  <2>3. Submitted(c) => Submitted(c)'
    BY SubmittedStays
  <2> QED
    BY <2>1, <2>2, <2>3, ChainStays DEF ChainInv
<1> QED
  BY <1>2, <1>3

(* All preprocessors of the chain have run, each once and the last entry    *)
(* first, before an OCR worker gets the request (openapi3.0.yml:122), for   *)
(* chains of any length, any number of preprocessors and any faults.        *)
THEOREM ChainsAreRun == Spec => []ChainBeforeOcr
<1>1. TypeOK /\ Init => ChainInv
  <2> SUFFICES ASSUME TypeOK, Init, NEW c \in Calls PROVE Chained(c)
    BY DEF ChainInv
  <2>1. left[c] = Len(ChainOf[c]) /\ Behind(c, 0)
    BY DEF Init, BrokerInit, PrepInit, Behind
  <2>2. ~AtOcr(c) /\ \A k \in PrepKeys : ~AtPrep(c, k)
    BY CallsAssumption
    DEF Init, BrokerInit, WorkerInit, PrepInit, AtOcr, AtPrep, Keys
  <2> QED
    BY <2>1, <2>2 DEF Chained
<1>2. TypeOK /\ TypeOK' /\ LossInv /\ OnePlace /\ ChainInv /\ [Next]_vars => ChainInv'
  <2> SUFFICES ASSUME TypeOK, TypeOK', LossInv, OnePlace, ChainInv, [Next]_vars,
                      NEW c \in Calls
               PROVE  Chained(c)'
    BY DEF ChainInv
  <2>1. ClientInv /\ ReplyInv /\ PublishedInv
    BY DEF LossInv, ClientInv
  <2>2. CASE BrokerRestarts \/ UNCHANGED vars
    <3>1. UNCHANGED <<left, applied>> /\ (Submitted(c) => Submitted(c)')
      BY <2>2 DEF BrokerRestarts, vars, brokerVars, prepVars, clientVars, Submitted
    <3>2. AtOcr(c)' => AtOcr(c)
      BY <2>2 DEF BrokerRestarts, vars, brokerVars, workerVars, AtOcr, Keys
    <3>3. \A k \in PrepKeys : AtPrep(c, k)' => AtPrep(c, k)
      BY <2>2 DEF BrokerRestarts, vars, brokerVars, prepVars, AtPrep, Keys
    <3> QED
      BY <3>1, <3>2, <3>3, ChainStays DEF ChainInv
  <2> QED
    BY <2>1, <2>2, ClientChain, WorkerChain, PrepChain DEF Next
<1>3. TypeOK /\ ChainInv => ChainBeforeOcr
  <2> SUFFICES ASSUME TypeOK, ChainInv, NEW w \in Workers, wcur[w] # NoCall
               PROVE  LET n == Len(ChainOf[wcur[w]])
                      IN  applied[wcur[w]] = [i \in 1..n |-> ChainOf[wcur[w]][n + 1 - i]]
    BY DEF ChainBeforeOcr
  <2>1. PICK c \in Calls : c = wcur[w]
    BY DEF TypeOK, WorkerTypeOK
  <2>2. Complete(c)
    BY <2>1 DEF ChainInv, Chained, AtOcr
  <2> DEFINE n == Len(ChainOf[c])
  <2>3. applied[c] \in Seq(PrepKeys) /\ Len(applied[c]) = n
    BY <2>2, ChainTypes DEF Complete, Behind
  <2>4. applied[c] = [i \in 1..n |-> applied[c][i]]
    BY <2>3
  <2>5. \A i \in 1..n : applied[c][i] = ChainOf[c][n + 1 - i]
    BY <2>2 DEF Complete, Behind
  <2>6. applied[c] = [i \in 1..n |-> ChainOf[c][n + 1 - i]]
    BY <2>4, <2>5, Zenon
  <2> QED
    BY <2>1, <2>6
<1> QED
  BY <1>1, <1>2, <1>3, TypeCorrect, LossInvariant, RequestsAreAtOnePlace, PTL DEF Spec
=============================================================================
