------------------------- MODULE NoSilentLossProofs -------------------------
(***************************************************************************)
(* Why no request is lost unnoticed.  NoSilentLoss is not inductive: that  *)
(* an acknowledgement loses nothing needs the answer to be in the callback *)
(* queue by then, which in turn needs that nobody works on a request that  *)
(* was not published and that a broken session acknowledges nothing.       *)
(***************************************************************************)
EXTENDS OcrRpcProofs

(* DecodeImage has a return value only once it returned.                    *)
ReplyInv == \A c \in Calls : cpc[c] # "done" => reply[c] = "none"

(* A callback queue lives no longer than its connection.                    *)
BoundInv == \A c \in bound : conn[c] = "open"

(* Only a live session has something to acknowledge.                        *)
SessionInv == \A w \in Workers : wsession[w] # "open" => unacked[w] = {}

(* Whatever is queued, delivered or worked on was published.                *)
PublishedInv ==
    /\ \A k \in Keys : \A c \in queue[k] : Submitted(c)
    /\ \A w \in Workers : \A c \in unacked[w] \cup wbuf[w] : Submitted(c)
    /\ \A w \in Workers : wcur[w] # NoCall => Submitted(wcur[w])
    /\ \A p \in Preps : \A c \in pbuf[p] : Submitted(c)
    /\ \A p \in Preps : pcur[p] # NoCall => Submitted(pcur[p])

(* A worker about to acknowledge on a live session has sent the answer.     *)
AnswerInv ==
    \A w \in Workers :
        wpc[w] = "ack" /\ wsession[w] = "open" /\ Awaited(wcur[w])
            => callback[wcur[w]] # {}

(* Somebody holds the request of c.                                         *)
Held(c) ==
    \/ \E k \in Keys : c \in queue[k]
    \/ \E w \in Workers : c \in unacked[w]
    \/ \E p \in Preps : c \in pbuf[p] \/ c = pcur[p]

Kept(c) == Held(c) \/ callback[c] # {} \/ c \in dropped
KeptInv == \A c \in Calls : Awaited(c) => Kept(c)

ClientInv == ReplyInv /\ BoundInv
LossInv == ClientInv /\ SessionInv /\ PublishedInv /\ AnswerInv /\ KeptInv

-----------------------------------------------------------------------------
(* What the steps of each party leave alone.                                *)
LEMMA ClientFrame ==
  ASSUME NEW c \in Calls, Call(c) \/ Listen(c) \/ CallFault(c)
  PROVE  UNCHANGED <<workerVars, prepVars, declared>>
<1> QED
  BY DEF Call, Listen, CallFault, ClientStep, ListenerStep, ClientFault,
         RejectReplyTo, Dial, Subscribe, SetupFails, Publish,
         PublishIntoBrokenConnection, PublishFails, AcceptDeferred,
         ReceiveResult, WaitTimeout, ListenerSends, ListenerCloses,
         ListenerEnds, DialFails, ImageFails, ClientConnLost, brokerVars

LEMMA WorkerFrame ==
  ASSUME NEW w \in Workers, Work(w) \/ DeliverToWorker(w) \/ WorkFault(w)
  PROVE  UNCHANGED <<clientVars, prepVars, bound, left, dropped>>
<1> QED
  BY DEF Work, DeliverToWorker, WorkFault, WorkerStep, WorkerFault,
         WorkerRun, BrokerDelivers, WorkerTakes, EngineRuns, SendRpcResponse,
         RespondIntoBrokenSession, RespondFails, Ack, DeliveriesClosed,
         WorkerSessionLost, WorkerPanics, WorkerCrashes, ProcessEnds, brokerVars

LEMMA PrepFrame ==
  ASSUME NEW p \in Preps, Preprocess(p) \/ DeliverToPrep(p) \/ PreprocessFault(p)
  PROVE  UNCHANGED <<clientVars, workerVars, bound, callback>>
<1> QED
  BY DEF Preprocess, DeliverToPrep, PreprocessFault, PrepStep, PrepFault,
         PrepRun, BrokerHandsOver, PrepTakes, PrepForwards, PrepPublishFails,
         PrepLosesRequest, PrepDeliveriesClosed, PrepRunFails, PreprocessFails,
         PrepSessionLost, PrepCrashes, brokerVars

-----------------------------------------------------------------------------
LEMMA ClientInvStep ==
  ASSUME TypeOK, ClientInv, [Next]_vars
  PROVE  ClientInv'
<1>0. ASSUME NEW c \in Calls, NEW r, Return(c, r), UNCHANGED <<conn, bound>>
      PROVE  ClientInv'
  <2>1. \A d \in Calls : cpc'[d] # "done" => cpc[d] # "done" /\ reply'[d] = reply[d]
    BY <1>0 DEF TypeOK, ClientTypeOK, Return
  <2> QED
    BY <1>0, <2>1 DEF ClientInv, ReplyInv, BoundInv
<1> USE DEF TypeOK, BrokerTypeOK, ClientTypeOK, ClientInv, ReplyInv, BoundInv
<1>1. ASSUME NEW c \in Calls, Call(c) PROVE ClientInv'
  <2>1. CASE RejectReplyTo(c) \/ SetupFails(c) \/ PublishFails(c)
    BY <1>0, <2>1 DEF RejectReplyTo, SetupFails, PublishFails, brokerVars
  <2>3. CASE AcceptDeferred(c) \/ WaitTimeout(c)
    BY <1>0, <2>3 DEF AcceptDeferred, WaitTimeout, brokerVars
  <2>4. CASE ReceiveResult(c)
    BY <1>0, <2>4 DEF ReceiveResult, brokerVars
  <2>2. CASE Dial(c) \/ Subscribe(c) \/ Publish(c) \/ PublishIntoBrokenConnection(c)
    BY <2>2 DEF Dial, Subscribe, Publish, PublishIntoBrokenConnection, brokerVars
  <2> QED
    BY <1>1, <2>1, <2>2, <2>3, <2>4 DEF Call, ClientStep
<1>2. ASSUME NEW c \in Calls, Listen(c) PROVE ClientInv'
  BY <1>2 DEF Listen, ListenerStep, ListenerSends, ListenerCloses, ListenerEnds, Unbind
<1>3. ASSUME NEW c \in Calls, CallFault(c) PROVE ClientInv'
  <2>1. CASE DialFails(c) \/ ImageFails(c)
    BY <1>0, <2>1 DEF DialFails, ImageFails
  <2>2. CASE ClientConnLost(c)
    BY <2>2 DEF ClientConnLost, Unbind
  <2> QED
    BY <1>3, <2>1, <2>2 DEF CallFault, ClientFault
<1>4. ASSUME UNCHANGED <<clientVars, bound>> PROVE ClientInv'
  BY <1>4 DEF clientVars
<1>5. CASE BrokerRestarts
  BY <1>5 DEF BrokerRestarts
<1> QED
  BY <1>1, <1>2, <1>3, <1>4, <1>5, WorkerFrame, PrepFrame DEF Next, vars, brokerVars

(* A published request stays published.                                     *)
LEMMA SubmittedStays ==
  ASSUME TypeOK, ReplyInv, [Next]_vars, NEW c \in Calls, Submitted(c)
  PROVE  Submitted(c)'
<1> USE DEF TypeOK, ClientTypeOK, ReplyInv, Submitted, brokerVars, Return
<1>1. ASSUME NEW d \in Calls, Call(d) PROVE Submitted(c)'
  BY <1>1 DEF Call, ClientStep, RejectReplyTo, Dial, Subscribe, SetupFails, Publish,
         PublishIntoBrokenConnection, PublishFails, AcceptDeferred,
         ReceiveResult, WaitTimeout
<1>2. ASSUME NEW d \in Calls, Listen(d) \/ CallFault(d) PROVE Submitted(c)'
  BY <1>2 DEF Listen, CallFault, ListenerStep, ListenerSends, ListenerCloses,
         ListenerEnds, ClientFault, DialFails, ImageFails, ClientConnLost
<1>3. ASSUME UNCHANGED clientVars PROVE Submitted(c)'
  BY <1>3 DEF clientVars
<1>4. CASE BrokerRestarts
  BY <1>4 DEF BrokerRestarts
<1> QED
  BY <1>1, <1>2, <1>3, <1>4, WorkerFrame, PrepFrame DEF Next, vars

(* A call comes to await its answer by publishing its request only.         *)
LEMMA AwaitedByPublish ==
  ASSUME TypeOK, ClientInv, [Next]_vars, NEW c \in Calls, Awaited(c)'
  PROVE  Awaited(c) \/ (Publish(c) /\ ~Submitted(c))
<1> USE DEF TypeOK, BrokerTypeOK, ClientTypeOK, ClientInv, ReplyInv, BoundInv,
            Awaited, Submitted, brokerVars, Return
<1>1. ASSUME NEW d \in Calls, Call(d), ~Publish(d)
      PROVE  Awaited(c)
  <2>1. CASE RejectReplyTo(d) \/ SetupFails(d) \/ PublishFails(d)
             \/ AcceptDeferred(d) \/ ReceiveResult(d) \/ WaitTimeout(d)
    BY <2>1 DEF RejectReplyTo, SetupFails, PublishFails, AcceptDeferred,
                ReceiveResult, WaitTimeout
  <2>2. CASE Dial(d)
    BY <2>2 DEF Dial
  <2>3. CASE Subscribe(d)
    BY <2>3 DEF Subscribe
  <2>4. CASE PublishIntoBrokenConnection(d)
    BY <2>4 DEF PublishIntoBrokenConnection
  <2> QED
    BY <1>1, <2>1, <2>2, <2>3, <2>4 DEF Call, ClientStep
<1>2. ASSUME NEW d \in Calls, Publish(d)
      PROVE  Awaited(c) \/ (Publish(c) /\ ~Submitted(c))
  BY <1>2 DEF Publish
<1>3. ASSUME NEW d \in Calls, Listen(d) \/ CallFault(d) PROVE Awaited(c)
  BY <1>3 DEF Listen, CallFault, ListenerStep, ListenerSends, ListenerCloses,
         ListenerEnds, ClientFault, DialFails, ImageFails, ClientConnLost, Unbind
<1>4. ASSUME UNCHANGED <<clientVars, bound>> PROVE Awaited(c)
  BY <1>4 DEF clientVars
<1>5. CASE BrokerRestarts
  BY <1>5 DEF BrokerRestarts
<1> QED
  BY <1>1, <1>2, <1>3, <1>4, <1>5, WorkerFrame, PrepFrame DEF Next, vars
-----------------------------------------------------------------------------
LEMMA SessionInvStep ==
  ASSUME TypeOK, SessionInv, [Next]_vars
  PROVE  SessionInv'
<1> USE DEF TypeOK, WorkerTypeOK, SessionInv
<1>1. ASSUME NEW w \in Workers, Work(w) PROVE SessionInv'
  BY <1>1 DEF Work, WorkerStep, WorkerRun, WorkerTakes, EngineRuns,
         SendRpcResponse, RespondIntoBrokenSession, RespondFails, Ack,
         DeliveriesClosed, WorkerPanics, ProcessEnds, Requeue
<1>2. ASSUME NEW w \in Workers, DeliverToWorker(w) \/ WorkFault(w) PROVE SessionInv'
  BY <1>2 DEF DeliverToWorker, BrokerDelivers, WorkFault, WorkerFault,
         WorkerSessionLost, WorkerCrashes, ProcessEnds, Requeue
<1>3. ASSUME UNCHANGED workerVars PROVE SessionInv'
  BY <1>3 DEF workerVars
<1>4. CASE BrokerRestarts
  BY <1>4 DEF BrokerRestarts
<1> QED
  BY <1>1, <1>2, <1>3, <1>4, ClientFrame, PrepFrame DEF Next, vars

(* A request that was published goes into the queue of a key or is dropped. *)
LEMMA Published ==
  ASSUME TypeOK, NEW c \in Calls, PublishRequest(c)
  PROVE  /\ \A k \in Keys : queue[k] \subseteq queue'[k] /\ queue'[k] \subseteq queue[k] \cup {c}
         /\ dropped \subseteq dropped'
         /\ (\E k \in Keys : c \in queue'[k]) \/ c \in dropped'
<1>1. PICK k \in Keys : k = NextKey(c)
  BY RoutingKey DEF TypeOK
<1>2. queue \in [Keys -> SUBSET Calls]
  BY DEF TypeOK, BrokerTypeOK
<1>3. CASE queue' = [queue EXCEPT ![k] = @ \cup {c}] /\ UNCHANGED dropped
  BY <1>2, <1>3
<1>4. CASE UNCHANGED queue /\ dropped' = dropped \cup {c}
  BY <1>4
<1> QED
  BY <1>1, <1>3, <1>4 DEF PublishRequest
(* The client publishes its own request and touches no other.               *)
LEMMA ClientQueues ==
  ASSUME NEW c \in Calls, Call(c) \/ Listen(c) \/ CallFault(c)
  PROVE  UNCHANGED <<queue, dropped>> \/ Publish(c)
<1> QED
  BY DEF Call, Listen, CallFault, ClientStep, ListenerStep, ClientFault,
         RejectReplyTo, Dial, Subscribe, SetupFails,
         PublishIntoBrokenConnection, PublishFails, AcceptDeferred,
         ReceiveResult, WaitTimeout, ListenerSends, ListenerCloses,
         ListenerEnds, DialFails, ImageFails, ClientConnLost, brokerVars

(* What changes hands among broker and preprocessors stays published.       *)
LEMMA HandedOn ==
  ASSUME TypeOK, PublishedInv, NEW c \in Calls,
         \A d \in Calls : Submitted(d) => Submitted(d)', Submitted(c)',
         UNCHANGED <<unacked, wbuf, wcur>>,
         \A k \in Keys : queue'[k] \subseteq queue[k] \cup {c},
         \A x \in Preps : pbuf'[x] \subseteq pbuf[x] \cup {c},
         \A x \in Preps : pcur'[x] \in {pcur[x], c, NoCall}
  PROVE  PublishedInv'
<1>0. /\ queue \in [Keys -> SUBSET Calls] /\ unacked \in [Workers -> SUBSET Calls]
      /\ wbuf \in [Workers -> SUBSET Calls] /\ pbuf \in [Preps -> SUBSET Calls]
      /\ wcur \in [Workers -> Calls \cup {NoCall}]
      /\ pcur \in [Preps -> Calls \cup {NoCall}]
  BY DEF TypeOK, BrokerTypeOK, WorkerTypeOK, PrepTypeOK
<1>1. ASSUME NEW k \in Keys, NEW d \in queue'[k] PROVE Submitted(d)'
  <2>1. d = c \/ d \in queue[k]
    BY <1>1
  <2>2. CASE d \in queue[k]
    <3>1. d \in Calls /\ Submitted(d)
      BY <1>0, <2>2 DEF PublishedInv
    <3> QED
      BY <3>1
  <2> QED
    BY <2>1, <2>2
<1>2. ASSUME NEW w \in Workers, NEW d \in unacked[w] \cup wbuf[w]
      PROVE  Submitted(d)'
  <2>1. d \in Calls /\ Submitted(d)
    BY <1>0, <1>2 DEF PublishedInv
  <2> QED
    BY <2>1
<1>3. ASSUME NEW w \in Workers, wcur[w] # NoCall PROVE Submitted(wcur[w])'
  <2>1. wcur[w] \in Calls /\ Submitted(wcur[w])
    BY <1>0, <1>3 DEF PublishedInv
  <2>2. PICK d \in Calls : d = wcur[w] /\ Submitted(d)
    BY <2>1
  <2>3. Submitted(d)' /\ wcur'[w] = d
    BY <2>2
  <2> QED
    BY <2>3
<1>4. ASSUME NEW x \in Preps, NEW d \in pbuf'[x] PROVE Submitted(d)'
  <2>1. d = c \/ d \in pbuf[x]
    BY <1>4
  <2>2. CASE d \in pbuf[x]
    <3>1. d \in Calls /\ Submitted(d)
      BY <1>0, <2>2 DEF PublishedInv
    <3> QED
      BY <3>1
  <2> QED
    BY <2>1, <2>2
<1>5. ASSUME NEW x \in Preps, pcur'[x] # NoCall PROVE Submitted(pcur[x])'
  <2>1. pcur'[x] = c \/ pcur'[x] = pcur[x]
    BY <1>5
  <2>2. CASE pcur'[x] = pcur[x]
    <3>1. pcur[x] \in Calls /\ Submitted(pcur[x])
      BY <1>0, <1>5, <2>2 DEF PublishedInv
    <3>2. PICK d \in Calls : d = pcur[x] /\ Submitted(d)
      BY <3>1
    <3> QED
      BY <2>2, <3>2
  <2> QED
    BY <2>1, <2>2
<1> QED
  BY <1>1, <1>2, <1>3, <1>4, <1>5 DEF PublishedInv

(* A preprocessor that loses its request only gives something away.         *)
LEMMA LosesKeepsPublished ==
  ASSUME TypeOK, ReplyInv, PublishedInv, [Next]_vars, UNCHANGED workerVars,
         NEW p \in Preps, PrepLosesRequest(p)
  PROVE  PublishedInv'
<1>1. \A c \in Calls : Submitted(c) => Submitted(c)'
  BY SubmittedStays
<1>2. UNCHANGED <<queue, pbuf, unacked, wbuf, wcur>>
  BY DEF PrepLosesRequest, workerVars
<1>3. \A x \in Preps : pcur'[x] \in {pcur[x], NoCall}
  BY DEF PrepLosesRequest, NextDelivery, TypeOK, PrepTypeOK
<1> QED
  BY <1>1, <1>2, <1>3
  DEF TypeOK, BrokerTypeOK, WorkerTypeOK, PrepTypeOK, PublishedInv

LEMMA PublishedInvStep ==
  ASSUME TypeOK, ReplyInv, PublishedInv, [Next]_vars
  PROVE  PublishedInv'
<1>1. \A c \in Calls : Submitted(c) => Submitted(c)'
  BY SubmittedStays
<1> USE DEF TypeOK, BrokerTypeOK, WorkerTypeOK, PrepTypeOK, PublishedInv
<1>2. ASSUME NEW c \in Calls, Call(c) \/ Listen(c) \/ CallFault(c) PROVE PublishedInv'
  <2>1. UNCHANGED <<workerVars, prepVars>>
    BY <1>2, ClientFrame
  <2>2. CASE UNCHANGED queue
    BY <1>1, <2>1, <2>2 DEF workerVars, prepVars
  <2>3. CASE Publish(c)
    <3>1. \A k \in Keys : queue'[k] \subseteq queue[k] \cup {c}
      BY <2>3, Published DEF Publish
    <3>2. Submitted(c)'
      BY <2>3 DEF Publish, Submitted, ClientTypeOK
    <3> QED
      BY <1>1, <2>1, <3>1, <3>2 DEF workerVars, prepVars
  <2> QED
    BY <1>2, <2>2, <2>3, ClientQueues
<1>3. ASSUME NEW w \in Workers, Work(w) PROVE PublishedInv'
  <2>1. UNCHANGED prepVars
    BY <1>3, WorkerFrame
  <2>2. CASE WorkerRun(w) \/ EngineRuns(w) \/ SendRpcResponse(w)
             \/ RespondIntoBrokenSession(w)
    BY <1>1, <2>1, <2>2 DEF WorkerRun, EngineRuns, SendRpcResponse,
         RespondIntoBrokenSession, prepVars, brokerVars
  <2>3. CASE RespondFails(w) \/ Ack(w) \/ DeliveriesClosed(w)
    <3>1. /\ UNCHANGED queue
          /\ \A x \in Workers : wcur'[x] \in {wcur[x], NoCall}
          /\ \A x \in Workers : unacked'[x] \subseteq unacked[x] /\ wbuf'[x] \subseteq wbuf[x]
      <4>1. CASE RespondFails(w)
        BY <4>1 DEF RespondFails, brokerVars
      <4>2. CASE Ack(w)
        BY <4>2 DEF Ack, brokerVars
      <4>3. CASE DeliveriesClosed(w)
        BY <4>3 DEF DeliveriesClosed, brokerVars
      <4> QED
        BY <2>3, <4>1, <4>2, <4>3
    <3> QED
      BY <1>1, <2>1, <3>1 DEF prepVars
  <2>4. CASE WorkerPanics(w)
    BY <1>1, <2>1, <2>4 DEF WorkerPanics, ProcessEnds, Requeue, prepVars, Keys
  <2>5. ASSUME NEW c \in Calls, WorkerTakes(w, c) PROVE PublishedInv'
    BY <1>1, <2>1, <2>5 DEF WorkerTakes, prepVars, brokerVars
  <2> QED
    BY <1>3, <2>2, <2>3, <2>4, <2>5 DEF Work, WorkerStep
<1>4. ASSUME NEW w \in Workers, DeliverToWorker(w) \/ WorkFault(w) PROVE PublishedInv'
  <2>1. UNCHANGED prepVars
    BY <1>4, WorkerFrame
  <2>2. ASSUME NEW c \in Calls, BrokerDelivers(w, c) PROVE PublishedInv'
    BY <1>1, <2>1, <2>2 DEF BrokerDelivers, prepVars, Keys
  <2>3. CASE WorkerSessionLost(w)
    BY <1>1, <2>1, <2>3 DEF WorkerSessionLost, Requeue, prepVars, Keys
  <2>4. CASE WorkerCrashes(w)
    BY <1>1, <2>1, <2>4 DEF WorkerCrashes, ProcessEnds, Requeue, prepVars, Keys
  <2> QED
    BY <1>4, <2>2, <2>3, <2>4 DEF DeliverToWorker, WorkFault, WorkerFault
<1>5. ASSUME NEW p \in Preps, Preprocess(p) PROVE PublishedInv'
  <2>1. UNCHANGED workerVars
    BY <1>5, PrepFrame
  <2>2. CASE PrepRun(p) \/ PrepPublishFails(p) \/ PrepDeliveriesClosed(p)
    <3>1. CASE PrepRun(p)
      BY <1>1, <2>1, <3>1 DEF PrepRun, workerVars
    <3>2. CASE PrepPublishFails(p)
      BY <2>1, <3>2, LosesKeepsPublished DEF PrepPublishFails
    <3>3. CASE PrepDeliveriesClosed(p)
      BY <1>1, <2>1, <3>3 DEF PrepDeliveriesClosed, workerVars
    <3> QED
      BY <2>2, <3>1, <3>2, <3>3
  <2>3. CASE PrepForwards(p)
    <3>1. pcur[p] \in Calls /\ Submitted(pcur[p])
      BY <2>3, CallsAssumption DEF PrepForwards
    <3>2. \A k \in Keys : queue'[k] \subseteq queue[k] \cup {pcur[p]}
      BY <2>3, <3>1, Published DEF PrepForwards
    <3>3. UNCHANGED <<pbuf, unacked, wbuf, wcur>>
      BY <2>1, <2>3 DEF PrepForwards, workerVars
    <3>4. \A x \in Preps : pcur'[x] \in {pcur[x], pcur[p], NoCall}
      BY <2>3 DEF PrepForwards, NextDelivery
    <3>5. \A x \in Preps : pbuf'[x] \subseteq pbuf[x] \cup {pcur[p]}
      BY <3>3
    <3> QED
      BY <1>1, <3>1, <3>2, <3>3, <3>4, <3>5, HandedOn
  <2>4. ASSUME NEW c \in Calls, PrepTakes(p, c) PROVE PublishedInv'
    <3>1. /\ UNCHANGED queue
          /\ \A x \in Preps : pcur'[x] \in {pcur[x], c} /\ pbuf'[x] \subseteq pbuf[x]
      BY <2>4 DEF PrepTakes, brokerVars
    <3>2. Submitted(c)
      BY <2>4 DEF PrepTakes
    <3> QED
      BY <1>1, <2>1, <3>1, <3>2, HandedOn DEF workerVars
  <2> QED
    BY <1>5, <2>2, <2>3, <2>4 DEF Preprocess, PrepStep
<1>6. ASSUME NEW p \in Preps, DeliverToPrep(p) \/ PreprocessFault(p) PROVE PublishedInv'
  <2>1. UNCHANGED workerVars
    BY <1>6, PrepFrame
  <2>2. ASSUME NEW c \in Calls, BrokerHandsOver(p, c) PROVE PublishedInv'
    <3>1. KeyOf[p] \in Keys /\ c \in queue[KeyOf[p]]
      BY <2>2, PrepsAssumption DEF BrokerHandsOver, Keys
    <3>2. /\ UNCHANGED pcur
          /\ \A k \in Keys : queue'[k] \subseteq queue[k]
          /\ \A x \in Preps : pbuf'[x] \subseteq pbuf[x] \cup {c}
      BY <2>2, <3>1 DEF BrokerHandsOver
    <3>3. Submitted(c)
      BY <3>1
    <3> QED
      BY <1>1, <2>1, <3>2, <3>3, HandedOn DEF workerVars
  <2>3. CASE PrepRunFails(p) \/ PrepSessionLost(p)
    <3>1. UNCHANGED <<queue, pcur, pbuf>>
      BY <2>3 DEF PrepRunFails, PrepSessionLost
    <3> QED
      BY <1>1, <2>1, <3>1, Zenon DEF workerVars
  <2>4. CASE PreprocessFails(p)
    BY <2>1, <2>4, LosesKeepsPublished DEF PreprocessFails
  <2>5. CASE PrepCrashes(p)
    BY <1>1, <2>1, <2>5 DEF PrepCrashes, workerVars
  <2> QED
    BY <1>6, <2>2, <2>3, <2>4, <2>5 DEF DeliverToPrep, PreprocessFault, PrepFault
<1>7. CASE BrokerRestarts
  BY <1>1, <1>7 DEF BrokerRestarts
<1>8. CASE UNCHANGED vars
  BY <1>1, <1>8 DEF vars, brokerVars, workerVars, prepVars
<1> QED
  BY <1>2, <1>3, <1>4, <1>5, <1>6, <1>7, <1>8 DEF Next
-----------------------------------------------------------------------------
(* A waiting answer waits as long as its listener listens.                  *)
LEMMA CallbackStays ==
  ASSUME TypeOK, [Next]_vars, NEW c \in Calls, callback[c] # {}, Awaited(c)'
  PROVE  callback'[c] # {}
<1> USE DEF TypeOK, BrokerTypeOK, ClientTypeOK, Awaited
<1>1. ASSUME NEW d \in Calls, Call(d) PROVE callback'[c] # {}
  BY <1>1 DEF Call, ClientStep, RejectReplyTo, Dial, Subscribe, SetupFails,
         Publish, PublishIntoBrokenConnection, PublishFails, AcceptDeferred,
         ReceiveResult, WaitTimeout, brokerVars
<1>2. ASSUME NEW d \in Calls, Listen(d) PROVE callback'[c] # {}
  <2>1. CASE ListenerSends(d)
    <3>1. d # c
      BY <2>1 DEF ListenerSends
    <3> QED
      BY <2>1, <3>1 DEF ListenerSends
  <2>2. CASE ListenerCloses(d)
    BY <2>2 DEF ListenerCloses
  <2>3. CASE ListenerEnds(d)
    BY <2>3 DEF ListenerEnds
  <2> QED
    BY <1>2, <2>1, <2>2, <2>3 DEF Listen, ListenerStep
<1>3. ASSUME NEW d \in Calls, CallFault(d) PROVE callback'[c] # {}
  BY <1>3 DEF CallFault, ClientFault, DialFails, ImageFails, ClientConnLost, Unbind
<1>4. ASSUME NEW w \in Workers, Work(w) \/ DeliverToWorker(w) \/ WorkFault(w)
      PROVE  callback'[c] # {}
  <2>1. CASE SendRpcResponse(w)
    BY <2>1 DEF SendRpcResponse, PublishAnswer
  <2>2. CASE ~SendRpcResponse(w)
    BY <1>4, <2>2 DEF Work, DeliverToWorker, WorkFault, WorkerStep, WorkerFault,
         WorkerRun, BrokerDelivers, WorkerTakes, EngineRuns,
         RespondIntoBrokenSession, RespondFails, Ack, DeliveriesClosed,
         WorkerSessionLost, WorkerPanics, WorkerCrashes, ProcessEnds, brokerVars
  <2> QED
    BY <2>1, <2>2
<1>5. ASSUME NEW p \in Preps, Preprocess(p) \/ DeliverToPrep(p) \/ PreprocessFault(p)
      PROVE  callback'[c] # {}
  BY <1>5, PrepFrame
<1>6. CASE BrokerRestarts
  BY <1>6 DEF BrokerRestarts
<1> QED
  BY <1>1, <1>2, <1>3, <1>4, <1>5, <1>6 DEF Next, vars, brokerVars

(* A worker gets to its acknowledgement on a live session by answering.     *)
LEMMA AckByAnswer ==
  ASSUME TypeOK, [Next]_vars, NEW w \in Workers, wpc'[w] = "ack", wsession'[w] = "open"
  PROVE  \/ wpc[w] = "ack" /\ wsession[w] = "open" /\ wcur'[w] = wcur[w]
         \/ SendRpcResponse(w) /\ wcur'[w] = wcur[w]
<1> DEFINE Goal == \/ wpc[w] = "ack" /\ wsession[w] = "open" /\ wcur'[w] = wcur[w]
                   \/ SendRpcResponse(w) /\ wcur'[w] = wcur[w]
<1> USE DEF TypeOK, WorkerTypeOK
<1>1. ASSUME NEW x \in Workers, Work(x) PROVE Goal
  <2>1. CASE SendRpcResponse(x)
    BY <2>1 DEF SendRpcResponse
  <2>2. CASE RespondIntoBrokenSession(x)
    BY <2>2 DEF RespondIntoBrokenSession
  <2>3. CASE WorkerRun(x) \/ EngineRuns(x) \/ Ack(x)
    BY <2>3 DEF WorkerRun, EngineRuns, Ack
  <2>4. CASE RespondFails(x) \/ DeliveriesClosed(x) \/ WorkerPanics(x)
    BY <2>4 DEF RespondFails, DeliveriesClosed, WorkerPanics, ProcessEnds
  <2>5. ASSUME NEW c \in Calls, WorkerTakes(x, c) PROVE Goal
    BY <2>5 DEF WorkerTakes
  <2> QED
    BY <1>1, <2>1, <2>2, <2>3, <2>4, <2>5 DEF Work, WorkerStep
<1>2. ASSUME NEW x \in Workers, DeliverToWorker(x) \/ WorkFault(x) PROVE Goal
  BY <1>2 DEF DeliverToWorker, WorkFault, WorkerFault, BrokerDelivers,
         WorkerSessionLost, WorkerCrashes, ProcessEnds
<1>3. ASSUME UNCHANGED workerVars PROVE Goal
  BY <1>3 DEF workerVars
<1>4. CASE BrokerRestarts
  BY <1>4 DEF BrokerRestarts
<1> QED
  BY <1>1, <1>2, <1>3, <1>4, ClientFrame, PrepFrame DEF Next, vars

LEMMA AnswerInvStep ==
  ASSUME TypeOK, ClientInv, PublishedInv, AnswerInv, [Next]_vars
  PROVE  AnswerInv'
<1> SUFFICES ASSUME NEW w \in Workers, wpc'[w] = "ack", wsession'[w] = "open",
                    Awaited(wcur[w])', wcur'[w] = wcur[w]
             PROVE  callback'[wcur[w]] # {}
  BY AckByAnswer DEF AnswerInv, Awaited, Submitted
<1> DEFINE c == wcur[w]
<1>1. CASE SendRpcResponse(w)
  <2>1. c \in Calls
    BY <1>1 DEF SendRpcResponse, TypeOK, WorkerTypeOK
  <2>2. c \in bound
    BY <1>1 DEF SendRpcResponse, Awaited
  <2>3. callback'[c] = callback[c] \cup {c}
    BY <1>1, <2>1, <2>2 DEF SendRpcResponse, PublishAnswer, SameQueue
  <2> QED
    BY <2>3
<1>2. CASE wpc[w] = "ack" /\ wsession[w] = "open"
  <2>1. c \in Calls
    BY <1>2 DEF TypeOK, WorkerTypeOK
  <2>2. Submitted(c)
    BY <2>1, CallsAssumption DEF PublishedInv
  <2>3. Awaited(c)
    BY <2>1, <2>2, AwaitedByPublish
  <2>4. callback[c] # {}
    BY <1>2, <2>3 DEF AnswerInv
  <2> QED
    BY <2>1, <2>4, CallbackStays
<1> QED
  BY <1>1, <1>2, AckByAnswer
-----------------------------------------------------------------------------
(* The step lemmas for Kept: whoever gives a request away passes it on,     *)
(* has answered it, or drops it.                                            *)
LEMMA WorkerKeeps ==
  ASSUME TypeOK, SessionInv, AnswerInv, NEW c \in Calls, Awaited(c), Held(c),
         NEW w \in Workers, Work(w) \/ DeliverToWorker(w) \/ WorkFault(w)
  PROVE  Held(c)' \/ callback'[c] # {}
<1> USE DEF TypeOK, BrokerTypeOK, WorkerTypeOK, Held
<1>1. UNCHANGED prepVars
  BY WorkerFrame
<1>2. CASE Ack(w)
  <2>1. CASE c \in unacked[w] /\ c = wcur[w]
    <3>1. callback[c] # {}
      BY <1>2, <2>1 DEF Ack, SessionInv, AnswerInv
    <3> QED
      BY <1>2, <3>1 DEF Ack, brokerVars
  <2>2. CASE ~(c \in unacked[w] /\ c = wcur[w])
    BY <1>1, <1>2, <2>2 DEF Ack, brokerVars, prepVars
  <2> QED
    BY <2>1, <2>2
<1>3. CASE WorkerRun(w) \/ EngineRuns(w) \/ SendRpcResponse(w)
           \/ RespondIntoBrokenSession(w)
  BY <1>1, <1>3 DEF WorkerRun, EngineRuns, SendRpcResponse,
                    RespondIntoBrokenSession, prepVars, brokerVars
<1>4. CASE RespondFails(w) \/ DeliveriesClosed(w) \/ \E d \in Calls : WorkerTakes(w, d)
  BY <1>1, <1>4 DEF RespondFails, DeliveriesClosed, WorkerTakes, prepVars, brokerVars
<1>5. ASSUME NEW d \in Calls, BrokerDelivers(w, d) PROVE Held(c)'
  BY <1>1, <1>5 DEF BrokerDelivers, prepVars, Keys
<1>6. ASSUME Requeue(w) PROVE Held(c)'
  BY <1>1, <1>6 DEF Requeue, prepVars, Keys
<1> QED
  BY <1>2, <1>3, <1>4, <1>5, <1>6
  DEF Work, DeliverToWorker, WorkFault, WorkerStep, WorkerFault,
      WorkerPanics, WorkerCrashes, WorkerSessionLost, ProcessEnds

LEMMA PrepKeeps ==
  ASSUME TypeOK, NEW c \in Calls, Held(c),
         NEW p \in Preps, Preprocess(p) \/ DeliverToPrep(p) \/ PreprocessFault(p)
  PROVE  Held(c)' \/ c \in dropped'
<1> USE DEF TypeOK, BrokerTypeOK, PrepTypeOK, Held
<1>1. UNCHANGED unacked
  BY PrepFrame DEF workerVars
<1>2. CASE PrepForwards(p)
  <2>1. pcur[p] \in Calls /\ PublishRequest(pcur[p])
    BY <1>2 DEF PrepForwards
  <2>2. \A k \in Keys : queue[k] \subseteq queue'[k]
    BY <2>1, Published
  <2>3. CASE c = pcur[p]
    BY <2>1, <2>3, Published
  <2>4. CASE c # pcur[p]
    BY <1>1, <1>2, <2>2, <2>4 DEF PrepForwards, NextDelivery
  <2> QED
    BY <2>3, <2>4
<1>3. CASE PrepRun(p) \/ PrepRunFails(p) \/ PrepSessionLost(p)
  BY <1>1, <1>3 DEF PrepRun, PrepRunFails, PrepSessionLost
<1>4. CASE PrepDeliveriesClosed(p)
  BY <1>1, <1>4 DEF PrepDeliveriesClosed
<1>8. CASE PrepCrashes(p)
  BY <1>1, <1>8, CallsAssumption DEF PrepCrashes
<1>5. CASE PrepLosesRequest(p)
  BY <1>1, <1>5 DEF PrepLosesRequest, NextDelivery
<1>6. ASSUME NEW d \in Calls, PrepTakes(p, d) PROVE Held(c)'
  BY <1>1, <1>6, CallsAssumption DEF PrepTakes, brokerVars
<1>7. ASSUME NEW d \in Calls, BrokerHandsOver(p, d) PROVE Held(c)'
  BY <1>1, <1>7, PrepsAssumption DEF BrokerHandsOver, Keys
<1> QED
  BY <1>2, <1>3, <1>4, <1>5, <1>6, <1>7, <1>8
  DEF Preprocess, DeliverToPrep, PreprocessFault, PrepStep, PrepFault,
      PrepPublishFails, PreprocessFails

LEMMA DroppedStays ==
  ASSUME TypeOK, [Next]_vars
  PROVE  dropped \subseteq dropped'
<1>1. ASSUME NEW c \in Calls, Publish(c) PROVE dropped \subseteq dropped'
  BY <1>1, Published DEF Publish
<1>2. ASSUME NEW p \in Preps, Preprocess(p) \/ DeliverToPrep(p) \/ PreprocessFault(p)
      PROVE  dropped \subseteq dropped'
  <2>1. CASE PrepForwards(p)
    <3>1. pcur[p] \in Calls /\ PublishRequest(pcur[p])
      BY <2>1 DEF PrepForwards, TypeOK, PrepTypeOK
    <3> QED
      BY <3>1, Published
  <2> QED
    BY <1>2, <2>1 DEF Preprocess, DeliverToPrep, PreprocessFault, PrepStep,
         PrepFault, PrepRun, BrokerHandsOver, PrepTakes, PrepPublishFails,
         PrepLosesRequest, PrepDeliveriesClosed, PrepRunFails, PreprocessFails,
         PrepSessionLost, PrepCrashes, brokerVars
<1>3. CASE BrokerRestarts
  BY <1>3 DEF BrokerRestarts
<1> QED
  BY <1>1, <1>2, <1>3, ClientQueues, WorkerFrame DEF Next, vars, brokerVars

LEMMA KeptInvStep ==
  ASSUME TypeOK, ClientInv, SessionInv, AnswerInv, KeptInv, [Next]_vars
  PROVE  KeptInv'
<1> SUFFICES ASSUME NEW c \in Calls, Awaited(c)' PROVE Kept(c)'
  BY DEF KeptInv
<1>1. CASE Publish(c)
  BY <1>1, Published DEF Publish, Kept, Held
<1>2. CASE Awaited(c)
  <2>1. CASE callback[c] # {}
    BY <2>1, CallbackStays DEF Kept
  <2>2. CASE c \in dropped
    BY <2>2, DroppedStays DEF Kept
  <2>3. CASE Held(c)
    <3>1. ASSUME NEW d \in Calls, Call(d) \/ Listen(d) \/ CallFault(d) PROVE Held(c)'
      <4>1. UNCHANGED <<unacked, pbuf, pcur>>
        BY <3>1, ClientFrame DEF workerVars, prepVars
      <4>2. \A k \in Keys : queue[k] \subseteq queue'[k]
        BY <3>1, ClientQueues, Published DEF Publish
      <4> QED
        BY <2>3, <4>1, <4>2 DEF Held
    <3>2. ASSUME NEW w \in Workers, Work(w) \/ DeliverToWorker(w) \/ WorkFault(w)
          PROVE  Kept(c)'
      BY <1>2, <2>3, <3>2, WorkerKeeps DEF Kept
    <3>3. ASSUME NEW p \in Preps, Preprocess(p) \/ DeliverToPrep(p) \/ PreprocessFault(p)
          PROVE  Kept(c)'
      BY <2>3, <3>3, PrepKeeps DEF Kept
    <3>4. CASE BrokerRestarts
      BY <3>4 DEF BrokerRestarts, Awaited
    <3>5. CASE UNCHANGED vars
      BY <2>3, <3>5 DEF vars, brokerVars, workerVars, prepVars, Held, Kept
    <3> QED
      BY <3>1, <3>2, <3>3, <3>4, <3>5 DEF Next, Kept
  <2> QED
    BY <1>2, <2>1, <2>2, <2>3 DEF KeptInv, Kept
<1> QED
  BY <1>1, <1>2, AwaitedByPublish

-----------------------------------------------------------------------------
LEMMA HeldIsHolders ==
  ASSUME NEW c \in Calls, Held(c)
  PROVE  Holders(c) # {}
<1>1. ASSUME NEW k \in Keys, c \in queue[k] PROVE <<"queue", k>> \in Holders(c)
  BY <1>1 DEF Holders
<1>2. ASSUME NEW w \in Workers, c \in unacked[w] PROVE <<"unacked", w>> \in Holders(c)
  BY <1>2 DEF Holders
<1>3. ASSUME NEW p \in Preps, c \in pbuf[p] PROVE <<"buffer", p>> \in Holders(c)
  BY <1>3 DEF Holders
<1>4. ASSUME NEW p \in Preps, c = pcur[p] PROVE <<"preprocessor", p>> \in Holders(c)
  BY <1>4 DEF Holders
<1> QED
  BY <1>1, <1>2, <1>3, <1>4 DEF Held

(* The inductive invariant.                                                 *)
LEMMA LossInvariant == Spec => []LossInv
<1>1. Init => LossInv
  BY DEF Init, BrokerInit, ClientInit, WorkerInit, PrepInit, LossInv, ClientInv,
         ReplyInv, BoundInv, SessionInv, PublishedInv, AnswerInv, KeptInv,
         Awaited, Submitted, Keys
<1>2. TypeOK /\ LossInv /\ [Next]_vars => LossInv'
  BY ClientInvStep, SessionInvStep, PublishedInvStep, AnswerInvStep, KeptInvStep
  DEF LossInv, ClientInv
<1> QED
  BY <1>1, <1>2, TypeCorrect, PTL DEF Spec

(* No request disappears unnoticed, for any number of calls, workers and    *)
(* preprocessors and any faults: a crash, a lost session or a panic of an   *)
(* OCR worker loses nothing, since the answer goes out before the Ack       *)
(* (ocr_rpc_worker.go:189-205).                                             *)
THEOREM RequestsAreKept == Spec => []NoSilentLoss
<1>1. LossInv => NoSilentLoss
  BY HeldIsHolders DEF LossInv, KeptInv, Kept, NoSilentLoss
<1> QED
  BY <1>1, LossInvariant, PTL
=============================================================================
