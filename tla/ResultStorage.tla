---------------------------- MODULE ResultStorage ----------------------------
(***************************************************************************)
(* The table of deferred calls in the http daemon: RequestsTrack and its   *)
(* length (ocr_results_storage.go), and everyone who works on it: the      *)
(* deferred branch of DecodeImage, the decay goroutine of a call that is   *)
(* to be polled, the goroutine that posts the result of a call with        *)
(* reply_to, and the /ocr-status handlers.  Every access to the map, to    *)
(* the counter or to a channel is a step of its own.                       *)
(*                                                                         *)
(* A goroutine started by call c is named c.  The listener of a call       *)
(* (OcrRpcClient) is seen here as Answer: it sends once, at any time.      *)
(***************************************************************************)
EXTENDS Integers, FiniteSets

CONSTANTS
    Calls,          \* the deferred calls of DecodeImage
    Ids,            \* request ids
    IdOf,           \* IdOf[c]: OcrRequest.RequestID of call c
    PostCalls,      \* the calls with reply_to; the others are polled
    Pollers,        \* /ocr-status handlers that may run at the same time
    None,           \* no call, no id
    NumRetries,     \* attempts to post a result, 3 in the code
    Modulus,        \* values of RequestTrackLength, 2^32 in the code
    WaitCanExpire   \* whether the poster's timer of 49 years may expire

ASSUME CallsAssumption == None \notin Calls /\ PostCalls \subseteq Calls
ASSUME IdsAssumption == None \notin Ids /\ IdOf \in [Calls -> Ids]
ASSUME PollersAssumption == Pollers \cap (Calls \cup {"nobody", "poster"}) = {}
ASSUME RetriesAssumption == NumRetries \in Nat \ {0}
ASSUME WaitAssumption == WaitCanExpire \in BOOLEAN
ASSUME ModulusAssumption == Modulus \in Nat \ {0}
ASSUME FinitenessAssumption == /\ IsFiniteSet(Calls) /\ IsFiniteSet(Pollers)
                               /\ IsFiniteSet(Ids)

VARIABLES
    RequestsTrack,      \* RequestsTrack[i]: the call whose channel id i maps to
    RequestTrackLength, \* the counter beside the map
    dpc,                \* where the deferred branch of DecodeImage stands
    sent,               \* calls whose listener has sent the result
    chan,               \* calls whose rpcResponseChan holds the result
    claimed,            \* claimed[c]: who received the result of c
    gpc,                \* where the goroutine of c stands
    timer,              \* the decay timer of c
    tries,              \* tryCounter of the posting goroutine
    deleting,           \* where deleteRequestFromQueue stands, per executor
    polled              \* polled[p]: id and channel a status handler has loaded

vars == <<RequestsTrack, RequestTrackLength, dpc, sent, chan, claimed, gpc,
          timer, tries, deleting, polled>>

Executors == Calls \cup Pollers
Nothing == [id |-> None, call |-> None]

TypeOK ==
    /\ RequestsTrack \in [Ids -> Calls \cup {None}]
    /\ RequestTrackLength \in 0..(Modulus - 1)
    /\ dpc \in [Calls -> {"new", "counted", "returned"}]
    /\ sent \subseteq Calls
    /\ chan \subseteq Calls
    /\ claimed \in [Calls -> Pollers \cup {"nobody", "poster"}]
    /\ gpc \in [Calls -> {"none", "decay", "wait", "post", "postError", "nap", "done"}]
    /\ timer \in [Calls -> {"off", "running", "fired", "drained"}]
    /\ tries \in [Calls -> 1..(NumRetries + 1)]
    /\ deleting \in [Executors -> {"no", "load", "count", "remove"}]
    /\ polled \in [Pollers -> [id: Ids \cup {None}, call: Calls \cup {None}]]

Init ==
    /\ RequestsTrack = [i \in Ids |-> None]
    /\ RequestTrackLength = 0
    /\ dpc = [c \in Calls |-> "new"]
    /\ sent = {}
    /\ chan = {}
    /\ claimed = [c \in Calls |-> "nobody"]
    /\ gpc = [c \in Calls |-> "none"]
    /\ timer = [c \in Calls |-> "off"]
    /\ tries = [c \in Calls |-> 1]
    /\ deleting = [e \in Executors |-> "no"]
    /\ polled = [p \in Pollers |-> Nothing]

-----------------------------------------------------------------------------
(* The listener of c sends the result into rpcResponseChan.                 *)
Answer(c) ==
    /\ c \notin sent
    /\ sent' = sent \cup {c}
    /\ chan' = chan \cup {c}
    /\ UNCHANGED <<RequestsTrack, RequestTrackLength, dpc, claimed, gpc, timer,
                   tries, deleting, polled>>

(* Faulty variant: a call with reply_to is stored without being counted.    *)
CountPolled(c) ==
    /\ dpc[c] = "new"
    /\ RequestTrackLength' = IF c \in PostCalls THEN RequestTrackLength
                             ELSE (RequestTrackLength + 1) % Modulus
    /\ dpc' = [dpc EXCEPT ![c] = "counted"]
    /\ UNCHANGED <<RequestsTrack, sent, chan, claimed, gpc, timer, tries,
                   deleting, polled>>

(* addNewOcrResultToQueue counts the call ...                               *)
Count(c) ==
    /\ dpc[c] = "new"
    /\ RequestTrackLength' = (RequestTrackLength + 1) % Modulus
    /\ dpc' = [dpc EXCEPT ![c] = "counted"]
    /\ UNCHANGED <<RequestsTrack, sent, chan, claimed, gpc, timer, tries,
                   deleting, polled>>

(* Faulty variant: reply_to is not looked at, every call decays.            *)
StoreDecaying(c) ==
    /\ dpc[c] = "counted"
    /\ RequestsTrack' = [RequestsTrack EXCEPT ![IdOf[c]] = c]
    /\ dpc' = [dpc EXCEPT ![c] = "returned"]
    /\ gpc' = [gpc EXCEPT ![c] = "decay"]
    /\ timer' = [timer EXCEPT ![c] = "running"]
    /\ UNCHANGED <<RequestTrackLength, sent, chan, claimed, tries, deleting,
                   polled>>

(* ... and stores its channel; then DecodeImage starts the goroutine and    *)
(* returns.                                                                 *)
Store(c) ==
    /\ dpc[c] = "counted"
    /\ RequestsTrack' = [RequestsTrack EXCEPT ![IdOf[c]] = c]
    /\ dpc' = [dpc EXCEPT ![c] = "returned"]
    /\ gpc' = [gpc EXCEPT ![c] = IF c \in PostCalls THEN "wait" ELSE "decay"]
    /\ timer' = [timer EXCEPT ![c] = IF c \in PostCalls THEN "off" ELSE "running"]
    /\ UNCHANGED <<RequestTrackLength, sent, chan, claimed, tries, deleting,
                   polled>>

-----------------------------------------------------------------------------
(* deleteRequestFromQueue, in three steps.                                  *)
Target(e) == IF e \in Calls THEN IdOf[e] ELSE polled[e].id

Tracked(i) == RequestsTrack[i] # None

DeleteLoad(e) ==
    /\ deleting[e] = "load"
    /\ deleting' = [deleting EXCEPT ![e] =
                        IF Tracked(Target(e)) THEN "count" ELSE "no"]
    /\ UNCHANGED <<RequestsTrack, RequestTrackLength, dpc, sent, chan, claimed,
                   gpc, timer, tries, polled>>

(* Faulty variant: a counter without a width.                               *)
DeleteCountSigned(e) ==
    /\ deleting[e] = "count"
    /\ RequestTrackLength' = RequestTrackLength - 1
    /\ deleting' = [deleting EXCEPT ![e] = "remove"]
    /\ UNCHANGED <<RequestsTrack, dpc, sent, chan, claimed, gpc, timer, tries,
                   polled>>

DeleteCount(e) ==
    /\ deleting[e] = "count"
    /\ RequestTrackLength' = (RequestTrackLength + Modulus - 1) % Modulus
    /\ deleting' = [deleting EXCEPT ![e] = "remove"]
    /\ UNCHANGED <<RequestsTrack, dpc, sent, chan, claimed, gpc, timer, tries,
                   polled>>

DeleteRemove(e) ==
    /\ deleting[e] = "remove"
    /\ RequestsTrack' = [RequestsTrack EXCEPT ![Target(e)] = None]
    /\ deleting' = [deleting EXCEPT ![e] = "no"]
    /\ UNCHANGED <<RequestTrackLength, dpc, sent, chan, claimed, gpc, timer,
                   tries, polled>>

(* A goroutine ends with deleteRequestFromQueue.                            *)
FinishDeleting(c) ==
    /\ gpc' = [gpc EXCEPT ![c] = "done"]
    /\ deleting' = [deleting EXCEPT ![c] = "load"]

-----------------------------------------------------------------------------
(* The timer of the decay goroutine, TimeOut + 10 seconds.                  *)
TimerFires(c) ==
    /\ timer[c] = "running"
    /\ timer' = [timer EXCEPT ![c] = "fired"]
    /\ UNCHANGED <<RequestsTrack, RequestTrackLength, dpc, sent, chan, claimed,
                   gpc, tries, deleting, polled>>

(* The decay loop finds the timer fired: it deletes the request, or, when   *)
(* that is gone already, goes on.                                           *)
DecayTimeout(c) ==
    /\ gpc[c] = "decay" /\ timer[c] = "fired"
    /\ timer' = [timer EXCEPT ![c] = "drained"]
    /\ IF Tracked(IdOf[c]) THEN FinishDeleting(c)
                           ELSE UNCHANGED <<gpc, deleting>>
    /\ UNCHANGED <<RequestsTrack, RequestTrackLength, dpc, sent, chan, claimed,
                   tries, polled>>

(* Otherwise it ends once the request is gone.                              *)
DecayEnds(c) ==
    /\ gpc[c] = "decay" /\ timer[c] # "fired"
    /\ ~Tracked(IdOf[c])
    /\ gpc' = [gpc EXCEPT ![c] = "done"]
    /\ UNCHANGED <<RequestsTrack, RequestTrackLength, dpc, sent, chan, claimed,
                   timer, tries, deleting, polled>>

-----------------------------------------------------------------------------
(* The posting goroutine receives the result ...                            *)
PosterReceives(c) ==
    /\ gpc[c] = "wait" /\ c \in chan
    /\ chan' = chan \ {c}
    /\ claimed' = [claimed EXCEPT ![c] = "poster"]
    /\ gpc' = [gpc EXCEPT ![c] = "post"]
    /\ UNCHANGED <<RequestsTrack, RequestTrackLength, dpc, sent, timer, tries,
                   deleting, polled>>

(* ... and posts it, up to NumRetries times.                                *)
PostSucceeds(c) ==
    /\ gpc[c] = "post"
    /\ FinishDeleting(c)
    /\ UNCHANGED <<RequestsTrack, RequestTrackLength, dpc, sent, chan, claimed,
                   timer, tries, polled>>

(* Faulty variant: after the last attempt the call stays in the table.      *)
PostFailsForGood(c) ==
    /\ gpc[c] = "post"
    /\ tries' = [tries EXCEPT ![c] = @ + 1]
    /\ gpc' = [gpc EXCEPT ![c] = IF tries'[c] <= NumRetries THEN @ ELSE "done"]
    /\ UNCHANGED <<RequestsTrack, RequestTrackLength, dpc, sent, chan, claimed,
                   timer, deleting, polled>>

PostFails(c) ==
    /\ gpc[c] = "post"
    /\ tries' = [tries EXCEPT ![c] = @ + 1]
    /\ IF tries'[c] <= NumRetries THEN UNCHANGED <<gpc, deleting>>
                                  ELSE FinishDeleting(c)
    /\ UNCHANGED <<RequestsTrack, RequestTrackLength, dpc, sent, chan, claimed,
                   timer, polled>>

(* The other case of its select.  rpcResponseTimeout is a Duration already, *)
(* and rpcResponseTimeout * time.Second overflows to about 49 years.        *)
WaitExpires(c) ==
    /\ gpc[c] = "wait" /\ WaitCanExpire
    /\ gpc' = [gpc EXCEPT ![c] = "postError"]
    /\ UNCHANGED <<RequestsTrack, RequestTrackLength, dpc, sent, chan, claimed,
                   timer, tries, deleting, polled>>

(* It then posts an error result once; after a failure it sleeps as long    *)
(* again before it deletes the request.                                     *)
ErrorPostSucceeds(c) ==
    /\ gpc[c] = "postError"
    /\ FinishDeleting(c)
    /\ UNCHANGED <<RequestsTrack, RequestTrackLength, dpc, sent, chan, claimed,
                   timer, tries, polled>>

ErrorPostFails(c) ==
    /\ gpc[c] = "postError"
    /\ gpc' = [gpc EXCEPT ![c] = "nap"]
    /\ tries' = [tries EXCEPT ![c] = @ + 1]
    /\ UNCHANGED <<RequestsTrack, RequestTrackLength, dpc, sent, chan, claimed,
                   timer, deleting, polled>>

NapEnds(c) ==
    /\ gpc[c] = "nap"
    /\ FinishDeleting(c)
    /\ UNCHANGED <<RequestsTrack, RequestTrackLength, dpc, sent, chan, claimed,
                   timer, tries, polled>>

-----------------------------------------------------------------------------
(* CheckOcrStatusByID: an unknown id is "not found", which changes nothing; *)
(* for a known one the handler loads the channel ...                        *)
PollLoad(p, i) ==
    /\ polled[p] = Nothing /\ Tracked(i)
    /\ polled' = [polled EXCEPT ![p] = [id |-> i, call |-> RequestsTrack[i]]]
    /\ UNCHANGED <<RequestsTrack, RequestTrackLength, dpc, sent, chan, claimed,
                   gpc, timer, tries, deleting>>

(* ... and receives the result, to delete the request before it replies ... *)
PollReceives(p) ==
    /\ polled[p].call \in chan /\ deleting[p] = "no"
    /\ chan' = chan \ {polled[p].call}
    /\ claimed' = [claimed EXCEPT ![polled[p].call] = p]
    /\ deleting' = [deleting EXCEPT ![p] = "load"]
    /\ UNCHANGED <<RequestsTrack, RequestTrackLength, dpc, sent, gpc, timer,
                   tries, polled>>

(* Faulty variant: the request is deleted whatever the reply is.            *)
PollRepliesDeleting(p) ==
    /\ polled[p] # Nothing /\ deleting[p] = "no"
    /\ polled[p].call \notin chan
    /\ deleting' = [deleting EXCEPT ![p] = "load"]
    /\ UNCHANGED <<RequestsTrack, RequestTrackLength, dpc, sent, chan, claimed,
                   gpc, timer, tries, polled>>

(* ... or replies, "processing" or with the result it received.             *)
PollReplies(p) ==
    /\ polled[p] # Nothing /\ deleting[p] = "no"
    /\ polled[p].call \notin chan
    /\ polled' = [polled EXCEPT ![p] = Nothing]
    /\ UNCHANGED <<RequestsTrack, RequestTrackLength, dpc, sent, chan, claimed,
                   gpc, timer, tries, deleting>>

-----------------------------------------------------------------------------
Delete(e) == DeleteLoad(e) \/ DeleteCount(e) \/ DeleteRemove(e)
Accept(c) == Count(c) \/ Store(c)
Decay(c) == DecayTimeout(c) \/ DecayEnds(c)
Post(c) == PosterReceives(c) \/ PostSucceeds(c) \/ PostFails(c)
PostError(c) == ErrorPostSucceeds(c) \/ ErrorPostFails(c)
Poll(p) == PollReceives(p) \/ PollReplies(p)

Next ==
    \/ \E c \in Calls : \/ Answer(c) \/ Accept(c) \/ TimerFires(c) \/ Decay(c)
                       \/ Post(c) \/ WaitExpires(c) \/ PostError(c) \/ NapEnds(c)
    \/ \E e \in Executors : Delete(e)
    \/ \E p \in Pollers : Poll(p) \/ \E i \in Ids : PollLoad(p, i)

Spec == Init /\ [][Next]_vars

(* Goroutines run on and the decay timer expires.  Nobody has to poll and   *)
(* no answer has to come.                                                   *)
Fairness ==
    /\ \A c \in Calls : /\ WF_vars(Accept(c)) /\ WF_vars(TimerFires(c))
                        /\ WF_vars(Decay(c)) /\ WF_vars(Post(c))
                        /\ WF_vars(PostError(c))
    /\ \A e \in Executors : WF_vars(Delete(e))
    /\ \A p \in Pollers : WF_vars(Poll(p))

FairSpec == Spec /\ Fairness

-----------------------------------------------------------------------------
OwnId(c) == \A d \in Calls \ {c} : IdOf[d] # IdOf[c]

(* A deferred call whose id the client got and whose result nobody received *)
(* while it is still waited for.                                            *)
Pending(c) ==
    /\ dpc[c] = "returned" /\ claimed[c] = "nobody"
    /\ IF c \in PostCalls THEN gpc[c] = "wait" ELSE timer[c] = "running"

(* Until its time is up nobody removes a call that nobody claimed, and its  *)
(* result stays in its channel: /ocr-status never says "not found" of it.   *)
(* (ocr_results_storage.go:14-43 against ocr_rpc_client.go:206-224)         *)
StillClaimable ==
    \A c \in Calls : OwnId(c) /\ Pending(c) =>
        /\ RequestsTrack[IdOf[c]] = c
        /\ c \in sent => c \in chan

(* RequestTrackLength is the number of entries, give or take the additions  *)
(* and deletions that are under way.                                        *)
LengthIs(n) == RequestTrackLength = n % Modulus
Entries == Cardinality({i \in Ids : Tracked(i)})
Adding == Cardinality({c \in Calls : dpc[c] = "counted"})
Removing == Cardinality({e \in Executors : deleting[e] = "remove"})

(* A status handler and the goroutine of the call both delete it.           *)
DeletedTwice(c) ==
    /\ claimed[c] \in Pollers
    /\ IF c \in PostCalls THEN gpc[c] = "done" ELSE timer[c] = "drained"

Unraced == \A c \in Calls : OwnId(c) /\ ~DeletedTwice(c)

(* With ids of their own the calls are counted exactly, unless a status     *)
(* handler claims a result in the moment the goroutine of the call gives it *)
(* up: deleteRequestFromQueue itself does not keep two deleters apart       *)
(* (ocr_results_storage.go:37-43).                                          *)
CountedUnlessRaced == Unraced => LengthIs(Entries + Adding + Modulus - Removing)

(* A polled call, and an answered call with reply_to, leaves the table      *)
(* (ocr_rpc_client.go:204-224 and 233-240).                                 *)
EntriesEnd ==
    \A c \in Calls :
        (RequestsTrack[IdOf[c]] = c /\ (c \in PostCalls => c \in sent))
            ~> (RequestsTrack[IdOf[c]] # c)

(* The result of a call with reply_to is received, by its poster or by a    *)
(* status handler that was quicker, even before the call was stored         *)
(* (ocr_rpc_client.go:200 and 247, ocr_results_storage.go:20).              *)
ResultIsClaimed ==
    \A c \in PostCalls : (c \in sent /\ dpc[c] = "returned") ~> (claimed[c] # "nobody")

(* Every entry has somebody who will take it off: the goroutine of its call *)
(* works, or has ended and is deleting it.  That holds for shared ids, too  *)
(* (ocr_rpc_client.go:204-224 and 233-240).                                 *)
EntriesOwned ==
    \A i \in Ids : Tracked(i) =>
        LET c == RequestsTrack[i]
        IN  gpc[c] # "none" /\ (gpc[c] = "done" => deleting[c] # "no")

(* The counter and what it counts part only where a call takes the place of *)
(* another one of its id, or where an entry is deleted a second time: these *)
(* are the only ways RequestTrackLength comes to lie                        *)
(* (ocr_results_storage.go:37-49).                                          *)
Drift == (RequestTrackLength + Removing - Entries - Adding) % Modulus

Displaces(c) == Store(c) /\ Tracked(IdOf[c])
DeletesAgain(e) == DeleteRemove(e) /\ ~Tracked(Target(e))

DriftNamed ==
    [][Drift' # Drift => \/ \E c \in Calls : Displaces(c)
                        \/ \E e \in Executors : DeletesAgain(e)]_vars

(* The table keeps what the daemon promises of deferred calls               *)
(* (ResultContract): a call is given up by its timer, or by its poster      *)
(* without a result (ocr_results_storage.go:14-49, ocr_rpc_client.go:200-   *)
(* 282).                                                                    *)
GivenUp(c) ==
    IF c \in PostCalls
    THEN gpc[c] \in {"postError", "nap", "done"} /\ claimed[c] # "poster"
    ELSE timer[c] \in {"fired", "drained"}

Contract == INSTANCE ResultContract WITH
    Receivers <- Pollers \cup {"poster"},
    listed <- RequestsTrack,
    accepted <- {c \in Calls : dpc[c] = "returned"},
    answered <- sent,
    receiver <- claimed,
    over <- {c \in Calls : GivenUp(c)}

KeepsContract == Contract!Spec

-----------------------------------------------------------------------------
(* cli-httpd/main.go:93, "as soon number of queued requests reaches zero,   *)
(* http daemon will exit": with no request left the length it tests is 0.   *)
EmptyIsZero ==
    Entries = 0 /\ Adding = 0 /\ (\A e \in Executors : deleting[e] = "no")
        => RequestTrackLength = 0

(* ocr_rpc_client.go:18, "rpcResponseTimeout sets timeout for getting the   *)
(* result from channel": a call with reply_to whose result never comes is   *)
(* given up.                                                                *)
UnansweredEnd ==
    \A c \in PostCalls : (RequestsTrack[IdOf[c]] = c) ~> (RequestsTrack[IdOf[c]] # c)
=============================================================================
