----------------------------- MODULE ResManager -----------------------------
(***************************************************************************)
(* Admission and shutdown of the http daemon: the resource manager loop    *)
(* (SetResManagerState), the admission test of the /ocr handler, the       *)
(* upload handler that has none, and the goroutine of cli-httpd/main.go    *)
(* that waits for a signal, for an empty table, and exits.                 *)
(*                                                                         *)
(* RequestTrackLength is exact here; how it comes to lie is the subject of *)
(* ResultStorage.  What becomes of an admitted request is one step, Finish.*)
(***************************************************************************)
EXTENDS Integers, FiniteSets

CONSTANTS
    Requests,       \* HTTP requests for OCR
    Uploads,        \* those to /ocr-file-upload; the others go to /ocr
    Deferred,       \* those that are deferred
    Factor,         \* FactorForMessageAccept
    MaxConsumers,   \* bound on the number of OCR workers
    Manager,        \* the resource manager, as holder of the mutex
    Nobody          \* no holder

ASSUME RequestsAssumption == /\ IsFiniteSet(Requests)
                             /\ Uploads \subseteq Requests /\ Deferred \subseteq Requests
ASSUME FactorAssumption == Factor \in Nat \ {0} /\ MaxConsumers \in Nat
ASSUME HolderAssumption == Manager # Nobody

VARIABLES
    ServiceCanAccept, AppStop,  \* the flags under ServiceCanAcceptMu
    mu,                 \* holder of ServiceCanAcceptMu across steps
    mpc,                \* where the resource manager stands
    NumConsumers,       \* what it last read of the number of workers
    stopChan,           \* whether StopChan holds a value
    spc,                \* where the signal goroutine stands
    rpc,                \* where the handler of a request stands
    seen,               \* the flags a handler copied
    RequestTrackLength, \* deferred requests in the table
    crowd               \* history: see Admit

vars == <<ServiceCanAccept, AppStop, mu, mpc, NumConsumers, stopChan, spc,
          rpc, seen, RequestTrackLength, crowd>>
flags == <<ServiceCanAccept, AppStop>>
managerVars == <<ServiceCanAccept, AppStop, mu, mpc, NumConsumers>>
requestVars == <<rpc, seen, RequestTrackLength, crowd>>

Flags == [can: BOOLEAN, stop: BOOLEAN]

TypeOK ==
    /\ ServiceCanAccept \in BOOLEAN /\ AppStop \in BOOLEAN
    /\ mu \in {Manager, Nobody}
    /\ mpc \in {"top", "checking", "deciding", "sleeping", "ended"}
    /\ NumConsumers \in 0..MaxConsumers
    /\ stopChan \in BOOLEAN
    /\ spc \in {"listening", "stopping", "watching", "leaving", "exited"}
    /\ rpc \in [Requests -> {"new", "flags", "rejected", "admitted", "tracked",
                             "finished"}]
    /\ seen \in [Requests -> Flags]
    /\ RequestTrackLength \in 0..Cardinality(Requests)
    /\ crowd \in 0..Cardinality(Requests)

Init ==
    /\ ServiceCanAccept = FALSE /\ AppStop = FALSE
    /\ mu = Nobody
    /\ mpc = "top"
    /\ NumConsumers = 0
    /\ stopChan = FALSE
    /\ spc = "listening"
    /\ rpc = [r \in Requests |-> "new"]
    /\ seen = [r \in Requests |-> [can |-> FALSE, stop |-> FALSE]]
    /\ RequestTrackLength = 0
    /\ crowd = 0

Running == spc # "exited"
SchedulerByWorkerNumber(n) == RequestTrackLength < n * Factor

-----------------------------------------------------------------------------
(* SetResManagerState: without a stop the mutex is taken, and kept while    *)
(* the two statistics are fetched.                                          *)
ManagerLocks ==
    /\ Running /\ mpc = "top" /\ ~AppStop /\ ~stopChan /\ mu = Nobody
    /\ mu' = Manager
    /\ mpc' = "checking"
    /\ UNCHANGED <<flags, NumConsumers, stopChan, spc, requestVars>>

(* Faulty variant: an early return forgets the mutex.                       *)
FailHoldingMutex == mu' = mu /\ mpc' = "sleeping"

Fail == mu' = Nobody /\ mpc' = "sleeping"

(* CheckForAcceptRequest: the queue report is decoded into queueManager,    *)
(* which the handlers read without the mutex.  A report without the field   *)
(* "consumers" leaves the number as it was.                                 *)
QueueReport ==
    /\ Running /\ mpc = "checking"
    /\ NumConsumers' \in 0..MaxConsumers
    /\ mpc' = "deciding"
    /\ UNCHANGED <<flags, mu, stopChan, spc, requestVars>>

(* A request to the broker failed or its answer is no JSON.                 *)
ReportFails ==
    /\ Running /\ mpc \in {"checking", "deciding"}
    /\ ServiceCanAccept' = FALSE
    /\ Fail
    /\ UNCHANGED <<AppStop, NumConsumers, stopChan, spc, requestVars>>

(* The decision; memory is schedulerByMemoryLoad.                           *)
Check ==
    /\ Running /\ mpc = "deciding"
    /\ \E memory \in BOOLEAN :
        ServiceCanAccept' = (/\ NumConsumers # 0 /\ memory
                             /\ SchedulerByWorkerNumber(NumConsumers))
    /\ mu' = Nobody
    /\ mpc' = "sleeping"
    /\ UNCHANGED <<AppStop, NumConsumers, stopChan, spc, requestVars>>

ManagerWakes ==
    /\ Running /\ mpc = "sleeping"
    /\ mpc' = "top"
    /\ UNCHANGED <<flags, mu, NumConsumers, stopChan, spc, requestVars>>

(* Faulty variant: another goroutine receives the stop, without the mutex.  *)
ManagerStopsUnlocked ==
    /\ Running /\ stopChan
    /\ stopChan' = FALSE
    /\ ServiceCanAccept' = FALSE
    /\ AppStop' = TRUE
    /\ UNCHANGED <<mu, mpc, NumConsumers, spc, requestVars>>

(* StopChan is received: both flags change under the mutex.                 *)
ManagerStops ==
    /\ Running /\ mpc = "top" /\ stopChan /\ mu = Nobody
    /\ stopChan' = FALSE
    /\ ServiceCanAccept' = FALSE
    /\ AppStop' = TRUE
    /\ mpc' = "ended"
    /\ UNCHANGED <<mu, NumConsumers, spc, requestVars>>

-----------------------------------------------------------------------------
(* The /ocr handler copies the flags under the mutex ...                    *)
ReadFlags(r) ==
    /\ Running /\ rpc[r] = "new" /\ r \notin Uploads /\ mu = Nobody
    /\ seen' = [seen EXCEPT ![r] = [can |-> ServiceCanAccept, stop |-> AppStop]]
    /\ rpc' = [rpc EXCEPT ![r] = "flags"]
    /\ UNCHANGED <<managerVars, stopChan, spc, RequestTrackLength, crowd>>

(* Faulty variant: a gate that is shut, but not for good, is not looked at. *)
NoResourcesUntested(r) == ~SchedulerByWorkerNumber(NumConsumers)

(* Faulty variant: the length is not tested a second time.                  *)
NoResourcesStale(r) == ~seen[r].can /\ ~seen[r].stop

NoResources(r) == \/ ~seen[r].can /\ ~seen[r].stop
                  \/ ~SchedulerByWorkerNumber(NumConsumers)
(* Faulty variant: the second test of the handler is missing.               *)
GoingDownUntested(r) == FALSE

GoingDown(r) == ~seen[r].can /\ seen[r].stop

(* ... and decides after it is released: 503 ...                            *)
Reject(r) ==
    /\ Running /\ rpc[r] = "flags"
    /\ NoResources(r) \/ GoingDown(r)
    /\ rpc' = [rpc EXCEPT ![r] = "rejected"]
    /\ UNCHANGED <<managerVars, stopChan, spc, seen, RequestTrackLength, crowd>>

(* Deferred requests to /ocr that passed the test and are not counted yet.  *)
InFlight == {r \in Deferred \ Uploads : rpc[r] = "admitted"}

(* ... or on to HandleOcrRequest.  crowd keeps the largest number of other  *)
(* requests that one of them found between its test and its count.          *)
Admit(r) ==
    /\ Running /\ rpc[r] = "flags"
    /\ ~NoResources(r) /\ ~GoingDown(r)
    /\ rpc' = [rpc EXCEPT ![r] = "admitted"]
    /\ crowd' = IF r \in Deferred /\ crowd < Cardinality(InFlight)
                THEN Cardinality(InFlight) ELSE crowd
    /\ UNCHANGED <<managerVars, stopChan, spc, seen, RequestTrackLength>>

(* The upload handler goes there directly.                                  *)
AdmitUpload(r) ==
    /\ Running /\ rpc[r] = "new" /\ r \in Uploads
    /\ rpc' = [rpc EXCEPT ![r] = "admitted"]
    /\ UNCHANGED <<managerVars, stopChan, spc, seen, RequestTrackLength, crowd>>

(* A deferred request is published and then counted ...                     *)
Track(r) ==
    /\ Running /\ rpc[r] = "admitted" /\ r \in Deferred
    /\ RequestTrackLength' = RequestTrackLength + 1
    /\ rpc' = [rpc EXCEPT ![r] = "tracked"]
    /\ UNCHANGED <<managerVars, stopChan, spc, seen, crowd>>

(* Faulty variant: it leaves the table but stays counted.                   *)
FinishDeferredCounted(r) ==
    /\ Running /\ rpc[r] = "tracked"
    /\ rpc' = [rpc EXCEPT ![r] = "finished"]
    /\ UNCHANGED <<managerVars, stopChan, spc, seen, RequestTrackLength, crowd>>

(* ... and leaves the table when it is claimed, posted or too old.          *)
FinishDeferred(r) ==
    /\ Running /\ rpc[r] = "tracked"
    /\ RequestTrackLength' = RequestTrackLength - 1
    /\ rpc' = [rpc EXCEPT ![r] = "finished"]
    /\ UNCHANGED <<managerVars, stopChan, spc, seen, crowd>>

(* Faulty variant: a request that was never counted is taken off.           *)
FinishUncountedTakenOff(r) ==
    /\ Running /\ rpc[r] = "admitted"
    /\ rpc' = [rpc EXCEPT ![r] = "finished"]
    /\ RequestTrackLength' = RequestTrackLength - 1
    /\ UNCHANGED <<managerVars, stopChan, spc, seen, crowd>>

(* A synchronous request is over when its handler replies, and a deferred   *)
(* one that fails before it is counted.                                     *)
FinishUncounted(r) ==
    /\ Running /\ rpc[r] = "admitted"
    /\ rpc' = [rpc EXCEPT ![r] = "finished"]
    /\ UNCHANGED <<managerVars, stopChan, spc, seen, RequestTrackLength, crowd>>

-----------------------------------------------------------------------------
(* A signal arrives ...                                                     *)
Signal ==
    /\ spc = "listening"
    /\ spc' = "stopping"
    /\ UNCHANGED <<managerVars, stopChan, requestVars>>

(* ... is passed on ...                                                     *)
SendStop ==
    /\ spc = "stopping" /\ ~stopChan
    /\ stopChan' = TRUE
    /\ spc' = "watching"
    /\ UNCHANGED <<managerVars, requestVars>>

(* Faulty variant: the daemon leaves without looking at the table.          *)
SeeEmptyUnchecked ==
    /\ spc = "watching"
    /\ spc' = "leaving"
    /\ UNCHANGED <<managerVars, stopChan, requestVars>>

(* ... and from then on the length is looked at, every minute.              *)
SeeEmpty ==
    /\ spc = "watching" /\ RequestTrackLength = 0
    /\ spc' = "leaving"
    /\ UNCHANGED <<managerVars, stopChan, requestVars>>

(* 20 seconds later the process exits.                                      *)
Exit ==
    /\ spc = "leaving"
    /\ spc' = "exited"
    /\ UNCHANGED <<managerVars, stopChan, requestVars>>

-----------------------------------------------------------------------------
ManagerStep == \/ ManagerLocks \/ QueueReport \/ ReportFails \/ Check
               \/ ManagerWakes \/ ManagerStops
Handle(r) == ReadFlags(r) \/ Reject(r) \/ Admit(r) \/ AdmitUpload(r)
Serve(r) == Track(r) \/ FinishDeferred(r) \/ FinishUncounted(r)
ShutdownStep == SendStop \/ SeeEmpty \/ Exit

Next == \/ ManagerStep \/ Signal \/ ShutdownStep
        \/ \E r \in Requests : Handle(r) \/ Serve(r)

Spec == Init /\ [][Next]_vars

(* A handler competes for the mutex with a manager that gives it back       *)
(* before it sleeps, and sync.RWMutex serves its waiters in turn: strong    *)
(* fairness.  Served requests end, by their timeouts at the latest.         *)
Fairness ==
    /\ SF_vars(ManagerStep) /\ WF_vars(ShutdownStep)
    /\ \A r \in Requests : SF_vars(Handle(r)) /\ WF_vars(Serve(r))

FairSpec == Spec /\ Fairness

-----------------------------------------------------------------------------
(* The stop is final: whatever the manager was doing when the signal came,  *)
(* it never accepts again (ocr_res_manager.go:136-145).                     *)
StopIsFinal == AppStop => ~ServiceCanAccept

(* A handler that saw the stop does not admit its request, also when the    *)
(* table is empty (ocr_http_handler.go:50-73).                              *)
NoLateAdmission ==
    \A r \in Requests : seen[r].stop => rpc[r] \in {"flags", "rejected"}

(* Only requests that are between test and count at the same time get past  *)
(* the limit, and by no more than their number, however old the flags are   *)
(* they saw: "the part after || is needed because the first part can be     *)
(* slow" (ocr_http_handler.go:54-55).                                       *)
ThrottleBounded ==
    Cardinality({r \in Deferred \ Uploads : rpc[r] = "tracked"})
        <= MaxConsumers * Factor + crowd

(* The daemon leaves with no deferred request in its table                  *)
(* (cli-httpd/main.go:92-99).                                               *)
LeavesEmpty ==
    [][spc' = "leaving" /\ spc # "leaving"
         => \A r \in Requests : rpc[r] # "tracked"]_vars

(* The daemon keeps what its door promises (AdmissionContract): every       *)
(* request enters, is counted and finishes once, with a look at the flags   *)
(* while the gate was open, although it is decided later and without the    *)
(* mutex; and no stop, called at any moment, is undone                      *)
(* (ocr_http_handler.go:45-73, ocr_res_manager.go:136-151,                  *)
(* cli-httpd/main.go:85-108).                                               *)
PlaceOf(r) ==
    CASE rpc[r] \in {"new", "flags"} -> "outside"
      [] rpc[r] = "rejected" -> "refused"
      [] rpc[r] = "admitted" -> "inside"
      [] rpc[r] = "tracked" -> "counted"
      [] rpc[r] = "finished" -> "done"

Closing == CASE spc = "listening" -> "serving"
             [] spc \in {"stopping", "watching"} -> "called"
             [] spc \in {"leaving", "exited"} -> spc

Admission == INSTANCE AdmissionContract WITH
    gate <- IF ServiceCanAccept THEN "open" ELSE IF AppStop THEN "stopped" ELSE "shut",
    tickets <- {r \in Requests : seen[r].can},
    place <- [r \in Requests |-> PlaceOf(r)],
    closing <- Closing

KeepsAdmission == Admission!Spec

(* No handler waits for ever for the mutex or for its decision, although    *)
(* the manager keeps the mutex while it talks to the broker                 *)
(* (ocr_res_manager.go:148-151).                                            *)
EveryRequestDecided ==
    \A r \in Requests :
        (rpc[r] \in {"new", "flags"})
            ~> (rpc[r] \notin {"new", "flags"} \/ spc = "exited")

(* After a signal the daemon exits (cli-httpd/main.go:85-108).              *)
SignalExits == (spc = "stopping") ~> (spc = "exited")
=============================================================================
