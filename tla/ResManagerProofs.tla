-------------------------- MODULE ResManagerProofs --------------------------
(***************************************************************************)
(* Theorems of ResManager, for any requests, any factor and any number of  *)
(* workers.                                                                *)
(***************************************************************************)
EXTENDS ResManager, FiniteSetTheorems, TLAPS

TrackedRequests == {r \in Requests : rpc[r] = "tracked"}

(* Types, without the bound on the length, which needs the count.           *)
VarsInv ==
    /\ ServiceCanAccept \in BOOLEAN /\ AppStop \in BOOLEAN
    /\ mu \in {Manager, Nobody}
    /\ mpc \in {"top", "checking", "deciding", "sleeping", "ended"}
    /\ NumConsumers \in 0..MaxConsumers
    /\ stopChan \in BOOLEAN
    /\ spc \in {"listening", "stopping", "watching", "leaving", "exited"}
    /\ rpc \in [Requests -> {"new", "flags", "rejected", "admitted", "tracked",
                             "finished"}]
    /\ seen \in [Requests -> Flags]
    /\ crowd \in 0..Cardinality(Requests)

(* The length is the number of requests in the table.                       *)
CountInv == RequestTrackLength = Cardinality(TrackedRequests)

(* The manager stops for good, and no handler ever saw a stop together with *)
(* permission.                                                              *)
StopInv ==
    /\ AppStop => mpc = "ended" /\ ~ServiceCanAccept
    /\ \A r \in Requests :
        seen[r].stop => ~seen[r].can /\ rpc[r] \in {"flags", "rejected"}

Inv == VarsInv /\ CountInv /\ StopInv

LEMMA TrackedIsFinite ==
  /\ IsFiniteSet(TrackedRequests)
  /\ Cardinality(TrackedRequests) \in 0..Cardinality(Requests)
<1>1. TrackedRequests \subseteq Requests
  BY DEF TrackedRequests
<1>2. IsFiniteSet(TrackedRequests) /\ Cardinality(TrackedRequests) <= Cardinality(Requests)
  BY <1>1, RequestsAssumption, FS_Subset
<1> QED
  BY <1>2, RequestsAssumption, FS_CardinalityType

LEMMA InFlightIsFinite ==
  /\ IsFiniteSet(InFlight)
  /\ Cardinality(InFlight) \in 0..Cardinality(Requests)
<1>1. InFlight \subseteq Requests
  BY RequestsAssumption DEF InFlight
<1>2. IsFiniteSet(InFlight) /\ Cardinality(InFlight) <= Cardinality(Requests)
  BY <1>1, RequestsAssumption, FS_Subset
<1> QED
  BY <1>2, RequestsAssumption, FS_CardinalityType

LEMMA VarsInvStep ==
  ASSUME VarsInv, [Next]_vars
  PROVE  VarsInv'
<1> USE FactorAssumption, RequestsAssumption
<1> USE DEF VarsInv, flags, managerVars, requestVars, vars, Flags
<1>1. CASE ManagerStep
  BY <1>1 DEF ManagerStep, ManagerLocks, QueueReport, ReportFails, Check,
         ManagerWakes, ManagerStops, Fail
<1>2. CASE Signal \/ ShutdownStep
  BY <1>2 DEF Signal, ShutdownStep, SendStop, SeeEmpty, Exit
<1>3. ASSUME NEW r \in Requests, Handle(r) PROVE VarsInv'
  <2>1. crowd' \in 0..Cardinality(Requests)
    BY <1>3, InFlightIsFinite DEF Handle, ReadFlags, Reject, Admit, AdmitUpload
  <2> QED
    BY <1>3, <2>1 DEF Handle, ReadFlags, Reject, Admit, AdmitUpload
<1>4. ASSUME NEW r \in Requests, Serve(r) PROVE VarsInv'
  BY <1>4 DEF Serve, Track, FinishDeferred, FinishUncounted
<1> QED
  BY <1>1, <1>2, <1>3, <1>4 DEF Next

LEMMA CountInvStep ==
  ASSUME VarsInv, CountInv, [Next]_vars
  PROVE  CountInv'
<1> USE DEF VarsInv, CountInv, managerVars, requestVars
<1>1. ASSUME UNCHANGED RequestTrackLength, TrackedRequests' = TrackedRequests
      PROVE  CountInv'
  BY <1>1
<1>2. CASE ManagerStep \/ Signal \/ ShutdownStep \/ UNCHANGED vars
  <2>1. UNCHANGED <<rpc, RequestTrackLength>>
    BY <1>2 DEF ManagerStep, ManagerLocks, QueueReport, ReportFails, Check,
         ManagerWakes, ManagerStops, Signal, ShutdownStep, SendStop, SeeEmpty,
         Exit, vars
  <2> QED
    BY <1>1, <2>1 DEF TrackedRequests
<1>3. ASSUME NEW r \in Requests, Handle(r) \/ FinishUncounted(r) PROVE CountInv'
  <2>1. UNCHANGED RequestTrackLength
    BY <1>3 DEF Handle, ReadFlags, Reject, Admit, AdmitUpload, FinishUncounted
  <2>2. \A x \in Requests : rpc'[x] = "tracked" <=> rpc[x] = "tracked"
    BY <1>3 DEF Handle, ReadFlags, Reject, Admit, AdmitUpload, FinishUncounted
  <2> QED
    BY <1>1, <2>1, <2>2 DEF TrackedRequests
<1>4. ASSUME NEW r \in Requests, Track(r) PROVE CountInv'
  <2>1. r \notin TrackedRequests
    BY <1>4 DEF Track, TrackedRequests
  <2>2. TrackedRequests' = TrackedRequests \cup {r}
    BY <1>4 DEF Track, TrackedRequests
  <2>3. Cardinality(TrackedRequests') = Cardinality(TrackedRequests) + 1
    BY <2>1, <2>2, TrackedIsFinite, FS_AddElement
  <2> QED
    BY <1>4, <2>3 DEF Track
<1>5. ASSUME NEW r \in Requests, FinishDeferred(r) PROVE CountInv'
  <2>1. r \in TrackedRequests
    BY <1>5 DEF FinishDeferred, TrackedRequests
  <2>2. TrackedRequests' = TrackedRequests \ {r}
    BY <1>5 DEF FinishDeferred, TrackedRequests
  <2>3. Cardinality(TrackedRequests') = Cardinality(TrackedRequests) - 1
    BY <2>1, <2>2, TrackedIsFinite, FS_RemoveElement
  <2> QED
    BY <1>5, <2>3 DEF FinishDeferred
<1> QED
  BY <1>2, <1>3, <1>4, <1>5 DEF Next, Serve

LEMMA StopInvStep ==
  ASSUME VarsInv, StopInv, [Next]_vars
  PROVE  StopInv'
<1> USE DEF VarsInv, StopInv, flags, managerVars, requestVars, vars, Flags
<1>1. CASE ManagerStep
  <2>1. UNCHANGED <<rpc, seen>>
    BY <1>1 DEF ManagerStep, ManagerLocks, QueueReport, ReportFails, Check,
         ManagerWakes, ManagerStops
  <2>2. CASE ManagerStops
    BY <2>1, <2>2 DEF ManagerStops
  <2>3. CASE ~ManagerStops
    <3>1. mpc # "ended" /\ UNCHANGED AppStop
      BY <1>1, <2>3 DEF ManagerStep, ManagerLocks, QueueReport, ReportFails,
           Check, ManagerWakes
    <3>2. ~AppStop
      BY <3>1
    <3> QED
      BY <2>1, <3>1, <3>2
  <2> QED
    BY <2>2, <2>3
<1>2. CASE Signal \/ ShutdownStep
  BY <1>2 DEF Signal, ShutdownStep, SendStop, SeeEmpty, Exit
<1>3. ASSUME NEW r \in Requests, Handle(r) PROVE StopInv'
  <2>1. CASE ReadFlags(r)
    <3>1. seen' = [seen EXCEPT ![r] = [can |-> ServiceCanAccept, stop |-> AppStop]]
      BY <2>1 DEF ReadFlags
    <3>2. seen'[r].stop = AppStop /\ seen'[r].can = ServiceCanAccept
      BY <3>1
    <3>3. \A x \in Requests \ {r} : seen'[x] = seen[x] /\ rpc'[x] = rpc[x]
      BY <2>1, <3>1 DEF ReadFlags
    <3> QED
      BY <2>1, <3>2, <3>3 DEF ReadFlags
  <2>2. CASE Reject(r) \/ Admit(r) \/ AdmitUpload(r)
    BY <2>2 DEF Reject, Admit, AdmitUpload, GoingDown
  <2> QED
    BY <1>3, <2>1, <2>2 DEF Handle
<1>4. ASSUME NEW r \in Requests, Serve(r) PROVE StopInv'
  BY <1>4 DEF Serve, Track, FinishDeferred, FinishUncounted
<1> QED
  BY <1>1, <1>2, <1>3, <1>4 DEF Next

(* The inductive invariant.                                                 *)
LEMMA Invariance == Spec => []Inv
<1>1. Init => Inv
  <2> SUFFICES ASSUME Init PROVE Inv
    OBVIOUS
  <2>1. TrackedRequests = {}
    BY DEF Init, TrackedRequests
  <2>2. CountInv
    BY <2>1, FS_EmptySet DEF Init, CountInv
  <2>3. seen \in [Requests -> Flags]
    BY DEF Init, Flags
  <2>4. \A r \in Requests : seen[r] = [can |-> FALSE, stop |-> FALSE]
    BY DEF Init
  <2>5. StopInv
    BY <2>4 DEF Init, StopInv
  <2>6. NumConsumers \in 0..MaxConsumers /\ rpc \in [Requests -> {"new"}]
    BY FactorAssumption DEF Init
  <2>7. ServiceCanAccept \in BOOLEAN /\ AppStop \in BOOLEAN /\ stopChan \in BOOLEAN
    BY Zenon DEF Init
  <2>8. crowd \in 0..Cardinality(Requests)
    BY RequestsAssumption, FS_CardinalityType DEF Init
  <2>9. VarsInv
    BY <2>3, <2>6, <2>7, <2>8 DEF Init, VarsInv
  <2> QED
    BY <2>2, <2>5, <2>9 DEF Inv
<1>2. Inv /\ [Next]_vars => Inv'
  BY VarsInvStep, CountInvStep, StopInvStep DEF Inv
<1> QED
  BY <1>1, <1>2, PTL DEF Spec

(* Type correctness; the length of the table stays within the number of     *)
(* requests (ocr_results_storage.go:9-10).                                  *)
THEOREM TypeCorrect == Spec => []TypeOK
<1>1. Inv => TypeOK
  BY TrackedIsFinite DEF Inv, VarsInv, CountInv, TypeOK
<1> QED
  BY <1>1, Invariance, PTL

(* The stop is final: whatever the manager was doing when the signal came,  *)
(* it never accepts again (ocr_res_manager.go:136-145).                     *)
THEOREM StopsForGood == Spec => []StopIsFinal
<1>1. Inv => StopIsFinal
  BY DEF Inv, StopInv, StopIsFinal
<1> QED
  BY <1>1, Invariance, PTL

(* A handler that saw the stop does not admit its request, also when the    *)
(* table is empty (ocr_http_handler.go:50-73).                              *)
THEOREM StopIsSeen == Spec => []NoLateAdmission
<1>1. Inv => NoLateAdmission
  BY DEF Inv, StopInv, NoLateAdmission
<1> QED
  BY <1>1, Invariance, PTL

(* The daemon leaves with no deferred request in its table                  *)
(* (cli-httpd/main.go:92-99).                                               *)
THEOREM LeavesWhenEmpty == Spec => LeavesEmpty
<1>1. Inv /\ [Next]_vars
        => [spc' = "leaving" /\ spc # "leaving"
              => \A r \in Requests : rpc[r] # "tracked"]_vars
  <2> SUFFICES ASSUME Inv, Next, spc' = "leaving", spc # "leaving", NEW r \in Requests
               PROVE  rpc[r] # "tracked"
    OBVIOUS
  <2>1. SeeEmpty
    BY DEF Next, ManagerStep, ManagerLocks, QueueReport, ReportFails, Check,
         ManagerWakes, ManagerStops, Signal, ShutdownStep, SendStop, SeeEmpty,
         Exit, Handle, ReadFlags, Reject, Admit, AdmitUpload, Serve, Track,
         FinishDeferred, FinishUncounted
  <2>2. Cardinality(TrackedRequests) = 0
    BY <2>1 DEF SeeEmpty, Inv, CountInv
  <2>3. TrackedRequests = {}
    BY <2>2, TrackedIsFinite, FS_EmptySet
  <2> QED
    BY <2>3 DEF TrackedRequests
<1> QED
  BY <1>1, Invariance, PTL DEF Spec, LeavesEmpty

-----------------------------------------------------------------------------
(* The door.  Who still has to look has no ticket, only a called daemon     *)
(* stops, and nothing is left to do after the exit.                         *)
DoorInv ==
    /\ \A r \in Requests : rpc[r] = "new" => ~seen[r].can
    /\ \A r \in Uploads : rpc[r] # "flags"
    /\ spc = "listening" => ~stopChan /\ ~AppStop

Gate == IF ServiceCanAccept THEN "open" ELSE IF AppStop THEN "stopped" ELSE "shut"
Tickets == {r \in Requests : seen[r].can}
Places == [r \in Requests |-> PlaceOf(r)]

LEMMA DoorInvStep ==
  ASSUME VarsInv, DoorInv, [Next]_vars
  PROVE  DoorInv'
<1> USE DEF VarsInv, DoorInv, flags, managerVars, requestVars, vars, Flags
<1>1. CASE ManagerStep
  <2>1. UNCHANGED <<rpc, seen, spc>>
    BY <1>1 DEF ManagerStep, ManagerLocks, QueueReport, ReportFails, Check,
       ManagerWakes, ManagerStops
  <2>2. UNCHANGED <<stopChan, AppStop>> \/ stopChan
    BY <1>1 DEF ManagerStep, ManagerLocks, QueueReport, ReportFails, Check,
       ManagerWakes, ManagerStops
  <2> QED
    BY <2>1, <2>2
<1>2. CASE Signal \/ ShutdownStep
  BY <1>2 DEF Signal, ShutdownStep, SendStop, SeeEmpty, Exit
<1>3. ASSUME NEW r \in Requests, Handle(r) \/ Serve(r) PROVE DoorInv'
  <2>1. \A x \in Requests : rpc'[x] = "new" => rpc[x] = "new" /\ seen'[x] = seen[x]
    BY <1>3 DEF Handle, ReadFlags, Reject, Admit, AdmitUpload, Serve, Track,
       FinishDeferred, FinishUncounted
  <2>2. \A x \in Uploads : rpc'[x] = "flags" => rpc[x] = "flags"
    BY <1>3, RequestsAssumption DEF Handle, ReadFlags, Reject, Admit, AdmitUpload, Serve,
       Track, FinishDeferred, FinishUncounted
  <2>3. UNCHANGED <<spc, stopChan, AppStop>>
    BY <1>3 DEF Handle, ReadFlags, Reject, Admit, AdmitUpload, Serve, Track,
       FinishDeferred, FinishUncounted
  <2> QED
    BY <2>1, <2>2, <2>3
<1> QED
  BY <1>1, <1>2, <1>3 DEF Next

LEMMA DoorInvariant == Spec => []DoorInv
<1>1. Init => DoorInv
  <2> SUFFICES ASSUME Init PROVE DoorInv
    OBVIOUS
  <2>1. \A r \in Requests : seen[r] = [can |-> FALSE, stop |-> FALSE]
    BY DEF Init
  <2> QED
    BY <2>1, RequestsAssumption DEF Init, DoorInv
<1>2. Inv /\ DoorInv /\ [Next]_vars => DoorInv'
  BY DoorInvStep DEF Inv
<1> QED
  BY <1>1, <1>2, Invariance, PTL DEF Spec

(* What the steps leave of the door as it is.                               *)
LEMMA ManagerFrame ==
  ASSUME ManagerStep
  PROVE  /\ UNCHANGED <<rpc, seen, spc, RequestTrackLength>>
         /\ Running
<1> QED
  BY DEF ManagerStep, ManagerLocks, QueueReport, ReportFails, Check, ManagerWakes,
     ManagerStops, requestVars

LEMMA HandlerFrame ==
  ASSUME NEW r \in Requests, Handle(r) \/ Serve(r)
  PROVE  /\ UNCHANGED <<ServiceCanAccept, AppStop, spc>>
         /\ ~ReadFlags(r) => UNCHANGED seen
         /\ Running
<1> QED
  BY DEF Handle, ReadFlags, Reject, Admit, AdmitUpload, Serve, Track,
     FinishDeferred, FinishUncounted, managerVars

LEMMA ShutdownFrame ==
  ASSUME Signal \/ ShutdownStep
  PROVE  UNCHANGED <<ServiceCanAccept, AppStop, rpc, seen, RequestTrackLength>>
<1> QED
  BY DEF Signal, ShutdownStep, SendStop, SeeEmpty, Exit, managerVars, requestVars

LEMMA Moves ==
  ASSUME VarsInv, NEW r \in Requests, NEW s \in {"flags", "rejected", "admitted",
         "tracked", "finished"}, rpc' = [rpc EXCEPT ![r] = s]
  PROVE  Places' = [Places EXCEPT ![r] = PlaceOf(r)']
<1>1. \A x \in Requests \ {r} : PlaceOf(x)' = PlaceOf(x)
  BY DEF VarsInv, PlaceOf
<1> QED
  BY <1>1 DEF Places

LEMMA AdmissionStep ==
  ASSUME Inv, DoorInv, [Next]_vars
  PROVE  [Admission!Next]_(Admission!contractVars)
<1> USE DEF Inv, VarsInv
<1>1. CASE UNCHANGED vars
  <2>1. UNCHANGED <<Gate, Tickets, Places, Closing>>
    BY <1>1 DEF vars, Gate, Tickets, Places, PlaceOf, Closing
  <2> QED
    BY <2>1 DEF Admission!contractVars, Gate, Tickets, Places
<1>2. CASE ManagerStep
  <2>1. UNCHANGED <<Tickets, Places, Closing>> /\ Closing # "exited"
    BY <1>2, ManagerFrame DEF Tickets, Places, PlaceOf, Closing, Running
  <2>2. CASE ManagerStops
    <3>1. Gate' = "stopped" /\ Gate # "stopped"
      BY <2>2 DEF ManagerStops, StopInv, Gate
    <3>2. Closing # "serving"
      BY <2>2 DEF ManagerStops, DoorInv, Closing
    <3>3. Admission!Stop
      BY <2>1, <3>1, <3>2 DEF Admission!Stop, Gate, Tickets, Places
    <3> QED
      BY <2>1, <3>3 DEF Admission!Next
  <2>3. CASE ~ManagerStops
    <3>1. mpc # "ended" /\ UNCHANGED AppStop
      BY <1>2, <2>3 DEF ManagerStep, ManagerLocks, QueueReport, ReportFails, Check,
         ManagerWakes, flags
    <3>2. ~AppStop /\ ~AppStop'
      BY <3>1 DEF StopInv
    <3>3. Gate # "stopped" /\ Gate' \in {"open", "shut"}
      BY <3>2 DEF Gate
    <3>4. Admission!Swing
      BY <2>1, <3>3 DEF Admission!Swing, Gate, Tickets, Places
    <3> QED
      BY <2>1, <3>4 DEF Admission!Next
  <2> QED
    BY <2>2, <2>3
<1>3. CASE Signal \/ ShutdownStep
  <2>1. UNCHANGED <<Gate, Tickets, Places>>
    BY <1>3, ShutdownFrame DEF Gate, Tickets, Places, PlaceOf
  <2>2. CASE Signal
    <3>1. Closing = "serving" /\ Closing' = "called"
      BY <2>2 DEF Signal, Closing
    <3>2. Admission!Call
      BY <2>1, <3>1 DEF Admission!Call, Admission!Close, Gate, Tickets, Places
    <3> QED
      BY <3>1, <3>2 DEF Admission!Next
  <2>3. CASE SendStop
    <3>1. Closing' = Closing
      BY <2>3 DEF SendStop, Closing
    <3> QED
      BY <2>1, <3>1 DEF Admission!contractVars, Gate, Tickets, Places
  <2>4. CASE SeeEmpty
    <3>1. Closing = "called" /\ Closing' = "leaving"
      BY <2>4 DEF SeeEmpty, Closing
    <3>2. TrackedRequests = {}
      BY <2>4, TrackedIsFinite, FS_EmptySet DEF SeeEmpty, CountInv
    <3>3. \A r \in Requests : Places[r] # "counted"
      BY <3>2 DEF TrackedRequests, Places, PlaceOf
    <3>4. Admission!Leave
      BY <2>1, <3>1, <3>3 DEF Admission!Leave, Admission!Close, Gate, Tickets, Places
    <3> QED
      BY <3>1, <3>4 DEF Admission!Next
  <2>5. CASE Exit
    <3>1. Closing = "leaving" /\ Closing' = "exited"
      BY <2>5 DEF Exit, Closing
    <3>2. Admission!Exit
      BY <2>1, <3>1 DEF Admission!Exit, Admission!Close, Gate, Tickets, Places
    <3> QED
      BY <3>1, <3>2 DEF Admission!Next
  <2> QED
    BY <1>3, <2>2, <2>3, <2>4, <2>5 DEF ShutdownStep
<1>4. ASSUME NEW r \in Requests, Handle(r) \/ Serve(r)
      PROVE  [Admission!Next]_(Admission!contractVars)
  <2>1. UNCHANGED <<Gate, Closing>> /\ Closing # "exited"
    BY <1>4, HandlerFrame DEF Gate, Closing, Running
  <2>2. CASE ReadFlags(r)
    <3>1. UNCHANGED Places
      BY <2>2 DEF ReadFlags, Places, PlaceOf
    <3>2. rpc[r] = "new" /\ r \notin Tickets
      BY <2>2 DEF ReadFlags, DoorInv, Tickets
    <3>3. Places[r] = "outside"
      BY <3>2 DEF Places, PlaceOf
    <3>4. /\ seen'[r].can = ServiceCanAccept
          /\ \A x \in Requests \ {r} : seen'[x] = seen[x]
      BY <2>2 DEF ReadFlags, Flags
    <3>5. CASE ServiceCanAccept
      <4>1. Tickets' = Tickets \cup {r} /\ Gate = "open"
        BY <3>4, <3>5 DEF Tickets, Gate
      <4>2. Admission!Knock(r)
        BY <2>1, <3>1, <3>3, <4>1 DEF Admission!Knock, Gate, Tickets, Places
      <4> QED
        BY <2>1, <4>2 DEF Admission!Next
    <3>6. CASE ~ServiceCanAccept
      <4>1. UNCHANGED Tickets
        BY <3>2, <3>4, <3>6 DEF Tickets
      <4> QED
        BY <2>1, <3>1, <4>1 DEF Admission!contractVars, Gate, Tickets, Places
    <3> QED
      BY <3>5, <3>6
  <2>3. CASE ~ReadFlags(r)
    <3>1. UNCHANGED Tickets
      BY <1>4, <2>3, HandlerFrame DEF Tickets
    <3>2. CASE Reject(r)
      <4>1. Places' = [Places EXCEPT ![r] = PlaceOf(r)'] /\ rpc'[r] = "rejected"
        BY <3>2, Moves DEF Reject
      <4>2. r \notin Uploads /\ Places[r] = "outside" /\ PlaceOf(r)' = "refused"
        BY <3>2, <4>1 DEF Reject, Places, PlaceOf, DoorInv
      <4>3. Admission!Refuse(r)
        BY <2>1, <3>1, <4>1, <4>2 DEF Admission!Refuse, Admission!Move, Gate, Tickets, Places
      <4> QED
        BY <2>1, <4>3 DEF Admission!Next
    <3>3. CASE Admit(r) \/ AdmitUpload(r)
      <4>1. Places' = [Places EXCEPT ![r] = PlaceOf(r)'] /\ rpc'[r] = "admitted"
        BY <3>3, Moves DEF Admit, AdmitUpload
      <4>2. r \in Tickets \cup Uploads
        BY <3>3 DEF Admit, AdmitUpload, NoResources, GoingDown, Tickets
      <4>3. Places[r] = "outside" /\ PlaceOf(r)' = "inside"
        BY <3>3, <4>1 DEF Admit, AdmitUpload, Places, PlaceOf
      <4>4. Admission!Enter(r)
        BY <2>1, <3>1, <4>1, <4>2, <4>3
        DEF Admission!Enter, Admission!Move, Gate, Tickets, Places
      <4> QED
        BY <2>1, <4>4 DEF Admission!Next
    <3>4. CASE Track(r)
      <4>1. Places' = [Places EXCEPT ![r] = PlaceOf(r)'] /\ rpc'[r] = "tracked"
        BY <3>4, Moves DEF Track
      <4>2. r \in Deferred /\ Places[r] = "inside" /\ PlaceOf(r)' = "counted"
        BY <3>4, <4>1 DEF Track, Places, PlaceOf
      <4>3. Admission!Count(r)
        BY <2>1, <3>1, <4>1, <4>2 DEF Admission!Count, Admission!Move, Gate, Tickets, Places
      <4> QED
        BY <2>1, <4>3 DEF Admission!Next
    <3>5. CASE FinishDeferred(r) \/ FinishUncounted(r)
      <4>1. Places' = [Places EXCEPT ![r] = PlaceOf(r)'] /\ rpc'[r] = "finished"
        BY <3>5, Moves DEF FinishDeferred, FinishUncounted
      <4>2. Places[r] \in {"inside", "counted"} /\ PlaceOf(r)' = "done"
        BY <3>5, <4>1 DEF FinishDeferred, FinishUncounted, Places, PlaceOf
      <4>3. Admission!Finish(r)
        BY <2>1, <3>1, <4>1, <4>2 DEF Admission!Finish, Admission!Move, Gate, Tickets, Places
      <4> QED
        BY <2>1, <4>3 DEF Admission!Next
    <3> QED
      BY <1>4, <2>3, <3>2, <3>3, <3>4, <3>5 DEF Handle, Serve
  <2> QED
    BY <2>2, <2>3
<1> QED
  BY <1>1, <1>2, <1>3, <1>4 DEF Next

(* The daemon keeps what its door promises (AdmissionContract): nobody      *)
(* enters /ocr without having found the gate open, and no stop is undone    *)
(* (ocr_http_handler.go:50-73, cli-httpd/main.go:85-108).                   *)
THEOREM AdmissionIsKept == Spec => KeepsAdmission
<1>1. Init => Admission!Init
  <2> SUFFICES ASSUME Init PROVE Admission!Init
    OBVIOUS
  <2>1. Gate = "shut" /\ Closing = "serving"
    BY DEF Init, Gate, Closing
  <2>2. \A r \in Requests : seen[r] = [can |-> FALSE, stop |-> FALSE] /\ rpc[r] = "new"
    BY DEF Init
  <2>3. Tickets = {}
    BY <2>2 DEF Tickets
  <2>4. Places = [r \in Requests |-> "outside"]
    BY <2>2 DEF Places, PlaceOf
  <2> QED
    BY <2>1, <2>3, <2>4 DEF Admission!Init, Gate, Tickets, Places
<1>2. Inv /\ DoorInv /\ [Next]_vars => [Admission!Next]_(Admission!contractVars)
  BY AdmissionStep
<1> QED
  BY <1>1, <1>2, Invariance, DoorInvariant, PTL DEF Spec, KeepsAdmission, Admission!Spec

-----------------------------------------------------------------------------
(* The throttle.  What is counted and what is about to be counted together  *)
(* exceed the limit by no more than the crowd: a request joins them only    *)
(* with a free place under the limit, next to at most crowd others.         *)
Counted == {r \in Deferred \ Uploads : rpc[r] = "tracked"}

Limit == MaxConsumers * Factor

CrowdInv == Cardinality(Counted) + Cardinality(InFlight) <= Limit + crowd

LEMMA CountedIsFinite ==
  /\ IsFiniteSet(Counted)
  /\ Cardinality(Counted) \in Nat
  /\ Cardinality(Counted) <= Cardinality(TrackedRequests)
<1>1. Counted \subseteq TrackedRequests
  BY RequestsAssumption DEF Counted, TrackedRequests
<1>2. IsFiniteSet(Counted) /\ Cardinality(Counted) <= Cardinality(TrackedRequests)
  BY <1>1, TrackedIsFinite, FS_Subset
<1> QED
  BY <1>2, FS_CardinalityType

LEMMA Sizes ==
  ASSUME VarsInv
  PROVE  /\ Cardinality(Counted) \in Nat /\ Cardinality(InFlight) \in Nat
         /\ Cardinality(Requests) \in Nat
         /\ Limit \in Nat /\ crowd \in Nat
<1>1. Limit \in Nat
  BY FactorAssumption DEF Limit
<1>2. Cardinality(Requests) \in Nat
  BY RequestsAssumption, FS_CardinalityType
<1> QED
  BY <1>1, <1>2, CountedIsFinite, InFlightIsFinite DEF VarsInv

(* The number of workers never makes more places than the limit.            *)
LEMMA PlacesWithinLimit ==
  ASSUME NumConsumers \in 0..MaxConsumers
  PROVE  NumConsumers * Factor <= Limit /\ NumConsumers * Factor \in Nat
<1>1. PICK d \in Nat : MaxConsumers = NumConsumers + d
  <2>1. MaxConsumers - NumConsumers \in Nat
    BY FactorAssumption
  <2> QED
    BY <2>1, FactorAssumption
<1>2. MaxConsumers * Factor = NumConsumers * Factor + d * Factor
  BY <1>1, FactorAssumption
<1>3. d * Factor \in Nat /\ NumConsumers * Factor \in Nat
  BY FactorAssumption
<1> QED
  BY <1>2, <1>3 DEF Limit

LEMMA CrowdInvStep ==
  ASSUME VarsInv, CountInv, DoorInv, CrowdInv, [Next]_vars
  PROVE  CrowdInv'
<1>0. VarsInv'
  BY VarsInvStep
<1>1. ASSUME Counted' = Counted, InFlight' = InFlight, UNCHANGED crowd
      PROVE  CrowdInv'
  BY <1>1 DEF CrowdInv, Limit
<1>2. CASE ManagerStep \/ Signal \/ ShutdownStep \/ UNCHANGED vars
  <2>1. UNCHANGED <<rpc, crowd>>
    BY <1>2 DEF ManagerStep, ManagerLocks, QueueReport, ReportFails, Check,
       ManagerWakes, ManagerStops, Signal, ShutdownStep, SendStop, SeeEmpty, Exit,
       requestVars, vars
  <2> QED
    BY <1>1, <2>1 DEF Counted, InFlight
<1>3. ASSUME NEW r \in Requests, Handle(r) \/ Serve(r), r \notin Deferred \ Uploads
      PROVE  CrowdInv'
  <2>1. \A x \in Requests \ {r} : rpc'[x] = rpc[x]
    BY <1>3 DEF VarsInv, Handle, ReadFlags, Reject, Admit, AdmitUpload, Serve, Track,
       FinishDeferred, FinishUncounted
  <2>2. Counted' = Counted /\ InFlight' = InFlight
    BY <1>3, <2>1, RequestsAssumption DEF Counted, InFlight
  <2>3. UNCHANGED crowd
    <3>1. CASE Admit(r)
      <4>1. r \notin Uploads
        BY <3>1 DEF Admit, DoorInv
      <4> QED
        BY <1>3, <3>1, <4>1 DEF Admit
    <3>2. CASE ~Admit(r)
      BY <1>3, <3>2 DEF Handle, ReadFlags, Reject, AdmitUpload, Serve, Track,
         FinishDeferred, FinishUncounted
    <3> QED
      BY <3>1, <3>2
  <2> QED
    BY <1>1, <2>2, <2>3
<1>4. ASSUME NEW r \in Deferred \ Uploads, ReadFlags(r) \/ Reject(r)
      PROVE  CrowdInv'
  <2>1. \A x \in Requests : /\ rpc'[x] = "tracked" <=> rpc[x] = "tracked"
                            /\ rpc'[x] = "admitted" <=> rpc[x] = "admitted"
    BY <1>4, RequestsAssumption DEF VarsInv, ReadFlags, Reject
  <2>2. Counted' = Counted /\ InFlight' = InFlight /\ UNCHANGED crowd
    BY <1>4, <2>1, RequestsAssumption DEF Counted, InFlight, ReadFlags, Reject
  <2> QED
    BY <1>1, <2>2
<1>5. ASSUME NEW r \in Deferred \ Uploads, Admit(r) PROVE CrowdInv'
  <2>1. rpc[r] = "flags" /\ rpc' = [rpc EXCEPT ![r] = "admitted"]
    BY <1>5 DEF Admit
  <2>2. Counted' = Counted /\ InFlight' = InFlight \cup {r} /\ r \notin InFlight
    BY <2>1, RequestsAssumption DEF VarsInv, Counted, InFlight
  <2>3. Cardinality(InFlight') = Cardinality(InFlight) + 1
    BY <2>2, InFlightIsFinite, FS_AddElement
  <2>4. RequestTrackLength < NumConsumers * Factor
    BY <1>5 DEF Admit, NoResources, SchedulerByWorkerNumber
  <2>5. Cardinality(Counted) <= RequestTrackLength /\ RequestTrackLength \in Nat
    BY CountedIsFinite, TrackedIsFinite DEF CountInv
  <2>6. NumConsumers * Factor <= Limit /\ NumConsumers * Factor \in Nat
    BY PlacesWithinLimit DEF VarsInv
  <2>7. Cardinality(Counted) + 1 <= Limit
    BY <2>4, <2>5, <2>6, Sizes
  <2>8. crowd' >= Cardinality(InFlight)
    BY <1>5, Sizes DEF Admit
  <2>9. Cardinality(Counted') = Cardinality(Counted) /\ crowd' \in Nat
    BY <1>0, <2>2, InFlightIsFinite, RequestsAssumption, FS_CardinalityType DEF VarsInv
  <2> QED
    BY <2>3, <2>7, <2>8, <2>9, Sizes DEF CrowdInv, Limit
<1>6. ASSUME NEW r \in Deferred \ Uploads, Track(r) PROVE CrowdInv'
  <2>1. rpc[r] = "admitted" /\ rpc' = [rpc EXCEPT ![r] = "tracked"] /\ UNCHANGED crowd
    BY <1>6 DEF Track
  <2>2. /\ Counted' = Counted \cup {r} /\ r \notin Counted
        /\ InFlight' = InFlight \ {r} /\ r \in InFlight
    BY <2>1, RequestsAssumption DEF VarsInv, Counted, InFlight
  <2>3. /\ Cardinality(Counted') = Cardinality(Counted) + 1
        /\ Cardinality(InFlight') = Cardinality(InFlight) - 1
    BY <2>2, CountedIsFinite, InFlightIsFinite, FS_AddElement, FS_RemoveElement
  <2> QED
    BY <2>1, <2>3, Sizes DEF CrowdInv, Limit
<1>7. ASSUME NEW r \in Deferred \ Uploads, FinishDeferred(r) \/ FinishUncounted(r)
      PROVE  CrowdInv'
  <2>1. /\ rpc[r] \in {"tracked", "admitted"} /\ rpc' = [rpc EXCEPT ![r] = "finished"]
        /\ UNCHANGED crowd
    BY <1>7 DEF FinishDeferred, FinishUncounted
  <2>2. /\ Counted' \subseteq Counted /\ InFlight' \subseteq InFlight
    BY <2>1, RequestsAssumption DEF VarsInv, Counted, InFlight
  <2>3. /\ Cardinality(Counted') <= Cardinality(Counted)
        /\ Cardinality(InFlight') <= Cardinality(InFlight)
        /\ Cardinality(Counted') \in Nat /\ Cardinality(InFlight') \in Nat
    BY <2>2, CountedIsFinite, InFlightIsFinite, FS_Subset, FS_CardinalityType
  <2> QED
    BY <2>1, <2>3, Sizes DEF CrowdInv, Limit
<1>8. ASSUME NEW r \in Deferred \ Uploads, Handle(r) \/ Serve(r) PROVE CrowdInv'
  BY <1>4, <1>5, <1>6, <1>7, <1>8 DEF Handle, Serve, AdmitUpload
<1> QED
  BY <1>2, <1>3, <1>8 DEF Next

(* Only requests that are between test and count at the same time get past  *)
(* the limit, and by no more than their number (ocr_http_handler.go:54-55). *)
THEOREM ThrottleHolds == Spec => []ThrottleBounded
<1>1. Init => CrowdInv
  <2> SUFFICES ASSUME Init PROVE CrowdInv
    OBVIOUS
  <2>1. Counted = {} /\ InFlight = {} /\ crowd = 0
    BY RequestsAssumption DEF Init, Counted, InFlight
  <2>2. Cardinality(Counted) = 0 /\ Cardinality(InFlight) = 0 /\ Limit \in Nat
    BY <2>1, FS_EmptySet, FactorAssumption DEF Limit
  <2> QED
    BY <2>1, <2>2 DEF CrowdInv
<1>2. Inv /\ DoorInv /\ CrowdInv /\ [Next]_vars => CrowdInv'
  BY CrowdInvStep DEF Inv
<1>3. Inv /\ CrowdInv => ThrottleBounded
  BY Sizes DEF Inv, CrowdInv, ThrottleBounded, Counted, Limit
<1> QED
  BY <1>1, <1>2, <1>3, Invariance, DoorInvariant, PTL DEF Spec
=============================================================================
