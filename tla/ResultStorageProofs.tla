------------------------ MODULE ResultStorageProofs ------------------------
(***************************************************************************)
(* Theorems of ResultStorage, for any calls, ids, status handlers, number  *)
(* of attempts and width of the counter.                                   *)
(***************************************************************************)
EXTENDS ResultStorage, FiniteSetTheorems, TLAPS

(* Only the goroutine of a call with reply_to posts, and it attempts while  *)
(* attempts are left.                                                       *)
TriesInv ==
    \A c \in Calls : /\ gpc[c] = "post" => tries[c] <= NumRetries
                     /\ gpc[c] \in {"none", "decay", "wait", "postError"} => tries[c] = 1
                     /\ dpc[c] # "returned" => gpc[c] = "none"
                     /\ gpc[c] \in {"wait", "post", "postError", "nap"} => c \in PostCalls

(* The table maps an id to a call of that id, and a status handler has the  *)
(* channel of a call of the id it was asked for.                            *)
IdsInv ==
    /\ \A i \in Ids : Tracked(i) =>
          IdOf[RequestsTrack[i]] = i /\ dpc[RequestsTrack[i]] = "returned"
    /\ \A p \in Pollers : polled[p] # Nothing =>
          /\ polled[p].call \in Calls
          /\ polled[p].id = IdOf[polled[p].call]

(* Who deletes has a reason: a status handler has claimed the result, and   *)
(* the goroutine of the call has ended.                                     *)
ReasonInv ==
    /\ \A p \in Pollers : deleting[p] # "no" =>
          polled[p] # Nothing /\ claimed[polled[p].call] # "nobody"
    /\ \A c \in Calls : deleting[c] # "no" =>
          gpc[c] = "done" /\ (c \in PostCalls \/ timer[c] = "drained")

(* A result that nobody claimed is in its channel.                          *)
ChanInv == \A c \in sent : claimed[c] = "nobody" => c \in chan

EntryInv ==
    \A c \in Calls : OwnId(c) /\ Pending(c) => RequestsTrack[IdOf[c]] = c

Inv == TypeOK /\ TriesInv /\ IdsInv /\ ReasonInv /\ ChanInv /\ EntryInv

-----------------------------------------------------------------------------
LEMMA ModRange ==
  ASSUME NEW n \in Nat
  PROVE  n % Modulus \in 0..(Modulus - 1)
BY ModulusAssumption

LEMMA TypeStep ==
  ASSUME TypeOK, TriesInv, [Next]_vars
  PROVE  TypeOK'
<1> USE CallsAssumption, IdsAssumption, RetriesAssumption, ModulusAssumption
<1> USE DEF TypeOK, TriesInv, Executors
<1>1. ASSUME NEW c \in Calls, Answer(c) \/ TimerFires(c) \/ WaitExpires(c) \/ NapEnds(c)
      PROVE  TypeOK'
  BY <1>1 DEF Answer, TimerFires, WaitExpires, NapEnds, FinishDeleting
<1>2. ASSUME NEW c \in Calls, Count(c) PROVE TypeOK'
  <2>1. RequestTrackLength' \in 0..(Modulus - 1)
    BY <1>2, ModRange DEF Count
  <2> QED
    BY <1>2, <2>1 DEF Count
<1>3. ASSUME NEW c \in Calls, Store(c) PROVE TypeOK'
  BY <1>3 DEF Store
<1>4. ASSUME NEW c \in Calls, Decay(c) PROVE TypeOK'
  <2>1. CASE DecayTimeout(c) /\ Tracked(IdOf[c])
    BY <2>1 DEF DecayTimeout, FinishDeleting
  <2>2. CASE DecayTimeout(c) /\ ~Tracked(IdOf[c])
    BY <2>2 DEF DecayTimeout
  <2>3. CASE DecayEnds(c)
    BY <2>3 DEF DecayEnds
  <2> QED
    BY <1>4, <2>1, <2>2, <2>3 DEF Decay
<1>5. ASSUME NEW c \in Calls, Post(c) PROVE TypeOK'
  <2>1. CASE PosterReceives(c)
    BY <2>1 DEF PosterReceives
  <2>2. CASE PostSucceeds(c)
    BY <2>2 DEF PostSucceeds, FinishDeleting
  <2>3. CASE PostFails(c)
    <3>1. tries' = [tries EXCEPT ![c] = tries[c] + 1] /\ tries'[c] \in 1..(NumRetries + 1)
      BY <2>3 DEF PostFails
    <3>2. tries' \in [Calls -> 1..(NumRetries + 1)]
      BY <3>1
    <3>3. gpc' \in [Calls -> {"none", "decay", "wait", "post", "postError", "nap", "done"}]
      BY <2>3 DEF PostFails, FinishDeleting
    <3>4. deleting' \in [Executors -> {"no", "load", "count", "remove"}]
      BY <2>3 DEF PostFails, FinishDeleting
    <3> QED
      BY <2>3, <3>2, <3>3, <3>4 DEF PostFails
  <2> QED
    BY <1>5, <2>1, <2>2, <2>3 DEF Post
<1>6. ASSUME NEW c \in Calls, PostError(c) PROVE TypeOK'
  <2>1. tries[c] = 1
    BY <1>6 DEF PostError, ErrorPostSucceeds, ErrorPostFails
  <2>2. CASE ErrorPostSucceeds(c)
    BY <2>2 DEF ErrorPostSucceeds, FinishDeleting
  <2>3. CASE ErrorPostFails(c)
    <3>1. tries' = [tries EXCEPT ![c] = 2] /\ tries' \in [Calls -> 1..(NumRetries + 1)]
      BY <2>1, <2>3 DEF ErrorPostFails
    <3> QED
      BY <2>3, <3>1 DEF ErrorPostFails
  <2> QED
    BY <1>6, <2>2, <2>3 DEF PostError
<1>7. ASSUME NEW e \in Executors, Delete(e) PROVE TypeOK'
  <2>1. CASE DeleteLoad(e)
    BY <2>1 DEF DeleteLoad
  <2>2. CASE DeleteCount(e)
    <3>1. RequestTrackLength' \in 0..(Modulus - 1)
      BY <2>2, ModRange DEF DeleteCount
    <3> QED
      BY <2>2, <3>1 DEF DeleteCount
  <2>3. CASE DeleteRemove(e)
    BY <2>3 DEF DeleteRemove
  <2> QED
    BY <1>7, <2>1, <2>2, <2>3 DEF Delete
<1>8. ASSUME NEW p \in Pollers, Poll(p) PROVE TypeOK'
  <2>1. CASE PollReceives(p)
    <3>1. p \in Executors /\ polled[p].call \in Calls
      BY <2>1 DEF PollReceives
    <3>2. claimed' \in [Calls -> Pollers \cup {"nobody", "poster"}]
      BY <2>1, <3>1 DEF PollReceives
    <3>3. deleting' \in [Executors -> {"no", "load", "count", "remove"}]
      BY <2>1, <3>1 DEF PollReceives
    <3>4. chan' \subseteq Calls
      BY <2>1 DEF PollReceives
    <3> QED
      BY <2>1, <3>2, <3>3, <3>4 DEF PollReceives
  <2>2. CASE PollReplies(p)
    <3>1. Nothing \in [id: Ids \cup {None}, call: Calls \cup {None}]
      BY DEF Nothing
    <3>2. polled' \in [Pollers -> [id: Ids \cup {None}, call: Calls \cup {None}]]
      BY <2>2, <3>1 DEF PollReplies
    <3> QED
      BY <2>2, <3>2 DEF PollReplies
  <2> QED
    BY <1>8, <2>1, <2>2 DEF Poll
<1>9. ASSUME NEW p \in Pollers, NEW i \in Ids, PollLoad(p, i) PROVE TypeOK'
  BY <1>9 DEF PollLoad
<1>10. CASE UNCHANGED vars
  BY <1>10 DEF vars
<1> QED
  BY <1>1, <1>2, <1>3, <1>4, <1>5, <1>6, <1>7, <1>8, <1>9, <1>10 DEF Next, Accept

LEMMA TriesStep ==
  ASSUME TypeOK, TriesInv, [Next]_vars
  PROVE  TriesInv'
<1> USE RetriesAssumption DEF TypeOK, TriesInv
<1>1. ASSUME NEW c \in Calls, Accept(c) \/ Answer(c) \/ TimerFires(c) \/ WaitExpires(c)
      PROVE  TriesInv'
  BY <1>1 DEF Accept, Count, Store, Answer, TimerFires, WaitExpires
<1>2. ASSUME NEW c \in Calls, Decay(c) \/ Post(c) \/ PostError(c) \/ NapEnds(c)
      PROVE  TriesInv'
  BY <1>2 DEF Decay, DecayTimeout, DecayEnds, Post, PosterReceives, PostSucceeds,
       PostFails, PostError, ErrorPostSucceeds, ErrorPostFails, NapEnds, FinishDeleting
<1>3. ASSUME UNCHANGED <<gpc, tries, dpc>> PROVE TriesInv'
  BY <1>3
<1> QED
  BY <1>1, <1>2, <1>3 DEF Next, Delete, DeleteLoad, DeleteCount, DeleteRemove, Poll,
       PollReceives, PollReplies, PollLoad, vars

LEMMA IdsStep ==
  ASSUME TypeOK, IdsInv, [Next]_vars
  PROVE  IdsInv'
<1> USE CallsAssumption, IdsAssumption DEF TypeOK, IdsInv, Tracked
<1>1. ASSUME NEW c \in Calls, Accept(c) PROVE IdsInv'
  BY <1>1 DEF Accept, Count, Store
<1>2. ASSUME NEW e \in Executors, Delete(e) PROVE IdsInv'
  <2>1. /\ UNCHANGED <<dpc, polled>>
        /\ \A i \in Ids : RequestsTrack'[i] \in {RequestsTrack[i], None}
    BY <1>2 DEF Delete, DeleteLoad, DeleteCount, DeleteRemove
  <2> QED
    BY <2>1
<1>3. ASSUME NEW p \in Pollers, NEW i \in Ids, PollLoad(p, i) PROVE IdsInv'
  BY <1>3 DEF PollLoad
<1>4. ASSUME NEW p \in Pollers, Poll(p) PROVE IdsInv'
  BY <1>4 DEF Poll, PollReceives, PollReplies
<1>5. ASSUME UNCHANGED <<RequestsTrack, dpc, polled>> PROVE IdsInv'
  BY <1>5
<1> QED
  BY <1>1, <1>2, <1>3, <1>4, <1>5 DEF Next, Answer, TimerFires, Decay, DecayTimeout,
       DecayEnds, Post, PosterReceives, PostSucceeds, PostFails, WaitExpires, PostError,
       ErrorPostSucceeds, ErrorPostFails, NapEnds, vars

LEMMA ReasonStep ==
  ASSUME TypeOK, TriesInv, IdsInv, ReasonInv, [Next]_vars
  PROVE  ReasonInv'
<1> USE CallsAssumption, IdsAssumption, PollersAssumption
<1> USE DEF TypeOK, IdsInv, ReasonInv, Executors
<1>1. ASSUME NEW c \in Calls, Accept(c) \/ Answer(c) \/ TimerFires(c) \/ WaitExpires(c)
      PROVE  ReasonInv'
  BY <1>1 DEF TriesInv, Accept, Count, Store, Answer, TimerFires, WaitExpires
<1>2. ASSUME NEW c \in Calls, Decay(c) PROVE ReasonInv'
  <2>1. /\ UNCHANGED <<claimed, polled>> /\ timer'[c] \in {timer[c], "drained"}
        /\ \A e \in Executors \ {c} : deleting'[e] = deleting[e]
        /\ \A d \in Calls \ {c} : gpc'[d] = gpc[d] /\ timer'[d] = timer[d]
        /\ deleting'[c] # deleting[c] => gpc'[c] = "done" /\ timer'[c] = "drained"
        /\ gpc[c] # "done"
    BY <1>2 DEF Decay, DecayTimeout, DecayEnds, FinishDeleting
  <2> QED
    BY <2>1
<1>3. ASSUME NEW c \in Calls, Post(c) \/ PostError(c) \/ NapEnds(c) PROVE ReasonInv'
  <2>1. /\ c \in PostCalls /\ gpc[c] # "done" /\ UNCHANGED <<timer, polled>>
        /\ \A e \in Executors \ {c} : deleting'[e] = deleting[e]
        /\ \A d \in Calls \ {c} : gpc'[d] = gpc[d]
        /\ deleting'[c] # deleting[c] => gpc'[c] = "done"
        /\ \A d \in Calls : claimed'[d] \in {claimed[d], "poster"}
    BY <1>3 DEF TriesInv, Post, PosterReceives, PostSucceeds, PostFails, PostError,
         ErrorPostSucceeds, ErrorPostFails, NapEnds, FinishDeleting
  <2> QED
    BY <2>1
<1>4. ASSUME NEW e \in Executors, Delete(e) PROVE ReasonInv'
  <2>1. /\ UNCHANGED <<gpc, timer, polled, claimed>>
        /\ \A d \in Executors : deleting'[d] # "no" => deleting[d] # "no"
    BY <1>4 DEF Delete, DeleteLoad, DeleteCount, DeleteRemove
  <2> QED
    BY <2>1
<1>5. ASSUME NEW p \in Pollers, PollReceives(p) PROVE ReasonInv'
  <2>1. p # "nobody" /\ p \notin Calls /\ polled[p].call \in Calls
    BY <1>5 DEF PollReceives
  <2>2. polled[p] # Nothing
    BY <2>1 DEF Nothing
  <2> QED
    BY <1>5, <2>1, <2>2 DEF PollReceives
<1>6. ASSUME NEW p \in Pollers, PollReplies(p) PROVE ReasonInv'
  BY <1>6 DEF PollReplies
<1>7. ASSUME NEW p \in Pollers, NEW i \in Ids, PollLoad(p, i) PROVE ReasonInv'
  BY <1>7 DEF PollLoad
<1>8. CASE UNCHANGED vars
  BY <1>8 DEF vars
<1> QED
  BY <1>1, <1>2, <1>3, <1>4, <1>5, <1>6, <1>7, <1>8 DEF Next, Poll

LEMMA ChanStep ==
  ASSUME TypeOK, IdsInv, ChanInv, [Next]_vars
  PROVE  ChanInv'
<1> USE PollersAssumption DEF TypeOK, ChanInv
<1>1. ASSUME NEW c \in Calls, Answer(c) PROVE ChanInv'
  BY <1>1 DEF Answer
<1>2. ASSUME NEW c \in Calls, PosterReceives(c) PROVE ChanInv'
  BY <1>2 DEF PosterReceives
<1>3. ASSUME NEW p \in Pollers, PollReceives(p) PROVE ChanInv'
  BY <1>3 DEF PollReceives
<1>4. ASSUME UNCHANGED <<sent, chan, claimed>> PROVE ChanInv'
  BY <1>4
<1> QED
  BY <1>1, <1>2, <1>3, <1>4 DEF Next, Accept, Count, Store, TimerFires, Decay,
       DecayTimeout, DecayEnds, Post, PostSucceeds, PostFails, WaitExpires, PostError,
       ErrorPostSucceeds, ErrorPostFails, NapEnds, Delete, DeleteLoad, DeleteCount,
       DeleteRemove, Poll, PollReplies, PollLoad, vars

LEMMA EntryStep ==
  ASSUME TypeOK, IdsInv, ReasonInv, EntryInv, [Next]_vars
  PROVE  EntryInv'
<1> SUFFICES ASSUME NEW c \in Calls, OwnId(c), Pending(c)'
             PROVE  RequestsTrack'[IdOf[c]] = c
  BY DEF EntryInv, OwnId
<1> USE CallsAssumption, IdsAssumption DEF TypeOK, Pending
<1>1. CASE Store(c)
  BY <1>1 DEF Store
<1>2. CASE ~Store(c)
  <2>1. Pending(c)
    <3> USE <1>2 DEF Next, Answer, TimerFires, Accept, Count, Store, Decay,
         DecayTimeout, DecayEnds, Post, PosterReceives, PostSucceeds, PostFails,
         WaitExpires, PostError, ErrorPostSucceeds, ErrorPostFails, NapEnds,
         FinishDeleting, Delete, DeleteLoad, DeleteCount, DeleteRemove, Poll,
         PollReceives, PollReplies, PollLoad, vars
    <3>1. dpc[c] = "returned"
      OBVIOUS
    <3>2. claimed[c] = "nobody"
      BY PollersAssumption
    <3>3. c \in PostCalls => gpc[c] = "wait"
      OBVIOUS
    <3>4. c \notin PostCalls => timer[c] = "running"
      OBVIOUS
    <3> QED
      BY <3>1, <3>2, <3>3, <3>4
  <2>2. RequestsTrack[IdOf[c]] = c
    BY <2>1 DEF EntryInv
  <2>3. ASSUME NEW d \in Calls, Store(d) PROVE RequestsTrack'[IdOf[c]] = c
    BY <1>2, <2>2, <2>3 DEF Store, OwnId
  <2>4. ASSUME NEW e \in Executors, DeleteRemove(e) PROVE RequestsTrack'[IdOf[c]] = c
    <3>1. CASE e \in Calls
      <4>1. e # c
        BY <2>1, <2>4, <3>1 DEF ReasonInv, DeleteRemove
      <4> QED
        BY <2>2, <2>4, <3>1, <4>1 DEF DeleteRemove, Target, OwnId
    <3>2. CASE e \in Pollers /\ e \notin Calls
      <4>1. /\ polled[e].call \in Calls
            /\ polled[e].id = IdOf[polled[e].call]
            /\ claimed[polled[e].call] # "nobody"
        BY <2>4, <3>2 DEF IdsInv, ReasonInv, DeleteRemove
      <4>2. polled[e].call # c
        BY <2>1, <4>1
      <4>3. Target(e) # IdOf[c]
        BY <3>2, <4>1, <4>2 DEF Target, OwnId
      <4> QED
        BY <2>2, <2>4, <4>3 DEF DeleteRemove
    <3> QED
      BY <3>1, <3>2 DEF Executors
  <2>5. CASE UNCHANGED RequestsTrack
    BY <2>2, <2>5
  <2> QED
    BY <2>3, <2>4, <2>5 DEF Next, Answer, TimerFires, Accept, Count, Decay,
       DecayTimeout, DecayEnds, Post, PosterReceives, PostSucceeds, PostFails,
       WaitExpires, PostError, ErrorPostSucceeds, ErrorPostFails, NapEnds, Delete,
       DeleteLoad, DeleteCount, Poll, PollReceives, PollReplies, PollLoad, vars
<1> QED
  BY <1>1, <1>2

LEMMA Invariance == Spec => []Inv
<1>1. Init => Inv
  <2> SUFFICES ASSUME Init PROVE Inv
    OBVIOUS
  <2> USE CallsAssumption, RetriesAssumption, ModulusAssumption DEF Init
  <2>1. TypeOK
    BY DEF TypeOK, Nothing
  <2>2. TriesInv /\ IdsInv /\ ReasonInv
    BY DEF TriesInv, IdsInv, ReasonInv, Tracked, Executors
  <2>3. ChanInv /\ EntryInv
    BY DEF ChanInv, EntryInv, Pending
  <2> QED
    BY <2>1, <2>2, <2>3 DEF Inv
<1>2. Inv /\ [Next]_vars => Inv'
  BY TypeStep, TriesStep, IdsStep, ReasonStep, ChanStep, EntryStep DEF Inv
<1> QED
  BY <1>1, <1>2, PTL DEF Spec

-----------------------------------------------------------------------------
(* Type correctness; the counter stays within its width and no call is      *)
(* posted more than NumRetries times (ocr_rpc_client.go:250-263).           *)
THEOREM TypeCorrect == Spec => []TypeOK
<1>1. Inv => TypeOK
  BY DEF Inv
<1> QED
  BY <1>1, Invariance, PTL

(* Until its time is up nobody removes a call that nobody claimed, and its  *)
(* result stays in its channel: /ocr-status never says "not found" of it    *)
(* (ocr_results_storage.go:14-43 against ocr_rpc_client.go:206-224).        *)
THEOREM ResultsStayClaimable == Spec => []StillClaimable
<1>1. Inv => StillClaimable
  BY DEF Inv, ChanInv, EntryInv, StillClaimable, Pending
<1> QED
  BY <1>1, Invariance, PTL

-----------------------------------------------------------------------------
(* Counting.  Arithmetic in the width of the counter first: a number is a   *)
(* multiple of Modulus and its residue, which is unique.                    *)
LEMMA Residue ==
  ASSUME NEW a \in Int
  PROVE  \E q \in Int : \E r \in 0..(Modulus - 1) : a = q * Modulus + r /\ a % Modulus = r
<1>1. /\ a = (a \div Modulus) * Modulus + (a % Modulus)
      /\ a % Modulus \in 0..(Modulus - 1) /\ a \div Modulus \in Int
  BY ModulusAssumption
<1> QED
  BY <1>1

LEMMA ResidueIsUnique ==
  ASSUME NEW a \in Int, NEW q \in Int, NEW r \in 0..(Modulus - 1), a = q * Modulus + r
  PROVE  a % Modulus = r
BY ModulusAssumption

(* What the counter loses when it wraps does not matter to what is added    *)
(* later.                                                                   *)
LEMMA CountsOn ==
  ASSUME NEW a \in Int, NEW d \in Int
  PROVE  ((a % Modulus) + d) % Modulus = (a + d) % Modulus
<1>1. PICK q \in Int, r \in 0..(Modulus - 1) : a = q * Modulus + r /\ a % Modulus = r
  BY Residue
<1>2. r + d \in Int
  BY ModulusAssumption
<1>3. PICK p \in Int, s \in 0..(Modulus - 1) :
          r + d = p * Modulus + s /\ (r + d) % Modulus = s
  BY <1>2, Residue
<1>4. q * Modulus \in Int /\ p * Modulus \in Int /\ q * Modulus + p * Modulus = (q + p) * Modulus
  BY ModulusAssumption
<1>5. a + d \in Int /\ q + p \in Int /\ a + d = (q + p) * Modulus + s
  BY <1>1, <1>3, <1>4, ModulusAssumption
<1>6. (a + d) % Modulus = s
  BY <1>5, ResidueIsUnique
<1> QED
  BY <1>1, <1>3, <1>6

LEMMA Wraps ==
  ASSUME NEW a \in Int
  PROVE  (a + Modulus) % Modulus = a % Modulus
<1>1. PICK q \in Int, r \in 0..(Modulus - 1) : a = q * Modulus + r /\ a % Modulus = r
  BY Residue
<1>2. (q + 1) * Modulus = q * Modulus + Modulus /\ q * Modulus \in Int
  BY ModulusAssumption
<1>3. a + Modulus \in Int /\ q + 1 \in Int /\ a + Modulus = (q + 1) * Modulus + r
  BY <1>1, <1>2, ModulusAssumption
<1> QED
  BY <1>1, <1>3, ResidueIsUnique

-----------------------------------------------------------------------------
(* A result is received once, and a status handler deletes what it itself   *)
(* received.                                                                *)
ClaimInv ==
    /\ chan \subseteq sent
    /\ \A c \in Calls : claimed[c] # "nobody" => c \in sent \ chan
    /\ \A p \in Pollers : deleting[p] # "no" => claimed[polled[p].call] = p
    /\ \A c \in Calls : dpc[c] # "returned" => timer[c] = "off"

(* Who has found its request in the table still finds it there.             *)
FoundInv ==
    Unraced => \A e \in Executors : deleting[e] \in {"count", "remove"} => Tracked(Target(e))

CountInv == Inv /\ ClaimInv /\ FoundInv /\ CountedUnlessRaced

LEMMA ClaimStep ==
  ASSUME TypeOK, TriesInv, IdsInv, ReasonInv, ClaimInv, [Next]_vars
  PROVE  ClaimInv'
<1> USE CallsAssumption, PollersAssumption DEF TypeOK, ClaimInv, Executors
<1>1. ASSUME NEW c \in Calls, Answer(c) \/ Count(c) \/ Store(c) \/ TimerFires(c)
      PROVE  ClaimInv'
  BY <1>1 DEF Answer, Count, Store, TimerFires
<1>2. ASSUME NEW c \in Calls, Decay(c) PROVE ClaimInv'
  BY <1>2 DEF TriesInv, Decay, DecayTimeout, DecayEnds, FinishDeleting
<1>3. ASSUME NEW c \in Calls, PosterReceives(c) PROVE ClaimInv'
  <2>1. \A p \in Pollers : deleting[p] # "no" => polled[p].call # c
    BY <1>3 DEF PosterReceives
  <2> QED
    BY <1>3, <2>1 DEF PosterReceives
<1>4. ASSUME NEW c \in Calls, \/ PostSucceeds(c) \/ PostFails(c) \/ WaitExpires(c)
                              \/ PostError(c) \/ NapEnds(c)
      PROVE  ClaimInv'
  <2>1. /\ UNCHANGED <<chan, sent, claimed, polled, dpc, timer>>
        /\ \A p \in Pollers : deleting'[p] = deleting[p]
    BY <1>4 DEF PostSucceeds, PostFails, WaitExpires, PostError, ErrorPostSucceeds,
         ErrorPostFails, NapEnds, FinishDeleting
  <2> QED
    BY <2>1
<1>5. ASSUME NEW e \in Executors, Delete(e) PROVE ClaimInv'
  <2>1. /\ UNCHANGED <<chan, sent, claimed, polled, dpc, timer>>
        /\ \A p \in Executors : deleting'[p] # "no" => deleting[p] # "no"
    BY <1>5 DEF Delete, DeleteLoad, DeleteCount, DeleteRemove
  <2> QED
    BY <2>1
<1>6. ASSUME NEW p \in Pollers, PollReceives(p) PROVE ClaimInv'
  <2>1. polled[p].call \in chan /\ claimed[polled[p].call] = "nobody"
    BY <1>6 DEF PollReceives
  <2>2. \A q \in Pollers : deleting[q] # "no" => polled[q].call # polled[p].call
    BY <2>1
  <2>3. /\ chan' \subseteq sent'
        /\ \A c \in Calls : claimed'[c] # "nobody" => c \in sent' \ chan'
    BY <1>6 DEF PollReceives
  <2>4. \A q \in Pollers : deleting'[q] # "no" => claimed'[polled'[q].call] = q
    <3> SUFFICES ASSUME NEW q \in Pollers, deleting'[q] # "no"
                 PROVE  claimed'[polled'[q].call] = q
      OBVIOUS
    <3>1. CASE q = p
      BY <1>6, <2>1, <3>1 DEF PollReceives
    <3>2. CASE q # p
      BY <1>6, <2>2, <3>2 DEF PollReceives
    <3> QED
      BY <3>1, <3>2
  <2> QED
    BY <1>6, <2>3, <2>4 DEF PollReceives
<1>7. ASSUME NEW p \in Pollers, PollReplies(p) PROVE ClaimInv'
  BY <1>7 DEF PollReplies
<1>8. ASSUME NEW p \in Pollers, NEW i \in Ids, PollLoad(p, i) PROVE ClaimInv'
  BY <1>8 DEF PollLoad, ReasonInv
<1>9. CASE UNCHANGED vars
  BY <1>9 DEF vars
<1> QED
  BY <1>1, <1>2, <1>3, <1>4, <1>5, <1>6, <1>7, <1>8, <1>9 DEF Next, Accept, Post, Poll

(* A double deletion is for good, so what was not raced never was.          *)
LEMMA NeverRaced ==
  ASSUME TypeOK, TriesInv, ClaimInv, [Next]_vars, Unraced'
  PROVE  Unraced
<1> SUFFICES ASSUME NEW c \in Calls, DeletedTwice(c) PROVE DeletedTwice(c)'
  BY DEF Unraced, OwnId
<1> USE CallsAssumption, PollersAssumption
<1> USE DEF TypeOK, TriesInv, ClaimInv, DeletedTwice, Next, Answer, TimerFires, Accept,
     Count, Store, Decay, DecayTimeout, DecayEnds, Post, PosterReceives, PostSucceeds,
     PostFails, WaitExpires, PostError, ErrorPostSucceeds, ErrorPostFails, NapEnds,
     FinishDeleting, Delete, DeleteLoad, DeleteCount, DeleteRemove, Poll, PollReceives,
     PollReplies, PollLoad, vars
<1>1. claimed'[c] \in Pollers
  OBVIOUS
<1>2. c \in PostCalls => gpc'[c] = "done"
  OBVIOUS
<1>3. c \notin PostCalls => timer'[c] = "drained"
  OBVIOUS
<1> QED
  BY <1>1, <1>2, <1>3

(* No two delete the same request.                                          *)
LEMMA OneDeleter ==
  ASSUME TypeOK, IdsInv, ReasonInv, ClaimInv, Unraced,
         NEW e \in Executors, NEW f \in Executors,
         deleting[e] # "no", deleting[f] # "no", Target(e) = Target(f)
  PROVE  e = f
<1> USE PollersAssumption DEF Executors
<1>1. \A c \in Calls : deleting[c] # "no" => claimed[c] \notin Pollers
  BY DEF ReasonInv, Unraced, DeletedTwice
<1>2. \A p \in Pollers : deleting[p] # "no" =>
          /\ polled[p].call \in Calls /\ Target(p) = IdOf[polled[p].call]
          /\ claimed[polled[p].call] = p
  BY DEF ReasonInv, IdsInv, ClaimInv, Target
<1>3. \A c \in Calls : Target(c) = IdOf[c]
  BY DEF Target
<1>4. \A c, d \in Calls : IdOf[c] = IdOf[d] => c = d
  BY DEF Unraced, OwnId
<1> QED
  BY <1>1, <1>2, <1>3, <1>4

LEMMA FoundStep ==
  ASSUME TypeOK, TriesInv, IdsInv, ReasonInv, ClaimInv, FoundInv, [Next]_vars
  PROVE  FoundInv'
<1> USE CallsAssumption, IdsAssumption, PollersAssumption DEF TypeOK, Executors
<1> SUFFICES ASSUME Unraced', NEW e \in Executors, deleting'[e] \in {"count", "remove"}
             PROVE  Tracked(Target(e))'
  BY DEF FoundInv
<1>1. Unraced
  BY NeverRaced
<1>2. deleting[e] # "no" /\ Target(e) \in Ids /\ Target(e)' = Target(e)
  <2>1. deleting[e] # "no" /\ (e \in Pollers => polled'[e] = polled[e])
    BY DEF ReasonInv, Next, Answer, TimerFires, Accept, Count, Store, Decay,
     DecayTimeout, DecayEnds, Post, PosterReceives, PostSucceeds,
     PostFails, WaitExpires, PostError, ErrorPostSucceeds, ErrorPostFails, NapEnds,
     FinishDeleting, Delete, DeleteLoad, DeleteCount, DeleteRemove, Poll, PollReceives,
     PollReplies, PollLoad, vars
  <2> QED
    BY <2>1 DEF Target, ReasonInv, IdsInv
<1>3. Tracked(Target(e))
  <2>1. deleting[e] \in {"count", "remove"} \/ DeleteLoad(e)
    BY DEF Next, Answer, TimerFires, Accept, Count, Store, Decay,
     DecayTimeout, DecayEnds, Post, PosterReceives, PostSucceeds,
     PostFails, WaitExpires, PostError, ErrorPostSucceeds, ErrorPostFails, NapEnds,
     FinishDeleting, Delete, DeleteLoad, DeleteCount, DeleteRemove, Poll, PollReceives,
     PollReplies, PollLoad, vars
  <2>2. CASE DeleteLoad(e)
    BY <2>2 DEF DeleteLoad
  <2> QED
    BY <1>1, <2>1, <2>2 DEF FoundInv
<1>4. ASSUME NEW c \in Calls, Store(c) PROVE RequestsTrack'[Target(e)] # None
  BY <1>2, <1>3, <1>4 DEF Store, Tracked
<1>5. ASSUME NEW f \in Executors, DeleteRemove(f) PROVE RequestsTrack'[Target(e)] # None
  <2>1. f # e
    BY <1>5 DEF DeleteRemove
  <2>2. Target(f) # Target(e)
    BY <1>1, <1>2, <1>5, <2>1, OneDeleter DEF DeleteRemove
  <2> QED
    BY <1>2, <1>3, <1>5, <2>2 DEF DeleteRemove, Tracked
<1>6. ASSUME UNCHANGED RequestsTrack PROVE RequestsTrack'[Target(e)] # None
  BY <1>3, <1>6 DEF Tracked
<1>7. RequestsTrack'[Target(e)] # None
  BY <1>4, <1>5, <1>6 DEF Next, Answer, TimerFires, Accept, Count, Decay, DecayTimeout,
     DecayEnds, Post, PosterReceives, PostSucceeds, PostFails, WaitExpires, PostError,
     ErrorPostSucceeds, ErrorPostFails, NapEnds, Delete, DeleteLoad, DeleteCount, Poll,
     PollReceives, PollReplies, PollLoad, vars
<1> QED
  BY <1>2, <1>7 DEF Tracked

-----------------------------------------------------------------------------
TrackedIds == {i \in Ids : Tracked(i)}
Counted == {c \in Calls : dpc[c] = "counted"}
Removers == {e \in Executors : deleting[e] = "remove"}

(* The number LengthIs is about.                                            *)
Total == Entries + Adding + Modulus - Removing

LEMMA SizesAreIntegers ==
  /\ IsFiniteSet(TrackedIds) /\ IsFiniteSet(Counted) /\ IsFiniteSet(Removers)
  /\ Entries = Cardinality(TrackedIds) /\ Adding = Cardinality(Counted)
  /\ Removing = Cardinality(Removers)
  /\ Entries \in Int /\ Adding \in Int /\ Removing \in Int /\ Total \in Int
<1>1. IsFiniteSet(Executors)
  BY FinitenessAssumption, FS_Union DEF Executors
<1>2. /\ TrackedIds \subseteq Ids /\ Counted \subseteq Calls /\ Removers \subseteq Executors
  BY DEF TrackedIds, Counted, Removers
<1>3. IsFiniteSet(TrackedIds) /\ IsFiniteSet(Counted) /\ IsFiniteSet(Removers)
  BY <1>1, <1>2, FinitenessAssumption, FS_Subset
<1>4. /\ Entries = Cardinality(TrackedIds) /\ Adding = Cardinality(Counted)
      /\ Removing = Cardinality(Removers)
  BY DEF Entries, Adding, Removing, TrackedIds, Counted, Removers
<1>5. /\ Cardinality(TrackedIds) \in Nat /\ Cardinality(Counted) \in Nat
      /\ Cardinality(Removers) \in Nat
  BY <1>3, FS_CardinalityType
<1> QED
  BY <1>3, <1>4, <1>5, ModulusAssumption DEF Total

LEMMA SizesAfter ==
  /\ Entries' = Cardinality(TrackedIds') /\ Adding' = Cardinality(Counted')
  /\ Removing' = Cardinality(Removers')
BY DEF Entries, Adding, Removing, TrackedIds, Counted, Removers

LEMMA Joins ==
  ASSUME NEW S, IsFiniteSet(S), NEW x, x \notin S
  PROVE  Cardinality(S \cup {x}) = Cardinality(S) + 1
BY FS_AddElement

LEMMA Leaves ==
  ASSUME NEW S, IsFiniteSet(S), NEW x \in S
  PROVE  Cardinality(S \ {x}) = Cardinality(S) - 1
BY FS_RemoveElement

(* The goroutines of the calls do not touch the counter, the map or a       *)
(* deletion that is under way.                                              *)
LEMMA GoroutineFrame ==
  ASSUME TypeOK, ReasonInv, NEW c \in Calls,
         Decay(c) \/ Post(c) \/ WaitExpires(c) \/ PostError(c) \/ NapEnds(c)
  PROVE  UNCHANGED <<RequestsTrack, RequestTrackLength, dpc, Removers>>
<1> USE DEF TypeOK, Executors
<1>1. /\ UNCHANGED <<RequestsTrack, RequestTrackLength, dpc>>
      /\ \A e \in Executors \ {c} : deleting'[e] = deleting[e]
      /\ deleting'[c] # deleting[c] => deleting'[c] = "load" /\ gpc[c] # "done"
  BY DEF Decay, DecayTimeout, DecayEnds, Post, PosterReceives, PostSucceeds,
       PostFails, WaitExpires, PostError, ErrorPostSucceeds, ErrorPostFails, NapEnds,
       FinishDeleting
<1>2. \A e \in Executors : deleting'[e] = "remove" <=> deleting[e] = "remove"
  BY <1>1 DEF ReasonInv
<1> QED
  BY <1>1, <1>2 DEF Removers

LEMMA CountStep ==
  ASSUME CountInv, [Next]_vars, Unraced'
  PROVE  LengthIs(Total)'
<1> USE CallsAssumption, IdsAssumption, PollersAssumption
<1>1. Unraced /\ LengthIs(Total)
  BY NeverRaced DEF CountInv, Inv, CountedUnlessRaced, Total
<1>2. TypeOK /\ IdsInv /\ ReasonInv /\ FoundInv
  BY DEF CountInv, Inv
<1> USE <1>2 DEF TypeOK, Executors
<1>3. ASSUME NEW c \in Calls, Count(c) PROVE LengthIs(Total)'
  <2>1. /\ TrackedIds' = TrackedIds /\ Removers' = Removers
        /\ Counted' = Counted \cup {c} /\ c \notin Counted
    BY <1>3 DEF Count, TrackedIds, Tracked, Removers, Counted
  <2>2. Adding' = Adding + 1 /\ Entries' = Entries /\ Removing' = Removing
    BY <2>1, SizesAreIntegers, SizesAfter, Joins
  <2>3. Total' = Total + 1
    BY <2>2, SizesAreIntegers, ModulusAssumption DEF Total
  <2>4. RequestTrackLength' = ((Total % Modulus) + 1) % Modulus
    BY <1>1, <1>3 DEF Count, LengthIs
  <2>5. RequestTrackLength' = (Total + 1) % Modulus
    BY <2>4, SizesAreIntegers, CountsOn
  <2> QED
    BY <2>3, <2>5 DEF LengthIs
<1>4. ASSUME NEW c \in Calls, Store(c) PROVE LengthIs(Total)'
  <2>1. ~Tracked(IdOf[c]) /\ IdOf[c] \in Ids
    BY <1>1, <1>4 DEF Store, IdsInv, Unraced, OwnId, Tracked
  <2>2. /\ TrackedIds' = TrackedIds \cup {IdOf[c]} /\ IdOf[c] \notin TrackedIds
        /\ Removers' = Removers
        /\ Counted' = Counted \ {c} /\ c \in Counted
    BY <1>4, <2>1 DEF Store, TrackedIds, Tracked, Removers, Counted
  <2>3. Adding' = Adding - 1 /\ Entries' = Entries + 1 /\ Removing' = Removing
    BY <2>2, SizesAreIntegers, SizesAfter, Joins, Leaves
  <2>4. Total' = Total /\ RequestTrackLength' = RequestTrackLength
    BY <1>4, <2>3, SizesAreIntegers, ModulusAssumption DEF Total, Store
  <2> QED
    BY <1>1, <2>4 DEF LengthIs
<1>5. ASSUME NEW e \in Executors, DeleteCount(e) PROVE LengthIs(Total)'
  <2>1. /\ TrackedIds' = TrackedIds /\ Counted' = Counted
        /\ Removers' = Removers \cup {e} /\ e \notin Removers
    BY <1>5 DEF DeleteCount, TrackedIds, Tracked, Removers, Counted
  <2>2. Adding' = Adding /\ Entries' = Entries /\ Removing' = Removing + 1
    BY <2>1, SizesAreIntegers, SizesAfter, Joins
  <2>3. Total' = Total - 1 /\ Total' \in Int
    <3> HIDE <1>2 DEF TypeOK, Executors
    <3>1. Total' = Entries + Adding + Modulus - (Removing + 1)
      BY <2>2 DEF Total
    <3>2. /\ Entries \in Int /\ Adding \in Int /\ Removing \in Int /\ Modulus \in Int
          /\ Total = Entries + Adding + Modulus - Removing
      BY SizesAreIntegers, ModulusAssumption DEF Total
    <3> QED
      BY <3>1, <3>2
  <2>4. RequestTrackLength' = ((Total % Modulus) + (Modulus - 1)) % Modulus
    <3>1. RequestTrackLength' = (RequestTrackLength + Modulus - 1) % Modulus
      BY <1>5 DEF DeleteCount
    <3>2. RequestTrackLength = Total % Modulus
      BY <1>1 DEF LengthIs
    <3>3. RequestTrackLength + Modulus - 1 = RequestTrackLength + (Modulus - 1)
      BY ModulusAssumption
    <3> QED
      BY <3>1, <3>2, <3>3
  <2>5. RequestTrackLength' = (Total + (Modulus - 1)) % Modulus
    <3> HIDE <1>2 DEF TypeOK, Executors
    <3>1. Total \in Int /\ Modulus - 1 \in Int
      BY SizesAreIntegers, ModulusAssumption
    <3>2. ((Total % Modulus) + (Modulus - 1)) % Modulus = (Total + (Modulus - 1)) % Modulus
      BY <3>1, CountsOn
    <3> QED
      BY <2>4, <3>2
  <2>6. Total + (Modulus - 1) = Total' + Modulus
    BY <2>3, SizesAreIntegers, ModulusAssumption
  <2> QED
    BY <2>3, <2>5, <2>6, Wraps DEF LengthIs
<1>6. ASSUME NEW e \in Executors, DeleteRemove(e) PROVE LengthIs(Total)'
  <2>1. Tracked(Target(e)) /\ Target(e) \in Ids
    BY <1>1, <1>6 DEF DeleteRemove, FoundInv, IdsInv, ReasonInv, Target
  <2>2. /\ TrackedIds' = TrackedIds \ {Target(e)} /\ Target(e) \in TrackedIds
        /\ Removers' = Removers \ {e} /\ e \in Removers
        /\ Counted' = Counted
    BY <1>6, <2>1 DEF DeleteRemove, TrackedIds, Tracked, Removers, Counted
  <2>3. Adding' = Adding /\ Entries' = Entries - 1 /\ Removing' = Removing - 1
    BY <2>2, SizesAreIntegers, SizesAfter, Leaves
  <2>4. Total' = Total /\ RequestTrackLength' = RequestTrackLength
    BY <1>6, <2>3, SizesAreIntegers, ModulusAssumption DEF Total, DeleteRemove
  <2> QED
    BY <1>1, <2>4 DEF LengthIs
<1>7. ASSUME UNCHANGED <<RequestsTrack, RequestTrackLength, Counted, Removers>>
      PROVE  LengthIs(Total)'
  <2>1. TrackedIds' = TrackedIds
    BY <1>7 DEF TrackedIds, Tracked
  <2>2. Total' = Total
    BY <1>7, <2>1, SizesAreIntegers, SizesAfter DEF Total
  <2> QED
    BY <1>1, <1>7, <2>2 DEF LengthIs
<1>8. ASSUME NEW e \in Executors, DeleteLoad(e) PROVE LengthIs(Total)'
  <2>1. UNCHANGED <<RequestsTrack, RequestTrackLength, Counted, Removers>>
    BY <1>8 DEF DeleteLoad, Counted, Removers
  <2> QED
    BY <1>7, <2>1
<1>9. ASSUME NEW c \in Calls,
             Decay(c) \/ Post(c) \/ WaitExpires(c) \/ PostError(c) \/ NapEnds(c)
      PROVE  LengthIs(Total)'
  BY <1>7, <1>9, GoroutineFrame DEF Counted
<1>10. ASSUME NEW p \in Pollers, Poll(p) PROVE LengthIs(Total)'
  <2>1. UNCHANGED <<RequestsTrack, RequestTrackLength, Counted, Removers>>
    BY <1>10 DEF Poll, PollReceives, PollReplies, Counted, Removers
  <2> QED
    BY <1>7, <2>1
<1>11. ASSUME UNCHANGED <<RequestsTrack, RequestTrackLength, dpc, deleting>>
       PROVE  LengthIs(Total)'
  BY <1>7, <1>11 DEF Counted, Removers
<1> QED
  BY <1>3, <1>4, <1>5, <1>6, <1>8, <1>9, <1>10, <1>11 DEF Next, Answer, TimerFires,
     Accept, Delete, PollLoad, vars

LEMMA CountInvariance == Spec => []CountInv
<1>1. Init => ClaimInv /\ FoundInv
  BY DEF Init, ClaimInv, FoundInv, Executors
<1>2. Init => CountedUnlessRaced
  <2> SUFFICES ASSUME Init PROVE LengthIs(Total)
    BY DEF CountedUnlessRaced, Total
  <2>1. TrackedIds = {} /\ Counted = {} /\ Removers = {}
    BY DEF Init, TrackedIds, Tracked, Counted, Removers
  <2>2. Entries = 0 /\ Adding = 0 /\ Removing = 0
    BY <2>1, SizesAreIntegers, FS_EmptySet
  <2>3. Total = 0 + Modulus
    BY <2>2, ModulusAssumption DEF Total
  <2>4. Total % Modulus = 0
    BY <2>3, Wraps, ModulusAssumption
  <2> QED
    BY <2>4 DEF Init, LengthIs
<1>3. CountInv /\ Inv' /\ [Next]_vars => CountInv'
  <2> SUFFICES ASSUME CountInv, Inv', [Next]_vars PROVE CountInv'
    OBVIOUS
  <2>1. ClaimInv' /\ FoundInv'
    BY ClaimStep, FoundStep DEF CountInv, Inv
  <2>2. CountedUnlessRaced'
    BY CountStep DEF CountedUnlessRaced, Total
  <2> QED
    BY <2>1, <2>2 DEF CountInv
<1>4. Inv /\ ClaimInv /\ FoundInv /\ CountedUnlessRaced => CountInv
  BY DEF CountInv
<1> QED
  BY <1>1, <1>2, <1>3, <1>4, Invariance, PTL DEF Spec

(* Unless a result is claimed in the moment the goroutine of its call gives *)
(* it up, RequestTrackLength is the number of entries, give or take what is *)
(* under way, for any number of calls and any width of the counter          *)
(* (ocr_results_storage.go:37-49).                                          *)
THEOREM CountIsExact == Spec => []CountedUnlessRaced
<1>1. CountInv => CountedUnlessRaced
  BY DEF CountInv
<1> QED
  BY <1>1, CountInvariance, PTL

-----------------------------------------------------------------------------
(* Owners.  A call leaves the table before its goroutine and the deletion   *)
(* that follows are over, whether or not it shares its id.                  *)
LEMMA OwnersStep ==
  ASSUME TypeOK, TriesInv, IdsInv, EntriesOwned, [Next]_vars
  PROVE  EntriesOwned'
<1> USE CallsAssumption, IdsAssumption, PollersAssumption
<1> USE DEF TypeOK, EntriesOwned, Tracked, Executors
<1>1. ASSUME NEW c \in Calls, Store(c) PROVE EntriesOwned'
  BY <1>1 DEF Store
<1>2. ASSUME NEW c \in Calls, Decay(c) PROVE EntriesOwned'
  <2>1. CASE Tracked(IdOf[c])
    BY <1>2, <2>1 DEF Decay, DecayTimeout, DecayEnds, FinishDeleting
  <2>2. CASE ~Tracked(IdOf[c])
    <3>1. \A i \in Ids : RequestsTrack[i] # c
      BY <2>2 DEF IdsInv
    <3>2. /\ UNCHANGED <<RequestsTrack, deleting>>
          /\ \A d \in Calls \ {c} : gpc'[d] = gpc[d]
      BY <1>2, <2>2 DEF Decay, DecayTimeout, DecayEnds
    <3> QED
      BY <3>1, <3>2
  <2> QED
    BY <2>1, <2>2
<1>3. ASSUME NEW c \in Calls, Post(c) \/ WaitExpires(c) \/ PostError(c) \/ NapEnds(c)
      PROVE  EntriesOwned'
  <2>1. /\ UNCHANGED RequestsTrack
        /\ \A d \in Calls \ {c} : gpc'[d] = gpc[d] /\ deleting'[d] = deleting[d]
        /\ gpc'[c] # "none" /\ (gpc'[c] = "done" => deleting'[c] # "no")
    BY <1>3 DEF Post, PosterReceives, PostSucceeds, PostFails, WaitExpires, PostError,
         ErrorPostSucceeds, ErrorPostFails, NapEnds, FinishDeleting
  <2> QED
    BY <2>1
<1>4. ASSUME NEW e \in Executors, DeleteLoad(e) PROVE EntriesOwned'
  <2>1. \A i \in Ids : Tracked(i) /\ RequestsTrack[i] = e => i = Target(e)
    BY DEF IdsInv, Target
  <2> QED
    BY <1>4, <2>1 DEF DeleteLoad
<1>5. ASSUME NEW e \in Executors, DeleteCount(e) PROVE EntriesOwned'
  BY <1>5 DEF DeleteCount
<1>6. ASSUME NEW e \in Executors, DeleteRemove(e) PROVE EntriesOwned'
  <2>1. \A i \in Ids : Tracked(i)' => RequestsTrack'[i] = RequestsTrack[i] /\ i # Target(e)
    BY <1>6 DEF DeleteRemove
  <2>2. \A i \in Ids : Tracked(i) /\ RequestsTrack[i] = e => i = Target(e)
    BY DEF IdsInv, Target
  <2> QED
    BY <1>6, <2>1, <2>2 DEF DeleteRemove
<1>7. ASSUME NEW p \in Pollers, Poll(p) PROVE EntriesOwned'
  <2>1. /\ UNCHANGED <<RequestsTrack, gpc>>
        /\ \A d \in Calls : deleting'[d] = deleting[d]
    BY <1>7 DEF Poll, PollReceives, PollReplies
  <2> QED
    BY <2>1
<1>8. ASSUME UNCHANGED <<RequestsTrack, gpc, deleting>> PROVE EntriesOwned'
  BY <1>8
<1> QED
  BY <1>1, <1>2, <1>3, <1>4, <1>5, <1>6, <1>7, <1>8 DEF Next, Answer, Accept, Count,
     TimerFires, Delete, PollLoad, vars

(* Every entry of the table has somebody who will take it off, for shared   *)
(* ids, too (ocr_rpc_client.go:204-224 and 233-240).                        *)
THEOREM EntriesHaveOwners == Spec => []EntriesOwned
<1>1. Init => EntriesOwned
  BY DEF Init, EntriesOwned, Tracked
<1>2. Inv /\ EntriesOwned /\ [Next]_vars => EntriesOwned'
  BY OwnersStep DEF Inv
<1> QED
  BY <1>1, <1>2, Invariance, PTL DEF Spec

-----------------------------------------------------------------------------
(* Drift.  The widths come in by CountsOn and Wraps.                         *)
LEMMA DriftStays ==
  ASSUME TypeOK, TrackedIds' = TrackedIds, Counted' = Counted, Removers' = Removers,
         UNCHANGED RequestTrackLength
  PROVE  Drift' = Drift
BY SizesAreIntegers, SizesAfter DEF Drift

LEMMA DriftStep ==
  ASSUME TypeOK, IdsInv, ReasonInv, [Next]_vars,
         \A c \in Calls : ~Displaces(c), \A e \in Executors : ~DeletesAgain(e)
  PROVE  Drift' = Drift
<1> USE CallsAssumption, IdsAssumption, PollersAssumption
<1>0. /\ RequestTrackLength \in Int /\ Modulus \in Int
      /\ Entries \in Int /\ Adding \in Int /\ Removing \in Int
  BY SizesAreIntegers, ModulusAssumption DEF TypeOK
<1>1. ASSUME NEW c \in Calls, Count(c) PROVE Drift' = Drift
  <2>1. /\ TrackedIds' = TrackedIds /\ Removers' = Removers
        /\ Counted' = Counted \cup {c} /\ c \notin Counted
    BY <1>1 DEF TypeOK, Count, TrackedIds, Tracked, Removers, Counted
  <2>2. Adding' = Adding + 1 /\ Entries' = Entries /\ Removing' = Removing
    BY <2>1, SizesAreIntegers, SizesAfter, Joins
  <2> DEFINE d == Removing - Entries - (Adding + 1)
  <2>3. Drift' = (((RequestTrackLength + 1) % Modulus) + d) % Modulus
    <3>1. RequestTrackLength' = (RequestTrackLength + 1) % Modulus
      BY <1>1 DEF Count
    <3>2. RequestTrackLength' \in Int
      BY <3>1, <1>0, ModulusAssumption
    <3>3. RequestTrackLength' + Removing' - Entries' - Adding' = RequestTrackLength' + d
      BY <1>0, <2>2, <3>2
    <3> QED
      BY <3>1, <3>3 DEF Drift
  <2>4. Drift' = ((RequestTrackLength + 1) + d) % Modulus
    <3>1. RequestTrackLength + 1 \in Int /\ d \in Int
      BY <1>0
    <3> HIDE DEF d
    <3> QED
      BY <2>3, <3>1, CountsOn
  <2>5. (RequestTrackLength + 1) + d = RequestTrackLength + Removing - Entries - Adding
    BY <1>0
  <2> QED
    BY <2>4, <2>5 DEF Drift
<1>2. ASSUME NEW c \in Calls, Store(c) PROVE Drift' = Drift
  <2>1. ~Tracked(IdOf[c]) /\ IdOf[c] \in Ids
    BY <1>2 DEF Displaces
  <2>2. /\ TrackedIds' = TrackedIds \cup {IdOf[c]} /\ IdOf[c] \notin TrackedIds
        /\ Removers' = Removers
        /\ Counted' = Counted \ {c} /\ c \in Counted
    BY <1>2, <2>1 DEF TypeOK, Store, TrackedIds, Tracked, Removers, Counted
  <2>3. Adding' = Adding - 1 /\ Entries' = Entries + 1 /\ Removing' = Removing
    BY <2>2, SizesAreIntegers, SizesAfter, Joins, Leaves
  <2>4. RequestTrackLength' = RequestTrackLength
    BY <1>2 DEF Store
  <2> QED
    BY <1>0, <2>3, <2>4 DEF Drift
<1>3. ASSUME NEW e \in Executors, DeleteCount(e) PROVE Drift' = Drift
  <2>1. /\ TrackedIds' = TrackedIds /\ Counted' = Counted
        /\ Removers' = Removers \cup {e} /\ e \notin Removers
    BY <1>3 DEF TypeOK, DeleteCount, TrackedIds, Tracked, Removers, Counted
  <2>2. Adding' = Adding /\ Entries' = Entries /\ Removing' = Removing + 1
    BY <2>1, SizesAreIntegers, SizesAfter, Joins
  <2> DEFINE d == Removing + 1 - Entries - Adding
  <2>3. Drift' = (((RequestTrackLength + Modulus - 1) % Modulus) + d) % Modulus
    <3>1. RequestTrackLength' = (RequestTrackLength + Modulus - 1) % Modulus
      BY <1>3 DEF DeleteCount
    <3>2. RequestTrackLength' \in Int
      BY <3>1, <1>0, ModulusAssumption
    <3>3. RequestTrackLength' + Removing' - Entries' - Adding' = RequestTrackLength' + d
      BY <1>0, <2>2, <3>2
    <3> QED
      BY <3>1, <3>3 DEF Drift
  <2>4. Drift' = ((RequestTrackLength + Modulus - 1) + d) % Modulus
    <3>1. RequestTrackLength + Modulus - 1 \in Int /\ d \in Int
      BY <1>0
    <3> HIDE DEF d
    <3> QED
      BY <2>3, <3>1, CountsOn
  <2>5. (RequestTrackLength + Modulus - 1) + d = (RequestTrackLength + Removing - Entries - Adding) + Modulus
    BY <1>0
  <2>6. RequestTrackLength + Removing - Entries - Adding \in Int
    BY <1>0
  <2>7. Drift' = ((RequestTrackLength + Removing - Entries - Adding) + Modulus) % Modulus
    BY <2>4, <2>5
  <2> QED
    BY <2>6, <2>7, Wraps DEF Drift
<1>4. ASSUME NEW e \in Executors, DeleteRemove(e) PROVE Drift' = Drift
  <2>1. Tracked(Target(e)) /\ Target(e) \in Ids
    <3>1. deleting[e] = "remove" /\ Tracked(Target(e))
      BY <1>4 DEF DeletesAgain, DeleteRemove
    <3> QED
      BY <3>1 DEF Executors, IdsInv, ReasonInv, Target
  <2>2. /\ TrackedIds' = TrackedIds \ {Target(e)} /\ Target(e) \in TrackedIds
        /\ Removers' = Removers \ {e} /\ e \in Removers
        /\ Counted' = Counted
    BY <1>4, <2>1 DEF TypeOK, DeleteRemove, TrackedIds, Tracked, Removers, Counted
  <2>3. Adding' = Adding /\ Entries' = Entries - 1 /\ Removing' = Removing - 1
    BY <2>2, SizesAreIntegers, SizesAfter, Leaves
  <2>4. RequestTrackLength' = RequestTrackLength
    BY <1>4 DEF DeleteRemove
  <2> QED
    BY <1>0, <2>3, <2>4 DEF Drift
<1>5. ASSUME NEW e \in Executors, DeleteLoad(e) PROVE Drift' = Drift
  BY <1>5, DriftStays DEF TypeOK, DeleteLoad, TrackedIds, Tracked, Counted, Removers
<1>6. ASSUME NEW c \in Calls,
             Decay(c) \/ Post(c) \/ WaitExpires(c) \/ PostError(c) \/ NapEnds(c)
      PROVE  Drift' = Drift
  <2>1. UNCHANGED <<RequestsTrack, RequestTrackLength, dpc, Removers>>
    BY <1>6, GoroutineFrame
  <2> QED
    BY <2>1, DriftStays DEF TrackedIds, Tracked, Counted
<1>7. ASSUME NEW p \in Pollers, Poll(p) PROVE Drift' = Drift
  BY <1>7, DriftStays DEF TypeOK, Poll, PollReceives, PollReplies, TrackedIds, Tracked,
     Counted, Removers
<1>8. ASSUME UNCHANGED <<RequestsTrack, RequestTrackLength, dpc, deleting>>
      PROVE  Drift' = Drift
  BY <1>8, DriftStays DEF TrackedIds, Tracked, Counted, Removers
<1> QED
  BY <1>1, <1>2, <1>3, <1>4, <1>5, <1>6, <1>7, <1>8 DEF Next, Answer, TimerFires,
     Accept, Delete, PollLoad, vars

(* RequestTrackLength comes to lie in two ways only: a call takes the place *)
(* of another one of its id, or an entry is deleted a second time           *)
(* (ocr_results_storage.go:37-49).                                          *)
THEOREM DriftIsNamed == Spec => DriftNamed
<1> DEFINE Named == \/ \E c \in Calls : Displaces(c)
                    \/ \E e \in Executors : DeletesAgain(e)
<1>1. Inv /\ [Next]_vars => [Drift' # Drift => Named]_vars
  BY DriftStep DEF Inv
<1> QED
  BY <1>1, Invariance, PTL DEF Spec, DriftNamed

-----------------------------------------------------------------------------
(* The contract.  A poster holds the result it posts and gets none after it *)
(* gave the call up; a status handler only asks for calls that were stored. *)
HolderInv ==
    /\ \A c \in Calls :
          /\ gpc[c] = "post" => claimed[c] = "poster"
          /\ gpc[c] \in {"none", "decay", "wait", "postError", "nap"} =>
                claimed[c] # "poster"
          /\ gpc[c] = "decay" => c \notin PostCalls
    /\ \A p \in Pollers : polled[p] # Nothing => dpc[polled[p].call] = "returned"

ContractInv == TypeOK /\ TriesInv /\ IdsInv /\ ReasonInv /\ ClaimInv /\ HolderInv

LEMMA HolderStep ==
  ASSUME TypeOK, TriesInv, IdsInv, ClaimInv, HolderInv, [Next]_vars
  PROVE  HolderInv'
<1> USE CallsAssumption, IdsAssumption, PollersAssumption DEF TypeOK, HolderInv
<1>1. ASSUME NEW c \in Calls, Answer(c) \/ Accept(c) \/ TimerFires(c) PROVE HolderInv'
  BY <1>1 DEF TriesInv, IdsInv, Answer, Accept, Count, Store, TimerFires
<1>2. ASSUME NEW c \in Calls, Decay(c) PROVE HolderInv'
  BY <1>2 DEF Decay, DecayTimeout, DecayEnds, FinishDeleting
<1>3. ASSUME NEW c \in Calls, Post(c) PROVE HolderInv'
  BY <1>3 DEF Post, PosterReceives, PostSucceeds, PostFails, FinishDeleting
<1>4. ASSUME NEW c \in Calls, WaitExpires(c) \/ PostError(c) \/ NapEnds(c)
      PROVE  HolderInv'
  BY <1>4 DEF WaitExpires, PostError, ErrorPostSucceeds, ErrorPostFails, NapEnds,
     FinishDeleting
<1>5. ASSUME NEW p \in Pollers, PollReceives(p) PROVE HolderInv'
  <2>1. polled[p].call \in chan /\ claimed[polled[p].call] = "nobody"
    BY <1>5 DEF PollReceives, ClaimInv
  <2> QED
    BY <1>5, <2>1 DEF PollReceives
<1>6. ASSUME NEW p \in Pollers, PollReplies(p) PROVE HolderInv'
  BY <1>6 DEF PollReplies
<1>7. ASSUME NEW p \in Pollers, NEW i \in Ids, PollLoad(p, i) PROVE HolderInv'
  BY <1>7 DEF PollLoad, IdsInv, Tracked
<1>8. ASSUME UNCHANGED <<dpc, gpc, claimed, polled>> PROVE HolderInv'
  BY <1>8
<1> QED
  BY <1>1, <1>2, <1>3, <1>4, <1>5, <1>6, <1>7, <1>8 DEF Next, Delete, DeleteLoad,
     DeleteCount, DeleteRemove, Poll, vars

LEMMA ContractInvariant == Spec => []ContractInv
<1>1. Init => HolderInv
  BY DEF Init, HolderInv
<1>2. CountInv /\ HolderInv /\ [Next]_vars => HolderInv'
  BY HolderStep DEF CountInv, Inv
<1>3. CountInv /\ HolderInv => ContractInv
  BY DEF CountInv, Inv, ContractInv
<1> QED
  BY <1>1, <1>2, <1>3, CountInvariance, PTL DEF Spec

-----------------------------------------------------------------------------
Accepted == {c \in Calls : dpc[c] = "returned"}
Over == {c \in Calls : GivenUp(c)}

LEMMA OverStays ==
  ASSUME \A c \in Calls : GivenUp(c)' <=> GivenUp(c)
  PROVE  Over' = Over
BY DEF Over

(* What the contract does not see: whoever is on his way, and the counter.  *)
LEMMA Stutters ==
  ASSUME UNCHANGED <<RequestsTrack, dpc, sent, claimed>>, Over' = Over
  PROVE  UNCHANGED Contract!contractVars
BY DEF Contract!contractVars, Accepted, Over

(* A stored call is accepted.                                               *)
LEMMA StoreAccepts ==
  ASSUME ContractInv, NEW c \in Calls, Store(c)
  PROVE  Contract!Accept(c)
<1> USE DEF ContractInv, TypeOK, Store
<1>1. c \notin Accepted /\ Accepted' = Accepted \cup {c}
  BY DEF Accepted
<1>2. gpc[c] = "none" /\ timer[c] = "off"
  BY DEF TriesInv, ClaimInv
<1>3. \A d \in Calls : GivenUp(d)' <=> GivenUp(d)
  BY <1>2 DEF GivenUp
<1> QED
  BY <1>1, <1>3, OverStays DEF Contract!Accept, Accepted, Over

(* The result of an accepted call is received, by its poster ...            *)
LEMMA PosterIsReceiver ==
  ASSUME ContractInv, NEW c \in Calls, PosterReceives(c)
  PROVE  Contract!Receive(c, "poster")
<1> USE DEF ContractInv, TypeOK, PosterReceives
<1>1. c \in Accepted \cap sent /\ claimed[c] = "nobody"
  BY DEF Accepted, TriesInv, ClaimInv
<1>2. Accepted' = Accepted
  BY DEF Accepted
<1>3. \A d \in Calls : GivenUp(d)' <=> GivenUp(d)
  BY DEF GivenUp, HolderInv
<1> QED
  BY <1>1, <1>2, <1>3, OverStays DEF Contract!Receive, Accepted, Over

(* ... or by a status handler.                                              *)
LEMMA PollerIsReceiver ==
  ASSUME ContractInv, NEW p \in Pollers, PollReceives(p)
  PROVE  polled[p].call \in Calls /\ Contract!Receive(polled[p].call, p)
<1> USE CallsAssumption, PollersAssumption DEF ContractInv, TypeOK, PollReceives
<1>1. polled[p].call \in Calls /\ polled[p] # Nothing
  BY DEF Nothing
<1>2. polled[p].call \in Accepted \cap sent /\ claimed[polled[p].call] = "nobody"
  BY <1>1 DEF Accepted, HolderInv, ClaimInv
<1>3. Accepted' = Accepted
  BY DEF Accepted
<1>4. \A d \in Calls : GivenUp(d)' <=> GivenUp(d)
  BY <1>2 DEF GivenUp
<1> QED
  BY <1>1, <1>2, <1>3, <1>4, OverStays DEF Contract!Receive, Accepted, Over

(* A call is given up by its decay timer or by its waiting poster.          *)
LEMMA TimeIsUp ==
  ASSUME ContractInv, NEW c \in Calls, TimerFires(c) \/ WaitExpires(c)
  PROVE  Contract!GiveUp(c) \/ UNCHANGED Contract!contractVars
<1> USE DEF ContractInv, TypeOK, TimerFires, WaitExpires
<1>1. c \in Accepted /\ Accepted' = Accepted
  BY DEF Accepted, TriesInv, ClaimInv
<1>2. \A d \in Calls \ {c} : GivenUp(d)' <=> GivenUp(d)
  BY DEF GivenUp
<1>3. CASE GivenUp(c)' /\ ~GivenUp(c)
  <2>1. c \notin Over /\ Over' = Over \cup {c}
    BY <1>2, <1>3 DEF Over
  <2> QED
    BY <1>1, <2>1 DEF Contract!GiveUp, Accepted, Over
<1>4. CASE GivenUp(c)' <=> GivenUp(c)
  BY <1>2, <1>4, OverStays, Stutters
<1>5. GivenUp(c) => GivenUp(c)'
  BY DEF GivenUp
<1> QED
  BY <1>3, <1>4, <1>5

(* Whoever deletes an entry may strike its id off.                          *)
LEMMA RemoveStrikes ==
  ASSUME ContractInv, NEW e \in Executors, DeleteRemove(e)
  PROVE  (Target(e) \in Ids /\ Contract!Strike(Target(e))) \/ UNCHANGED Contract!contractVars
<1> USE DEF DeleteRemove
<1>1. Over' = Over
  BY OverStays DEF GivenUp
<1>2. PICK c \in Calls : IdOf[c] = Target(e) /\ c \in Accepted /\ (claimed[c] # "nobody" \/ c \in Over)
  <2>1. CASE e \in Calls
    <3>1. gpc[e] = "done" /\ (e \in PostCalls \/ timer[e] = "drained")
      BY <2>1 DEF ContractInv, ReasonInv
    <3>2. e \in Accepted
      BY <2>1, <3>1 DEF Accepted, ContractInv, TypeOK, TriesInv
    <3>3. claimed[e] # "nobody" \/ e \in Over
      BY <2>1, <3>1 DEF Over, GivenUp
    <3> QED
      BY <2>1, <3>2, <3>3 DEF Target
  <2>2. CASE e \in Pollers /\ e \notin Calls
    BY <2>2 DEF ContractInv, ReasonInv, IdsInv, HolderInv, Accepted, Target
  <2> QED
    BY <2>1, <2>2 DEF Executors
<1>3. Target(e) \in Ids
  BY <1>2, IdsAssumption
<1>4. CASE RequestsTrack[Target(e)] # None
  <2>1. Contract!Done(c)
    BY <1>2 DEF Contract!Done, Accepted, Over
  <2>2. Contract!Strike(Target(e))
    BY <1>1, <1>2, <1>4, <2>1 DEF Contract!Strike, Accepted, Over
  <2> QED
    BY <1>3, <2>2
<1>5. CASE RequestsTrack[Target(e)] = None
  <2>1. RequestsTrack' = RequestsTrack
    BY <1>3, <1>5 DEF ContractInv, TypeOK
  <2> QED
    BY <1>1, <2>1, Stutters
<1> QED
  BY <1>4, <1>5

LEMMA AnswerAnswers ==
  ASSUME NEW c \in Calls, Answer(c)
  PROVE  Contract!Answer(c)
<1>1. Over' = Over
  BY OverStays DEF Answer, GivenUp
<1> QED
  BY <1>1 DEF Answer, Contract!Answer, Accepted, Over

LEMMA ContractStep ==
  ASSUME ContractInv, [Next]_vars
  PROVE  [Contract!Next]_(Contract!contractVars)
<1>1. ASSUME NEW c \in Calls, Answer(c) PROVE Contract!Next
  BY <1>1, AnswerAnswers DEF Contract!Next
<1>2. ASSUME NEW c \in Calls, Store(c) PROVE Contract!Next
  BY <1>2, StoreAccepts DEF Contract!Next
<1>3. ASSUME NEW c \in Calls, PosterReceives(c) PROVE Contract!Next
  BY <1>3, PosterIsReceiver DEF Contract!Next
<1>4. ASSUME NEW p \in Pollers, PollReceives(p) PROVE Contract!Next
  BY <1>4, PollerIsReceiver DEF Contract!Next
<1>5. ASSUME NEW c \in Calls, TimerFires(c) \/ WaitExpires(c)
      PROVE  [Contract!Next]_(Contract!contractVars)
  BY <1>5, TimeIsUp DEF Contract!Next
<1>6. ASSUME NEW e \in Executors, DeleteRemove(e)
      PROVE  [Contract!Next]_(Contract!contractVars)
  BY <1>6, RemoveStrikes DEF Contract!Next
<1>7. ASSUME NEW c \in Calls, \/ Decay(c) \/ PostSucceeds(c) \/ PostFails(c)
                              \/ PostError(c) \/ NapEnds(c)
      PROVE  UNCHANGED Contract!contractVars
  <2> USE DEF Decay, DecayTimeout, DecayEnds, PostSucceeds, PostFails, PostError,
       ErrorPostSucceeds, ErrorPostFails, NapEnds, FinishDeleting
  <2>1. UNCHANGED <<RequestsTrack, dpc, sent, claimed>>
    BY <1>7
  <2>2. \A d \in Calls \ {c} : GivenUp(d)' <=> GivenUp(d)
    BY <1>7 DEF GivenUp, ContractInv, TypeOK
  <2>3. GivenUp(c)' <=> GivenUp(c)
    BY <1>7 DEF GivenUp, ContractInv, TypeOK, HolderInv, TriesInv
  <2> QED
    BY <2>1, <2>2, <2>3, OverStays, Stutters
<1>8. ASSUME UNCHANGED <<RequestsTrack, dpc, sent, claimed, gpc, timer>>
             \/ \E c \in Calls : Count(c)
      PROVE  UNCHANGED Contract!contractVars
  <2>1. Over' = Over
    BY <1>8, OverStays DEF GivenUp, Count
  <2>2. CASE \E c \in Calls : Count(c)
    <3>1. Accepted' = Accepted
      BY <2>2 DEF Count, Accepted, ContractInv, TypeOK
    <3> QED
      BY <2>1, <2>2, <3>1 DEF Count, Contract!contractVars, Accepted, Over
  <2> QED
    BY <1>8, <2>1, <2>2, Stutters
<1> QED
  BY <1>1, <1>2, <1>3, <1>4, <1>5, <1>6, <1>7, <1>8 DEF Next, Accept, Post, Delete,
     DeleteLoad, DeleteCount, Poll, PollReplies, PollLoad, vars

(* The table keeps the contract of deferred calls, shared ids and double    *)
(* deletions included: an accepted call is listed, its result is received   *)
(* once, and an id is struck off only for a call that was received or given *)
(* up (ocr_results_storage.go:14-49, ocr_rpc_client.go:200-282).            *)
THEOREM ContractIsKept == Spec => KeepsContract
<1>1. Init => Contract!Init
  BY DEF Init, Contract!Init, GivenUp
<1>2. ContractInv /\ [Next]_vars => [Contract!Next]_(Contract!contractVars)
  BY ContractStep
<1> QED
  BY <1>1, <1>2, ContractInvariant, PTL DEF Spec, KeepsContract, Contract!Spec
=============================================================================
