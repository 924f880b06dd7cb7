------------------------ MODULE CoordinationProofs ------------------------
(***************************************************************************)
(* Proofs about the components of MCCoordination and, at the end, about    *)
(* ConnectionPool, for every value of their constants.                     *)
(*                                                                         *)
(* Each component has an invariant of its own, XXInv, that says what its   *)
(* threads know between two steps, and each of its steps keeps it.  The    *)
(* components share no state, so that the invariants hold side by side in  *)
(* what MCCoordination composes.                                           *)
(***************************************************************************)
EXTENDS MCCoordination, ConnectionPool, FiniteSetTheorems, SequenceTheorems, Inductions, TLAPS

-----------------------------------------------------------------------------
(* Timers of refreshes, BackgroundTimers: a schedule in force names a      *)
(* slot, and the timer of the slot names the schedule.                     *)

MVTimerRecords ==
  [view : MVViews, by : {"manager", "batch"}, at : {"free", "waiting", "running"}]

MVInv == MVTypeOK /\ MVAlive

LEMMA SlotsAre == 0 \notin MVSlot /\ (\A s \in 0..MVSlots : s # 0 => s \in MVSlot) /\ MVSlot \subseteq 0..MVSlots
BY MVAssumption DEF MVSlot, MVAssumption

\* cancel() touches one slot, and of it only whether it waits.
LEMMA CancelledIs ==
  ASSUME NEW timer \in [MVSlot -> MVTimerRecords], NEW s \in 0..MVSlots
  PROVE  /\ MVCancelled(timer, s) \in [MVSlot -> MVTimerRecords]
         /\ \A q \in MVSlot : /\ MVCancelled(timer, s)[q].view = timer[q].view
                              /\ MVCancelled(timer, s)[q].by = timer[q].by
                              /\ q # s => MVCancelled(timer, s)[q] = timer[q]
<1>1. CASE s # 0 /\ timer[s].at = "waiting"
  <2>1. s \in MVSlot
    BY <1>1, SlotsAre
  <2>2. timer[s] \in MVTimerRecords /\ [timer[s] EXCEPT !.at = "free"] \in MVTimerRecords
    BY <2>1 DEF MVTimerRecords
  <2>3. MVCancelled(timer, s) = [timer EXCEPT ![s] = [timer[s] EXCEPT !.at = "free"]]
    BY <1>1 DEF MVCancelled
  <2>4. /\ [timer[s] EXCEPT !.at = "free"].view = timer[s].view
        /\ [timer[s] EXCEPT !.at = "free"].by = timer[s].by
    BY <2>1 DEF MVTimerRecords
  <2>5. QED BY <2>1, <2>2, <2>3, <2>4
<1>2. CASE ~(s # 0 /\ timer[s].at = "waiting")
  BY <1>2 DEF MVCancelled
<1>3. QED BY <1>1, <1>2

LEMMA MVInitInv == MVInit => MVInv
<1> SUFFICES ASSUME MVInit PROVE MVInv
  OBVIOUS
<1>1. mvTimer \in [MVSlot -> MVTimerRecords]
  BY DEF MVInit, MVTimerRecords
<1>2. 0 \in 0..MVSlots
  BY MVAssumption DEF MVAssumption
<1>3. QED BY <1>1, <1>2 DEF MVInit, MVInv, MVTypeOK, MVAlive, MVTimerRecords

\* The timers a step leaves what they were, of all the schedules it keeps, keep the invariant.
MVNames(v, timer, manager, batch) ==
  /\ manager[v] # 0 => timer[manager[v]].view = v /\ timer[manager[v]].by = "manager"
                         /\ timer[manager[v]].at # "free"
  /\ batch[v] # 0 => timer[batch[v]].view = v /\ timer[batch[v]].by = "batch"
                         /\ timer[batch[v]].at # "free"

LEMMA MVInvIs ==
  MVInv <=> /\ mvStale \in [MVViews -> {"none", "stale", "fresh"}]
            /\ mvTimer \in [MVSlot -> MVTimerRecords]
            /\ mvManager \in [MVViews -> 0..MVSlots] /\ mvBatch \in [MVViews -> 0..MVSlots]
            /\ \A v \in MVViews : MVNames(v, mvTimer, mvManager, mvBatch)
BY DEF MVInv, MVTypeOK, MVAlive, MVTimerRecords, MVNames

LEMMA MVRefreshedType ==
  ASSUME MVInv, NEW v \in MVViews
  PROVE  MVRefreshed(v) \in [MVViews -> {"none", "stale", "fresh"}]
BY MVInvIs DEF MVRefreshed

LEMMA MVNextInv == MVInv /\ [MVNext]_mvVars => MVInv'
<1> SUFFICES ASSUME MVInv, [MVNext]_mvVars PROVE MVInv'
  OBVIOUS
<1>0. /\ mvStale \in [MVViews -> {"none", "stale", "fresh"}]
      /\ mvTimer \in [MVSlot -> MVTimerRecords]
      /\ mvManager \in [MVViews -> 0..MVSlots] /\ mvBatch \in [MVViews -> 0..MVSlots]
      /\ \A v \in MVViews : MVNames(v, mvTimer, mvManager, mvBatch)
  BY MVInvIs
<1>a. ASSUME /\ mvStale' \in [MVViews -> {"none", "stale", "fresh"}]
             /\ mvTimer' \in [MVSlot -> MVTimerRecords]
             /\ mvManager' \in [MVViews -> 0..MVSlots] /\ mvBatch' \in [MVViews -> 0..MVSlots]
             /\ \A v \in MVViews : MVNames(v, mvTimer', mvManager', mvBatch')
      PROVE  MVInv'
  BY <1>a DEF MVInv, MVTypeOK, MVAlive, MVTimerRecords, MVNames
<1>1. ASSUME NEW v \in MVViews, NEW s \in MVFree,
             mvTimer' = [mvTimer EXCEPT ![s] = [view |-> v, by |-> "manager", at |-> "waiting"]],
             mvManager' = [mvManager EXCEPT ![v] = s], mvBatch' = mvBatch
      PROVE  /\ mvTimer' \in [MVSlot -> MVTimerRecords] /\ mvManager' \in [MVViews -> 0..MVSlots]
             /\ \A w \in MVViews : MVNames(w, mvTimer', mvManager', mvBatch')
  <2>1. s \in MVSlot /\ s \in 0..MVSlots /\ mvTimer[s].at = "free"
    BY SlotsAre DEF MVFree
  <2>2. [view |-> v, by |-> "manager", at |-> "waiting"] \in MVTimerRecords
    BY DEF MVTimerRecords
  <2>3. ASSUME NEW w \in MVViews PROVE MVNames(w, mvTimer', mvManager', mvBatch')
    <3>1. MVNames(w, mvTimer, mvManager, mvBatch) /\ mvManager[w] \in 0..MVSlots /\ mvBatch[w] \in 0..MVSlots
      BY <1>0
    <3>2. QED BY <1>0, <1>1, <2>1, <3>1, SlotsAre DEF MVNames
  <2>4. QED BY <1>0, <1>1, <2>1, <2>2, <2>3
<1>2. ASSUME NEW v \in MVViews, NEW scheduled \in BOOLEAN, MVCreate(v, scheduled) PROVE MVInv'
  <2>1. mvStale' \in [MVViews -> {"none", "stale", "fresh"}]
    BY <1>0, <1>2 DEF MVCreate
  <2>2. CASE scheduled
    BY <1>0, <1>1, <1>2, <1>a, <2>1, <2>2 DEF MVCreate
  <2>3. CASE ~scheduled
    BY <1>0, <1>2, <1>a, <2>1, <2>3 DEF MVCreate
  <2>4. QED BY <2>2, <2>3
<1>3. ASSUME NEW v \in MVViews, MVDrop(v) PROVE MVInv'
  <2>1. mvManager[v] \in 0..MVSlots /\ 0 \in 0..MVSlots /\ MVNames(v, mvTimer, mvManager, mvBatch)
    BY <1>0, MVAssumption DEF MVAssumption
  <2>2. /\ mvTimer' \in [MVSlot -> MVTimerRecords]
        /\ \A q \in MVSlot : /\ mvTimer'[q].view = mvTimer[q].view /\ mvTimer'[q].by = mvTimer[q].by
                             /\ q # mvManager[v] => mvTimer'[q] = mvTimer[q]
    BY <1>0, <1>3, <2>1, CancelledIs DEF MVDrop
  <2>3. ASSUME NEW w \in MVViews PROVE MVNames(w, mvTimer', mvManager', mvBatch')
    <3>1. MVNames(w, mvTimer, mvManager, mvBatch) /\ mvManager[w] \in 0..MVSlots /\ mvBatch[w] \in 0..MVSlots
      BY <1>0
    <3>2. mvManager' = [mvManager EXCEPT ![v] = 0] /\ mvBatch' = mvBatch
      BY <1>3 DEF MVDrop, MVForgotten
    <3>3. QED BY <1>0, <2>1, <2>2, <3>1, <3>2, SlotsAre DEF MVNames
  <2>4. QED BY <1>0, <1>3, <1>a, <2>1, <2>2, <2>3 DEF MVDrop, MVForgotten
<1>4. ASSUME NEW views \in SUBSET MVViews, MVRefresh(views) PROVE MVInv'
  <2>1. mvStale' \in [MVViews -> {"none", "stale", "fresh"}]
    BY <1>0, <1>4, MVRefreshedType DEF MVRefresh
  <2>2. QED BY <1>0, <1>4, <1>a, <2>1 DEF MVRefresh
<1>5. ASSUME NEW v \in MVViews, MVSetSchedule(v) PROVE MVInv'
  BY <1>0, <1>1, <1>5, <1>a DEF MVSetSchedule
<1>6. ASSUME NEW v \in MVViews, MVBatchSchedule(v) PROVE MVInv'
  <2>1. PICK s \in MVFree : /\ mvTimer' = MVArmed(mvTimer, mvBatch[v], s, v, "batch")
                            /\ mvBatch' = [mvBatch EXCEPT ![v] = s]
    BY <1>6 DEF MVBatchSchedule
  <2>2. s \in MVSlot /\ s \in 0..MVSlots /\ mvTimer[s].at = "free"
    BY SlotsAre DEF MVFree
  <2>3. mvBatch[v] \in 0..MVSlots /\ MVNames(v, mvTimer, mvManager, mvBatch)
    BY <1>0
  <2> DEFINE T == MVCancelled(mvTimer, mvBatch[v])
  <2>4. /\ T \in [MVSlot -> MVTimerRecords]
        /\ \A q \in MVSlot : /\ T[q].view = mvTimer[q].view /\ T[q].by = mvTimer[q].by
                             /\ q # mvBatch[v] => T[q] = mvTimer[q]
    BY <1>0, <2>3, CancelledIs
  <2>5. mvTimer' = [T EXCEPT ![s] = [view |-> v, by |-> "batch", at |-> "waiting"]]
    BY <2>1 DEF MVArmed
  <2>6. [view |-> v, by |-> "batch", at |-> "waiting"] \in MVTimerRecords
    BY DEF MVTimerRecords
  <2> HIDE DEF T
  <2>7. mvManager' = mvManager /\ mvStale' = mvStale
    BY <1>6 DEF MVBatchSchedule
  <2>8. ASSUME NEW w \in MVViews PROVE MVNames(w, mvTimer', mvManager', mvBatch')
    <3>1. MVNames(w, mvTimer, mvManager, mvBatch) /\ mvManager[w] \in 0..MVSlots /\ mvBatch[w] \in 0..MVSlots
      BY <1>0
    <3>2. QED BY <1>0, <2>1, <2>2, <2>3, <2>4, <2>5, <2>7, <3>1, SlotsAre DEF MVNames
  <2>9. QED BY <1>0, <1>a, <2>1, <2>2, <2>4, <2>5, <2>6, <2>7, <2>8
<1>7. ASSUME NEW v \in MVViews, MVBatchCancel(v) PROVE MVInv'
  <2>1. mvBatch[v] \in 0..MVSlots /\ 0 \in 0..MVSlots /\ MVNames(v, mvTimer, mvManager, mvBatch)
    BY <1>0, MVAssumption DEF MVAssumption
  <2>2. /\ mvTimer' \in [MVSlot -> MVTimerRecords]
        /\ \A q \in MVSlot : /\ mvTimer'[q].view = mvTimer[q].view /\ mvTimer'[q].by = mvTimer[q].by
                             /\ q # mvBatch[v] => mvTimer'[q] = mvTimer[q]
    BY <1>0, <1>7, <2>1, CancelledIs DEF MVBatchCancel
  <2>3. ASSUME NEW w \in MVViews PROVE MVNames(w, mvTimer', mvManager', mvBatch')
    <3>1. MVNames(w, mvTimer, mvManager, mvBatch) /\ mvManager[w] \in 0..MVSlots /\ mvBatch[w] \in 0..MVSlots
      BY <1>0
    <3>2. mvBatch' = [mvBatch EXCEPT ![v] = 0] /\ mvManager' = mvManager
      BY <1>7 DEF MVBatchCancel, MVForgotten
    <3>3. QED BY <1>0, <1>7, <2>1, <2>2, <3>1, <3>2, SlotsAre DEF MVNames, MVBatchCancel
  <2>4. QED BY <1>0, <1>7, <1>a, <2>1, <2>2, <2>3 DEF MVBatchCancel, MVForgotten
<1>8. ASSUME NEW s \in MVSlot, NEW where \in {"free", "waiting", "running"},
             mvTimer' = [mvTimer EXCEPT ![s].at = where]
      PROVE  /\ mvTimer' \in [MVSlot -> MVTimerRecords]
             /\ \A q \in MVSlot : /\ mvTimer'[q].view = mvTimer[q].view /\ mvTimer'[q].by = mvTimer[q].by
                                  /\ mvTimer'[q].at = IF q = s THEN where ELSE mvTimer[q].at
  <2>1. mvTimer[s] \in MVTimerRecords /\ [mvTimer[s] EXCEPT !.at = where] \in MVTimerRecords
    BY <1>0 DEF MVTimerRecords
  <2>2. mvTimer' = [mvTimer EXCEPT ![s] = [mvTimer[s] EXCEPT !.at = where]]
    BY <1>8
  <2>3. /\ [mvTimer[s] EXCEPT !.at = where].view = mvTimer[s].view
        /\ [mvTimer[s] EXCEPT !.at = where].by = mvTimer[s].by
        /\ [mvTimer[s] EXCEPT !.at = where].at = where
    BY <2>1 DEF MVTimerRecords
  <2>4. QED BY <1>0, <2>1, <2>2, <2>3
<1>9. ASSUME NEW s \in MVSlot, MVFire(s) PROVE MVInv'
  <2>1. mvTimer[s].view \in MVViews
    BY <1>0 DEF MVTimerRecords
  <2>2. mvStale' \in [MVViews -> {"none", "stale", "fresh"}]
    BY <1>9, <2>1, MVRefreshedType DEF MVFire
  <2>3. /\ mvTimer' \in [MVSlot -> MVTimerRecords]
        /\ \A q \in MVSlot : /\ mvTimer'[q].view = mvTimer[q].view /\ mvTimer'[q].by = mvTimer[q].by
                             /\ mvTimer'[q].at = IF q = s THEN "running" ELSE mvTimer[q].at
    BY <1>8, <1>9 DEF MVFire
  <2>4. ASSUME NEW w \in MVViews PROVE MVNames(w, mvTimer', mvManager', mvBatch')
    <3>1. MVNames(w, mvTimer, mvManager, mvBatch) /\ mvManager[w] \in 0..MVSlots /\ mvBatch[w] \in 0..MVSlots
      BY <1>0
    <3>2. QED BY <1>9, <2>3, <3>1, SlotsAre DEF MVNames, MVFire
  <2>5. QED BY <1>0, <1>9, <1>a, <2>2, <2>3, <2>4 DEF MVFire
<1>10. ASSUME NEW s \in MVSlot, MVRearm(s) PROVE MVInv'
  <2> DEFINE v == mvTimer[s].view
  <2>1. v \in MVViews /\ mvTimer[s].by \in {"manager", "batch"} /\ s \in 0..MVSlots /\ s # 0
    BY <1>0, SlotsAre DEF MVTimerRecords
  <2>2. MVNames(v, mvTimer, mvManager, mvBatch) /\ mvBatch[v] \in 0..MVSlots
    BY <1>0, <2>1
  <2>3. CASE ~MVGoesOn(s)
    <3>1. /\ mvTimer' \in [MVSlot -> MVTimerRecords]
          /\ \A q \in MVSlot : /\ mvTimer'[q].view = mvTimer[q].view /\ mvTimer'[q].by = mvTimer[q].by
                               /\ mvTimer'[q].at = IF q = s THEN "free" ELSE mvTimer[q].at
      BY <1>8, <1>10, <2>3 DEF MVRearm
    <3>2. UNCHANGED <<mvManager, mvBatch, mvStale>>
      BY <1>10, <2>3 DEF MVRearm
    <3>3. ASSUME NEW w \in MVViews PROVE MVNames(w, mvTimer', mvManager', mvBatch')
      <4>1. MVNames(w, mvTimer, mvManager, mvBatch) /\ mvManager[w] \in 0..MVSlots /\ mvBatch[w] \in 0..MVSlots
        BY <1>0
      <4>2. mvManager[w] # s /\ mvBatch[w] # s
        BY <2>1, <2>3, <4>1 DEF MVNames, MVGoesOn
      <4>3. QED BY <3>1, <3>2, <4>1, <4>2, SlotsAre DEF MVNames
    <3>4. QED BY <1>0, <1>a, <3>1, <3>2, <3>3
  <2>4. CASE MVGoesOn(s)
    <3>1. /\ mvTimer' \in [MVSlot -> MVTimerRecords]
          /\ \A q \in MVSlot : /\ mvTimer'[q].view = mvTimer[q].view /\ mvTimer'[q].by = mvTimer[q].by
                               /\ mvTimer'[q].at = IF q = s THEN "waiting" ELSE mvTimer[q].at
      BY <1>8, <1>10, <2>4 DEF MVRearm
    <3>2. CASE mvTimer[s].by = "manager"
      <4>1. mvManager' = [mvManager EXCEPT ![v] = s] /\ UNCHANGED <<mvBatch, mvStale>>
        BY <1>10, <2>4, <3>2 DEF MVRearm
      <4> HIDE DEF v
      <4>2. ASSUME NEW w \in MVViews PROVE MVNames(w, mvTimer', mvManager', mvBatch')
        <5>1. MVNames(w, mvTimer, mvManager, mvBatch) /\ mvManager[w] \in 0..MVSlots /\ mvBatch[w] \in 0..MVSlots
          BY <1>0
        <5>2. QED BY <1>0, <2>1, <3>1, <3>2, <4>1, <5>1, SlotsAre DEF MVNames, v
      <4>3. QED BY <1>0, <1>a, <2>1, <3>1, <4>1, <4>2
    <3>3. CASE mvTimer[s].by # "manager"
      <4>1. /\ mvBatch' = [mvBatch EXCEPT ![v] = IF @ = 0 THEN @ ELSE s]
            /\ UNCHANGED <<mvManager, mvStale>>
        BY <1>10, <2>4, <3>3 DEF MVRearm
      <4>2. mvBatch[v] # 0
        BY <2>4, <3>3 DEF MVGoesOn
      <4> HIDE DEF v
      <4>3. mvBatch' = [mvBatch EXCEPT ![v] = s]
        BY <4>1, <4>2
      <4>4. ASSUME NEW w \in MVViews PROVE MVNames(w, mvTimer', mvManager', mvBatch')
        <5>1. MVNames(w, mvTimer, mvManager, mvBatch) /\ mvManager[w] \in 0..MVSlots /\ mvBatch[w] \in 0..MVSlots
          BY <1>0
        <5>2. QED BY <1>0, <2>1, <3>1, <3>3, <4>1, <4>3, <5>1, SlotsAre DEF MVNames, v
      <4>5. QED BY <1>0, <1>a, <2>1, <3>1, <4>1, <4>3, <4>4
    <3>4. QED BY <3>2, <3>3
  <2>5. QED BY <2>3, <2>4
<1>11. CASE UNCHANGED mvVars
  BY <1>0, <1>11, <1>a DEF mvVars
<1>12. QED BY <1>2, <1>3, <1>4, <1>5, <1>6, <1>7, <1>9, <1>10, <1>11 DEF MVNext

-----------------------------------------------------------------------------
(* The batch pool, BackgroundTimers: what is counted is idle or taken, and *)
(* a connection is made after close at most by the round that had looked   *)
(* before it.                                                              *)

BPSteps == {"out", "waiting", "raised", "timed out"}

BPInv ==
  /\ BPTypeOK /\ BPCounted
  /\ bpTaken \in Nat /\ bpMade \in Nat
  /\ bpCaller \in [BPCallers -> BPSteps]
  /\ bpKeeper \in [at : {"sleeps", "looks", "ended"}, rounds : Nat]
  /\ bpLate = 0 \/ (bpLate = 1 /\ bpClosed /\ bpKeeper.at # "sleeps")

LEMMA BPBounds == BPMin \in Nat /\ BPMax \in Nat /\ BPCalls \in Nat /\ BPRounds \in Nat
BY BPAssumption DEF BPAssumption

LEMMA BPInitInv == BPInit => BPInv
<1> SUFFICES ASSUME BPInit PROVE BPInv
  OBVIOUS
<1>1. /\ bpCaller \in [BPCallers -> BPSteps]
      /\ \A c \in BPCallers : bpCaller[c] \in BPSteps
      /\ bpKeeper \in [at : {"sleeps", "looks", "ended"}, rounds : Nat]
      /\ bpKeeper.at \in {"sleeps", "looks", "ended"}
  BY DEF BPInit, BPSteps
<1>2. bpIdle \in 0..BPMin /\ bpCalls \in 0..BPCalls /\ BPCounted
  BY BPBounds DEF BPInit, BPCounted
<1>3. bpTaken \in Nat /\ bpMade \in Nat /\ bpLate = 0
  BY DEF BPInit
<1>4. bpClosed \in BOOLEAN
  BY DEF BPInit
<1>5. BPTypeOK
  BY <1>1, <1>2, <1>4 DEF BPTypeOK, BPSteps
<1>6. QED BY <1>1, <1>2, <1>3, <1>5 DEF BPInv

LEMMA BPCallerStep ==
  ASSUME BPInv, NEW c \in BPCallers, NEW to \in BPSteps,
         bpCaller' = [bpCaller EXCEPT ![c] = to]
  PROVE  /\ bpCaller' \in [BPCallers -> BPSteps]
         /\ \A d \in BPCallers : bpCaller'[d] \in BPSteps
BY DEF BPInv

LEMMA BPTakeInv ==
  ASSUME BPInv, NEW c \in BPCallers, NEW from, BPTake(c, from), bpCalls' \in 0..BPCalls
  PROVE  BPInv'
<1>1. /\ bpCaller' \in [BPCallers -> BPSteps]
      /\ \A d \in BPCallers : bpCaller'[d] \in BPSteps
  BY BPCallerStep DEF BPTake, BPSteps
<1>2. bpIdle' = bpIdle - 1 /\ bpTaken' = bpTaken + 1 /\ bpIdle > 0
      /\ UNCHANGED <<bpTotal, bpOpen, bpKeeper, bpClosed, bpMade, bpLate>>
  BY DEF BPTake, BPSteps
<1>3. /\ bpIdle' \in 0..BPMin /\ bpTaken' \in Nat
      /\ bpTotal' = bpIdle' + bpTaken' /\ bpOpen' = bpTotal' + bpMade'
  <2>1. bpIdle \in 0..BPMin /\ bpTaken \in Nat /\ bpTotal = bpIdle + bpTaken /\ bpOpen = bpTotal + bpMade
    BY DEF BPInv, BPTypeOK, BPCounted
  <2>2. QED BY <1>2, <2>1, BPBounds
<1>4. QED BY <1>1, <1>2, <1>3 DEF BPInv, BPTypeOK, BPCounted, BPSteps

LEMMA BPMakeInv ==
  ASSUME BPInv, NEW c \in BPCallers, NEW from, NEW to \in BPSteps,
         BPMake(c, from, to), bpCalls' \in 0..BPCalls
  PROVE  BPInv'
<1>1. /\ bpCaller' \in [BPCallers -> BPSteps]
      /\ \A d \in BPCallers : bpCaller'[d] \in BPSteps
  BY BPCallerStep DEF BPMake
<1>2. /\ bpTotal' = bpTotal
      /\ \/ bpOpen' = bpOpen + 1 /\ bpMade' = bpMade + 1
         \/ bpOpen' = bpOpen /\ bpMade' = bpMade
      /\ UNCHANGED <<bpIdle, bpKeeper, bpClosed, bpTaken, bpLate>>
  BY DEF BPMake, BPMadeCounted
<1>3. bpMade' \in Nat /\ bpTotal' = bpIdle' + bpTaken' /\ bpOpen' = bpTotal' + bpMade'
  <2>1. /\ bpIdle \in 0..BPMin /\ bpTaken \in Nat /\ bpMade \in Nat
        /\ bpTotal = bpIdle + bpTaken /\ bpOpen = bpTotal + bpMade
    BY DEF BPInv, BPTypeOK, BPCounted
  <2>2. bpMade' \in Nat /\ bpOpen' = bpTotal + bpMade'
    <3>0. bpTotal \in Nat /\ bpOpen \in Nat
      BY <2>1, BPBounds
    <3>1. CASE bpOpen' = bpOpen + 1 /\ bpMade' = bpMade + 1
      BY <2>1, <3>0, <3>1
    <3>2. CASE bpOpen' = bpOpen /\ bpMade' = bpMade
      BY <2>1, <3>2
    <3>3. QED BY <1>2, <3>1, <3>2
  <2>3. QED BY <1>2, <2>1, <2>2
<1>4. QED BY <1>1, <1>2, <1>3 DEF BPInv, BPTypeOK, BPCounted, BPSteps

LEMMA BPNextInv == BPInv /\ [BPNext]_bpVars => BPInv'
<1> SUFFICES ASSUME BPInv, [BPNext]_bpVars PROVE BPInv'
  OBVIOUS
<1>0. bpCalls \in 0..BPCalls
  BY DEF BPInv, BPTypeOK
<1>1. ASSUME NEW c \in BPCallers, BPCall(c) PROVE BPInv'
  <2>1. bpCalls' \in 0..BPCalls
    BY <1>0, <1>1, BPBounds DEF BPCall
  <2>2. QED BY <1>1, <2>1, BPTakeInv, BPMakeInv DEF BPCall, BPSteps
<1>2. ASSUME NEW c \in BPCallers, BPAgain(c) PROVE BPInv'
  BY <1>0, <1>2, BPTakeInv, BPMakeInv DEF BPAgain, BPSteps
<1>3. ASSUME NEW c \in BPCallers, BPReturn(c) PROVE BPInv'
  <2>1. /\ bpCaller' \in [BPCallers -> BPSteps]
        /\ \A d \in BPCallers : bpCaller'[d] \in BPSteps
    BY <1>3, BPCallerStep DEF BPReturn, BPSteps
  <2>2. QED BY <1>3, <2>1 DEF BPInv, BPReturn, BPTypeOK, BPCounted, BPSteps
\* A round sleeps no more until it has looked, and then it has ended if the pool is closed.
<1>4. CASE BPRound
  <2>1. PICK stale \in 0..bpIdle : \E made \in 0..BPLacking(bpIdle - stale) :
          /\ bpIdle' = (bpIdle - stale) + made /\ bpTotal' = (bpTotal - stale) + made
          /\ bpOpen' = (bpOpen - stale) + made
    BY <1>4 DEF BPRound
  <2>2. PICK made \in 0..BPLacking(bpIdle - stale) :
          /\ bpIdle' = (bpIdle - stale) + made /\ bpTotal' = (bpTotal - stale) + made
          /\ bpOpen' = (bpOpen - stale) + made
    BY <2>1
  <2>3. bpIdle' \in 0..BPMin /\ bpTotal' = bpIdle' + bpTaken /\ bpOpen' = bpTotal' + bpMade
    <3>1. /\ bpIdle \in 0..BPMin /\ bpTaken \in Nat /\ bpMade \in Nat
          /\ bpTotal = bpIdle + bpTaken /\ bpOpen = bpTotal + bpMade
      BY DEF BPInv, BPTypeOK, BPCounted
    <3>2. made \in Nat /\ stale \in 0..bpIdle /\ (bpIdle - stale) + made \in 0..BPMin
      BY <2>1, <2>2, <3>1, BPBounds DEF BPLacking
    <3>3. QED BY <2>2, <3>1, <3>2, BPBounds
  <2>4. /\ bpKeeper' \in [at : {"sleeps", "looks", "ended"}, rounds : Nat] /\ bpKeeper'.at = "looks"
        /\ bpLate' = 0 \/ (bpLate' = 1 /\ bpClosed)
    <3>1. bpKeeper' \in [at : {"sleeps", "looks", "ended"}, rounds : Nat] /\ bpKeeper'.at = "looks"
      <4>1. bpKeeper' = [at |-> "looks", rounds |-> bpKeeper.rounds + 1] /\ bpKeeper.rounds \in Nat
        BY <1>4 DEF BPRound, BPInv
      <4>2. QED BY <4>1
    <3>2. bpLate = 0 /\ (bpLate' = bpLate \/ (bpLate' = bpLate + 1 /\ bpClosed))
      BY <1>4 DEF BPRound, BPInv
    <3>3. QED BY <3>1, <3>2
  <2>5. QED BY <1>4, <2>3, <2>4 DEF BPRound, BPInv, BPTypeOK, BPCounted, BPSteps
<1>5. CASE BPLook
  <2>1. /\ bpKeeper' \in [at : {"sleeps", "looks", "ended"}, rounds : Nat]
        /\ bpClosed => bpKeeper'.at = "ended"
    BY <1>5 DEF BPLook, BPInv, BPGoesOn
  <2>2. QED BY <1>5, <2>1 DEF BPLook, BPInv, BPTypeOK, BPCounted, BPSteps
<1>6. CASE BPClose
  <2>1. /\ bpIdle \in 0..BPMin /\ bpTaken \in Nat /\ bpMade \in Nat
        /\ bpTotal = bpIdle + bpTaken /\ bpOpen = bpTotal + bpMade
    BY DEF BPInv, BPTypeOK, BPCounted
  <2>2. bpIdle' = 0 /\ bpTotal' = bpTotal - bpIdle /\ bpOpen' = bpOpen - bpIdle /\ bpClosed' = TRUE
        /\ UNCHANGED <<bpCaller, bpCalls, bpKeeper, bpTaken, bpMade, bpLate>>
    BY <1>6 DEF BPClose
  <2>3. bpIdle' \in 0..BPMin /\ bpTotal' = bpIdle' + bpTaken' /\ bpOpen' = bpTotal' + bpMade'
    BY <2>1, <2>2, BPBounds
  <2>4. QED BY <2>2, <2>3 DEF BPInv, BPTypeOK, BPCounted, BPSteps
<1>7. CASE UNCHANGED bpVars
  BY <1>7 DEF bpVars, BPInv, BPTypeOK, BPCounted, BPSteps
<1>8. QED BY <1>1, <1>2, <1>3, <1>4, <1>5, <1>6, <1>7 DEF BPNext

-----------------------------------------------------------------------------
(* Consumers of changes, EventStreams: each event of interest is at or     *)
(* before a position that was reached by callbacks, or among those the     *)
(* consumer's one thread carries.                                          *)

CDConsumerRecords(events) ==
  [tables : SUBSET CDTables, latest : BOOLEAN, pos : 0..events, running : BOOLEAN]

CDThreadRecords(consumers, events) ==
  [of : 0..consumers, todo : Seq(1..events), called : BOOLEAN]

\* What a thread has polled is a run of events, and a consumer's callback has had everything
\* before the run, and its first event once it was called.
CDRun(todo) == \A i \in 1..Len(todo) : todo[i] = todo[1] + i - 1

CDHad(c, n) == CDWanted(c, n) => n \in cdSeen[c]

CDCarries(t) ==
  LET c == cdThreads[t].of
      todo == cdThreads[t].todo
  IN  /\ CDRun(todo) /\ (cdThreads[t].called => todo # <<>>)
      /\ c # 0 /\ todo # <<>> /\ ~cdConsumers[c].latest =>
           \A n \in 1..Len(cdLog) : n < todo[1] \/ (n = todo[1] /\ cdThreads[t].called) => CDHad(c, n)

CDReaches(c) ==
  ~cdConsumers[c].latest => \A n \in 1..cdConsumers[c].pos : CDHad(c, n)

CDInv ==
  /\ cdLog \in Seq(CDTables)
  /\ cdConsumers \in Seq(CDConsumerRecords(Len(cdLog)))
  /\ cdThreads \in Seq(CDThreadRecords(Len(cdConsumers), Len(cdLog)))
  /\ cdSeen \in Seq(SUBSET (1..Len(cdLog))) /\ Len(cdSeen) = Len(cdConsumers)
  /\ cdTwin \subseteq 1..Len(cdConsumers)
  /\ \A t \in 1..Len(cdThreads) : CDCarries(t)
  /\ \A c \in 1..Len(cdConsumers) : CDReaches(c)

LEMMA CDInvTypes == CDInv => CDTypeOK /\ CDDelivered
<1> SUFFICES ASSUME CDInv PROVE CDTypeOK /\ CDDelivered
  OBVIOUS
<1>1. DOMAIN cdLog = 1..Len(cdLog) /\ DOMAIN cdConsumers = 1..Len(cdConsumers)
  BY DEF CDInv
<1>2. CDTypeOK
  BY <1>1 DEF CDInv, CDTypeOK, CDConsumerRecords, CDThreadRecords
<1>3. CDDelivered
  BY <1>1 DEF CDInv, CDDelivered, CDReaches, CDHad
<1>4. QED BY <1>2, <1>3

LEMMA CDInitInv == CDInit => CDInv
BY DEF CDInit, CDInv

\* More events, and more consumers, are still of the types.
LEMMA CDMore ==
  ASSUME NEW m \in Nat, NEW n \in Nat, NEW j \in Nat, NEW k \in Nat, m <= n, j <= k
  PROVE  /\ CDConsumerRecords(m) \subseteq CDConsumerRecords(n)
         /\ CDThreadRecords(j, m) \subseteq CDThreadRecords(k, n)
         /\ SUBSET (1..m) \subseteq SUBSET (1..n)
         /\ 1..j \subseteq 1..k
<1>1. 0..m \subseteq 0..n /\ 1..m \subseteq 1..n /\ 0..j \subseteq 0..k /\ 1..j \subseteq 1..k
  OBVIOUS
<1>2. Seq(1..m) \subseteq Seq(1..n)
  BY <1>1
<1>3. QED BY <1>1, <1>2 DEF CDConsumerRecords, CDThreadRecords

LEMMA SeqMore ==
  ASSUME NEW S, NEW T, S \subseteq T
  PROVE  Seq(S) \subseteq Seq(T)
OBVIOUS

LEMMA CDAppendInv ==
  ASSUME CDInv, NEW table \in CDTables, CDAppend(table)
  PROVE  CDInv'
<1>1. /\ cdLog' \in Seq(CDTables) /\ Len(cdLog') = Len(cdLog) + 1 /\ Len(cdLog) \in Nat
      /\ \A n \in 1..Len(cdLog) : cdLog'[n] = cdLog[n]
  BY DEF CDInv, CDAppend
<1>2. UNCHANGED <<cdConsumers, cdThreads, cdSeen, cdTwin>> /\ Len(cdConsumers) \in Nat
  BY DEF CDAppend, CDInv
<1>3. /\ CDConsumerRecords(Len(cdLog)) \subseteq CDConsumerRecords(Len(cdLog)')
      /\ CDThreadRecords(Len(cdConsumers), Len(cdLog)) \subseteq CDThreadRecords(Len(cdConsumers), Len(cdLog)')
      /\ SUBSET (1..Len(cdLog)) \subseteq SUBSET (1..Len(cdLog)')
  BY <1>1, <1>2, CDMore
<1>4. /\ cdConsumers' \in Seq(CDConsumerRecords(Len(cdLog)'))
      /\ cdThreads' \in Seq(CDThreadRecords(Len(cdConsumers)', Len(cdLog)'))
      /\ cdSeen' \in Seq(SUBSET (1..Len(cdLog)'))
  BY <1>2, <1>3, SeqMore DEF CDInv
<1>5. ASSUME NEW c \in 1..Len(cdConsumers), NEW n \in 1..Len(cdLog), CDHad(c, n) PROVE CDHad(c, n)'
  BY <1>1, <1>2, <1>5 DEF CDHad, CDWanted
<1>6. ASSUME NEW t \in 1..Len(cdThreads) PROVE CDCarries(t)'
  <2>1. cdThreads[t] \in CDThreadRecords(Len(cdConsumers), Len(cdLog)) /\ CDCarries(t)
    BY DEF CDInv
  <2>2. cdThreads[t].of \in 0..Len(cdConsumers) /\ cdThreads[t].todo \in Seq(1..Len(cdLog))
    BY <2>1 DEF CDThreadRecords
  <2>3. ASSUME cdThreads[t].of # 0, cdThreads[t].todo # <<>>, ~cdConsumers[cdThreads[t].of].latest,
               NEW n \in 1..Len(cdLog)',
               n < cdThreads[t].todo[1] \/ (n = cdThreads[t].todo[1] /\ cdThreads[t].called)
        PROVE  CDHad(cdThreads[t].of, n)'
    <3>1. cdThreads[t].todo[1] \in 1..Len(cdLog)
      BY <2>2, <2>3
    <3>2. n \in 1..Len(cdLog)
      BY <1>1, <2>3, <3>1
    <3>3. cdThreads[t].of \in 1..Len(cdConsumers)
      BY <1>2, <2>2, <2>3
    <3>4. CDHad(cdThreads[t].of, n)
      BY <2>1, <2>3, <3>2 DEF CDCarries
    <3>5. QED BY <1>2, <1>5, <3>2, <3>3, <3>4
  <2>4. QED BY <1>2, <2>1, <2>3 DEF CDCarries
<1>7. ASSUME NEW c \in 1..Len(cdConsumers) PROVE CDReaches(c)'
  <2>1. cdConsumers[c] \in CDConsumerRecords(Len(cdLog)) /\ CDReaches(c)
    BY DEF CDInv
  <2>2. cdConsumers[c].pos \in 0..Len(cdLog)
    BY <2>1 DEF CDConsumerRecords
  <2>3. QED BY <1>1, <1>2, <1>5, <2>1, <2>2 DEF CDReaches
<1>8. QED BY <1>1, <1>2, <1>4, <1>6, <1>7 DEF CDInv

LEMMA CDCreateInv ==
  ASSUME CDInv, NEW tables \in SUBSET CDTables, NEW latest \in BOOLEAN, CDCreate(tables, latest)
  PROVE  CDInv'
<1> DEFINE r == [tables |-> tables, latest |-> latest, running |-> FALSE,
                 pos |-> IF latest THEN Len(cdLog) ELSE 0]
           m == Len(cdConsumers)
<1>1. /\ cdConsumers' = Append(cdConsumers, r) /\ cdSeen' = Append(cdSeen, {})
      /\ UNCHANGED <<cdLog, cdThreads, cdTwin>> /\ m \in Nat /\ Len(cdLog) \in Nat
  BY DEF CDCreate, CDInv
<1>2. r \in CDConsumerRecords(Len(cdLog)) /\ r.latest = latest /\ r.pos = IF latest THEN Len(cdLog) ELSE 0
  BY <1>1 DEF CDConsumerRecords
<1> HIDE DEF r
<1>3. /\ cdConsumers' \in Seq(CDConsumerRecords(Len(cdLog))) /\ Len(cdConsumers') = m + 1
      /\ cdSeen' \in Seq(SUBSET (1..Len(cdLog))) /\ Len(cdSeen') = m + 1
      /\ \A c \in 1..m : cdConsumers'[c] = cdConsumers[c] /\ cdSeen'[c] = cdSeen[c]
      /\ cdConsumers'[m + 1] = r
  BY <1>1, <1>2 DEF CDInv
<1>4. CDThreadRecords(m, Len(cdLog)) \subseteq CDThreadRecords(m + 1, Len(cdLog)) /\ 1..m \subseteq 1..(m + 1)
  BY <1>1, CDMore
<1>5. cdThreads \in Seq(CDThreadRecords(m + 1, Len(cdLog)))
  BY <1>4, SeqMore DEF CDInv
<1>6. ASSUME NEW c \in 1..m, NEW n, CDHad(c, n) PROVE CDHad(c, n)'
  BY <1>1, <1>3, <1>6 DEF CDHad, CDWanted
<1>7. ASSUME NEW t \in 1..Len(cdThreads) PROVE CDCarries(t)'
  <2>1. cdThreads[t] \in CDThreadRecords(m, Len(cdLog)) /\ CDCarries(t)
    BY DEF CDInv
  <2>2. cdThreads[t].of # 0 => cdThreads[t].of \in 1..m
    BY <1>1, <2>1 DEF CDThreadRecords
  <2>3. QED BY <1>1, <1>3, <1>6, <2>1, <2>2 DEF CDCarries
<1>8. ASSUME NEW c \in 1..(m + 1) PROVE CDReaches(c)'
  <2>1. CASE c \in 1..m
    BY <1>1, <1>3, <1>6, <2>1 DEF CDReaches, CDInv
  <2>2. CASE c = m + 1
    BY <1>2, <1>3, <2>2 DEF CDReaches
  <2>3. QED BY <1>1, <2>1, <2>2
<1>9. QED BY <1>1, <1>3, <1>4, <1>5, <1>7, <1>8 DEF CDInv

\* start, stop: only whether the consumer runs.
LEMMA CDRunningIs ==
  ASSUME CDInv, NEW c \in DOMAIN cdConsumers, NEW on \in BOOLEAN,
         cdConsumers' = [cdConsumers EXCEPT ![c].running = on], UNCHANGED <<cdLog, cdSeen>>
  PROVE  /\ cdConsumers' \in Seq(CDConsumerRecords(Len(cdLog))) /\ Len(cdConsumers') = Len(cdConsumers)
         /\ \A d \in 1..Len(cdConsumers) : CDReaches(d)'
         /\ \A t \in 1..Len(cdThreads) : cdThreads'[t] = cdThreads[t] => CDCarries(t)'
<1>1. cdConsumers \in Seq(CDConsumerRecords(Len(cdLog))) /\ DOMAIN cdConsumers = 1..Len(cdConsumers)
      /\ Len(cdConsumers) \in Nat
  BY DEF CDInv
<1>2. /\ cdConsumers[c] \in CDConsumerRecords(Len(cdLog))
      /\ [cdConsumers[c] EXCEPT !.running = on] \in CDConsumerRecords(Len(cdLog))
      /\ [cdConsumers[c] EXCEPT !.running = on].tables = cdConsumers[c].tables
      /\ [cdConsumers[c] EXCEPT !.running = on].latest = cdConsumers[c].latest
      /\ [cdConsumers[c] EXCEPT !.running = on].pos = cdConsumers[c].pos
  <2>1. cdConsumers[c] \in CDConsumerRecords(Len(cdLog))
    BY <1>1
  <2>2. QED BY <2>1 DEF CDConsumerRecords
<1>3. cdConsumers' = [cdConsumers EXCEPT ![c] = [cdConsumers[c] EXCEPT !.running = on]]
  OBVIOUS
<1>4. cdConsumers' \in Seq(CDConsumerRecords(Len(cdLog))) /\ Len(cdConsumers') = Len(cdConsumers)
  BY <1>1, <1>2, <1>3
<1>5. \A d \in 1..Len(cdConsumers) : /\ cdConsumers'[d].tables = cdConsumers[d].tables
                                     /\ cdConsumers'[d].latest = cdConsumers[d].latest
                                     /\ cdConsumers'[d].pos = cdConsumers[d].pos
  BY <1>1, <1>2, <1>3
<1>6. \A d \in 1..Len(cdConsumers), n \in 1..Len(cdLog) : CDHad(d, n) => CDHad(d, n)'
  BY <1>5 DEF CDHad, CDWanted
<1>7. ASSUME NEW d \in 1..Len(cdConsumers) PROVE CDReaches(d)'
  <2>1. CDReaches(d) /\ cdConsumers[d].pos \in 0..Len(cdLog)
    <3>1. cdConsumers[d] \in CDConsumerRecords(Len(cdLog))
      BY <1>1
    <3>2. QED BY <3>1 DEF CDInv, CDConsumerRecords
  <2>2. QED BY <1>5, <1>6, <2>1 DEF CDReaches
<1>8. ASSUME NEW t \in 1..Len(cdThreads), cdThreads'[t] = cdThreads[t] PROVE CDCarries(t)'
  <2>1. cdThreads[t] \in CDThreadRecords(Len(cdConsumers), Len(cdLog)) /\ CDCarries(t)
    BY DEF CDInv
  <2>2. cdThreads[t].of # 0 => cdThreads[t].of \in 1..Len(cdConsumers)
    BY <1>1, <2>1 DEF CDThreadRecords
  <2>3. QED BY <1>5, <1>6, <1>8, <2>1, <2>2 DEF CDCarries
<1>9. QED BY <1>4, <1>7, <1>8

LEMMA CDStartInv ==
  ASSUME CDInv, NEW c \in DOMAIN cdConsumers, CDStart(c)
  PROVE  CDInv'
<1> DEFINE r == [of |-> c, todo |-> <<>>, called |-> FALSE]
           m == Len(cdThreads)
<1>1. /\ cdConsumers' = [cdConsumers EXCEPT ![c].running = TRUE] /\ cdThreads' = Append(cdThreads, r)
      /\ UNCHANGED <<cdLog, cdSeen>> /\ cdTwin' \subseteq cdTwin \cup {c}
      /\ m \in Nat /\ c \in 1..Len(cdConsumers)
  BY DEF CDStart, CDInv
<1>2. /\ cdConsumers' \in Seq(CDConsumerRecords(Len(cdLog))) /\ Len(cdConsumers') = Len(cdConsumers)
      /\ \A d \in 1..Len(cdConsumers) : CDReaches(d)'
      /\ \A t \in 1..Len(cdThreads) : cdThreads'[t] = cdThreads[t] => CDCarries(t)'
  BY <1>1, CDRunningIs
<1>3. r \in CDThreadRecords(Len(cdConsumers), Len(cdLog)) /\ r.todo = <<>> /\ ~r.called
  BY <1>1 DEF CDThreadRecords
<1> HIDE DEF r
<1>4. /\ cdThreads' \in Seq(CDThreadRecords(Len(cdConsumers), Len(cdLog))) /\ Len(cdThreads') = m + 1
      /\ \A t \in 1..m : cdThreads'[t] = cdThreads[t]
      /\ cdThreads'[m + 1] = r
  BY <1>1, <1>3 DEF CDInv
<1>5. ASSUME NEW t \in 1..(m + 1), t = m + 1 PROVE CDCarries(t)'
  <2>1. cdThreads'[t].todo = <<>> /\ ~cdThreads'[t].called
    BY <1>3, <1>4, <1>5
  <2>2. QED BY <2>1 DEF CDCarries, CDRun
<1>6. \A t \in 1..(m + 1) : CDCarries(t)'
  BY <1>1, <1>2, <1>4, <1>5
<1>7. QED BY <1>1, <1>2, <1>4, <1>6 DEF CDInv

LEMMA CDStopInv ==
  ASSUME CDInv, NEW c \in DOMAIN cdConsumers, CDStartRaises(c) \/ CDStop(c)
  PROVE  CDInv'
<1>1. /\ \E on \in BOOLEAN : cdConsumers' = [cdConsumers EXCEPT ![c].running = on]
      /\ UNCHANGED <<cdLog, cdThreads, cdSeen, cdTwin>>
  BY DEF CDStartRaises, CDStop
<1>2. /\ cdConsumers' \in Seq(CDConsumerRecords(Len(cdLog))) /\ Len(cdConsumers') = Len(cdConsumers)
      /\ \A d \in 1..Len(cdConsumers) : CDReaches(d)'
      /\ \A t \in 1..Len(cdThreads) : CDCarries(t)'
  BY <1>1, CDRunningIs
<1>3. QED BY <1>1, <1>2 DEF CDInv

\* What get_events returns is the run that follows the position.
LEMMA CDPolledIs ==
  ASSUME CDInv, NEW c \in 1..Len(cdConsumers)
  PROVE  /\ CDPolled(c) \in Seq(1..Len(cdLog)) /\ CDRun(CDPolled(c))
         /\ CDPolled(c) # <<>> => CDPolled(c)[1] = cdConsumers[c].pos + 1
<1> DEFINE all == [n \in DOMAIN cdLog |-> n]
           from == cdConsumers[c].pos + 1
           to == IF from + CDLimit - 1 < Len(cdLog) THEN from + CDLimit - 1 ELSE Len(cdLog)
<1>1. cdConsumers[c] \in CDConsumerRecords(Len(cdLog)) /\ DOMAIN cdLog = 1..Len(cdLog) /\ Len(cdLog) \in Nat
  BY DEF CDInv
<1>2. from \in 1..(Len(cdLog) + 1) /\ CDLimit \in Nat /\ CDLimit > 0
  BY <1>1, CDAssumption DEF CDConsumerRecords, CDAssumption
<1>3. to \in Nat /\ to <= Len(cdLog)
  BY <1>1, <1>2
<1>4. all \in Seq(1..Len(cdLog)) /\ Len(all) = Len(cdLog) /\ \A i \in 1..Len(cdLog) : all[i] = i
  BY <1>1
<1>5. CDPolled(c) = SubSeq(all, from, to)
  BY DEF CDPolled
<1> HIDE DEF all, from, to
<1>6. /\ SubSeq(all, from, to) \in Seq(1..Len(cdLog))
      /\ Len(SubSeq(all, from, to)) = IF from <= to THEN to - from + 1 ELSE 0
      /\ \A i \in 1..(to - from + 1) : SubSeq(all, from, to)[i] = all[from + i - 1]
  <2>1. ASSUME NEW i \in from..to PROVE all[i] \in 1..Len(cdLog)
    <3>1. i \in 1..Len(cdLog)
      BY <1>1, <1>2, <1>3, <2>1
    <3>2. QED BY <1>4, <3>1
  <2>2. from \in Int /\ to \in Int
    BY <1>1, <1>2, <1>3
  <2>3. QED BY <2>1, <2>2, SubSeqProperties
<1>7. \A i \in 1..Len(CDPolled(c)) : CDPolled(c)[i] = from + i - 1
  <2>1. ASSUME NEW i \in 1..Len(CDPolled(c)) PROVE CDPolled(c)[i] = from + i - 1
    <3>1. i \in 1..(to - from + 1) /\ from + i - 1 \in 1..Len(cdLog)
      BY <1>1, <1>2, <1>3, <1>5, <1>6, <2>1
    <3>2. QED BY <1>4, <1>5, <1>6, <3>1
  <2>2. QED BY <2>1
<1>8. CDPolled(c) # <<>> => Len(CDPolled(c)) >= 1
  BY <1>5, <1>6
<1>9. CDRun(CDPolled(c))
  BY <1>2, <1>5, <1>6, <1>7 DEF CDRun
<1>10. CDPolled(c) # <<>> => CDPolled(c)[1] = from
  BY <1>2, <1>5, <1>6, <1>7, <1>8
<1>11. QED BY <1>5, <1>6, <1>9, <1>10 DEF from

\* A thread is left as it is, of a consumer that is left as it is.
LEMMA CDOthers ==
  ASSUME CDInv, NEW t \in 1..Len(cdThreads), cdThreads'[t] = cdThreads[t], cdLog' = cdLog,
         \A c \in 1..Len(cdConsumers) : /\ cdConsumers'[c].tables = cdConsumers[c].tables
                                        /\ cdConsumers'[c].latest = cdConsumers[c].latest
                                        /\ cdSeen[c] \subseteq cdSeen'[c]
  PROVE  CDCarries(t)'
<1>1. cdThreads[t] \in CDThreadRecords(Len(cdConsumers), Len(cdLog)) /\ CDCarries(t)
  BY DEF CDInv
<1>2. cdThreads[t].of # 0 => cdThreads[t].of \in 1..Len(cdConsumers)
  BY <1>1 DEF CDThreadRecords, CDInv
<1>3. \A c \in 1..Len(cdConsumers), n \in 1..Len(cdLog) : CDHad(c, n) => CDHad(c, n)'
  BY DEF CDHad, CDWanted
<1>4. QED BY <1>1, <1>2, <1>3 DEF CDCarries

LEMMA CDThreadIs ==
  ASSUME CDInv, NEW t \in DOMAIN cdThreads, NEW r \in CDThreadRecords(Len(cdConsumers), Len(cdLog)),
         cdThreads' = [cdThreads EXCEPT ![t] = r]
  PROVE  /\ cdThreads' \in Seq(CDThreadRecords(Len(cdConsumers), Len(cdLog)))
         /\ Len(cdThreads') = Len(cdThreads) /\ t \in 1..Len(cdThreads)
         /\ cdThreads'[t] = r /\ \A u \in 1..Len(cdThreads) : u # t => cdThreads'[u] = cdThreads[u]
         /\ cdThreads[t] \in CDThreadRecords(Len(cdConsumers), Len(cdLog)) /\ CDCarries(t)
BY DEF CDInv

LEMMA CDEndedIs ==
  CDInv => CDEnded \in CDThreadRecords(Len(cdConsumers), Len(cdLog)) /\ CDEnded.of = 0
             /\ CDEnded.todo = <<>> /\ ~CDEnded.called
BY DEF CDEnded, CDThreadRecords, CDInv

LEMMA CDEndInv ==
  ASSUME CDInv, NEW t \in DOMAIN cdThreads, cdThreads' = [cdThreads EXCEPT ![t] = CDEnded],
         UNCHANGED <<cdLog, cdConsumers, cdSeen, cdTwin>>
  PROVE  CDInv'
<1>1. /\ cdThreads' \in Seq(CDThreadRecords(Len(cdConsumers), Len(cdLog)))
      /\ Len(cdThreads') = Len(cdThreads) /\ t \in 1..Len(cdThreads)
      /\ cdThreads'[t] = CDEnded /\ \A u \in 1..Len(cdThreads) : u # t => cdThreads'[u] = cdThreads[u]
  BY CDEndedIs, CDThreadIs
<1>2. CDCarries(t)'
  BY <1>1, CDEndedIs DEF CDCarries, CDRun
<1>3. \A u \in 1..Len(cdThreads) : CDCarries(u)'
  BY <1>1, <1>2, CDOthers
<1>4. \A c \in 1..Len(cdConsumers) : CDReaches(c)'
  BY DEF CDInv, CDReaches, CDHad, CDWanted
<1>5. QED BY <1>1, <1>3, <1>4 DEF CDInv

LEMMA CDPollInv ==
  ASSUME CDInv, NEW t \in DOMAIN cdThreads, CDPoll(t)
  PROVE  CDInv'
<1> DEFINE c == cdThreads[t].of
           r == [cdThreads[t] EXCEPT !.todo = CDPolled(c)]
<1>0. cdThreads[t] \in CDThreadRecords(Len(cdConsumers), Len(cdLog)) /\ CDCarries(t)
  BY DEF CDInv
<1>1. c \in 1..Len(cdConsumers) /\ cdThreads[t].todo = <<>> /\ ~cdThreads[t].called
  BY <1>0 DEF CDPoll, CDThreadRecords, CDCarries, CDInv
<1>2. CASE cdThreads' = [cdThreads EXCEPT ![t] = CDEnded] /\ UNCHANGED <<cdLog, cdConsumers, cdSeen, cdTwin>>
  BY <1>2, CDEndInv
<1>3. CASE cdThreads' = [cdThreads EXCEPT ![t].todo = CDPolled(c)] /\ UNCHANGED <<cdLog, cdConsumers, cdSeen, cdTwin>>
  <2>1. /\ r \in CDThreadRecords(Len(cdConsumers), Len(cdLog)) /\ r.todo = CDPolled(c) /\ r.of = c
        /\ ~r.called
    BY <1>0, <1>1, CDPolledIs DEF CDThreadRecords
  <2>2. cdThreads' = [cdThreads EXCEPT ![t] = r]
    BY <1>3
  <2> HIDE DEF r
  <2>3. /\ cdThreads' \in Seq(CDThreadRecords(Len(cdConsumers), Len(cdLog)))
        /\ Len(cdThreads') = Len(cdThreads) /\ t \in 1..Len(cdThreads)
        /\ cdThreads'[t] = r /\ \A u \in 1..Len(cdThreads) : u # t => cdThreads'[u] = cdThreads[u]
    BY <2>1, <2>2, CDThreadIs
  <2>4. CDReaches(c) /\ cdConsumers[c].pos \in 0..Len(cdLog)
    <3>1. CDReaches(c) /\ cdConsumers[c] \in CDConsumerRecords(Len(cdLog))
      BY <1>1 DEF CDInv
    <3>2. QED BY <3>1 DEF CDConsumerRecords
  <2>5. ASSUME r.todo # <<>>, ~cdConsumers[c].latest, NEW n \in 1..Len(cdLog), n < r.todo[1]
        PROVE  CDHad(c, n)
    <3>1. r.todo[1] = cdConsumers[c].pos + 1
      BY <1>1, <2>1, <2>5, CDPolledIs
    <3>2. n \in 1..cdConsumers[c].pos
      BY <2>4, <2>5, <3>1
    <3>3. QED BY <2>4, <2>5, <3>2 DEF CDReaches
  <2>6. \A d, n : CDHad(d, n)' <=> CDHad(d, n)
    BY <1>3 DEF CDHad, CDWanted
  <2>7. CDRun(r.todo)
    BY <1>1, <2>1, CDPolledIs
  <2>8. CDCarries(t)'
    BY <1>3, <2>1, <2>3, <2>5, <2>6, <2>7 DEF CDCarries
  <2>9. \A u \in 1..Len(cdThreads) : CDCarries(u)'
    BY <1>3, <2>3, <2>8, CDOthers
  <2>10. \A d \in 1..Len(cdConsumers) : CDReaches(d)'
    BY <1>3, <2>6 DEF CDInv, CDReaches
  <2>11. QED BY <1>3, <2>3, <2>9, <2>10 DEF CDInv
<1>4. QED BY <1>2, <1>3 DEF CDPoll

LEMMA CDCallInv ==
  ASSUME CDInv, NEW t \in DOMAIN cdThreads, NEW raises, CDCall(t, raises)
  PROVE  CDInv'
<1> DEFINE c == cdThreads[t].of
           todo == cdThreads[t].todo
           r == [cdThreads[t] EXCEPT !.called = TRUE]
<1>0. cdThreads[t] \in CDThreadRecords(Len(cdConsumers), Len(cdLog)) /\ CDCarries(t)
  BY DEF CDInv
<1>1. c \in 1..Len(cdConsumers) /\ todo # <<>> /\ Head(todo) = todo[1] /\ todo[1] \in 1..Len(cdLog)
  <2>1. c # 0 /\ todo # <<>>
    BY DEF CDCall
  <2>2. c \in 0..Len(cdConsumers) /\ todo \in Seq(1..Len(cdLog))
    BY <1>0 DEF CDThreadRecords
  <2>3. Len(todo) \in Nat \ {0}
    BY <2>1, <2>2, EmptySeq
  <2>4. Len(cdConsumers) \in Nat
    BY LenProperties DEF CDInv
  <2> HIDE DEF c, todo
  <2>5. c \in 1..Len(cdConsumers)
    BY <2>1, <2>2, <2>4
  <2>6. Head(todo) = todo[1] /\ todo[1] \in 1..Len(cdLog)
    BY <2>1, <2>2, <2>3, ElementOfSeq
  <2>7. QED BY <2>1, <2>5, <2>6 DEF c, todo
<1>2. CASE cdThreads' = [cdThreads EXCEPT ![t] = CDEnded] /\ UNCHANGED cdSeen
  BY <1>2, CDEndInv DEF CDCall
<1>3. CASE /\ cdThreads' = [cdThreads EXCEPT ![t].called = TRUE]
           /\ cdSeen' = IF CDWanted(c, Head(todo)) THEN [cdSeen EXCEPT ![c] = @ \cup {Head(todo)}] ELSE cdSeen
  <2>0. UNCHANGED <<cdLog, cdConsumers, cdTwin>>
    BY DEF CDCall
  <2>1. /\ r \in CDThreadRecords(Len(cdConsumers), Len(cdLog)) /\ r.todo = todo /\ r.of = c /\ r.called
    BY <1>0 DEF CDThreadRecords
  <2>2. cdThreads' = [cdThreads EXCEPT ![t] = r]
    BY <1>3
  <2> HIDE DEF r
  <2>3. /\ cdThreads' \in Seq(CDThreadRecords(Len(cdConsumers), Len(cdLog)))
        /\ Len(cdThreads') = Len(cdThreads) /\ t \in 1..Len(cdThreads)
        /\ cdThreads'[t] = r /\ \A u \in 1..Len(cdThreads) : u # t => cdThreads'[u] = cdThreads[u]
    BY <2>1, <2>2, CDThreadIs
  <2>4. /\ cdSeen' \in Seq(SUBSET (1..Len(cdLog))) /\ Len(cdSeen') = Len(cdSeen)
        /\ \A d \in 1..Len(cdConsumers) : cdSeen[d] \subseteq cdSeen'[d]
        /\ CDWanted(c, todo[1]) => todo[1] \in cdSeen'[c]
    <3>1. cdSeen \in Seq(SUBSET (1..Len(cdLog))) /\ Len(cdSeen) = Len(cdConsumers)
      BY DEF CDInv
    <3>2. cdSeen[c] \cup {todo[1]} \in SUBSET (1..Len(cdLog))
      BY <1>1, <3>1
    <3>3. CASE CDWanted(c, todo[1])
      <4>1. cdSeen' = [cdSeen EXCEPT ![c] = cdSeen[c] \cup {todo[1]}]
        BY <1>1, <1>3, <3>3
      <4>2. QED BY <1>1, <3>1, <3>2, <4>1
    <3>4. CASE ~CDWanted(c, todo[1])
      BY <1>1, <1>3, <3>1, <3>4
    <3>5. QED BY <3>3, <3>4
  <2>5. \A d \in 1..Len(cdConsumers), n \in 1..Len(cdLog) : CDHad(d, n) => CDHad(d, n)'
    BY <2>0, <2>4 DEF CDHad, CDWanted
  <2>6. CDHad(c, todo[1])'
    <3>1. c' = c /\ todo' = todo
      BY <2>1, <2>3
    <3>2. QED BY <2>0, <2>4, <3>1 DEF CDHad, CDWanted
  <2>7. CDCarries(t)'
    <3>1. CDRun(todo)
      BY <1>0 DEF CDCarries
    <3>2. ASSUME ~cdConsumers[c].latest, NEW n \in 1..Len(cdLog), n < todo[1] PROVE CDHad(c, n)
      BY <1>0, <1>1, <3>2 DEF CDCarries
    <3>3. QED BY <1>1, <2>0, <2>1, <2>3, <2>5, <2>6, <3>1, <3>2 DEF CDCarries
  <2>8. \A u \in 1..Len(cdThreads) : CDCarries(u)'
    BY <2>0, <2>3, <2>4, <2>7, CDOthers
  <2>9. \A d \in 1..Len(cdConsumers) : CDReaches(d)'
    <3>1. ASSUME NEW d \in 1..Len(cdConsumers) PROVE CDReaches(d)'
      <4>1. CDReaches(d) /\ cdConsumers[d] \in CDConsumerRecords(Len(cdLog))
        BY DEF CDInv
      <4>2. cdConsumers[d].pos \in 0..Len(cdLog)
        BY <4>1 DEF CDConsumerRecords
      <4>3. QED BY <2>0, <2>5, <4>1, <4>2 DEF CDReaches
    <3>2. QED BY <3>1
  <2>10. QED BY <2>0, <2>3, <2>4, <2>8, <2>9 DEF CDInv
<1>4. QED BY <1>2, <1>3 DEF CDCall

LEMMA CDAdvanceInv ==
  ASSUME CDInv, NEW t \in DOMAIN cdThreads, CDAdvance(t)
  PROVE  CDInv'
<1> DEFINE c == cdThreads[t].of
           todo == cdThreads[t].todo
           r == [cdThreads[t] EXCEPT !.todo = Tail(@), !.called = FALSE]
           s == [cdConsumers[c] EXCEPT !.pos = todo[1]]
<1>0. cdThreads[t] \in CDThreadRecords(Len(cdConsumers), Len(cdLog)) /\ CDCarries(t)
  BY DEF CDInv
<1>1. c \in 1..Len(cdConsumers) /\ cdThreads[t].called /\ todo # <<>>
  BY <1>0 DEF CDAdvance, CDHandled, CDThreadRecords, CDInv, CDCarries
<1>2. Head(todo) = todo[1] /\ todo[1] \in 1..Len(cdLog) /\ todo \in Seq(1..Len(cdLog))
  BY <1>0, <1>1 DEF CDThreadRecords
<1>3. /\ cdConsumers' = [cdConsumers EXCEPT ![c] = s] /\ cdThreads' = [cdThreads EXCEPT ![t] = r]
      /\ UNCHANGED <<cdLog, cdSeen, cdTwin>>
  BY <1>2 DEF CDAdvance, CDReached
<1>4. /\ r \in CDThreadRecords(Len(cdConsumers), Len(cdLog)) /\ r.todo = Tail(todo) /\ r.of = c /\ ~r.called
  <2>1. Tail(todo) \in Seq(1..Len(cdLog))
    BY <1>1, <1>2, HeadTailProperties, Zenon
  <2>2. QED BY <1>0, <2>1 DEF CDThreadRecords
<1>5. /\ s \in CDConsumerRecords(Len(cdLog)) /\ s.tables = cdConsumers[c].tables
      /\ s.latest = cdConsumers[c].latest /\ s.pos = todo[1]
  <2>1. cdConsumers[c] \in CDConsumerRecords(Len(cdLog)) /\ Len(cdLog) \in Nat
    BY <1>1 DEF CDInv
  <2>2. QED BY <1>2, <2>1 DEF CDConsumerRecords
<1> HIDE DEF r, s
<1>6. /\ cdThreads' \in Seq(CDThreadRecords(Len(cdConsumers), Len(cdLog)))
      /\ Len(cdThreads') = Len(cdThreads) /\ t \in 1..Len(cdThreads)
      /\ cdThreads'[t] = r /\ \A u \in 1..Len(cdThreads) : u # t => cdThreads'[u] = cdThreads[u]
  BY <1>3, <1>4, CDThreadIs
<1>7. /\ cdConsumers' \in Seq(CDConsumerRecords(Len(cdLog))) /\ Len(cdConsumers') = Len(cdConsumers)
      /\ cdConsumers'[c] = s /\ \A d \in 1..Len(cdConsumers) : d # c => cdConsumers'[d] = cdConsumers[d]
  BY <1>1, <1>3, <1>5 DEF CDInv
<1>8. \A d \in 1..Len(cdConsumers) : /\ cdConsumers'[d].tables = cdConsumers[d].tables
                                     /\ cdConsumers'[d].latest = cdConsumers[d].latest
  BY <1>5, <1>7
<1>9. \A d \in 1..Len(cdConsumers), n \in 1..Len(cdLog) : CDHad(d, n) => CDHad(d, n)'
  BY <1>3, <1>8 DEF CDHad, CDWanted
<1>10. ASSUME ~cdConsumers[c].latest, NEW n \in 1..Len(cdLog), n <= todo[1] PROVE CDHad(c, n)
  <2>1. n < todo[1] \/ n = todo[1]
    BY <1>2, <1>10
  <2>2. QED BY <1>0, <1>1, <1>10, <2>1 DEF CDCarries
<1>11. CDCarries(t)'
  <2>1. CDRun(todo) /\ Len(Tail(todo)) = Len(todo) - 1 /\ Len(todo) \in Nat
        /\ \A i \in 1..Len(Tail(todo)) : Tail(todo)[i] = todo[i + 1]
    BY <1>0, <1>1, <1>2 DEF CDCarries
  <2>2. \A i \in 1..Len(Tail(todo)) : Tail(todo)[i] = todo[1] + i
    <3>1. ASSUME NEW i \in 1..Len(Tail(todo)) PROVE Tail(todo)[i] = todo[1] + i
      <4>1. i + 1 \in 1..Len(todo) /\ Tail(todo)[i] = todo[i + 1]
        BY <2>1, <3>1
      <4>2. todo[i + 1] = todo[1] + (i + 1) - 1
        BY <2>1, <4>1 DEF CDRun
      <4>3. QED BY <1>2, <4>1, <4>2
    <3>2. QED BY <3>1
  <2>3. CDRun(Tail(todo))
    BY <1>2, <2>1, <2>2 DEF CDRun
  <2>4. Tail(todo) # <<>> => Tail(todo)[1] = todo[1] + 1
    BY <1>1, <1>2, <2>1, <2>2
  <2>5. ASSUME Tail(todo) # <<>>, ~cdConsumers[c].latest, NEW n \in 1..Len(cdLog), n < Tail(todo)[1]
        PROVE  CDHad(c, n)
    BY <1>2, <1>10, <2>4, <2>5
  <2>6. QED BY <1>1, <1>3, <1>4, <1>6, <1>8, <1>9, <2>3, <2>5 DEF CDCarries
<1>12. \A u \in 1..Len(cdThreads) : CDCarries(u)'
  BY <1>3, <1>6, <1>8, <1>11, CDOthers
<1>13. ASSUME NEW d \in 1..Len(cdConsumers) PROVE CDReaches(d)'
  <2>1. CASE d = c
    <3>1. cdConsumers'[d].pos = todo[1] /\ cdConsumers'[d].latest = cdConsumers[c].latest
      BY <1>5, <1>7, <2>1
    <3>2. \A n \in 1..todo[1] : n \in 1..Len(cdLog) /\ n <= todo[1]
      BY <1>2
    <3>3. QED BY <1>1, <1>9, <1>10, <2>1, <3>1, <3>2 DEF CDReaches
  <2>2. CASE d # c
    <3>0. cdConsumers'[d] = cdConsumers[d]
      BY <1>7, <2>2
    <3>1. CDReaches(d) /\ cdConsumers[d] \in CDConsumerRecords(Len(cdLog))
      BY DEF CDInv
    <3>2. cdConsumers[d].pos \in 0..Len(cdLog)
      BY <3>1 DEF CDConsumerRecords
    <3>3. QED BY <1>9, <3>0, <3>1, <3>2 DEF CDReaches
  <2>3. QED BY <2>1, <2>2
<1>14. QED BY <1>3, <1>6, <1>7, <1>12, <1>13 DEF CDInv

LEMMA CDNextInv == CDInv /\ [CDNext]_cdVars => CDInv'
<1> SUFFICES ASSUME CDInv, [CDNext]_cdVars PROVE CDInv'
  OBVIOUS
<1>1. CASE \E table \in CDTables : CDAppend(table)
  BY <1>1, CDAppendInv
<1>2. CASE \E tables \in {{}} \cup {{table} : table \in CDTables}, latest \in BOOLEAN : CDCreate(tables, latest)
  BY <1>2, CDCreateInv
<1>3. CASE \E c \in DOMAIN cdConsumers : CDStart(c) \/ CDStartRaises(c) \/ CDStop(c)
  BY <1>3, CDStartInv, CDStopInv
<1>4. CASE \E t \in DOMAIN cdThreads : CDThread(t)
  BY <1>4, CDPollInv, CDCallInv, CDAdvanceInv DEF CDThread
<1>5. CASE UNCHANGED cdVars
  BY <1>5 DEF cdVars, CDInv, CDCarries, CDReaches, CDHad, CDWanted
<1>6. QED BY <1>1, <1>2, <1>3, <1>4, <1>5 DEF CDNext

-----------------------------------------------------------------------------
(* Streams of results, EventStreams: what was given, what is queued and    *)
(* what is being put are, in this order, the rows read so far.             *)

SRTyped == [kind : {"rows", "last", "none"}, rows : Seq(1..srTotal)]

\* The queue holds the rows after first up to last, in consecutive chunks that meet at marks.
SRHolds(queue, marks, first, last) ==
  /\ marks[0] = first /\ marks[Len(queue)] = last
  /\ \A i \in 1..Len(queue) : marks[i - 1] <= marks[i] /\ queue[i].rows = SRChunks(marks[i - 1], marks[i])

SRMarks == [0..Len(srQueue) -> 0..srRead]

\* What was given, what is in the queue and the chunk that is being put are what was read.
SRFlow ==
  \E mid \in 0..srRead :
    /\ IF srProducer = "putting" THEN srChunk.rows = SRChunks(mid, srRead) ELSE mid = srRead
    /\ \E marks \in SRMarks : SRHolds(srQueue, marks, Len(srGot), mid)

\* The piece that ends the stream is the last one, and says how it ended.
SREnding ==
  /\ \A i \in 1..Len(srQueue) :
       srQueue[i].kind # "rows" => i = Len(srQueue) /\ srProducer = "ended"
  /\ \A i \in 1..Len(srQueue) : /\ srQueue[i].kind = "last" => srRead = srTotal
                                /\ srQueue[i].kind = "none" => srError
  /\ srProducer = "putting" => /\ srChunk.kind = "last" => srRead = srTotal
                               /\ srChunk.kind = "none" => srError
  /\ srState = "completed" => srConsumer = "stopped" /\ (~srError => Len(srGot) = srTotal)

SRInv ==
  /\ SRTypeOK
  /\ srChunk \in SRTyped /\ srQueue \in Seq(SRTyped)
  /\ srState = "pending" => srProducer = "none"
  /\ srCancel = "no" => srGot = SRChunks(0, Len(srGot)) /\ SRFlow /\ SREnding

LEMMA SRConstants == SRRows \in Nat /\ SRChunkSize \in Nat /\ SRChunkSize > 0 /\ SRBuffered \in Nat /\ SRBuffered > 0
BY SRAssumption DEF SRAssumption

LEMMA SRInvFaithful == SRInv => SRFaithful
BY DEF SRInv, SRFaithful, SREnding

LEMMA SRChunksIs ==
  ASSUME NEW first \in Nat, NEW last \in Nat, first <= last
  PROVE  /\ SRChunks(first, last) \in Seq((first + 1)..last) /\ Len(SRChunks(first, last)) = last - first
         /\ \A n \in 1..(last - first) : SRChunks(first, last)[n] = first + n
<1>1. last - first \in Nat
  OBVIOUS
<1>2. \A n \in 1..(last - first) : first + n \in (first + 1)..last
  OBVIOUS
<1>3. SRChunks(first, last) \in [1..(last - first) -> (first + 1)..last]
  BY <1>2 DEF SRChunks
<1>4. QED BY <1>1, <1>3 DEF SRChunks

LEMMA ConcatNumbers ==
  ASSUME NEW s \in Seq(Nat), NEW t \in Seq(Nat)
  PROVE  /\ s \o t \in Seq(Nat) /\ Len(s \o t) = Len(s) + Len(t)
         /\ \A n \in 1..Len(s) : (s \o t)[n] = s[n]
         /\ \A n \in 1..Len(t) : (s \o t)[Len(s) + n] = t[n]
<1>1. \A n \in 1..(Len(s) + Len(t)) : (s \o t)[n] = IF n <= Len(s) THEN s[n] ELSE t[n - Len(s)]
  BY ConcatProperties
<1>2. QED BY <1>1, ConcatProperties

LEMMA SRChunksMeet ==
  ASSUME NEW mid \in Nat, NEW last \in Nat, mid <= last
  PROVE  SRChunks(0, mid) \o SRChunks(mid, last) = SRChunks(0, last)
<1> DEFINE s == SRChunks(0, mid)
           t == SRChunks(mid, last)
           u == SRChunks(0, last)
<1>1. /\ s \in Seq(Nat) /\ Len(s) = mid /\ \A n \in 1..mid : s[n] = n
      /\ t \in Seq(Nat) /\ Len(t) = last - mid /\ \A n \in 1..(last - mid) : t[n] = mid + n
      /\ u \in Seq(Nat) /\ Len(u) = last /\ \A n \in 1..last : u[n] = n
  <2>1. Seq(1..mid) \subseteq Seq(Nat) /\ Seq((mid + 1)..last) \subseteq Seq(Nat) /\ Seq(1..last) \subseteq Seq(Nat)
    <3>1. 1..mid \subseteq Nat /\ (mid + 1)..last \subseteq Nat /\ 1..last \subseteq Nat
      OBVIOUS
    <3>2. QED BY <3>1, SeqMonotonic, Zenon
  <2>2. s \in Seq(1..mid) /\ Len(s) = mid /\ \A n \in 1..mid : s[n] = n
    <3>1. 0 \in Nat /\ 0 <= mid /\ mid - 0 = mid /\ 0 + 1 = 1 /\ \A n \in 1..mid : 0 + n = n
      OBVIOUS
    <3>2. QED BY <3>1, SRChunksIs
  <2>3. u \in Seq(1..last) /\ Len(u) = last /\ \A n \in 1..last : u[n] = n
    <3>1. 0 \in Nat /\ 0 <= last /\ last - 0 = last /\ 0 + 1 = 1 /\ \A n \in 1..last : 0 + n = n
      OBVIOUS
    <3>2. QED BY <3>1, SRChunksIs
  <2>4. t \in Seq((mid + 1)..last) /\ Len(t) = last - mid /\ \A n \in 1..(last - mid) : t[n] = mid + n
    BY SRChunksIs
  <2>5. QED BY <2>1, <2>2, <2>3, <2>4
<1> HIDE DEF s, t, u
<1>2. /\ s \o t \in Seq(Nat) /\ Len(s \o t) = Len(s) + Len(t)
      /\ \A n \in 1..Len(s) : (s \o t)[n] = s[n]
      /\ \A n \in 1..Len(t) : (s \o t)[Len(s) + n] = t[n]
  <2>1. s \in Seq(Nat) /\ t \in Seq(Nat)
    BY <1>1
  <2>2. QED BY <2>1, ConcatNumbers
<1>3. Len(s \o t) = last
  BY <1>1, <1>2
<1>4. ASSUME NEW n \in 1..last PROVE (s \o t)[n] = u[n]
  <2>1. CASE n <= mid
    BY <1>1, <1>2, <1>4, <2>1
  <2>2. CASE ~(n <= mid)
    <3>1. n - mid \in 1..(last - mid) /\ n = mid + (n - mid)
      BY <1>4, <2>2
    <3>2. (s \o t)[mid + (n - mid)] = t[n - mid] /\ t[n - mid] = mid + (n - mid)
      BY <1>1, <1>2, <3>1
    <3>3. QED BY <1>1, <3>1, <3>2
  <2>3. QED BY <2>1, <2>2
<1>5. QED BY <1>1, <1>2, <1>3, <1>4, SeqEqual DEF s, t, u

LEMMA SREmptyChunk == \A n \in Nat : SRChunks(n, n) = <<>>
<1> SUFFICES ASSUME NEW n \in Nat PROVE SRChunks(n, n) = <<>>
  OBVIOUS
<1>1. SRChunks(n, n) \in Seq((n + 1)..n) /\ Len(SRChunks(n, n)) = 0
  BY SRChunksIs, n <= n, n - n = 0
<1>2. QED BY <1>1, EmptySeq

LEMMA SRInitInv == SRInit => SRInv
<1> SUFFICES ASSUME SRInit PROVE SRInv
  OBVIOUS
<1>1. srTotal \in Nat /\ srChunk \in SRTyped /\ srChunk \in SRPieces /\ srQueue = <<>> /\ srGot = <<>>
  BY SRConstants DEF SRInit, SRTyped, SRPieces, SRPiece
<1>2. SRTypeOK
  <2>1. /\ srRead \in 0..srTotal /\ srQueue \in Seq(SRPieces) /\ Len(srQueue) <= SRBuffered
        /\ srGot \in Seq(1..srTotal)
    BY <1>1, SRConstants DEF SRInit
  <2>2. QED BY <1>1, <2>1, Zenon DEF SRInit, SRTypeOK
<1>3. srGot = SRChunks(0, Len(srGot))
  BY <1>1, SREmptyChunk
<1>4. SRFlow
  <2>1. [i \in 0..0 |-> 0] \in SRMarks /\ SRHolds(srQueue, [i \in 0..0 |-> 0], Len(srGot), 0)
    BY <1>1 DEF SRInit, SRMarks, SRHolds
  <2>2. 0 \in 0..srRead /\ srRead = 0 /\ srProducer # "putting"
    BY DEF SRInit
  <2>3. QED BY <2>1, <2>2 DEF SRFlow
<1>5. SREnding
  BY <1>1 DEF SRInit, SREnding
<1>6. QED BY <1>1, <1>2, <1>3, <1>4, <1>5 DEF SRInv, SRInit

\* The flow is of these variables only.
LEMMA SRFlowKept ==
  ASSUME SRFlow, UNCHANGED <<srRead, srChunk, srQueue, srGot>>,
         srProducer' = srProducer \/ (srProducer # "putting" /\ srProducer' # "putting")
  PROVE  SRFlow'
BY DEF SRFlow, SRMarks, SRHolds

LEMMA SRControlInv ==
  ASSUME SRInv, SRStart \/ SRLeave \/ SRNextCalled \/ SRGiveUp \/ SRPause \/ SRResume \/ SRCancelled
  PROVE  SRInv'
<1>1. UNCHANGED <<srTotal, srError, srRead, srChunk, srQueue, srGot>>
  BY DEF SRStart, SRLeave, SRNextCalled, SRGiveUp, SRPause, SRResume, SRCancelled
<1>2. /\ srState' \in {"pending", "active", "paused", "completed", "cancelled", "error"}
      /\ srProducer' \in {"none", "reading", "putting", "ended"}
      /\ srConsumer' \in {"idle", "getting", "stopped", "raised", "gave up"}
      /\ srCancel' \in {"no", "draining", "done"} /\ (srCancel' = "no" => srCancel = "no")
      /\ srState' = "pending" => srProducer' = "none"
  BY DEF SRStart, SRLeave, SRNextCalled, SRGiveUp, SRPause, SRResume, SRCancelled, SRInv, SRTypeOK
<1>3. srProducer' = srProducer \/ (srProducer # "putting" /\ srProducer' # "putting")
  BY DEF SRStart, SRLeave, SRNextCalled, SRGiveUp, SRPause, SRResume, SRCancelled, SRInv
<1>4. srProducer = "ended" => srProducer' = "ended"
  BY DEF SRStart, SRLeave, SRNextCalled, SRGiveUp, SRPause, SRResume, SRCancelled, SRInv
<1>5. srState' = "completed" => srState = "completed" /\ (srConsumer = "stopped" => srConsumer' = "stopped")
  BY DEF SRStart, SRLeave, SRNextCalled, SRGiveUp, SRPause, SRResume, SRCancelled
<1>6. SRTypeOK' /\ (srChunk \in SRTyped)' /\ (srQueue \in Seq(SRTyped))'
  BY <1>1, <1>2 DEF SRInv, SRTypeOK, SRTyped
<1>7. ASSUME srCancel' = "no" PROVE (srGot = SRChunks(0, Len(srGot)) /\ SRFlow /\ SREnding)'
  <2>1. srGot = SRChunks(0, Len(srGot)) /\ SRFlow /\ SREnding
    BY <1>2, <1>7 DEF SRInv
  <2>2. SRFlow'
    BY <1>1, <1>3, <2>1, SRFlowKept
  <2>3. SREnding'
    BY <1>1, <1>3, <1>4, <1>5, <2>1 DEF SREnding
  <2>4. QED BY <1>1, <2>1, <2>2, <2>3
<1>8. QED BY <1>2, <1>6, <1>7 DEF SRInv

LEMMA SRFetchInv == SRInv /\ SRFetch => SRInv'
<1> SUFFICES ASSUME SRInv, SRFetch PROVE SRInv'
  OBVIOUS
<1> DEFINE last == SRMin(srTotal, srRead + SRChunkSize)
<1>1. /\ srProducer = "reading" /\ srRead' = last /\ srProducer' = "putting" /\ srState = "active"
      /\ srChunk' = IF last = srRead THEN SRPiece("last", <<>>) ELSE SRPiece("rows", SRChunks(srRead, last))
      /\ UNCHANGED <<srTotal, srState, srError, srQueue, srConsumer, srGot, srCancel>>
  BY DEF SRFetch, SRLast
<1>2. srTotal \in Nat /\ srTotal <= SRRows /\ srRead \in 0..srTotal
  <2>1. srTotal \in 0..SRRows /\ srRead \in 0..srTotal
    BY Zenon DEF SRInv, SRTypeOK
  <2>2. QED BY <2>1, SRConstants
<1>3. last \in srRead..srTotal /\ (last = srRead => srRead = srTotal)
  BY <1>2, SRConstants DEF SRMin
<1>4. srChunk'.rows = SRChunks(srRead, last) /\ srChunk' \in SRTyped
      /\ (srChunk'.kind = "last" => last = srTotal) /\ srChunk'.kind # "none"
  <2>1. CASE last = srRead
    <3>1. srChunk' = SRPiece("last", <<>>) /\ SRChunks(srRead, last) = <<>>
      BY <1>1, <1>2, <2>1, SREmptyChunk
    <3>2. QED BY <1>3, <2>1, <3>1 DEF SRPiece, SRTyped
  <2>2. CASE last # srRead
    <3>1. SRChunks(srRead, last) \in Seq(1..srTotal)
      <4>1. SRChunks(srRead, last) \in Seq((srRead + 1)..last)
        BY <1>2, <1>3, SRChunksIs
      <4>2. (srRead + 1)..last \subseteq 1..srTotal
        BY <1>2, <1>3
      <4>3. QED BY <4>1, <4>2, SeqMonotonic
    <3>2. QED BY <1>1, <2>2, <3>1 DEF SRPiece, SRTyped
  <2>3. QED BY <2>1, <2>2
<1> HIDE DEF last
<1>5. srChunk' \in SRPieces
  <2>1. 1..srTotal \subseteq 1..SRRows
    BY <1>2, SRConstants
  <2>2. Seq(1..srTotal) \subseteq Seq(1..SRRows)
    BY <2>1, SeqMonotonic
  <2>3. QED BY <1>4, <2>2 DEF SRTyped, SRPieces
<1>6. SRTypeOK' /\ (srChunk \in SRTyped)' /\ (srQueue \in Seq(SRTyped))'
  <2>1. srRead' \in 0..srTotal'
    BY <1>1, <1>2, <1>3
  <2>2. (srChunk \in SRTyped)' /\ (srQueue \in Seq(SRTyped))' /\ srProducer' \in {"none", "reading", "putting", "ended"}
    BY <1>1, <1>4 DEF SRInv, SRTyped
  <2>3. SRTypeOK'
    BY <1>1, <1>5, <2>1, <2>2, Zenon DEF SRInv, SRTypeOK, SRPieces
  <2>4. QED BY <2>2, <2>3
<1>7. ASSUME srCancel' = "no" PROVE (srGot = SRChunks(0, Len(srGot)) /\ SRFlow /\ SREnding)'
  <2>1. srGot = SRChunks(0, Len(srGot)) /\ SRFlow /\ SREnding
    BY <1>1, <1>7 DEF SRInv
  <2>2. SRFlow'
    <3>1. PICK marks \in SRMarks : SRHolds(srQueue, marks, Len(srGot), srRead)
      BY <1>1, <2>1 DEF SRFlow
    <3>2. 0..srRead \subseteq 0..last
      BY <1>2, <1>3
    <3>3. marks \in SRMarks'
      BY <1>1, <3>2 DEF SRMarks
    <3>4. srRead \in 0..srRead' /\ srChunk'.rows = SRChunks(srRead, srRead')
      BY <1>1, <1>2, <1>3, <1>4
    <3>5. SRHolds(srQueue', marks, Len(srGot'), srRead)
      BY <1>1, <3>1
    <3>6. QED BY <1>1, <3>3, <3>4, <3>5 DEF SRFlow
  <2>3. SREnding'
    BY <1>1, <1>4, <2>1 DEF SREnding
  <2>4. QED BY <1>1, <2>1, <2>2, <2>3
<1>8. QED BY <1>1, <1>6, <1>7 DEF SRInv

\* The source raises; the end is said with a piece that has no rows.
LEMMA SRFailInv == SRInv /\ SRFail => SRInv'
<1> SUFFICES ASSUME SRInv, SRFail PROVE SRInv'
  OBVIOUS
<1>1. /\ srProducer = "reading" /\ srError' = TRUE /\ srState' = "error" /\ srProducer' = "putting"
      /\ srChunk' = SRPiece("none", <<>>)
      /\ UNCHANGED <<srTotal, srRead, srQueue, srConsumer, srGot, srCancel>>
  BY DEF SRFail
<1>2. srTotal \in Nat /\ srRead \in Nat
  <2>1. srTotal \in 0..SRRows /\ srRead \in 0..srTotal
    BY Zenon DEF SRInv, SRTypeOK
  <2>2. QED BY <2>1, SRConstants
<1>3. srChunk' \in SRTyped /\ srChunk' \in SRPieces /\ srChunk'.rows = <<>> /\ srChunk'.kind = "none"
  BY <1>1 DEF SRPiece, SRTyped, SRPieces
<1>4. SRTypeOK' /\ (srChunk \in SRTyped)' /\ (srQueue \in Seq(SRTyped))'
  <2>1. (srChunk \in SRTyped)' /\ (srQueue \in Seq(SRTyped))'
    BY <1>1, <1>3 DEF SRInv, SRTyped
  <2>2. SRTypeOK'
    BY <1>1, <1>3, Zenon DEF SRInv, SRTypeOK, SRPieces
  <2>3. QED BY <2>1, <2>2
<1>5. ASSUME srCancel' = "no" PROVE (srGot = SRChunks(0, Len(srGot)) /\ SRFlow /\ SREnding)'
  <2>1. srGot = SRChunks(0, Len(srGot)) /\ SRFlow /\ SREnding
    BY <1>1, <1>5 DEF SRInv
  <2>2. SRFlow'
    <3>1. PICK marks \in SRMarks : SRHolds(srQueue, marks, Len(srGot), srRead)
      BY <1>1, <2>1 DEF SRFlow
    <3>2. srRead \in 0..srRead' /\ srChunk'.rows = SRChunks(srRead, srRead')
      BY <1>1, <1>2, <1>3, SREmptyChunk
    <3>3. marks \in SRMarks' /\ SRHolds(srQueue', marks, Len(srGot'), srRead)
      BY <1>1, <3>1 DEF SRMarks
    <3>4. QED BY <1>1, <3>2, <3>3 DEF SRFlow
  <2>3. SREnding'
    BY <1>1, <1>3, <2>1 DEF SREnding
  <2>4. QED BY <1>1, <2>1, <2>2, <2>3
<1>6. QED BY <1>1, <1>4, <1>5 DEF SRInv

LEMMA SRPutInv == SRInv /\ SRPut => SRInv'
<1> SUFFICES ASSUME SRInv, SRPut PROVE SRInv'
  OBVIOUS
<1> DEFINE n == Len(srQueue)
<1>1. /\ srProducer = "putting" /\ Len(srQueue) < SRBuffered /\ srQueue' = Append(srQueue, srChunk)
      /\ srProducer' = IF srChunk.kind = "rows" THEN "reading" ELSE "ended"
      /\ UNCHANGED <<srTotal, srState, srError, srRead, srChunk, srConsumer, srGot, srCancel>>
  BY DEF SRPut, SRRoom
<1>2. srTotal \in Nat /\ srRead \in Nat /\ n \in Nat
  <2>1. srTotal \in 0..SRRows /\ srRead \in 0..srTotal /\ srQueue \in Seq(SRPieces)
    BY Zenon DEF SRInv, SRTypeOK
  <2>2. QED BY <2>1, SRConstants
<1>3. /\ srQueue' \in Seq(SRTyped) /\ srQueue' \in Seq(SRPieces) /\ Len(srQueue') = n + 1
      /\ \A i \in 1..n : srQueue'[i] = srQueue[i]
      /\ srQueue'[n + 1] = srChunk
  <2>1. srQueue \in Seq(SRTyped) /\ srChunk \in SRTyped /\ srQueue \in Seq(SRPieces) /\ srChunk \in SRPieces
    BY Zenon DEF SRInv, SRTypeOK
  <2>2. QED BY <1>1, <2>1, AppendProperties
<1>4. SRTypeOK' /\ (srChunk \in SRTyped)' /\ (srQueue \in Seq(SRTyped))'
  <2>1. (srChunk \in SRTyped)' /\ (srQueue \in Seq(SRTyped))'
    BY <1>1, <1>3 DEF SRInv, SRTyped
  <2>2. Len(srQueue') <= SRBuffered
    BY <1>1, <1>2, <1>3, SRConstants
  <2>3. srProducer' \in {"none", "reading", "putting", "ended"}
    BY <1>1
  <2>4. SRTypeOK'
    BY <1>1, <1>3, <2>2, <2>3, Zenon DEF SRInv, SRTypeOK, SRPieces
  <2>5. QED BY <2>1, <2>4
<1> HIDE DEF n
<1>5. ASSUME srCancel' = "no" PROVE (srGot = SRChunks(0, Len(srGot)) /\ SRFlow /\ SREnding)'
  <2>1. srGot = SRChunks(0, Len(srGot)) /\ SRFlow /\ SREnding
    BY <1>1, <1>5 DEF SRInv
  <2>2. SRFlow'
    <3>1. PICK mid \in 0..srRead :
            /\ srChunk.rows = SRChunks(mid, srRead)
            /\ \E marks \in SRMarks : SRHolds(srQueue, marks, Len(srGot), mid)
      BY <1>1, <2>1 DEF SRFlow
    <3>2. PICK marks \in SRMarks : SRHolds(srQueue, marks, Len(srGot), mid)
      BY <3>1
    <3> DEFINE more == [i \in 0..(n + 1) |-> IF i = n + 1 THEN srRead ELSE marks[i]]
    <3>3. marks \in [0..n -> 0..srRead]
      BY <3>2 DEF SRMarks, n
    <3>4. more \in [0..(n + 1) -> 0..srRead] /\ more[n + 1] = srRead /\ \A i \in 0..n : more[i] = marks[i]
      BY <1>2, <3>3
    <3> HIDE DEF more
    <3>5. more \in SRMarks'
      BY <1>1, <1>3, <3>4 DEF SRMarks
    <3>6. marks[0] = Len(srGot) /\ marks[n] = mid
          /\ \A i \in 1..n : marks[i - 1] <= marks[i] /\ srQueue[i].rows = SRChunks(marks[i - 1], marks[i])
      BY <3>2 DEF SRHolds, n
    <3>7. more[0] = Len(srGot)
      BY <1>2, <3>4, <3>6
    <3>8. ASSUME NEW i \in 1..(n + 1)
          PROVE  more[i - 1] <= more[i] /\ srQueue'[i].rows = SRChunks(more[i - 1], more[i])
      <4>1. CASE i \in 1..n
        <5>1. i - 1 \in 0..n /\ i \in 0..n
          BY <1>2, <4>1
        <5>2. QED BY <1>3, <3>4, <3>6, <4>1, <5>1
      <4>2. CASE i = n + 1
        <5>1. n \in 0..n /\ i - 1 = n
          BY <1>2, <4>2
        <5>2. more[i - 1] = mid /\ more[i] = srRead
          BY <3>4, <3>6, <4>2, <5>1
        <5>3. QED BY <1>2, <1>3, <3>1, <4>2, <5>2
      <4>3. QED BY <1>2, <4>1, <4>2
    <3>9. SRHolds(srQueue', more, Len(srGot'), srRead)
      BY <1>1, <1>3, <3>4, <3>7, <3>8 DEF SRHolds
    <3>10. srProducer' # "putting" /\ srRead' = srRead /\ srRead \in 0..srRead
      BY <1>1, <1>2
    <3>11. QED BY <3>5, <3>9, <3>10 DEF SRFlow
  <2>3. SREnding'
    <3>1. ASSUME NEW i \in 1..(n + 1), srQueue'[i].kind # "rows" PROVE i = n + 1 /\ srProducer' = "ended"
      <4>1. i \notin 1..n
        BY <1>1, <1>3, <2>1, <3>1 DEF SREnding, n
      <4>2. i = n + 1
        BY <1>2, <4>1
      <4>3. QED BY <1>1, <1>3, <3>1, <4>2
    <3>2. ASSUME NEW i \in 1..(n + 1)
          PROVE  /\ srQueue'[i].kind = "last" => srRead' = srTotal'
                 /\ srQueue'[i].kind = "none" => srError'
      <4>1. CASE i \in 1..n
        BY <1>1, <1>3, <2>1, <4>1 DEF SREnding, n
      <4>2. CASE i = n + 1
        BY <1>1, <1>3, <2>1, <4>2 DEF SREnding
      <4>3. QED BY <1>2, <4>1, <4>2
    <3>3. QED BY <1>1, <1>3, <2>1, <3>1, <3>2 DEF SREnding
  <2>4. QED BY <1>1, <2>1, <2>2, <2>3
<1>6. QED BY <1>1, <1>4, <1>5 DEF SRInv

LEMMA SRGetInv == SRInv /\ SRGet => SRInv'
<1> SUFFICES ASSUME SRInv, SRGet PROVE SRInv'
  OBVIOUS
<1> DEFINE n == Len(srQueue)
           piece == srQueue[1]
<1>1. /\ srConsumer = "getting" /\ srQueue # <<>> /\ srQueue' = Tail(srQueue)
      /\ srGot' = srGot \o Head(srQueue).rows
      /\ IF Head(srQueue).kind = "rows"
         THEN srConsumer' = "idle" /\ UNCHANGED srState
         ELSE srConsumer' = "stopped" /\ srState' = "completed"
      /\ UNCHANGED <<srTotal, srError, srRead, srProducer, srChunk, srCancel>>
  BY DEF SRGet, SRTaken
<1>2. /\ srTotal \in 0..SRRows /\ srRead \in 0..srTotal /\ srQueue \in Seq(SRPieces) /\ srQueue \in Seq(SRTyped)
      /\ srGot \in Seq(1..srTotal) /\ n <= SRBuffered
  BY Zenon DEF SRInv, SRTypeOK
<1>3. srTotal \in Nat /\ srRead \in Nat /\ n \in Nat /\ n > 0 /\ Len(srGot) \in Nat
  <2>1. n > 0 /\ n \in Nat /\ Len(srGot) \in Nat
    BY <1>1, <1>2, EmptySeq, LenProperties
  <2>2. QED BY <1>2, <2>1, SRConstants
<1>4. /\ Head(srQueue) = piece /\ piece \in SRTyped /\ Len(srQueue') = n - 1
      /\ srQueue' \in Seq(SRPieces) /\ srQueue' \in Seq(SRTyped)
      /\ \A i \in 1..(n - 1) : srQueue'[i] = srQueue[i + 1]
  <2>1. /\ Head(srQueue) \in SRTyped /\ Tail(srQueue) \in Seq(SRTyped) /\ Tail(srQueue) \in Seq(SRPieces)
        /\ Len(Tail(srQueue)) = Len(srQueue) - 1
        /\ \A i \in 1..Len(Tail(srQueue)) : Tail(srQueue)[i] = srQueue[i + 1]
    BY <1>1, <1>2, HeadTailProperties
  <2>2. Head(srQueue) = piece
    BY <1>1, <1>2
  <2>3. QED BY <1>1, <1>3, <2>1, <2>2
<1> HIDE DEF n, piece
<1>5. piece.rows \in Seq(1..srTotal) /\ srGot' \in Seq(1..srTotal) /\ Len(srGot') = Len(srGot) + Len(piece.rows)
  <2>1. piece.rows \in Seq(1..srTotal)
    BY <1>4 DEF SRTyped
  <2>2. srGot \in Seq(1..srTotal) /\ srGot' = srGot \o piece.rows
    BY <1>1, <1>2, <1>4
  <2>3. QED BY <2>1, <2>2, ConcatProperties
<1>6. SRTypeOK' /\ (srChunk \in SRTyped)' /\ (srQueue \in Seq(SRTyped))'
  <2>1. (srChunk \in SRTyped)' /\ (srQueue \in Seq(SRTyped))'
    BY <1>1, <1>4 DEF SRInv, SRTyped
  <2>2. Len(srQueue') <= SRBuffered
    BY <1>2, <1>3, <1>4, SRConstants
  <2>3. srConsumer' \in {"idle", "getting", "stopped", "raised", "gave up"}
        /\ srState' \in {"pending", "active", "paused", "completed", "cancelled", "error"}
    BY <1>1, Zenon DEF SRInv, SRTypeOK
  <2>4. SRTypeOK'
    BY <1>1, <1>2, <1>4, <1>5, <2>2, <2>3, Zenon DEF SRInv, SRTypeOK, SRPieces
  <2>5. QED BY <2>1, <2>4
<1>7. ASSUME srCancel' = "no" PROVE (srGot = SRChunks(0, Len(srGot)) /\ SRFlow /\ SREnding)'
  <2>1. srGot = SRChunks(0, Len(srGot)) /\ SRFlow /\ SREnding
    BY <1>1, <1>7 DEF SRInv
  <2>2. PICK mid \in 0..srRead :
          /\ IF srProducer = "putting" THEN srChunk.rows = SRChunks(mid, srRead) ELSE mid = srRead
          /\ \E marks \in SRMarks : SRHolds(srQueue, marks, Len(srGot), mid)
    BY <2>1 DEF SRFlow
  <2>3. PICK marks \in [0..n -> 0..srRead] : SRHolds(srQueue, marks, Len(srGot), mid)
    BY <2>2 DEF SRMarks, n
  <2>4. /\ marks[0] = Len(srGot) /\ marks[n] = mid
        /\ \A i \in 1..n : marks[i - 1] <= marks[i] /\ srQueue[i].rows = SRChunks(marks[i - 1], marks[i])
    BY <2>3 DEF SRHolds, n
  <2>5. /\ piece.rows = SRChunks(Len(srGot), marks[1]) /\ Len(srGot) <= marks[1] /\ marks[1] \in Nat
    <3>1. 1 \in 1..n /\ 1 - 1 = 0 /\ 1 \in 0..n
      BY <1>3
    <3>2. marks[0] <= marks[1] /\ srQueue[1].rows = SRChunks(marks[0], marks[1])
      BY <2>4, <3>1
    <3>3. QED BY <1>3, <2>4, <3>1, <3>2 DEF piece
  <2>6. srGot' = SRChunks(0, marks[1])
    BY <1>1, <1>3, <1>4, <2>1, <2>5, SRChunksMeet
  <2>7. Len(srGot') = marks[1]
    <3>1. Len(SRChunks(0, marks[1])) = marks[1] - 0
      <4>1. 0 \in Nat /\ 0 <= marks[1]
        BY <2>5
      <4>2. QED BY <2>5, <4>1, SRChunksIs
    <3>2. QED BY <2>5, <2>6, <3>1
  <2>8. SRFlow'
    <3> DEFINE fewer == [i \in 0..(n - 1) |-> marks[i + 1]]
    <3>1. fewer \in [0..(n - 1) -> 0..srRead] /\ \A i \in 0..(n - 1) : fewer[i] = marks[i + 1]
      <4>1. \A i \in 0..(n - 1) : i + 1 \in 0..n
        BY <1>3
      <4>2. QED BY <2>3, <4>1
    <3> HIDE DEF fewer
    <3>2. fewer \in SRMarks'
      BY <1>1, <1>4, <3>1 DEF SRMarks
    <3>3. fewer[0] = marks[1] /\ fewer[n - 1] = mid
      <4>1. 0 \in 0..(n - 1) /\ n - 1 \in 0..(n - 1) /\ (n - 1) + 1 = n /\ 0 + 1 = 1
        BY <1>3
      <4>2. QED BY <2>4, <3>1, <4>1
    <3>4. ASSUME NEW i \in 1..(n - 1)
          PROVE  fewer[i - 1] <= fewer[i] /\ srQueue'[i].rows = SRChunks(fewer[i - 1], fewer[i])
      <4>1. i - 1 \in 0..(n - 1) /\ i \in 0..(n - 1) /\ i + 1 \in 1..n /\ (i - 1) + 1 = i /\ (i + 1) - 1 = i
        BY <1>3, <3>4
      <4>2. marks[i] <= marks[i + 1] /\ srQueue[i + 1].rows = SRChunks(marks[i], marks[i + 1])
        BY <2>4, <4>1
      <4>3. QED BY <1>4, <3>1, <4>1, <4>2
    <3>5. SRHolds(srQueue', fewer, Len(srGot'), mid)
      BY <1>4, <2>7, <3>3, <3>4 DEF SRHolds
    <3>6. QED BY <1>1, <2>2, <3>2, <3>5 DEF SRFlow
  <2>9. SREnding'
    <3>1. ASSUME NEW i \in 1..(n - 1)
          PROVE  /\ srQueue'[i].kind # "rows" => i = n - 1 /\ srProducer' = "ended"
                 /\ srQueue'[i].kind = "last" => srRead' = srTotal'
                 /\ srQueue'[i].kind = "none" => srError'
      <4>1. i + 1 \in 1..n /\ srQueue'[i] = srQueue[i + 1] /\ (i + 1 = n => i = n - 1)
        <5>1. i + 1 \in 1..n /\ (i + 1 = n => i = n - 1)
          BY <1>3, <3>1
        <5>2. QED BY <1>4, <3>1, <5>1
      <4>2. QED BY <1>1, <2>1, <4>1 DEF SREnding, n
    <3>2. ASSUME piece.kind # "rows", ~srError PROVE Len(srGot') = srTotal
      <4>1. 1 \in 1..n
        BY <1>3
      <4>2. 1 = n /\ srProducer = "ended" /\ piece.kind # "none"
        BY <2>1, <3>2, <4>1 DEF SREnding, n, piece
      <4>3. piece.kind = "last"
        BY <1>4, <3>2, <4>2 DEF SRTyped
      <4>4. srRead = srTotal
        BY <2>1, <4>1, <4>3 DEF SREnding, n, piece
      <4>5. mid = srRead /\ marks[1] = mid
        BY <2>2, <2>4, <4>2
      <4>6. QED BY <2>7, <4>4, <4>5
    <3>3. srState' = "completed" => srConsumer' = "stopped" /\ (~srError' => Len(srGot') = srTotal')
      BY <1>1, <1>4, <2>1, <3>2 DEF SREnding
    <3>4. QED BY <1>1, <1>4, <2>1, <3>1, <3>3 DEF SREnding
  <2>10. QED BY <2>6, <2>7, <2>8, <2>9
<1>8. srState' = "pending" => srProducer' = "none"
  BY <1>1 DEF SRInv
<1>9. QED BY <1>6, <1>7, <1>8 DEF SRInv

LEMMA SRDrainInv == SRInv /\ SRDrain => SRInv'
<1> SUFFICES ASSUME SRInv, SRDrain PROVE SRInv'
  OBVIOUS
<1>1. /\ srCancel = "draining" /\ (srQueue' = srQueue \/ (srQueue # <<>> /\ srQueue' = Tail(srQueue)))
      /\ srCancel' \in {"draining", "done"}
      /\ UNCHANGED <<srTotal, srState, srError, srRead, srProducer, srChunk, srConsumer, srGot>>
  BY DEF SRDrain
<1>2. srQueue \in Seq(SRPieces) /\ srQueue \in Seq(SRTyped) /\ Len(srQueue) <= SRBuffered
  BY Zenon DEF SRInv, SRTypeOK
<1>3. srQueue' \in Seq(SRPieces) /\ srQueue' \in Seq(SRTyped) /\ Len(srQueue') <= SRBuffered
  BY <1>1, <1>2, SRConstants, HeadTailProperties, LenProperties
<1>4. SRTypeOK'
  BY <1>1, <1>3, Zenon DEF SRInv, SRTypeOK, SRPieces
<1>5. (srChunk \in SRTyped)' /\ (srQueue \in Seq(SRTyped))'
  BY <1>1, <1>3 DEF SRInv, SRTyped
<1>6. QED BY <1>1, <1>4, <1>5 DEF SRInv

LEMMA SRNextInv == SRInv /\ [SRNext]_srVars => SRInv'
<1> SUFFICES ASSUME SRInv, [SRNext]_srVars PROVE SRInv'
  OBVIOUS
<1>1. CASE SRNext
  BY <1>1, SRControlInv, SRFetchInv, SRFailInv, SRPutInv, SRGetInv, SRDrainInv, Zenon DEF SRNext
<1>2. CASE UNCHANGED srVars
  <2>1. UNCHANGED <<srTotal, srState, srError, srRead, srProducer, srChunk, srQueue, srConsumer, srGot, srCancel>>
    BY <1>2 DEF srVars
  <2>2. SRTypeOK'
    BY <2>1, Zenon DEF SRInv, SRTypeOK, SRPieces
  <2>3. (srChunk \in SRTyped)' /\ (srQueue \in Seq(SRTyped))'
    BY <2>1 DEF SRInv, SRTyped
  <2>4. QED BY <2>1, <2>2, <2>3 DEF SRInv, SRFlow, SRMarks, SRHolds, SREnding
<1>3. QED BY <1>1, <1>2

-----------------------------------------------------------------------------
(* Messages of agents, AgentMessages: a request runs before its only       *)
(* answer is made, the answer leaves the queue before it is in the table,  *)
(* and the table has it under its request.                                 *)

AMMessageRecords ==
  [type : {"request", "result", "error", "notice"}, priority : Nat, answers : Nat]

AMCallerRecords(n) ==
  [at : {"idle", "sent", "waiting", "done", "failed"}, tries : 0..AMTries, request : 0..n, result : 0..n]

AMWorkerRecords(n) ==
  [at : {"idle", "routing", "reading", "answering"}, message : 0..n]

AMTyped ==
  /\ amSent \in Seq(AMMessageRecords)
  /\ amQueue \subseteq 1..Len(amSent) /\ IsFiniteSet(amQueue) /\ Cardinality(amQueue) <= AMRoom
  /\ amWorker \in AMWorkerRecords(Len(amSent)) /\ (amWorker.at # "idle" => amWorker.message # 0)
  /\ amFlight = (IF amWorker.at = "idle" THEN {} ELSE {amWorker.message})
  /\ amQueue \cap amFlight = {}
  /\ amPending \in [DOMAIN amPending -> 0..Len(amSent)] /\ DOMAIN amPending \subseteq 1..Len(amSent)
  /\ amCaller \in [AMCallers -> AMCallerRecords(Len(amSent))]
  /\ amRan \in Seq(1..Len(amSent))

\* The messages the worker has yet to finish.
AMDueOnes == amQueue \cup amFlight

AMRanOnes == {amRan[i] : i \in 1..Len(amRan)}

\* Only a request that ran has an answer, and one only.
AMAnswersOnce ==
  \A m \in 1..Len(amSent) :
    /\ amSent[m].answers \in {0} \cup AMRanOnes
    /\ amSent[m].answers # 0 => \A n \in 1..Len(amSent) : amSent[n].answers = amSent[m].answers => n = m

AMRunsAreOver ==
  /\ AMRanOnes \cap AMDueOnes = {}
  /\ \A i, j \in 1..Len(amRan) : amSent[amRan[i]].type = "request" /\ (i # j => amRan[i] # amRan[j])
  /\ \A m \in 1..Len(amSent) : amSent[m].type = "request" => amSent[m].answers = 0

\* The table has its entries for those who wait, an answer in it is to its request, and is no
\* longer with the worker.
AMTableTrue ==
  \A r \in DOMAIN amPending :
    /\ amPending[r] # 0 => amSent[amPending[r]].answers = r /\ amPending[r] \notin AMDueOnes
    /\ r \in amLate \/ \E c \in AMCallers : amCaller[c].at = "waiting" /\ amCaller[c].request = r

\* An answer the worker brings is waited for, or was given up while it was brought.
AMBrings ==
  /\ amWorker.at \in {"reading", "answering"} => AMAnswers # 0
  /\ amWorker.at = "answering" => AMAnswers \in DOMAIN amPending \cup amLate

AMCallersTrue ==
  \A c \in AMCallers :
    /\ amCaller[c].at \in {"sent", "waiting"} => amCaller[c].request # 0
    /\ amCaller[c].at = "waiting" => amCaller[c].request \in DOMAIN amPending
    /\ amCaller[c].at = "done" => amCaller[c].result # 0 /\ amSent[amCaller[c].result].answers = amCaller[c].request
    /\ \A d \in AMCallers : amCaller[c].request # 0 /\ d # c => amCaller[d].request # amCaller[c].request

AMInv == AMTyped /\ AMAnswersOnce /\ AMRunsAreOver /\ AMTableTrue /\ AMBrings /\ AMCallersTrue

LEMMA AMConstants == AMTries \in Nat /\ AMRoom \in Nat /\ AMTells \in Nat /\ AMRoom > 0
BY AMAssumption DEF AMAssumption

LEMMA AMInvTypes == AMInv => AMTypeOK /\ AMOwnAnswer /\ AMRunsOnce
<1> SUFFICES ASSUME AMInv PROVE AMTypeOK /\ AMOwnAnswer /\ AMRunsOnce
  OBVIOUS
<1>1. DOMAIN amSent = 1..Len(amSent) /\ DOMAIN amRan = 1..Len(amRan)
  BY LenProperties DEF AMInv, AMTyped
<1>2. \A c \in AMCallers : amCaller[c] \in AMCallerRecords(Len(amSent))
  BY DEF AMInv, AMTyped
<1>3. amWorker.at \in {"idle", "routing", "reading", "answering"}
  BY DEF AMInv, AMTyped, AMWorkerRecords
<1>4. \A c \in AMCallers : amCaller[c].at \in {"idle", "sent", "waiting", "done", "failed"} /\ amCaller[c].tries \in 0..AMTries
  BY <1>2 DEF AMCallerRecords
<1>5. AMTypeOK
  BY <1>1, <1>3, <1>4 DEF AMInv, AMTyped, AMTypeOK, AMTableTrue, AMCallersTrue
<1>6. AMOwnAnswer
  BY DEF AMInv, AMOwnAnswer, AMCallersTrue
<1>7. AMRunsOnce
  BY <1>1 DEF AMInv, AMRunsAreOver, AMRunsOnce
<1>8. QED BY <1>5, <1>6, <1>7

LEMMA AMInitInv == AMInit => AMInv
<1> SUFFICES ASSUME AMInit PROVE AMInv
  OBVIOUS
<1>1. Len(amSent) = 0 /\ amSent \in Seq(AMMessageRecords) /\ Len(amRan) = 0 /\ amRan \in Seq(1..Len(amSent))
  BY DEF AMInit
<1>2. amQueue = {} /\ IsFiniteSet(amQueue) /\ Cardinality(amQueue) = 0
  BY FS_EmptySet DEF AMInit
<1>3. amPending = <<>> /\ DOMAIN amPending = {} /\ amPending \in [{} -> 0..Len(amSent)]
  BY DEF AMInit
<1>4. amCaller \in [AMCallers -> AMCallerRecords(Len(amSent))]
  BY <1>1, AMConstants DEF AMInit, AMCallerRecords
<1>5. amWorker \in AMWorkerRecords(Len(amSent)) /\ amWorker.at = "idle" /\ amFlight = {}
  BY <1>1 DEF AMInit, AMWorkerRecords
<1>6. AMTyped
  BY <1>1, <1>2, <1>3, <1>4, <1>5, AMConstants DEF AMTyped
<1>7. AMAnswersOnce /\ AMRunsAreOver /\ AMTableTrue
  BY <1>1, <1>2, <1>3, <1>5 DEF AMAnswersOnce, AMRunsAreOver, AMTableTrue, AMRanOnes, AMDueOnes
<1>8. AMBrings /\ AMCallersTrue
  BY <1>5 DEF AMInit, AMBrings, AMCallersTrue
<1>9. QED BY <1>6, <1>7, <1>8 DEF AMInv

-----------------------------------------------------------------------------
\* Steps of the callers that send nothing.

LEMMA AMAnswersKept ==
  ASSUME AMInv, UNCHANGED <<amSent, amRan>>
  PROVE  AMAnswersOnce' /\ AMRanOnes' = AMRanOnes
BY DEF AMInv, AMAnswersOnce, AMRanOnes

LEMMA AMRunsKept ==
  ASSUME AMInv, UNCHANGED <<amSent, amRan>>, AMDueOnes' \subseteq AMDueOnes
  PROVE  AMRunsAreOver'
BY DEF AMInv, AMRunsAreOver, AMRanOnes

\* One caller's record changes.
LEMMA AMCallerIs ==
  ASSUME AMInv, NEW c \in AMCallers, NEW r, amCaller' = [amCaller EXCEPT ![c] = r]
  PROVE  amCaller'[c] = r /\ \A d \in AMCallers : d # c => amCaller'[d] = amCaller[d]
BY DEF AMInv, AMTyped

LEMMA AMAwaitInv ==
  ASSUME AMInv, NEW c \in AMCallers, AMAwait(c)
  PROVE  AMInv'
<1> DEFINE r == amCaller[c].request
           me == [amCaller[c] EXCEPT !.at = "waiting"]
<1>1. /\ amCaller[c].at = "sent" /\ amCaller' = [amCaller EXCEPT ![c] = me]
      /\ amPending' = [q \in DOMAIN amPending \cup {r} |-> IF q = r THEN 0 ELSE amPending[q]]
      /\ UNCHANGED <<amSent, amQueue, amFlight, amWorker, amOpen, amTold, amRan, amLate>>
  BY DEF AMAwait
<1>2. amCaller[c] \in AMCallerRecords(Len(amSent))
  BY DEF AMInv, AMTyped
<1>3. /\ me \in AMCallerRecords(Len(amSent)) /\ me.at = "waiting" /\ me.request = r /\ r \in 0..Len(amSent)
  BY <1>2 DEF AMCallerRecords
<1>4. r # 0
  BY <1>1 DEF AMInv, AMCallersTrue
<1> HIDE DEF me, r
<1>5. amCaller'[c] = me /\ \A d \in AMCallers : d # c => amCaller'[d] = amCaller[d]
  BY <1>1, AMCallerIs
<1>6. /\ DOMAIN amPending' = DOMAIN amPending \cup {r} /\ amPending'[r] = 0
      /\ \A q \in DOMAIN amPending : q # r => amPending'[q] = amPending[q]
  BY <1>1
<1>7. AMTyped'
  <2>1. amCaller' \in [AMCallers -> AMCallerRecords(Len(amSent))]
    BY <1>1, <1>3 DEF AMInv, AMTyped
  <2>2. Len(amSent) \in Nat
    BY LenProperties DEF AMInv, AMTyped
  <2>3. amPending' \in [DOMAIN amPending' -> 0..Len(amSent)] /\ DOMAIN amPending' \subseteq 1..Len(amSent)
    BY <1>1, <1>3, <1>4, <1>6, <2>2 DEF AMInv, AMTyped
  <2>4. QED BY <1>1, <2>1, <2>3 DEF AMInv, AMTyped
<1>8. AMAnswersOnce' /\ AMRunsAreOver'
  BY <1>1, AMAnswersKept, AMRunsKept DEF AMDueOnes
<1>9. AMTableTrue'
  <2>1. ASSUME NEW q \in DOMAIN amPending'
        PROVE  /\ amPending'[q] # 0 => amSent'[amPending'[q]].answers = q /\ amPending'[q] \notin AMDueOnes'
               /\ q \in amLate' \/ \E d \in AMCallers : amCaller'[d].at = "waiting" /\ amCaller'[d].request = q
    <3>1. CASE q = r
      BY <1>3, <1>5, <1>6, <3>1
    <3>2. CASE q # r
      <4>1. q \in DOMAIN amPending /\ amPending'[q] = amPending[q]
        BY <1>6, <2>1, <3>2
      <4>2. q \in amLate \/ \E d \in AMCallers : d # c /\ amCaller[d].at = "waiting" /\ amCaller[d].request = q
        BY <1>1, <4>1 DEF AMInv, AMTableTrue
      <4>3. QED BY <1>1, <1>5, <4>1, <4>2 DEF AMInv, AMTableTrue, AMDueOnes
    <3>3. QED BY <3>1, <3>2
  <2>2. QED BY <2>1 DEF AMTableTrue
<1>10. AMBrings'
  BY <1>1, <1>6 DEF AMInv, AMBrings, AMAnswers
<1>11. AMCallersTrue'
  BY <1>1, <1>3, <1>4, <1>5, <1>6 DEF AMInv, AMCallersTrue, r
<1>12. QED BY <1>7, <1>8, <1>9, <1>10, <1>11 DEF AMInv

\* A caller's entry leaves the table: it has its answer, or it does not wait any longer.
LEMMA AMLeaveInv ==
  ASSUME AMInv, NEW c \in AMCallers, amCaller[c].at = "waiting",
         NEW me \in AMCallerRecords(Len(amSent)), me.at \in {"idle", "done"}, me.request = amCaller[c].request,
         me.at = "done" => me.result # 0 /\ amSent[me.result].answers = me.request,
         amCaller' = [amCaller EXCEPT ![c] = me], amPending' = AMForget(amCaller[c].request),
         amLate \subseteq amLate',
         amWorker.at = "answering" /\ AMAnswers = amCaller[c].request => AMAnswers \in amLate',
         UNCHANGED <<amSent, amQueue, amFlight, amWorker, amRan>>
  PROVE  AMInv'
<1> DEFINE r == amCaller[c].request
<1>1. amCaller'[c] = me /\ \A d \in AMCallers : d # c => amCaller'[d] = amCaller[d]
  BY AMCallerIs
<1>2. DOMAIN amPending' = DOMAIN amPending \ {r} /\ \A q \in DOMAIN amPending' : amPending'[q] = amPending[q]
  BY DEF AMForget
<1>3. r # 0 /\ \A d \in AMCallers : d # c => amCaller[d].request # r
  BY DEF AMInv, AMCallersTrue
<1> HIDE DEF r
<1>4. AMTyped'
  <2>1. amCaller' \in [AMCallers -> AMCallerRecords(Len(amSent))]
    BY DEF AMInv, AMTyped
  <2>2. amPending' \in [DOMAIN amPending' -> 0..Len(amSent)] /\ DOMAIN amPending' \subseteq 1..Len(amSent)
    <3>1. amPending' = [q \in DOMAIN amPending \ {r} |-> amPending[q]]
      BY DEF AMForget, r
    <3>2. QED BY <1>2, <3>1 DEF AMInv, AMTyped
  <2>3. QED BY <2>1, <2>2 DEF AMInv, AMTyped
<1>5. AMAnswersOnce' /\ AMRunsAreOver'
  BY AMAnswersKept, AMRunsKept DEF AMDueOnes
<1>6. AMTableTrue'
  <2>1. ASSUME NEW q \in DOMAIN amPending'
        PROVE  /\ amPending'[q] # 0 => amSent'[amPending'[q]].answers = q /\ amPending'[q] \notin AMDueOnes'
               /\ q \in amLate' \/ \E d \in AMCallers : amCaller'[d].at = "waiting" /\ amCaller'[d].request = q
    <3>1. q \in DOMAIN amPending /\ q # r /\ amPending'[q] = amPending[q]
      BY <1>2, <2>1
    <3>2. q \in amLate \/ \E d \in AMCallers : d # c /\ amCaller[d].at = "waiting" /\ amCaller[d].request = q
      BY <3>1 DEF AMInv, AMTableTrue, r
    <3>3. QED BY <1>1, <3>1, <3>2 DEF AMInv, AMTableTrue, AMDueOnes
  <2>2. QED BY <2>1 DEF AMTableTrue
<1>7. AMBrings'
  BY <1>2 DEF AMInv, AMBrings, AMAnswers, r
<1>8. AMCallersTrue'
  <2>1. ASSUME NEW d \in AMCallers
        PROVE  /\ amCaller'[d].at \in {"sent", "waiting"} => amCaller'[d].request # 0
               /\ amCaller'[d].at = "waiting" => amCaller'[d].request \in DOMAIN amPending'
               /\ amCaller'[d].at = "done" => amCaller'[d].result # 0 /\ amSent'[amCaller'[d].result].answers = amCaller'[d].request
    BY <1>1, <1>2, <1>3 DEF AMInv, AMCallersTrue, r
  <2>2. ASSUME NEW d \in AMCallers, NEW e \in AMCallers, amCaller'[d].request # 0, e # d
        PROVE  amCaller'[e].request # amCaller'[d].request
    <3>1. amCaller'[d].request = amCaller[d].request /\ amCaller'[e].request = amCaller[e].request
      BY <1>1 DEF r
    <3>2. QED BY <2>2, <3>1 DEF AMInv, AMCallersTrue
  <2>3. QED BY <2>1, <2>2 DEF AMCallersTrue
<1>9. QED BY <1>4, <1>5, <1>6, <1>7, <1>8 DEF AMInv

LEMMA AMGetInv ==
  ASSUME AMInv, NEW c \in AMCallers, AMGet(c)
  PROVE  AMInv'
<1> DEFINE r == amCaller[c].request
           answer == amPending[r]
           ok == amSent[answer].type = "result"
           me == [amCaller[c] EXCEPT !.at = IF ok THEN "done" ELSE "idle", !.result = IF ok THEN answer ELSE 0]
<1>1. /\ amCaller[c].at = "waiting" /\ answer # 0 /\ amPending' = AMForget(r)
      /\ amCaller' = [amCaller EXCEPT ![c] = me]
      /\ UNCHANGED <<amSent, amQueue, amFlight, amWorker, amRan, amLate>>
  BY DEF AMGet
<1>2. amCaller[c] \in AMCallerRecords(Len(amSent)) /\ r \in DOMAIN amPending
  BY <1>1 DEF AMInv, AMTyped, AMCallersTrue
<1>3. answer \in 0..Len(amSent) /\ amSent[answer].answers = r /\ answer \notin AMDueOnes
  BY <1>1, <1>2 DEF AMInv, AMTyped, AMTableTrue
<1>4. /\ me \in AMCallerRecords(Len(amSent)) /\ me.at \in {"idle", "done"} /\ me.request = r
      /\ me.at = "done" => me.result = answer
  <2>1. 0 \in 0..Len(amSent)
    BY LenProperties DEF AMInv, AMTyped
  <2> HIDE DEF ok, answer
  <2>2. QED BY <1>2, <1>3, <2>1 DEF AMCallerRecords
<1>5. ~(amWorker.at = "answering" /\ AMAnswers = r)
  <2>1. SUFFICES ASSUME amWorker.at = "answering", AMAnswers = r PROVE FALSE
    OBVIOUS
  <2>2. amWorker.message \in AMDueOnes /\ amWorker.message \in 0..Len(amSent) /\ amWorker.message # 0
    BY <2>1 DEF AMInv, AMTyped, AMDueOnes, AMWorkerRecords
  <2>3. amSent[amWorker.message].answers = r /\ r # 0
    BY <1>1, <2>1 DEF AMAnswers, AMInv, AMCallersTrue
  <2>4. answer \in 1..Len(amSent) /\ amWorker.message \in 1..Len(amSent)
    BY <1>1, <1>3, <2>2, LenProperties DEF AMInv, AMTyped
  <2>5. answer = amWorker.message
    BY <1>3, <2>3, <2>4 DEF AMInv, AMAnswersOnce
  <2>6. QED BY <1>3, <2>2, <2>5
<1>6. me.at = "done" => me.result # 0 /\ amSent[me.result].answers = me.request
  BY <1>1, <1>3, <1>4
<1> HIDE DEF me
<1>7. QED BY <1>1, <1>4, <1>5, <1>6, AMLeaveInv

LEMMA AMTimeOutInv ==
  ASSUME AMInv, NEW c \in AMCallers, AMTimeOut(c)
  PROVE  AMInv'
<1> DEFINE r == amCaller[c].request
           me == [amCaller[c] EXCEPT !.at = "idle"]
<1>1. /\ amCaller[c].at = "waiting" /\ amPending' = AMForget(r) /\ amCaller' = [amCaller EXCEPT ![c] = me]
      /\ amLate' = (IF amWorker.at = "answering" /\ amSent[amWorker.message].answers = r THEN amLate \cup {r} ELSE amLate)
      /\ UNCHANGED <<amSent, amQueue, amFlight, amWorker, amRan>>
  BY DEF AMTimeOut, AMForgotten
<1>2. me \in AMCallerRecords(Len(amSent)) /\ me.at = "idle" /\ me.request = r
  <2>1. amCaller[c] \in AMCallerRecords(Len(amSent))
    BY DEF AMInv, AMTyped
  <2>2. QED BY <2>1 DEF AMCallerRecords
<1>3. amLate \subseteq amLate' /\ (amWorker.at = "answering" /\ AMAnswers = r => AMAnswers \in amLate')
  BY <1>1 DEF AMAnswers
<1> HIDE DEF me
<1>4. QED BY <1>1, <1>2, <1>3, AMLeaveInv

\* A caller gives up, or goes on with nothing to wait for.
LEMMA AMGiveUpInv ==
  ASSUME AMInv, NEW c \in AMCallers, AMGiveUp(c)
  PROVE  AMInv'
<1> DEFINE me == [amCaller[c] EXCEPT !.at = "failed"]
<1>1. /\ amCaller[c].at = "idle" /\ amCaller' = [amCaller EXCEPT ![c] = me]
      /\ UNCHANGED <<amSent, amQueue, amFlight, amPending, amWorker, amOpen, amTold, amRan, amLate>>
  BY DEF AMGiveUp
<1>2. me \in AMCallerRecords(Len(amSent)) /\ me.at = "failed" /\ me.request = amCaller[c].request
  <2>1. amCaller[c] \in AMCallerRecords(Len(amSent))
    BY DEF AMInv, AMTyped
  <2>2. QED BY <2>1 DEF AMCallerRecords
<1> HIDE DEF me
<1>3. amCaller'[c] = me /\ \A d \in AMCallers : d # c => amCaller'[d] = amCaller[d]
  BY <1>1, AMCallerIs
<1>4. AMTyped'
  BY <1>1, <1>2 DEF AMInv, AMTyped
<1>5. AMAnswersOnce' /\ AMRunsAreOver'
  BY <1>1, AMAnswersKept, AMRunsKept DEF AMDueOnes
<1>6. AMTableTrue'
  <2>1. \A d \in AMCallers : amCaller[d].at = "waiting" => amCaller'[d] = amCaller[d]
    BY <1>1, <1>3
  <2>2. QED BY <1>1, <2>1 DEF AMInv, AMTableTrue, AMDueOnes
<1>7. AMBrings'
  BY <1>1 DEF AMInv, AMBrings, AMAnswers
<1>8. AMCallersTrue'
  BY <1>1, <1>2, <1>3 DEF AMInv, AMCallersTrue
<1>9. QED BY <1>4, <1>5, <1>6, <1>7, <1>8 DEF AMInv

-----------------------------------------------------------------------------
\* Steps that send.

\* A message that is made has the next number, and takes a place in the queue, if any.
LEMMA AMEnqueueIs ==
  ASSUME AMInv, NEW m \in AMMessageRecords, AMEnqueue(m)
  PROVE  /\ Len(amSent) \in Nat /\ Len(amSent') = Len(amSent) + 1 /\ amSent' \in Seq(AMMessageRecords)
         /\ amSent'[Len(amSent) + 1] = m /\ \A n \in 1..Len(amSent) : amSent'[n] = amSent[n]
         /\ amQueue' \subseteq amQueue \cup {Len(amSent) + 1} /\ amQueue' \subseteq 1..Len(amSent')
         /\ IsFiniteSet(amQueue') /\ Cardinality(amQueue') <= AMRoom
<1>1. amSent \in Seq(AMMessageRecords) /\ Len(amSent) \in Nat
  BY LenProperties DEF AMInv, AMTyped
<1>2. /\ Len(amSent') = Len(amSent) + 1 /\ amSent' \in Seq(AMMessageRecords)
      /\ amSent'[Len(amSent) + 1] = m /\ \A n \in 1..Len(amSent) : amSent'[n] = amSent[n]
  BY <1>1, AppendProperties DEF AMEnqueue
<1>3. amQueue \subseteq 1..Len(amSent) /\ IsFiniteSet(amQueue) /\ Cardinality(amQueue) <= AMRoom
  BY DEF AMInv, AMTyped
<1>4. CASE AMAdmits
  <2>1. amQueue' = amQueue \cup {Len(amSent) + 1}
    BY <1>2, <1>4 DEF AMEnqueue
  <2>2. Cardinality(amQueue) < AMRoom /\ Cardinality(amQueue) \in Nat
    BY <1>3, <1>4, FS_CardinalityType DEF AMAdmits
  <2>3. Len(amSent) + 1 \notin amQueue
    BY <1>1, <1>3
  <2>4. IsFiniteSet(amQueue') /\ Cardinality(amQueue') = Cardinality(amQueue) + 1
    BY <1>3, <2>1, <2>3, FS_AddElement
  <2>5. Cardinality(amQueue') <= AMRoom
    BY <2>2, <2>4, AMConstants
  <2>6. amQueue' \subseteq 1..Len(amSent')
    <3>1. 1..Len(amSent) \subseteq 1..Len(amSent') /\ Len(amSent) + 1 \in 1..Len(amSent')
      BY <1>1, <1>2
    <3>2. QED BY <1>3, <2>1, <3>1
  <2>7. QED BY <1>1, <1>2, <2>1, <2>4, <2>5, <2>6
<1>5. CASE ~AMAdmits
  <2>1. amQueue' = amQueue
    BY <1>5 DEF AMEnqueue
  <2>2. amQueue' \subseteq 1..Len(amSent')
    BY <1>1, <1>2, <1>3, <2>1
  <2>3. QED BY <1>1, <1>2, <1>3, <2>1, <2>2
<1>6. QED BY <1>4, <1>5

LEMMA AMTypesGrow ==
  ASSUME NEW n \in Nat
  PROVE  AMCallerRecords(n) \subseteq AMCallerRecords(n + 1) /\ AMWorkerRecords(n) \subseteq AMWorkerRecords(n + 1)
<1>1. 0..n \subseteq 0..(n + 1)
  OBVIOUS
<1>2. QED BY <1>1 DEF AMCallerRecords, AMWorkerRecords

\* What is known of the numbers in use.
LEMMA AMNumbers ==
  ASSUME AMInv
  PROVE  /\ \A c \in AMCallers : amCaller[c].request \in 0..Len(amSent) /\ amCaller[c].result \in 0..Len(amSent)
         /\ AMRanOnes \subseteq 1..Len(amSent) /\ AMDueOnes \subseteq 1..Len(amSent)
         /\ amWorker.at # "idle" => amWorker.message \in 1..Len(amSent) /\ amWorker.message \in AMDueOnes
         /\ \A m \in 1..Len(amSent) : amSent[m].answers \in Nat
         /\ \A r \in DOMAIN amPending : amPending[r] \in 0..Len(amSent)
<1>1. \A c \in AMCallers : amCaller[c].request \in 0..Len(amSent) /\ amCaller[c].result \in 0..Len(amSent)
  BY DEF AMInv, AMTyped, AMCallerRecords
<1>2. AMRanOnes \subseteq 1..Len(amSent)
  BY ElementOfSeq DEF AMInv, AMTyped, AMRanOnes
<1>3. amWorker.message \in 0..Len(amSent) /\ Len(amSent) \in Nat
  BY LenProperties DEF AMInv, AMTyped, AMWorkerRecords
<1>4. amWorker.at # "idle" => amWorker.message # 0 /\ amFlight = {amWorker.message}
  BY DEF AMInv, AMTyped
<1>5. amWorker.at # "idle" => amWorker.message \in 1..Len(amSent) /\ amWorker.message \in AMDueOnes
  BY <1>3, <1>4 DEF AMDueOnes
<1>6. AMDueOnes \subseteq 1..Len(amSent)
  <2>1. CASE amWorker.at = "idle"
    BY <2>1 DEF AMInv, AMTyped, AMDueOnes
  <2>2. CASE amWorker.at # "idle"
    BY <1>4, <1>5, <2>2 DEF AMInv, AMTyped, AMDueOnes
  <2>3. QED BY <2>1, <2>2
<1>7. \A m \in 1..Len(amSent) : amSent[m].answers \in Nat
  <2>1. \A m \in 1..Len(amSent) : amSent[m] \in AMMessageRecords
    BY ElementOfSeq DEF AMInv, AMTyped
  <2>2. QED BY <2>1 DEF AMMessageRecords
<1>8. \A r \in DOMAIN amPending : amPending[r] \in 0..Len(amSent)
  BY DEF AMInv, AMTyped
<1>9. QED BY <1>1, <1>2, <1>5, <1>6, <1>7, <1>8

\* A message that answers nothing is made; a caller that was idle may have made it as its request.
LEMMA AMMoreInv ==
  ASSUME AMInv, NEW m \in AMMessageRecords, m.answers = 0, AMEnqueue(m),
         UNCHANGED <<amFlight, amPending, amWorker, amRan, amLate>>,
         amCaller' \in [AMCallers -> AMCallerRecords(Len(amSent) + 1)],
         NEW own, own \subseteq AMCallers,
         \A c, d \in own : c = d,
         \A d \in AMCallers \ own : amCaller'[d] = amCaller[d],
         \A d \in own : /\ amCaller[d].at = "idle" /\ amCaller'[d].at \in {"idle", "sent"}
                        /\ amCaller'[d].request = Len(amSent) + 1
  PROVE  AMInv'
<1> DEFINE n == Len(amSent)
<1>1. /\ n \in Nat /\ Len(amSent') = n + 1 /\ amSent' \in Seq(AMMessageRecords)
      /\ amSent'[n + 1] = m /\ \A k \in 1..n : amSent'[k] = amSent[k]
      /\ amQueue' \subseteq amQueue \cup {n + 1} /\ amQueue' \subseteq 1..(n + 1)
      /\ IsFiniteSet(amQueue') /\ Cardinality(amQueue') <= AMRoom
  BY AMEnqueueIs
<1>2. /\ \A c \in AMCallers : amCaller[c].request \in 0..n /\ amCaller[c].result \in 0..n
      /\ AMRanOnes \subseteq 1..n /\ AMDueOnes \subseteq 1..n
      /\ amWorker.at # "idle" => amWorker.message \in 1..n
      /\ \A r \in DOMAIN amPending : amPending[r] \in 0..n
  BY AMNumbers
<1>3. AMDueOnes' \subseteq AMDueOnes \cup {n + 1}
  BY <1>1 DEF AMDueOnes
<1>4. AMRanOnes' = AMRanOnes
  BY DEF AMRanOnes
<1>5. AMTyped'
  <2>1. amWorker \in AMWorkerRecords(n + 1) /\ (amWorker.at # "idle" => amWorker.message # 0)
    BY <1>1, AMTypesGrow DEF AMInv, AMTyped
  <2>2. amFlight = (IF amWorker.at = "idle" THEN {} ELSE {amWorker.message})
    BY DEF AMInv, AMTyped
  <2>3. amQueue' \cap amFlight = {}
    BY <1>1, <1>2, <2>2 DEF AMInv, AMTyped
  <2>4. amPending \in [DOMAIN amPending -> 0..(n + 1)] /\ DOMAIN amPending \subseteq 1..(n + 1)
    BY <1>1 DEF AMInv, AMTyped
  <2>5. amRan \in Seq(1..(n + 1))
    <3>1. amRan \in Seq(1..n) /\ 1..n \subseteq 1..(n + 1)
      BY <1>1 DEF AMInv, AMTyped
    <3>2. QED BY <3>1, SeqMonotonic
  <2> HIDE DEF n
  <2>6. QED BY <1>1, <2>1, <2>2, <2>3, <2>4, <2>5 DEF AMTyped, n
<1> HIDE DEF n
<1>6. 1..Len(amSent') = 1..n \cup {n + 1} /\ n + 1 \notin 1..n /\ n + 1 # 0
  BY <1>1
<1>7. AMAnswersOnce'
  <2>1. ASSUME NEW k \in 1..Len(amSent')
        PROVE  /\ amSent'[k].answers \in {0} \cup AMRanOnes'
               /\ amSent'[k].answers # 0 => \A l \in 1..Len(amSent') : amSent'[l].answers = amSent'[k].answers => l = k
    BY <1>1, <1>4, <1>6, <2>1 DEF AMInv, AMAnswersOnce, n
  <2>2. QED BY <2>1 DEF AMAnswersOnce
<1>8. AMRunsAreOver'
  <2>1. AMRanOnes' \cap AMDueOnes' = {}
    BY <1>2, <1>3, <1>4, <1>6 DEF AMInv, AMRunsAreOver
  <2>2. \A i \in 1..Len(amRan) : amRan[i] \in 1..n
    BY <1>2 DEF AMRanOnes
  <2>3. \A i, j \in 1..Len(amRan) : amSent'[amRan[i]].type = "request" /\ (i # j => amRan[i] # amRan[j])
    BY <1>1, <2>2 DEF AMInv, AMRunsAreOver
  <2>4. \A k \in 1..Len(amSent') : amSent'[k].type = "request" => amSent'[k].answers = 0
    BY <1>1, <1>6 DEF AMInv, AMRunsAreOver, n
  <2>5. QED BY <2>1, <2>3, <2>4 DEF AMRunsAreOver
<1>9. AMTableTrue'
  <2>1. ASSUME NEW r \in DOMAIN amPending
        PROVE  /\ amPending[r] # 0 => amSent'[amPending[r]].answers = r /\ amPending[r] \notin AMDueOnes'
               /\ r \in amLate \/ \E d \in AMCallers : amCaller'[d].at = "waiting" /\ amCaller'[d].request = r
    <3>1. amPending[r] # 0 => amPending[r] \in 1..n
      BY <1>1, <1>2
    <3>2. r \in amLate \/ \E d \in AMCallers \ own : amCaller[d].at = "waiting" /\ amCaller[d].request = r
      BY DEF AMInv, AMTableTrue
    <3>3. amPending[r] # 0 => amSent'[amPending[r]].answers = r /\ amPending[r] \notin AMDueOnes'
      BY <1>1, <1>3, <1>6, <3>1 DEF AMInv, AMTableTrue
    <3>4. QED BY <3>2, <3>3
  <2>2. QED BY <2>1 DEF AMTableTrue
<1>10. AMBrings'
  <2>1. amWorker.at # "idle" => AMAnswers' = AMAnswers
    BY <1>1, <1>2 DEF AMAnswers
  <2>2. QED BY <2>1 DEF AMInv, AMBrings
<1>11. AMCallersTrue'
  <2>1. ASSUME NEW c \in AMCallers
        PROVE  /\ amCaller'[c].at \in {"sent", "waiting"} => amCaller'[c].request # 0
               /\ amCaller'[c].at = "waiting" => amCaller'[c].request \in DOMAIN amPending
               /\ amCaller'[c].at = "done" => amCaller'[c].result # 0 /\ amSent'[amCaller'[c].result].answers = amCaller'[c].request
    <3>1. CASE c \in own
      BY <1>6, <3>1 DEF n
    <3>2. CASE c \notin own
      <4>1. amCaller'[c] = amCaller[c] /\ amCaller[c].result \in 0..n
        BY <1>2, <3>2
      <4>2. amCaller[c].at = "done" => amCaller[c].result \in 1..n
        BY <1>1, <4>1 DEF AMInv, AMCallersTrue
      <4>3. QED BY <1>1, <4>1, <4>2 DEF AMInv, AMCallersTrue
    <3>3. QED BY <3>1, <3>2
  <2>2. ASSUME NEW c \in AMCallers, NEW d \in AMCallers, amCaller'[c].request # 0, d # c
        PROVE  amCaller'[d].request # amCaller'[c].request
    <3>1. CASE c \in own \/ d \in own
      BY <1>2, <1>6, <2>2, <3>1 DEF n
    <3>2. CASE c \notin own /\ d \notin own
      BY <2>2, <3>2 DEF AMInv, AMCallersTrue
    <3>3. QED BY <3>1, <3>2
  <2>3. QED BY <2>1, <2>2 DEF AMCallersTrue
<1>12. QED BY <1>5, <1>7, <1>8, <1>9, <1>10, <1>11 DEF AMInv

LEMMA AMSendInv ==
  ASSUME AMInv, NEW c \in AMCallers, AMSend(c)
  PROVE  AMInv'
<1> DEFINE n == Len(amSent)
           m == AMMessage("request", 1, 0)
           me == [amCaller[c] EXCEPT !.at = IF AMAdmits THEN "sent" ELSE "idle", !.tries = @ + 1, !.request = Len(amSent')]
           own == {c}
<1>1. /\ amCaller[c].at = "idle" /\ amCaller[c].tries < AMTries /\ AMEnqueue(m)
      /\ amCaller' = [amCaller EXCEPT ![c] = me]
      /\ UNCHANGED <<amFlight, amPending, amWorker, amRan, amLate>>
  BY DEF AMSend
<1>2. m \in AMMessageRecords /\ m.answers = 0
  BY DEF AMMessage, AMMessageRecords
<1> HIDE DEF m
<1>3. n \in Nat /\ Len(amSent') = n + 1
  BY <1>1, <1>2, AMEnqueueIs
<1>4. amCaller \in [AMCallers -> AMCallerRecords(n)]
  BY DEF AMInv, AMTyped
<1>5. amCaller \in [AMCallers -> AMCallerRecords(n + 1)]
  BY <1>3, <1>4, AMTypesGrow
<1>6. me.at \in {"idle", "sent"} /\ me.request = n + 1 /\ me \in AMCallerRecords(n + 1)
  <2>1. amCaller[c] \in AMCallerRecords(n + 1)
    BY <1>5
  <2>2. amCaller[c].tries + 1 \in 0..AMTries /\ n + 1 \in 0..(n + 1)
    BY <1>1, <1>3, <2>1, AMConstants DEF AMCallerRecords
  <2> HIDE DEF n
  <2>3. QED BY <1>3, <2>1, <2>2 DEF AMCallerRecords
<1> HIDE DEF me
<1>7. amCaller' \in [AMCallers -> AMCallerRecords(n + 1)]
  BY <1>1, <1>5, <1>6
<1>8. amCaller'[c] = me /\ \A d \in AMCallers \ own : amCaller'[d] = amCaller[d]
  BY <1>1, <1>4
<1>9. \A d \in own : /\ amCaller[d].at = "idle" /\ amCaller'[d].at \in {"idle", "sent"}
                     /\ amCaller'[d].request = n + 1
  BY <1>1, <1>6, <1>8
<1>10. own \subseteq AMCallers /\ \A d, e \in own : d = e
  OBVIOUS
<1> HIDE DEF n, own
<1>11. QED BY <1>1, <1>2, <1>7, <1>8, <1>9, <1>10, AMMoreInv DEF n

LEMMA AMTellInv ==
  ASSUME AMInv, AMTell
  PROVE  AMInv'
<1> DEFINE n == Len(amSent)
           m == AMMessage("notice", 3, 0)
<1>1. AMEnqueue(m) /\ UNCHANGED <<amCaller, amFlight, amPending, amWorker, amRan, amLate>>
  BY DEF AMTell
<1>2. m \in AMMessageRecords /\ m.answers = 0
  BY DEF AMMessage, AMMessageRecords
<1> HIDE DEF m
<1>3. amCaller' \in [AMCallers -> AMCallerRecords(n + 1)]
  BY <1>1, AMTypesGrow, LenProperties DEF AMInv, AMTyped
<1>4. \A d \in AMCallers \ {} : amCaller'[d] = amCaller[d]
  BY <1>1
<1>5. QED BY <1>1, <1>2, <1>3, <1>4, AMMoreInv

-----------------------------------------------------------------------------
\* Steps of the worker.

\* A step of the worker that sends nothing and brings nothing.
LEMMA AMWorkerInv ==
  ASSUME AMInv, AMTyped', AMBrings', AMDueOnes' \subseteq AMDueOnes,
         UNCHANGED <<amSent, amPending, amCaller, amRan, amLate>>
  PROVE  AMInv'
<1>1. AMAnswersOnce' /\ AMRunsAreOver'
  BY AMAnswersKept, AMRunsKept
<1>2. AMTableTrue'
  BY DEF AMInv, AMTableTrue
<1>3. AMCallersTrue'
  BY DEF AMInv, AMCallersTrue
<1>4. QED BY <1>1, <1>2, <1>3 DEF AMInv

LEMMA AMFirstIs ==
  ASSUME AMInv, amQueue # {}
  PROVE  AMFirst \in amQueue
<1> DEFINE P == {amSent[m].priority : m \in amQueue}
<1>1. \A m \in amQueue : m \in Nat /\ amSent[m].priority \in Nat
  <2>1. \A m \in amQueue : m \in Nat /\ amSent[m] \in AMMessageRecords
    BY ElementOfSeq, LenProperties DEF AMInv, AMTyped
  <2>2. QED BY <2>1 DEF AMMessageRecords
<1>2. PICK p \in P : \A q \in P : p <= q
  <2>1. P \in SUBSET Nat /\ P # {}
    BY <1>1
  <2> HIDE DEF P
  <2>2. QED BY <2>1, LeastNumber
<1> DEFINE Q == {m \in amQueue : amSent[m].priority = p}
<1>3. PICK m \in Q : \A k \in Q : m <= k
  <2>1. Q \in SUBSET Nat /\ Q # {}
    BY <1>1, <1>2
  <2> HIDE DEF Q
  <2>2. QED BY <2>1, LeastNumber
<1>4. \A k \in amQueue : AMBefore(m, k)
  <2>1. ASSUME NEW k \in amQueue PROVE AMBefore(m, k)
    <3>1. p <= amSent[k].priority /\ amSent[m].priority = p /\ amSent[k].priority \in Nat /\ p \in Nat
      BY <1>1, <1>2, <1>3
    <3>2. CASE amSent[k].priority = p
      BY <1>3, <3>1, <3>2 DEF AMBefore
    <3>3. CASE amSent[k].priority # p
      BY <3>1, <3>3 DEF AMBefore
    <3>4. QED BY <3>2, <3>3
  <2>2. QED BY <2>1
<1>5. \E k \in amQueue : \A l \in amQueue : AMBefore(k, l)
  BY <1>3, <1>4
<1>6. QED BY <1>5 DEF AMFirst

LEMMA AMTakeInv ==
  ASSUME AMInv, AMTake
  PROVE  AMInv'
<1> DEFINE m == AMFirst
<1>1. /\ amWorker.at = "idle" /\ amQueue # {} /\ amQueue' = amQueue \ {m}
      /\ UNCHANGED <<amSent, amPending, amCaller, amRan, amLate>>
  BY DEF AMTake, AMTaken
<1>2. \/ amFlight' = amFlight \cup {m} /\ amWorker' = [at |-> "routing", message |-> m]
      \/ UNCHANGED <<amFlight, amWorker>>
  BY DEF AMTake
<1>3. m \in amQueue
  BY <1>1, AMFirstIs
<1> HIDE DEF m
<1>4. /\ amFlight = {} /\ m \in 1..Len(amSent) /\ amQueue' \subseteq 1..Len(amSent)
      /\ IsFiniteSet(amQueue') /\ Cardinality(amQueue') <= AMRoom
  <2>1. amFlight = {} /\ amQueue \subseteq 1..Len(amSent) /\ IsFiniteSet(amQueue) /\ Cardinality(amQueue) <= AMRoom
    BY <1>1 DEF AMInv, AMTyped
  <2>2. IsFiniteSet(amQueue') /\ Cardinality(amQueue') = Cardinality(amQueue) - 1 /\ Cardinality(amQueue) \in Nat
    BY <1>1, <1>3, <2>1, FS_RemoveElement, FS_CardinalityType
  <2>3. Cardinality(amQueue') <= AMRoom
    BY <2>1, <2>2, AMConstants
  <2>4. QED BY <1>1, <1>3, <2>1, <2>2, <2>3
<1>5. /\ amWorker' \in AMWorkerRecords(Len(amSent)) /\ (amWorker'.at # "idle" => amWorker'.message # 0)
      /\ amFlight' = (IF amWorker'.at = "idle" THEN {} ELSE {amWorker'.message})
      /\ amFlight' \subseteq {m} /\ amWorker'.at \notin {"reading", "answering"}
  <2>1. CASE amFlight' = amFlight \cup {m} /\ amWorker' = [at |-> "routing", message |-> m]
    <3>1. m \in 0..Len(amSent) /\ m # 0
      BY <1>4, LenProperties DEF AMInv, AMTyped
    <3>2. QED BY <1>4, <2>1, <3>1 DEF AMWorkerRecords
  <2>2. CASE UNCHANGED <<amFlight, amWorker>>
    BY <1>1, <1>4, <2>2 DEF AMInv, AMTyped
  <2>3. QED BY <1>2, <2>1, <2>2
<1>6. AMTyped'
  BY <1>1, <1>4, <1>5 DEF AMInv, AMTyped
<1>7. AMBrings'
  BY <1>5 DEF AMBrings
<1>8. AMDueOnes' \subseteq AMDueOnes
  BY <1>1, <1>3, <1>4, <1>5 DEF AMDueOnes
<1>9. QED BY <1>1, <1>6, <1>7, <1>8, AMWorkerInv

\* The worker has done with a message.
LEMMA AMFinishIs ==
  ASSUME AMInv, amWorker.at # "idle", AMFinish
  PROVE  /\ amFlight' = {} /\ amWorker'.at = "idle" /\ amWorker' \in AMWorkerRecords(Len(amSent))
         /\ AMBrings'
<1>1. amFlight = {amWorker.message}
  BY DEF AMInv, AMTyped
<1>2. 0 \in 0..Len(amSent)
  BY LenProperties DEF AMInv, AMTyped
<1>3. amFlight' = {} /\ amWorker' = [at |-> "idle", message |-> 0]
  BY <1>1 DEF AMFinish
<1>4. QED BY <1>2, <1>3 DEF AMBrings, AMWorkerRecords

LEMMA AMRejectInv ==
  ASSUME AMInv, amWorker.at # "idle", AMFinish,
         UNCHANGED <<amSent, amQueue, amPending, amCaller, amRan, amLate>>
  PROVE  AMInv'
<1>1. amFlight' = {} /\ amWorker'.at = "idle" /\ amWorker' \in AMWorkerRecords(Len(amSent)) /\ AMBrings'
  BY AMFinishIs
<1>2. AMTyped'
  BY <1>1 DEF AMInv, AMTyped
<1>3. AMDueOnes' \subseteq AMDueOnes
  BY <1>1 DEF AMDueOnes
<1>4. QED BY <1>1, <1>2, <1>3, AMWorkerInv

\* The worker goes on with its message.
LEMMA AMGoOnInv ==
  ASSUME AMInv, amWorker.at # "idle", NEW step \in {"reading", "answering"},
         amWorker' = [amWorker EXCEPT !.at = step], AMAnswers \in DOMAIN amPending,
         UNCHANGED <<amSent, amQueue, amFlight, amPending, amCaller, amRan, amLate>>
  PROVE  AMInv'
<1>1. amWorker \in AMWorkerRecords(Len(amSent)) /\ amWorker.message # 0 /\ amFlight = {amWorker.message}
  BY DEF AMInv, AMTyped
<1>2. /\ amWorker' \in AMWorkerRecords(Len(amSent)) /\ amWorker'.message = amWorker.message
      /\ amWorker'.at = step
  BY <1>1 DEF AMWorkerRecords
<1>3. AMTyped'
  BY <1>1, <1>2 DEF AMInv, AMTyped
<1>4. AMAnswers' = AMAnswers /\ AMAnswers # 0
  <2>1. AMAnswers \in 1..Len(amSent)
    BY DEF AMInv, AMTyped
  <2>2. QED BY <1>2, <2>1 DEF AMAnswers
<1>5. AMBrings'
  BY <1>4 DEF AMBrings
<1>6. AMDueOnes' \subseteq AMDueOnes
  BY DEF AMDueOnes
<1>7. QED BY <1>3, <1>5, <1>6, AMWorkerInv

LEMMA AMDropInv == ASSUME AMInv, AMDrop PROVE AMInv'
BY AMRejectInv DEF AMDrop

LEMMA AMFindInv == ASSUME AMInv, AMFind PROVE AMInv'
BY AMGoOnInv DEF AMFind

LEMMA AMReadInv == ASSUME AMInv, AMRead PROVE AMInv'
<1>1. CASE AMAnswers \in DOMAIN amPending
  BY <1>1, AMGoOnInv DEF AMRead
<1>2. CASE AMAnswers \notin DOMAIN amPending
  BY <1>2, AMRejectInv DEF AMRead
<1>3. QED BY <1>1, <1>2

\* The answer is put where its request waits, or waited.
LEMMA AMAnswerInv ==
  ASSUME AMInv, AMAnswer
  PROVE  AMInv'
<1> DEFINE w == amWorker.message
           r == AMAnswers
<1>1. /\ amWorker.at = "answering" /\ AMFinish
      /\ amPending' = [q \in DOMAIN amPending \cup {r} |-> IF q = r THEN w ELSE amPending[q]]
      /\ UNCHANGED <<amSent, amQueue, amCaller, amRan, amLate>>
  BY DEF AMAnswer, AMAnswered
<1>2. amFlight' = {} /\ amWorker'.at = "idle" /\ amWorker' \in AMWorkerRecords(Len(amSent)) /\ AMBrings'
  BY <1>1, AMFinishIs
<1>3. /\ w \in 1..Len(amSent) /\ w \in AMDueOnes /\ amSent[w].answers = r /\ r # 0
      /\ AMRanOnes \subseteq 1..Len(amSent) /\ amFlight = {w} /\ w \notin amQueue
  <2>1. w \in 1..Len(amSent) /\ w \in AMDueOnes /\ AMRanOnes \subseteq 1..Len(amSent)
    BY <1>1, AMNumbers
  <2>2. amFlight = {w} /\ amQueue \cap amFlight = {}
    BY <1>1 DEF AMInv, AMTyped
  <2>3. QED BY <1>1, <2>1, <2>2 DEF AMInv, AMBrings, AMAnswers
<1>4. r \in 1..Len(amSent)
  BY <1>3 DEF AMInv, AMAnswersOnce
<1>5. r \in DOMAIN amPending \cup amLate
  BY <1>1 DEF AMInv, AMBrings
<1> HIDE DEF w, r
<1>6. /\ DOMAIN amPending' = DOMAIN amPending \cup {r} /\ amPending'[r] = w
      /\ \A q \in DOMAIN amPending : q # r => amPending'[q] = amPending[q]
  BY <1>1
<1>7. AMTyped'
  <2>1. 1..Len(amSent) \subseteq 0..Len(amSent)
    BY LenProperties DEF AMInv, AMTyped
  <2>2. amPending' \in [DOMAIN amPending' -> 0..Len(amSent)] /\ DOMAIN amPending' \subseteq 1..Len(amSent)
    BY <1>1, <1>3, <1>4, <1>6, <2>1 DEF AMInv, AMTyped
  <2>3. QED BY <1>1, <1>2, <2>2 DEF AMInv, AMTyped
<1>8. AMDueOnes' = AMDueOnes \ {w}
  BY <1>1, <1>2, <1>3 DEF AMDueOnes
<1>9. AMAnswersOnce' /\ AMRunsAreOver'
  BY <1>1, <1>8, AMAnswersKept, AMRunsKept
<1>10. AMTableTrue'
  <2>1. ASSUME NEW q \in DOMAIN amPending'
        PROVE  /\ amPending'[q] # 0 => amSent[amPending'[q]].answers = q /\ amPending'[q] \notin AMDueOnes'
               /\ q \in amLate \/ \E d \in AMCallers : amCaller[d].at = "waiting" /\ amCaller[d].request = q
    <3>1. CASE q = r
      BY <1>3, <1>5, <1>6, <1>8, <3>1 DEF AMInv, AMTableTrue
    <3>2. CASE q # r
      BY <1>6, <1>8, <2>1, <3>2 DEF AMInv, AMTableTrue
    <3>3. QED BY <3>1, <3>2
  <2>2. QED BY <1>1, <2>1 DEF AMTableTrue
<1>11. AMCallersTrue'
  BY <1>1, <1>6 DEF AMInv, AMCallersTrue
<1>12. QED BY <1>2, <1>7, <1>9, <1>10, <1>11 DEF AMInv

\* A task runs, and its answer is sent: the request has not run before, and has no answer yet.
LEMMA AMRunTaskInv ==
  ASSUME AMInv, AMRunTask
  PROVE  AMInv'
<1> DEFINE n == Len(amSent)
           w == amWorker.message
<1>1. PICK type \in {"result", "error"} : AMEnqueue(AMMessage(type, 1, w))
  BY DEF AMRunTask
<1>2. /\ amWorker.at = "routing" /\ amSent[w].type = "request" /\ amRan' = Append(amRan, w) /\ AMFinish
      /\ UNCHANGED <<amPending, amCaller, amLate>>
  BY DEF AMRunTask
<1> DEFINE m == AMMessage(type, 1, w)
<1>3. /\ \A c \in AMCallers : amCaller[c].request \in 0..n /\ amCaller[c].result \in 0..n
      /\ AMRanOnes \subseteq 1..n /\ AMDueOnes \subseteq 1..n
      /\ w \in 1..n /\ w \in AMDueOnes
      /\ \A r \in DOMAIN amPending : amPending[r] \in 0..n
  BY <1>2, AMNumbers
<1>4. n \in Nat
  BY LenProperties DEF AMInv, AMTyped
<1>5. m \in AMMessageRecords /\ m.answers = w /\ m.type # "request"
  BY <1>3, <1>4 DEF AMMessage, AMMessageRecords
<1>6. /\ Len(amSent') = n + 1 /\ amSent' \in Seq(AMMessageRecords)
      /\ amSent'[n + 1] = m /\ \A k \in 1..n : amSent'[k] = amSent[k]
      /\ amQueue' \subseteq amQueue \cup {n + 1} /\ amQueue' \subseteq 1..(n + 1)
      /\ IsFiniteSet(amQueue') /\ Cardinality(amQueue') <= AMRoom
  <2> HIDE DEF m
  <2>1. AMEnqueue(m)
    BY <1>1 DEF m
  <2>2. QED BY <1>5, <2>1, AMEnqueueIs
<1>7. amFlight' = {} /\ amWorker'.at = "idle" /\ amWorker' \in AMWorkerRecords(n) /\ AMBrings'
  BY <1>2, AMFinishIs
<1>8. 1..Len(amSent') = 1..n \cup {n + 1} /\ n + 1 \notin 1..n /\ n + 1 # 0
  BY <1>4, <1>6
<1>9. amQueue \cap amFlight = {} /\ amFlight = {w}
  BY <1>2 DEF AMInv, AMTyped
<1> HIDE DEF n, m, w
<1>10. AMDueOnes' \subseteq (AMDueOnes \ {w}) \cup {n + 1}
  BY <1>6, <1>7, <1>9 DEF AMDueOnes
<1>11. /\ Len(amRan') = Len(amRan) + 1 /\ amRan' \in Seq(1..n) /\ Len(amRan) \in Nat
       /\ amRan'[Len(amRan) + 1] = w /\ \A i \in 1..Len(amRan) : amRan'[i] = amRan[i]
  <2>1. amRan \in Seq(1..n)
    BY DEF AMInv, AMTyped, n
  <2>2. QED BY <1>2, <1>3, <2>1, AppendProperties, LenProperties
<1>12. 1..Len(amRan') = 1..Len(amRan) \cup {Len(amRan) + 1}
  BY <1>11
<1>13. AMRanOnes' = AMRanOnes \cup {w}
  BY <1>11, <1>12 DEF AMRanOnes
<1>14. w \notin AMRanOnes
  BY <1>3 DEF AMInv, AMRunsAreOver
<1>15. AMTyped'
  <2>1. amWorker' \in AMWorkerRecords(n + 1)
    BY <1>4, <1>7, AMTypesGrow
  <2>2. amPending' \in [DOMAIN amPending' -> 0..(n + 1)] /\ DOMAIN amPending' \subseteq 1..(n + 1)
    <3>1. 0..n \subseteq 0..(n + 1) /\ 1..n \subseteq 1..(n + 1)
      BY <1>4
    <3>2. QED BY <1>2, <3>1 DEF AMInv, AMTyped, n
  <2>3. amRan' \in Seq(1..(n + 1))
    <3>1. 1..n \subseteq 1..(n + 1)
      BY <1>4
    <3>2. QED BY <1>11, <3>1, SeqMonotonic
  <2>4. amCaller' \in [AMCallers -> AMCallerRecords(n + 1)]
    BY <1>2, <1>4, AMTypesGrow DEF AMInv, AMTyped, n
  <2>5. QED BY <1>6, <1>7, <2>1, <2>2, <2>3, <2>4 DEF AMTyped
<1>16. AMAnswersOnce'
  <2>1. \A k \in 1..n : amSent[k].answers # w
    BY <1>3, <1>14 DEF AMInv, AMAnswersOnce, n
  <2>2. ASSUME NEW k \in 1..Len(amSent')
        PROVE  /\ amSent'[k].answers \in {0} \cup AMRanOnes'
               /\ amSent'[k].answers # 0 => \A l \in 1..Len(amSent') : amSent'[l].answers = amSent'[k].answers => l = k
    <3>1. CASE k = n + 1
      BY <1>5, <1>6, <1>8, <1>13, <2>1, <3>1
    <3>2. CASE k \in 1..n
      <4>1. amSent'[k] = amSent[k] /\ amSent[k].answers # w
        BY <1>6, <2>1, <3>2
      <4>2. amSent[k].answers \in {0} \cup AMRanOnes
        BY <3>2 DEF AMInv, AMAnswersOnce, n
      <4>3. ASSUME amSent[k].answers # 0, NEW l \in 1..Len(amSent'), amSent'[l].answers = amSent[k].answers
            PROVE  l = k
        <5>1. l \in 1..n
          BY <1>5, <1>6, <1>8, <4>1, <4>3
        <5>2. amSent[l].answers = amSent[k].answers
          BY <1>6, <4>3, <5>1
        <5>3. QED BY <3>2, <4>3, <5>1, <5>2 DEF AMInv, AMAnswersOnce, n
      <4>4. QED BY <1>13, <4>1, <4>2, <4>3
    <3>3. QED BY <1>8, <3>1, <3>2
  <2>3. QED BY <2>2 DEF AMAnswersOnce
<1>17. AMRunsAreOver'
  <2>1. AMRanOnes' \cap AMDueOnes' = {}
    BY <1>3, <1>8, <1>10, <1>13 DEF AMInv, AMRunsAreOver
  <2>2. \A i \in 1..Len(amRan) : amRan[i] \in 1..n /\ amRan[i] # w /\ amSent[amRan[i]].type = "request"
    BY <1>3, <1>14 DEF AMRanOnes, AMInv, AMRunsAreOver
  <2>3. \A i, j \in 1..Len(amRan) : i # j => amRan[i] # amRan[j]
    BY DEF AMInv, AMRunsAreOver
  <2>4. ASSUME NEW i \in 1..Len(amRan'), NEW j \in 1..Len(amRan')
        PROVE  amSent'[amRan'[i]].type = "request" /\ (i # j => amRan'[i] # amRan'[j])
    <3>1. amSent'[amRan'[i]].type = "request"
      <4>1. CASE i \in 1..Len(amRan)
        BY <1>6, <1>11, <2>2, <4>1
      <4>2. CASE i = Len(amRan) + 1
        <5>1. amRan'[i] = w /\ amSent'[w] = amSent[w]
          BY <1>3, <1>6, <1>11, <4>2
        <5>2. QED BY <1>2, <5>1
      <4>3. QED BY <1>12, <4>1, <4>2
    <3>2. i # j => amRan'[i] # amRan'[j]
      BY <1>11, <1>12, <2>2, <2>3
    <3>3. QED BY <3>1, <3>2
  <2>5. \A k \in 1..Len(amSent') : amSent'[k].type = "request" => amSent'[k].answers = 0
    BY <1>5, <1>6, <1>8 DEF AMInv, AMRunsAreOver, n
  <2>6. QED BY <2>1, <2>4, <2>5 DEF AMRunsAreOver
<1>18. AMTableTrue'
  <2>1. ASSUME NEW r \in DOMAIN amPending
        PROVE  amPending[r] # 0 => amSent'[amPending[r]].answers = r /\ amPending[r] \notin AMDueOnes'
    <3>1. amPending[r] # 0 => amPending[r] \in 1..n
      BY <1>3, <1>4
    <3>2. QED BY <1>6, <1>8, <1>10, <3>1 DEF AMInv, AMTableTrue
  <2>2. QED BY <1>2, <2>1 DEF AMInv, AMTableTrue
<1>19. AMCallersTrue'
  <2>1. \A c \in AMCallers : amCaller[c].at = "done" => amCaller[c].result \in 1..n
    BY <1>3, <1>4 DEF AMInv, AMCallersTrue
  <2>2. QED BY <1>2, <1>6, <2>1 DEF AMInv, AMCallersTrue
<1>20. QED BY <1>7, <1>15, <1>16, <1>17, <1>18, <1>19 DEF AMInv

LEMMA AMNextInv == AMInv /\ [AMNext]_amVars => AMInv'
<1>1. ASSUME AMInv, UNCHANGED amVars PROVE AMInv'
  <2>1. UNCHANGED <<amSent, amQueue, amFlight, amPending, amCaller, amWorker, amRan, amLate>>
    BY <1>1 DEF amVars
  <2>2. AMTyped' /\ AMBrings' /\ AMDueOnes' = AMDueOnes
    BY <1>1, <2>1 DEF AMInv, AMTyped, AMBrings, AMAnswers, AMDueOnes
  <2>3. QED BY <1>1, <2>1, <2>2, AMWorkerInv
<1>2. ASSUME AMInv, AMStop PROVE AMInv'
  <2>1. UNCHANGED <<amSent, amQueue, amFlight, amPending, amCaller, amWorker, amRan, amLate>>
    BY <1>2 DEF AMStop
  <2>2. AMTyped' /\ AMBrings' /\ AMDueOnes' = AMDueOnes
    BY <1>2, <2>1 DEF AMInv, AMTyped, AMBrings, AMAnswers, AMDueOnes
  <2>3. QED BY <1>2, <2>1, <2>2, AMWorkerInv
<1>3. QED BY <1>1, <1>2, AMSendInv, AMAwaitInv, AMGetInv, AMTimeOutInv, AMGiveUpInv, AMTellInv, AMTakeInv,
             AMRunTaskInv, AMDropInv, AMFindInv, AMReadInv, AMAnswerInv DEF AMNext

-----------------------------------------------------------------------------
(* Indexes built in the background, ConcurrentIndex: while the build of an *)
(* index that no write met goes on, the index has the rows that were       *)
(* scanned; once it is built it is behind its table by what the writer has *)
(* yet to tell of its last change.                                         *)

CIAll == CIKeys \cup {CINull}

CIOps == [what : {"insert", "delete"}, key : CIAll, id : 1..CIRows]

CIBuilding == {"scanning", "applying", "validating", "built"}

CITyped ==
  /\ ciTable \in Seq(CIAll) /\ Len(ciTable) <= CIRows
  /\ ciState \in {"pending", "building", "validating", "ready", "active", "failed", "dropping"}
  /\ ciBuilder \in {"none", "started", "calling", "ended"} \cup CIBuilding
  /\ ciData \in [CIAll -> Seq(1..CIRows)]
  /\ ciWrite \in [changes : Nat, at : {"none", "changed", "looked"}, ops : Seq(CIOps)]
  /\ ciPending \in Seq(CIOps) /\ ciTodo \in Seq(CIOps)
  /\ ciKnown \in {"never", "yes", "dropped"}
  /\ ciLocked => ~ciOnline /\ ciKnown = "yes"

\* How far the build and the manager's entry of the index are apart.
CIStages ==
  /\ ciKnown = "never" <=> ciBuilder = "none"
  /\ ciBuilder = "none" => ciState = "pending" /\ \A k \in CIKeys : ciData[k] = <<>>
  /\ ciBuilder = "none" => ciPending = <<>> /\ ciTodo = <<>> /\ ciWrite.at # "looked"
  /\ ciKnown = "yes" /\ ciBuilder \in {"started", "scanning", "applying"} => ciState = "building"
  /\ ciKnown = "yes" /\ ciBuilder = "validating" => ciState = "validating"
  /\ ciKnown = "dropped" => ciState # "active" /\ (ciBuilder = "calling" => ciState # "ready")
  /\ ciBuilder \in {"built", "calling", "ended"} => ciState \notin {"building", "validating"}

\* What the writer has to tell of its change, the first of two told or not.
CIShape(table, ops) ==
  LET n == Len(table)
  IN  \/ ops = <<>>
      \/ /\ Len(ops) = 1 /\ ops[1].what = "insert" /\ ops[1].id \in 1..n /\ ops[1].key = table[ops[1].id]
      \/ /\ Len(ops) = 1 /\ ops[1].what = "delete" /\ ops[1].id = n + 1
      \/ /\ Len(ops) = 2 /\ ops[1].what = "delete" /\ ops[2].what = "insert"
         /\ ops[2].id \in 1..n /\ ops[2].key = table[ops[2].id] /\ ops[1].id = ops[2].id

CIWriting ==
  /\ ciWrite.at = "none" => ciWrite.ops = <<>>
  /\ ciWrite.at = "looked" => ciWrite.ops # <<>>
  /\ CIShape(ciTable, ciWrite.ops)

\* A sequence that holds a set, each member once.
CIHolds(s, T) ==
  /\ {s[i] : i \in 1..Len(s)} = T
  /\ \A i, j \in 1..Len(s) : s[i] = s[j] => i = j

CIRowsUpTo(table, n, k) == {id \in 1..n : table[id] = k}

\* Nothing is in the index before the snapshot, unless a write has met the build already.
CIStarted ==
  ciBuilder = "started" =>
    /\ ciTodo = <<>>
    /\ ciClean => ciWrite.at = "none" /\ ciPending = <<>> /\ \A k \in CIKeys : ciData[k] = <<>>

\* A build no write met has the rows it has scanned.
CIScanned ==
  ciClean /\ ciBuilder \in CIBuilding =>
    LET j == Len(ciTable) - Len(ciTodo)
    IN  /\ ciWrite.at = "none" /\ ciPending = <<>> /\ (ciBuilder # "scanning" => ciTodo = <<>>)
        /\ Len(ciTodo) <= Len(ciTable)
        /\ \A i \in 1..Len(ciTodo) : ciTodo[i] = CIOp("insert", ciTable[j + i], j + i)
        /\ \A k \in CIKeys : CIHolds(ciData[k], CIRowsUpTo(ciTable, j, k))

\* After it, the index is behind its table by what the writer has yet to tell.
CITouched(ops) == {ops[i].id : i \in 1..Len(ops)}

CILeft(ops, k) == {id \in CITouched(ops) : ops[1].what = "delete" /\ ops[1].key = k}

CIBehind(table, ops, k) == (CIRowsUpTo(table, Len(table), k) \ CITouched(ops)) \cup CILeft(ops, k)

CIBuilt == ciBuilder \in {"calling", "ended"} /\ ciKnown = "yes" /\ ciState \in {"ready", "active"}

CILag == ciClean /\ CIBuilt => \A k \in CIKeys : CIHolds(ciData[k], CIBehind(ciTable, ciWrite.ops, k))

CIInv == CITyped /\ CIStages /\ CIStarted /\ CIWriting /\ CIScanned /\ CILag /\ CIUniqueHolds

-----------------------------------------------------------------------------
\* Sequences that hold a set.

LEMMA HoldsNone == CIHolds(<<>>, {})
BY DEF CIHolds

LEMMA HoldsMore ==
  ASSUME NEW S, NEW s \in Seq(S), NEW T, NEW e \in S, CIHolds(s, T), e \notin T
  PROVE  CIHolds(Append(s, e), T \cup {e})
<1> DEFINE n == Len(s)
           t == Append(s, e)
<1>1. n \in Nat /\ Len(t) = n + 1 /\ t[n + 1] = e /\ \A i \in 1..n : t[i] = s[i]
  BY AppendProperties, LenProperties
<1>2. T = {s[i] : i \in 1..n}
  BY DEF CIHolds
<1> HIDE DEF n, t
<1>3. 1..Len(t) = 1..n \cup {n + 1}
  BY <1>1
<1>4. {t[i] : i \in 1..Len(t)} = T \cup {e}
  BY <1>1, <1>2, <1>3
<1>5. \A i \in 1..n : s[i] # e
  BY <1>2
<1>6. \A i, j \in 1..Len(t) : t[i] = t[j] => i = j
  BY <1>1, <1>3, <1>5 DEF CIHolds, n
<1>7. QED BY <1>4, <1>6 DEF CIHolds, t

LEMMA HoldsCount ==
  ASSUME NEW S, NEW s \in Seq(S), NEW T, CIHolds(s, T)
  PROVE  ToSet(s) = T /\ Len(s) = Cardinality(T)
<1>1. DOMAIN s = 1..Len(s) /\ Len(s) \in Nat
  BY LenProperties
<1>2. ToSet(s) = T
  BY <1>1 DEF ToSet, CIHolds
<1>3. s \in Bijection(1..Len(s), T)
  <2>1. s \in [1..Len(s) -> T]
    <3>1. \A i \in 1..Len(s) : s[i] \in T
      BY DEF CIHolds
    <3>2. s \in [1..Len(s) -> S]
      BY LenProperties
    <3>3. QED BY <3>1, <3>2
  <2>2. \A y \in T : \E i \in 1..Len(s) : s[i] = y
    BY DEF CIHolds
  <2>3. \A i, j \in 1..Len(s) : s[i] = s[j] => i = j
    BY DEF CIHolds
  <2>4. QED BY <2>1, <2>2, <2>3 DEF Bijection, Injection, Surjection, IsInjective
<1>4. Cardinality(1..Len(s)) = Len(s) /\ IsFiniteSet(1..Len(s))
  BY <1>1, FS_Interval
<1>5. Cardinality(T) = Cardinality(1..Len(s))
  BY <1>3, <1>4, FS_Bijection DEF ExistsBijection
<1>6. QED BY <1>2, <1>4, <1>5

\* What RemoveFirst does to a sequence: nothing, or it closes the gap.
LEMMA RemoveFirstIs ==
  ASSUME NEW S, NEW s \in Seq(S), NEW e, NEW t, t = RemoveFirst(s, e)
  PROVE  /\ t \in Seq(S)
         /\ \/ t = s /\ \A i \in 1..Len(s) : s[i] # e
            \/ \E p \in 1..Len(s) :
                 /\ s[p] = e /\ Len(t) = Len(s) - 1
                 /\ \A i \in 1..Len(t) : t[i] = IF i < p THEN s[i] ELSE s[i + 1]
<1> DEFINE I == {i \in 1..Len(s) : s[i] = e}
<1>1. Len(s) \in Nat
  BY LenProperties
<1>2. CASE I = {}
  BY <1>2 DEF RemoveFirst
<1>3. CASE I # {}
  <2>1. PICK q \in I : \A j \in I : q <= j
    <3>1. I \in SUBSET Nat
      OBVIOUS
    <3> HIDE DEF I
    <3>2. QED BY <1>3, <3>1, LeastNumber
  <2> DEFINE p == CHOOSE i \in I : \A j \in I : i =< j
  <2>2. p \in I
    BY <2>1
  <2>3. t = RemoveAt(s, p)
    BY <1>3 DEF RemoveFirst, SelectInSeq, Min
  <2>4. p \in 1..Len(s) /\ s[p] = e
    BY <2>2
  <2> HIDE DEF p
  <2>5. t = SubSeq(s, 1, p - 1) \o SubSeq(s, p + 1, Len(s))
    BY <2>3 DEF RemoveAt
  <2> DEFINE u == SubSeq(s, 1, p - 1)
             v == SubSeq(s, p + 1, Len(s))
  <2>6. \A i \in 1..Len(s) : s[i] \in S
    BY ElementOfSeq
  <2>7. u \in Seq(S) /\ Len(u) = p - 1 /\ \A i \in 1..(p - 1) : u[i] = s[i]
    <3>1. p - 1 \in Int /\ 1 \in Int /\ \A i \in 1..(p - 1) : s[i] \in S
      BY <1>1, <2>4, <2>6
    <3>2. /\ u \in Seq(S) /\ Len(u) = IF 1 <= p - 1 THEN p - 1 - 1 + 1 ELSE 0
          /\ \A i \in 1..(p - 1 - 1 + 1) : u[i] = s[1 + i - 1]
      BY <3>1, SubSeqProperties
    <3>3. QED BY <1>1, <2>4, <3>2
  <2>8. v \in Seq(S) /\ Len(v) = Len(s) - p /\ \A i \in 1..(Len(s) - p) : v[i] = s[p + i]
    <3>1. p + 1 \in Int /\ Len(s) \in Int /\ \A i \in (p + 1)..Len(s) : s[i] \in S
      BY <1>1, <2>4, <2>6
    <3>2. /\ v \in Seq(S) /\ Len(v) = IF p + 1 <= Len(s) THEN Len(s) - (p + 1) + 1 ELSE 0
          /\ \A i \in 1..(Len(s) - (p + 1) + 1) : v[i] = s[(p + 1) + i - 1]
      BY <3>1, SubSeqProperties
    <3>3. QED BY <1>1, <2>4, <3>2
  <2> HIDE DEF u, v
  <2>9. /\ u \o v \in Seq(S) /\ Len(u \o v) = Len(u) + Len(v)
        /\ \A i \in 1..(Len(u) + Len(v)) : (u \o v)[i] = IF i <= Len(u) THEN u[i] ELSE v[i - Len(u)]
    BY <2>7, <2>8, ConcatProperties
  <2>10. t = u \o v
    BY <2>5 DEF u, v
  <2>11. t \in Seq(S) /\ Len(t) = Len(s) - 1
    <3>1. Len(u) + Len(v) = Len(s) - 1
      BY <1>1, <2>4, <2>7, <2>8
    <3>2. QED BY <2>9, <2>10, <3>1
  <2>12. ASSUME NEW i \in 1..Len(t) PROVE t[i] = IF i < p THEN s[i] ELSE s[i + 1]
    <3>1. CASE i < p
      <4>1. i \in 1..(p - 1) /\ i \in 1..(Len(u) + Len(v)) /\ i <= Len(u)
        BY <1>1, <2>4, <2>7, <2>8, <2>11, <3>1
      <4>2. QED BY <2>7, <2>9, <2>10, <3>1, <4>1
    <3>2. CASE ~(i < p)
      <4>1. i - (p - 1) \in 1..(Len(s) - p) /\ i \in 1..(Len(u) + Len(v)) /\ ~(i <= Len(u)) /\ p + (i - (p - 1)) = i + 1
        BY <1>1, <2>4, <2>7, <2>8, <2>11, <3>2
      <4>2. t[i] = v[i - (p - 1)]
        BY <2>7, <2>9, <2>10, <4>1
      <4>3. QED BY <2>8, <3>2, <4>1, <4>2
    <3>3. QED BY <3>1, <3>2
  <2>13. QED BY <2>4, <2>11, <2>12
<1>4. QED BY <1>2, <1>3

LEMMA HoldsLess ==
  ASSUME NEW S, NEW s \in Seq(S), NEW T, NEW e, CIHolds(s, T)
  PROVE  CIHolds(RemoveFirst(s, e), T \ {e})
<1> DEFINE t == RemoveFirst(s, e)
<1>1. /\ t \in Seq(S)
      /\ \/ t = s /\ \A i \in 1..Len(s) : s[i] # e
         \/ \E p \in 1..Len(s) :
              /\ s[p] = e /\ Len(t) = Len(s) - 1
              /\ \A i \in 1..Len(t) : t[i] = IF i < p THEN s[i] ELSE s[i + 1]
  BY RemoveFirstIs
<1> HIDE DEF t
<1>2. T = {s[i] : i \in 1..Len(s)} /\ \A i, j \in 1..Len(s) : s[i] = s[j] => i = j
  BY DEF CIHolds
<1>3. Len(s) \in Nat
  BY LenProperties
<1>4. CASE t = s /\ \A i \in 1..Len(s) : s[i] # e
  <2>1. T \ {e} = T
    BY <1>2, <1>4
  <2>2. QED BY <1>4, <2>1 DEF t
<1>5. ASSUME NEW p \in 1..Len(s), s[p] = e, Len(t) = Len(s) - 1,
             \A i \in 1..Len(t) : t[i] = IF i < p THEN s[i] ELSE s[i + 1]
      PROVE  CIHolds(t, T \ {e})
  <2>1. \A i \in 1..Len(t) : \E j \in 1..Len(s) : j # p /\ t[i] = s[j] /\ j = IF i < p THEN i ELSE i + 1
    BY <1>3, <1>5
  <2>2. ASSUME NEW j \in 1..Len(s), j # p PROVE \E i \in 1..Len(t) : t[i] = s[j]
    <3>1. CASE j < p
      <4>1. j \in 1..Len(t)
        BY <1>3, <1>5, <3>1
      <4>2. QED BY <1>5, <3>1, <4>1
    <3>2. CASE j > p
      <4>1. j - 1 \in 1..Len(t) /\ ~(j - 1 < p) /\ (j - 1) + 1 = j
        BY <1>3, <1>5, <3>2
      <4>2. QED BY <1>5, <4>1
    <3>3. QED BY <2>2, <3>1, <3>2
  <2>3. {t[i] : i \in 1..Len(t)} = T \ {e}
    <3>1. \A i \in 1..Len(t) : t[i] \in T /\ t[i] # e
      BY <1>2, <1>5, <2>1
    <3>2. \A k \in T \ {e} : \E i \in 1..Len(t) : t[i] = k
      <4>1. SUFFICES ASSUME NEW k \in T \ {e} PROVE \E i \in 1..Len(t) : t[i] = k
        OBVIOUS
      <4>2. PICK j \in 1..Len(s) : s[j] = k
        BY <1>2
      <4>3. j # p
        BY <1>5, <4>1, <4>2
      <4>4. QED BY <2>2, <4>2, <4>3
    <3>3. QED BY <3>1, <3>2
  <2>4. \A i, j \in 1..Len(t) : t[i] = t[j] => i = j
    <3>1. SUFFICES ASSUME NEW i \in 1..Len(t), NEW j \in 1..Len(t), t[i] = t[j] PROVE i = j
      OBVIOUS
    <3>2. PICK k \in 1..Len(s) : t[i] = s[k] /\ k = IF i < p THEN i ELSE i + 1
      BY <2>1
    <3>3. PICK l \in 1..Len(s) : t[j] = s[l] /\ l = IF j < p THEN j ELSE j + 1
      BY <2>1
    <3>4. k = l
      BY <1>2, <3>1, <3>2, <3>3
    <3>5. QED BY <1>3, <1>5, <3>2, <3>3, <3>4
  <2>5. QED BY <2>3, <2>4 DEF CIHolds
<1>6. QED BY <1>1, <1>4, <1>5 DEF t

-----------------------------------------------------------------------------
\* The invariant says what is promised, and what the steps need of it.

LEMMA CIInvIs == CIInv => CITyped /\ CIStages /\ CIStarted /\ CIWriting /\ CIScanned /\ CILag /\ CIUniqueHolds
BY Zenon DEF CIInv

LEMMA CITypes ==
  ASSUME CITyped
  PROVE  /\ Len(ciTable) \in Nat /\ \A i \in 1..Len(ciTable) : ciTable[i] \in CIAll
         /\ ciWrite.ops \in Seq(CIOps) /\ Len(ciWrite.ops) \in Nat
         /\ \A k \in CIAll : ciData[k] \in Seq(1..CIRows)
         /\ CIKeys \subseteq CIAll /\ CINull \in CIAll
BY LenProperties, ElementOfSeq DEF CITyped, CIAll

LEMMA BehindIdle ==
  ASSUME NEW table, NEW k
  PROVE  CIBehind(table, <<>>, k) = CIRowsUpTo(table, Len(table), k)
BY DEF CIBehind, CILeft, CITouched

LEMMA BehindOne ==
  ASSUME NEW table, NEW k, NEW ops, NEW id, Len(ops) \in {1, 2}, ops[1].id = id, Len(ops) = 2 => ops[2].id = id
  PROVE  CIBehind(table, ops, k) =
           (CIRowsUpTo(table, Len(table), k) \ {id}) \cup (IF ops[1].what = "delete" /\ ops[1].key = k THEN {id} ELSE {})
<1>1. CITouched(ops) = {id}
  <2>1. 1..Len(ops) = IF Len(ops) = 1 THEN {1} ELSE {1, 2}
    OBVIOUS
  <2>2. QED BY <2>1 DEF CITouched
<1>2. CILeft(ops, k) = IF ops[1].what = "delete" /\ ops[1].key = k THEN {id} ELSE {}
  BY <1>1 DEF CILeft
<1>3. QED BY <1>1, <1>2 DEF CIBehind

LEMMA CIInvTypes == CIInv => CITypeOK /\ CIFollows /\ CIUniqueHolds /\ CIDroppedStays
<1> SUFFICES ASSUME CIInv PROVE CITypeOK /\ CIFollows /\ CIUniqueHolds /\ CIDroppedStays
  OBVIOUS
<1>1. CITyped /\ CIStages /\ CIWriting /\ CIScanned /\ CILag /\ CIUniqueHolds
  BY CIInvIs
<1>2. CITypeOK
  BY <1>1 DEF CITyped, CITypeOK, CIAll, CIBuilding
<1>3. CIDroppedStays
  BY <1>1 DEF CIStages, CIDroppedStays
<1>4. CIFollows
  <2>1. SUFFICES ASSUME ciClean, ciWrite.at = "none", ciState \in {"ready", "active"}, ciKnown = "yes", NEW k \in CIKeys
                 PROVE  /\ ToSet(ciData[k]) = CIRowsUpTo(ciTable, Len(ciTable), k)
                        /\ Len(ciData[k]) = Cardinality(ToSet(ciData[k]))
    BY DEF CIFollows, CIRowsUpTo
  <2>2. CIHolds(ciData[k], CIRowsUpTo(ciTable, Len(ciTable), k))
    <3>1. CASE ciBuilder = "built"
      <4>1. ciBuilder \in CIBuilding /\ ciTodo = <<>> /\ Len(ciTodo) = 0
        BY <1>1, <2>1, <3>1 DEF CIScanned, CIBuilding
      <4>2. Len(ciTable) - Len(ciTodo) = Len(ciTable)
        BY <1>1, <4>1, CITypes
      <4>3. CIHolds(ciData[k], CIRowsUpTo(ciTable, Len(ciTable) - Len(ciTodo), k))
        BY <1>1, <2>1, <4>1 DEF CIScanned
      <4>4. QED BY <4>2, <4>3
    <3>2. CASE CIBuilt
      BY <1>1, <2>1, <3>2, BehindIdle DEF CILag, CIWriting
    <3>3. ciBuilder = "built" \/ CIBuilt
      BY <1>1, <2>1 DEF CITyped, CIStages, CIBuilt, CIBuilding
    <3>4. QED BY <3>1, <3>2, <3>3
  <2>3. ciData[k] \in Seq(1..CIRows)
    BY <1>1, CITypes
  <2>4. QED BY <2>2, <2>3, HoldsCount
<1>5. QED BY <1>1, <1>2, <1>3, <1>4

LEMMA CIInitInv == CIInit => CIInv
<1> SUFFICES ASSUME CIInit PROVE CIInv
  OBVIOUS
<1>1. CITyped
  <2>1. PICK n \in 0..CIRows : ciTable \in [1..n -> CIAll]
    BY DEF CIInit, CIAll
  <2>2. n \in Nat /\ n <= CIRows
    BY <2>1, CIAssumption DEF CIAssumption
  <2>3. ciTable \in Seq(CIAll) /\ Len(ciTable) = n
    BY <2>1, <2>2
  <2>4. ciData \in [CIAll -> Seq(1..CIRows)]
    BY EmptySeq DEF CIInit, CIAll
  <2>5. ciWrite \in [changes : Nat, at : {"none", "changed", "looked"}, ops : Seq(CIOps)]
    BY EmptySeq DEF CIInit, CIIdle
  <2>6. ciPending \in Seq(CIOps) /\ ciTodo \in Seq(CIOps)
    BY EmptySeq DEF CIInit
  <2>7. QED BY <2>2, <2>3, <2>4, <2>5, <2>6 DEF CIInit, CITyped
<1>2. CIStages
  BY DEF CIInit, CIStages, CIIdle
<1>3. CIWriting
  BY DEF CIInit, CIWriting, CIShape, CIIdle
<1>4. CIScanned /\ CILag
  BY DEF CIInit, CIScanned, CILag, CIBuilding, CIBuilt
<1>5. CIUniqueHolds /\ CIStarted
  BY DEF CIInit, CIUniqueHolds, CIStarted
<1>6. QED BY <1>1, <1>2, <1>3, <1>4, <1>5 DEF CIInv

-----------------------------------------------------------------------------
\* Steps of the build and of the manager that change neither table nor data.

LEMMA CIWritingKept == ASSUME CIInv, UNCHANGED <<ciTable, ciWrite>> PROVE CIWriting'
BY DEF CIInv, CIWriting, CIShape

LEMMA CIUniqueKept == ASSUME CIInv, UNCHANGED <<ciUnique, ciData>> PROVE CIUniqueHolds'
BY DEF CIInv, CIUniqueHolds

LEMMA CILagKept ==
  ASSUME CIInv, UNCHANGED <<ciTable, ciWrite, ciData>>, ciClean' /\ CIBuilt' => ciClean /\ CIBuilt
  PROVE  CILag'
BY DEF CIInv, CILag

LEMMA CIScannedKept ==
  ASSUME CIInv, UNCHANGED <<ciTable, ciWrite, ciData, ciTodo, ciPending>>,
         ciClean' /\ ciBuilder' \in CIBuilding =>
           ciClean /\ ciBuilder \in CIBuilding /\ (ciBuilder' # "scanning" => ciTodo = <<>>)
  PROVE  CIScanned'
BY DEF CIInv, CIScanned, CIRowsUpTo

LEMMA CIFailedInv ==
  ASSUME CIInv, CIFailed, ciKnown # "never"
  PROVE  CIInv'
<1>1. CITyped'
  BY EmptySeq DEF CIFailed, CIInv, CITyped
<1>2. CIStages'
  BY DEF CIFailed, CIInv, CIStages
<1>3. CIWriting' /\ CIUniqueHolds'
  BY CIWritingKept, CIUniqueKept DEF CIFailed
<1>4. CIScanned' /\ CILag' /\ CIStarted'
  BY DEF CIFailed, CIScanned, CILag, CIStarted, CIBuilding, CIBuilt
<1>5. QED BY <1>1, <1>2, <1>3, <1>4 DEF CIInv

LEMMA CIKnownIs == CIInv /\ ciBuilder # "none" => ciKnown # "never"
BY DEF CIInv, CIStages

LEMMA CITakePendingInv ==
  ASSUME CIInv, CITakePending
  PROVE  CIInv'
<1>1. CITyped'
  BY EmptySeq DEF CITakePending, CIInv, CITyped, CIBuilding
<1>2. CIStages'
  BY DEF CITakePending, CIInv, CIStages
<1>3. CIWriting' /\ CIUniqueHolds'
  BY CIWritingKept, CIUniqueKept DEF CITakePending
<1>4. CILag' /\ CIStarted'
  BY DEF CITakePending, CILag, CIStarted, CIBuilt
<1>5. CIScanned'
  <2>1. SUFFICES ASSUME ciClean PROVE CIScanned'
    BY DEF CITakePending, CIScanned
  <2>2. ciPending = <<>>
    BY <2>1 DEF CITakePending, CIInv, CIScanned, CIBuilding
  <2>3. ciTodo' = ciTodo /\ ciPending' = ciPending /\ ciTodo = <<>>
    BY <2>2 DEF CITakePending
  <2>4. QED BY <2>1, <2>3, CIScannedKept DEF CITakePending, CIBuilding
<1>6. QED BY <1>1, <1>2, <1>3, <1>4, <1>5 DEF CIInv

LEMMA CIControlInv ==
  ASSUME CIInv, CIValidating \/ CIValidate \/ CICallback \/ CIActivate \/ CICreated \/ CIDrop
  PROVE  CIInv'
<1>1. ASSUME CIValidating PROVE CIInv'
  <2>1. CITyped' /\ CIStages'
    BY <1>1 DEF CIValidating, CIInv, CITyped, CIStages, CIBuilding
  <2>2. CIWriting' /\ CIUniqueHolds'
    BY <1>1, CIWritingKept, CIUniqueKept DEF CIValidating
  <2>3. CILag' /\ CIStarted'
    BY <1>1 DEF CIValidating, CILag, CIStarted, CIBuilt
  <2>4. CIScanned'
    BY <1>1, CIScannedKept DEF CIValidating, CIBuilding
  <2>5. QED BY <2>1, <2>2, <2>3, <2>4 DEF CIInv
<1>2. ASSUME CIValidate PROVE CIInv'
  <2>1. CASE ~CIMatchesTable
    <3>1. CIFailed /\ ciKnown # "never"
      BY <1>2, <2>1, CIKnownIs DEF CIValidate
    <3>2. QED BY <3>1, CIFailedInv
  <2>2. CASE CIMatchesTable
    <3>1. CITyped' /\ CIStages'
      BY <1>2, <2>2 DEF CIValidate, CIInv, CITyped, CIStages, CIBuilding
    <3>2. CIWriting' /\ CIUniqueHolds'
      BY <1>2, <2>2, CIWritingKept, CIUniqueKept DEF CIValidate
    <3>3. CILag' /\ CIStarted'
      BY <1>2, <2>2 DEF CIValidate, CILag, CIStarted, CIBuilt
    <3>4. CIScanned'
      <4>1. ciClean => ciTodo = <<>>
        BY <1>2 DEF CIInv, CIScanned, CIBuilding, CIValidate
      <4>2. QED BY <1>2, <2>2, <4>1, CIScannedKept DEF CIValidate, CIBuilding
    <3>5. QED BY <3>1, <3>2, <3>3, <3>4 DEF CIInv
  <2>3. QED BY <2>1, <2>2
<1>3. ASSUME CICallback PROVE CIInv'
  <2>1. CITyped' /\ CIStages'
    BY <1>3 DEF CICallback, CIInv, CITyped, CIStages
  <2>2. CIWriting' /\ CIUniqueHolds'
    BY <1>3, CIWritingKept, CIUniqueKept DEF CICallback
  <2>3. CIScanned' /\ CIStarted'
    BY <1>3 DEF CICallback, CIScanned, CIStarted, CIBuilding
  <2>4. CILag'
    <3>1. SUFFICES ASSUME ciClean', NEW k \in CIKeys PROVE CIHolds(ciData'[k], CIBehind(ciTable', ciWrite'.ops, k))
      BY DEF CILag
    <3>2. ciClean /\ ciBuilder = "built" /\ UNCHANGED <<ciTable, ciWrite, ciData>>
      BY <1>3, <3>1 DEF CICallback
    <3>3. ciWrite.at = "none" /\ ciTodo = <<>>
      BY <3>2 DEF CIInv, CIScanned, CIBuilding
    <3>4. ciWrite.ops = <<>> /\ Len(ciTable) - Len(ciTodo) = Len(ciTable)
      BY <3>3, CITypes DEF CIInv, CIWriting
    <3>5. CIHolds(ciData[k], CIRowsUpTo(ciTable, Len(ciTable) - Len(ciTodo), k))
      BY <3>2 DEF CIInv, CIScanned, CIBuilding
    <3>6. CIHolds(ciData[k], CIBehind(ciTable, ciWrite.ops, k))
      BY <3>4, <3>5, BehindIdle
    <3>7. QED BY <3>2, <3>6
  <2>5. QED BY <2>1, <2>2, <2>3, <2>4 DEF CIInv
<1>4. ASSUME CIActivate PROVE CIInv'
  <2>1. CITyped' /\ CIStages'
    BY <1>4 DEF CIActivate, CIActivated, CIInv, CITyped, CIStages
  <2>2. CIWriting' /\ CIUniqueHolds'
    BY <1>4, CIWritingKept, CIUniqueKept DEF CIActivate
  <2>3. CIScanned' /\ CIStarted'
    BY <1>4 DEF CIActivate, CIScanned, CIStarted, CIBuilding
  <2>4. CILag'
    BY <1>4, CILagKept DEF CIActivate, CIActivated, CIBuilt
  <2>5. QED BY <2>1, <2>2, <2>3, <2>4 DEF CIInv
<1>5. ASSUME CICreated PROVE CIInv'
  <2>1. CITyped' /\ CIStages'
    BY <1>5 DEF CICreated, CILockFreed, CIActivated, CIInv, CITyped, CIStages
  <2>2. CIWriting' /\ CIUniqueHolds'
    BY <1>5, CIWritingKept, CIUniqueKept DEF CICreated
  <2>3. CIScanned' /\ CIStarted'
    BY <1>5, CIScannedKept DEF CICreated, CIInv, CIScanned, CIStarted
  <2>4. CILag'
    BY <1>5, CILagKept DEF CICreated, CIActivated, CIBuilt
  <2>5. QED BY <2>1, <2>2, <2>3, <2>4 DEF CIInv
<1>6. ASSUME CIDrop PROVE CIInv'
  <2>1. CITyped' /\ CIStages'
    BY <1>6 DEF CIDrop, CIInv, CITyped, CIStages
  <2>2. CIWriting' /\ CIUniqueHolds'
    BY <1>6, CIWritingKept, CIUniqueKept DEF CIDrop
  <2>3. CIScanned' /\ CIStarted'
    BY <1>6, CIScannedKept DEF CIDrop, CIInv, CIScanned, CIStarted
  <2>4. CILag'
    BY <1>6 DEF CIDrop, CILag, CIBuilt
  <2>5. QED BY <2>1, <2>2, <2>3, <2>4 DEF CIInv
<1>7. QED BY <1>1, <1>2, <1>3, <1>4, <1>5, <1>6

-----------------------------------------------------------------------------
\* Steps of the build that fill the index.

LEMMA CIScannedBy ==
  ASSUME NEW j, Len(ciTable') - Len(ciTodo') = j, Len(ciTodo') <= Len(ciTable'),
         ciWrite'.at = "none", ciPending' = <<>>, ciBuilder' = "scanning",
         \A i \in 1..Len(ciTodo') : ciTodo'[i] = CIOp("insert", ciTable'[j + i], j + i),
         \A k \in CIKeys : CIHolds(ciData'[k], CIRowsUpTo(ciTable', j, k))
  PROVE  CIScanned'
BY DEF CIScanned, CIRowsUpTo

LEMMA CICreateInv ==
  ASSUME CIInv, CICreate
  PROVE  CIInv'
<1>1. /\ ciBuilder = "none" /\ (\A k \in CIKeys : ciData[k] = <<>>) /\ ciPending = <<>> /\ ciTodo = <<>>
      /\ CITyped
  BY DEF CICreate, CIInv, CIStages
<1>2. /\ ciKnown' = "yes" /\ ciState' = "building" /\ ciBuilder' = "started" /\ ciLocked' = ~ciOnline
      /\ ciClean' = (ciClean /\ ciWrite.at = "none")
      /\ UNCHANGED <<ciTable, ciWrite, ciUnique, ciOnline, ciData, ciPending, ciTodo>>
  BY DEF CICreate, CILockTaken
<1>3. CITyped'
  BY <1>1, <1>2 DEF CITyped
<1>4. CIStages' /\ CIStarted'
  BY <1>1, <1>2 DEF CIStages, CIStarted
<1>5. CIWriting' /\ CIUniqueHolds'
  BY <1>2, CIWritingKept, CIUniqueKept
<1>6. CILag' /\ CIScanned'
  BY <1>2 DEF CILag, CIScanned, CIBuilt, CIBuilding
<1>7. QED BY <1>3, <1>4, <1>5, <1>6 DEF CIInv

LEMMA CISnapshotInv ==
  ASSUME CIInv, CISnapshot
  PROVE  CIInv'
<1> DEFINE n == Len(ciTable)
<1>1. /\ ciBuilder = "started" /\ CITyped /\ CIWriting /\ CIStages
      /\ ciClean => ciWrite.at = "none" /\ ciPending = <<>> /\ \A k \in CIKeys : ciData[k] = <<>>
  BY DEF CISnapshot, CIInv, CIStarted
<1>2. n \in Nat /\ \A i \in 1..n : ciTable[i] \in CIAll
  BY <1>1, CITypes
<1>3. /\ ciTodo' = [id \in 1..n |-> CIOp("insert", ciTable[id], id)] /\ ciBuilder' = "scanning"
      /\ UNCHANGED <<ciTable, ciWrite, ciUnique, ciOnline, ciKnown, ciLocked, ciState, ciData, ciPending, ciClean>>
  BY DEF CISnapshot
<1>4. Len(ciTodo') = n /\ ciTodo' \in Seq(CIOps) /\ \A i \in 1..n : ciTodo'[i] = CIOp("insert", ciTable[i], i)
  <2>1. 1..n \subseteq 1..CIRows
    BY <1>1, <1>2, CIAssumption DEF CITyped, CIAssumption
  <2>2. \A id \in 1..n : CIOp("insert", ciTable[id], id) \in CIOps
    BY <1>2, <2>1 DEF CIOp, CIOps
  <2> HIDE DEF n
  <2>3. ciTodo' \in [1..n -> CIOps]
    BY <1>3, <2>2
  <2>4. QED BY <1>2, <1>3, <2>3
<1>5. CITyped'
  BY <1>1, <1>3, <1>4 DEF CITyped, CIBuilding
<1>6. CIStages' /\ CIStarted'
  BY <1>1, <1>3 DEF CIStages, CIStarted
<1>7. CIWriting' /\ CIUniqueHolds'
  BY <1>3, CIWritingKept, CIUniqueKept
<1>8. CILag'
  BY <1>3 DEF CILag, CIBuilt
<1>9. CIScanned'
  <2>0. SUFFICES ASSUME ciClean PROVE CIScanned'
    BY <1>3 DEF CIScanned
  <2>1. n - Len(ciTodo') = 0
    BY <1>2, <1>4
  <2>2. \A k : CIRowsUpTo(ciTable', 0, k) = {}
    BY DEF CIRowsUpTo
  <2>3. \A k \in CIKeys : CIHolds(ciData'[k], CIRowsUpTo(ciTable', 0, k))
    BY <1>1, <1>3, <2>0, <2>2, HoldsNone
  <2>4. \A i \in 1..Len(ciTodo') : ciTodo'[i] = CIOp("insert", ciTable[0 + i], 0 + i)
    BY <1>2, <1>4
  <2>5. Len(ciTodo') <= Len(ciTable')
    BY <1>2, <1>3, <1>4
  <2>6. QED BY <1>1, <1>3, <2>0, <2>1, <2>3, <2>4, <2>5 DEF CIScanned
<1>10. QED BY <1>5, <1>6, <1>7, <1>8, <1>9 DEF CIInv

\* An entry more, where there is no duplicate, and an entry less.
LEMMA CIAddedIs ==
  ASSUME CIInv, NEW key \in CIAll, NEW id \in 1..CIRows, ~CIDuplicate(key), ciData' = CIAdded(key, id), UNCHANGED ciUnique
  PROVE  /\ ciData' \in [CIAll -> Seq(1..CIRows)] /\ CIUniqueHolds'
         /\ ciData'[key] = Append(ciData[key], id) /\ \A k \in CIAll : k # key => ciData'[k] = ciData[k]
<1>1. CITyped /\ ciData \in [CIAll -> Seq(1..CIRows)] /\ CIUniqueHolds
  BY DEF CIInv, CITyped
<1>2. ciData' = [ciData EXCEPT ![key] = Append(ciData[key], id)]
  BY DEF CIAdded
<1>3. ciData'[key] = Append(ciData[key], id) /\ \A k \in CIAll : k # key => ciData'[k] = ciData[k]
  BY <1>1, <1>2
<1>4. Append(ciData[key], id) \in Seq(1..CIRows) /\ Len(Append(ciData[key], id)) = Len(ciData[key]) + 1
  BY <1>1, AppendProperties
<1>5. ciData' \in [CIAll -> Seq(1..CIRows)]
  BY <1>1, <1>2, <1>4
<1>6. CIUniqueHolds'
  <2>1. SUFFICES ASSUME ciUnique, NEW k \in CIKeys PROVE Len(ciData'[k]) <= 1
    BY DEF CIUniqueHolds
  <2>2. CASE k = key
    <3>1. ciData[key] = <<>> /\ Len(ciData[key]) = 0
      BY <2>1 DEF CIDuplicate
    <3>2. Len(ciData'[key]) = Len(ciData[key]) + 1
      BY <1>3, <1>4
    <3>3. QED BY <2>2, <3>1, <3>2
  <2>3. CASE k # key
    BY <1>1, <1>3, <2>1, <2>3 DEF CIAll, CIUniqueHolds
  <2>4. QED BY <2>2, <2>3
<1>7. QED BY <1>3, <1>5, <1>6

LEMMA CIRemovedIs ==
  ASSUME CIInv, NEW key \in CIAll, NEW id, ciData' = CIRemoved(key, id), UNCHANGED ciUnique
  PROVE  /\ ciData' \in [CIAll -> Seq(1..CIRows)] /\ CIUniqueHolds'
         /\ ciData'[key] = RemoveFirst(ciData[key], id) /\ \A k \in CIAll : k # key => ciData'[k] = ciData[k]
<1> DEFINE t == RemoveFirst(ciData[key], id)
<1>1. ciData \in [CIAll -> Seq(1..CIRows)] /\ CIUniqueHolds /\ ciData[key] \in Seq(1..CIRows)
  BY DEF CIInv, CITyped
<1>2. ciData' = [ciData EXCEPT ![key] = t]
  BY DEF CIRemoved
<1>3. t \in Seq(1..CIRows) /\ (t = ciData[key] \/ Len(t) = Len(ciData[key]) - 1)
  BY <1>1, RemoveFirstIs
<1>4. Len(ciData[key]) \in Nat
  BY <1>1, LenProperties
<1> HIDE DEF t
<1>5. ciData' \in [CIAll -> Seq(1..CIRows)] /\ ciData'[key] = t /\ \A k \in CIAll : k # key => ciData'[k] = ciData[k]
  BY <1>1, <1>2, <1>3
<1>6. CIUniqueHolds'
  <2>1. SUFFICES ASSUME ciUnique, NEW k \in CIKeys PROVE Len(ciData'[k]) <= 1
    BY DEF CIUniqueHolds
  <2>2. Len(ciData[k]) <= 1
    BY <1>1, <2>1 DEF CIUniqueHolds
  <2>3. k = key \/ ciData'[k] = ciData[k]
    BY <1>5 DEF CIAll
  <2>4. QED BY <1>3, <1>4, <1>5, <2>2, <2>3
<1>7. QED BY <1>5, <1>6 DEF t

LEMMA CIScanInv ==
  ASSUME CIInv, CIScan
  PROVE  CIInv'
<1> DEFINE op == Head(ciTodo)
<1>1. CITyped /\ ciBuilder = "scanning" /\ ciTodo # <<>> /\ ciTodo \in Seq(CIOps)
  BY DEF CIScan, CIInv, CITyped
<1>2. CASE op.key # CINull /\ CIDuplicate(op.key)
  <2>1. CIFailed /\ ciKnown # "never"
    BY <1>1, <1>2, CIKnownIs DEF CIScan
  <2>2. QED BY <2>1, CIFailedInv
<1>3. CASE ~(op.key # CINull /\ CIDuplicate(op.key))
  <2>1. /\ ciData' = (IF op.key = CINull THEN ciData ELSE CIAdded(op.key, op.id)) /\ ciTodo' = Tail(ciTodo)
        /\ UNCHANGED <<ciTable, ciWrite, ciUnique, ciOnline, ciKnown, ciLocked, ciState, ciPending, ciBuilder, ciClean>>
    BY <1>3 DEF CIScan
  <2>2. /\ op \in CIOps /\ op = ciTodo[1] /\ ciTodo' \in Seq(CIOps) /\ Len(ciTodo') = Len(ciTodo) - 1
        /\ \A i \in 1..Len(ciTodo') : ciTodo'[i] = ciTodo[i + 1]
    BY <1>1, <2>1, HeadTailProperties
  <2>3. op.key \in CIAll /\ op.id \in 1..CIRows
    BY <2>2 DEF CIOps
  <2> HIDE DEF op
  <2>4. /\ ciData' \in [CIAll -> Seq(1..CIRows)] /\ CIUniqueHolds'
        /\ op.key # CINull => ciData'[op.key] = Append(ciData[op.key], op.id)
        /\ \A k \in CIKeys : k # op.key => ciData'[k] = ciData[k]
    <3>1. CASE op.key = CINull
      BY <1>1, <2>1, <3>1, CIUniqueKept DEF CITyped
    <3>2. CASE op.key # CINull
      BY <1>3, <2>1, <2>3, <3>2, CIAddedIs DEF CIAll
    <3>3. QED BY <3>1, <3>2
  <2>5. CITyped'
    BY <1>1, <2>1, <2>2, <2>4 DEF CITyped
  <2>6. CIStages' /\ CIWriting'
    BY <1>1, <2>1, CIWritingKept DEF CIInv, CIStages
  <2>7. CILag' /\ CIStarted'
    BY <1>1, <2>1 DEF CILag, CIStarted, CIBuilt
  <2>8. CIScanned'
    <3> DEFINE n == Len(ciTable)
    <3>0. PICK j : j = n - Len(ciTodo)
      OBVIOUS
    <3>1. SUFFICES ASSUME ciClean PROVE CIScanned'
      BY <2>1 DEF CIScanned
    <3>2. /\ ciWrite.at = "none" /\ ciPending = <<>> /\ Len(ciTodo) <= n
          /\ \A i \in 1..Len(ciTodo) : ciTodo[i] = CIOp("insert", ciTable[j + i], j + i)
          /\ \A k \in CIKeys : CIHolds(ciData[k], CIRowsUpTo(ciTable, j, k))
      BY <1>1, <3>0, <3>1 DEF CIInv, CIScanned, CIBuilding
    <3>3. n \in Nat /\ Len(ciTodo) \in Nat /\ Len(ciTodo) # 0
      BY <1>1, CITypes, LenProperties, EmptySeq
    <3> HIDE DEF n
    <3>4. j \in Nat /\ j + 1 <= n /\ n - Len(ciTodo') = j + 1 /\ Len(ciTodo') <= n /\ 1 \in 1..Len(ciTodo)
      BY <2>2, <3>0, <3>2, <3>3
    <3>5. op.key = ciTable[j + 1] /\ op.id = j + 1
      <4>1. ciTodo[1] = CIOp("insert", ciTable[j + 1], j + 1)
        BY <3>2, <3>4
      <4>2. QED BY <2>2, <4>1 DEF CIOp
    <3>6. ASSUME NEW i \in 1..Len(ciTodo') PROVE ciTodo'[i] = CIOp("insert", ciTable[(j + 1) + i], (j + 1) + i)
      <4>1. i + 1 \in 1..Len(ciTodo) /\ j + (i + 1) = (j + 1) + i
        <5>1. Len(ciTodo') = Len(ciTodo) - 1
          BY <2>2
        <5>2. j \in Nat /\ Len(ciTodo) \in Nat
          BY <3>3, <3>4
        <5>3. QED BY <5>1, <5>2
      <4>2. ciTodo[i + 1] = CIOp("insert", ciTable[j + (i + 1)], j + (i + 1))
        BY <3>2, <4>1
      <4>3. QED BY <2>2, <4>1, <4>2
    <3>7. \A k : CIRowsUpTo(ciTable, j + 1, k) = CIRowsUpTo(ciTable, j, k) \cup (IF ciTable[j + 1] = k THEN {j + 1} ELSE {})
      BY <3>4 DEF CIRowsUpTo
    <3>8. ASSUME NEW k \in CIKeys PROVE CIHolds(ciData'[k], CIRowsUpTo(ciTable, j + 1, k))
      <4>1. CASE k = op.key
        <5>1. CIRowsUpTo(ciTable, j + 1, k) = CIRowsUpTo(ciTable, j, k) \cup {op.id}
          BY <3>5, <3>7, <4>1
        <5>2. op.id \notin CIRowsUpTo(ciTable, j, k)
          BY <3>4, <3>5 DEF CIRowsUpTo
        <5>3. ciData[k] \in Seq(1..CIRows)
          BY <1>1, CITypes
        <5>4. CIHolds(Append(ciData[k], op.id), CIRowsUpTo(ciTable, j, k) \cup {op.id})
          BY <2>3, <3>2, <5>2, <5>3, HoldsMore
        <5>5. k # CINull
          BY CIAssumption DEF CIAssumption
        <5>6. QED BY <2>4, <4>1, <5>1, <5>4, <5>5
      <4>2. CASE k # op.key
        BY <2>4, <3>2, <3>5, <3>7, <4>2
      <4>3. QED BY <4>1, <4>2
    <3>9. \A k \in CIKeys : CIHolds(ciData'[k], CIRowsUpTo(ciTable', j + 1, k))
      BY <2>1, <3>8 DEF CIRowsUpTo
    <3>10. Len(ciTable') - Len(ciTodo') = j + 1 /\ Len(ciTodo') <= Len(ciTable')
      BY <2>1, <3>4 DEF n
    <3>11. QED BY <1>1, <2>1, <3>2, <3>6, <3>9, <3>10, CIScannedBy
  <2>9. QED BY <2>4, <2>5, <2>6, <2>7, <2>8 DEF CIInv
<1>4. QED BY <1>2, <1>3

\* An operation that is applied or made to wait keeps the types, and a unique index unique.
LEMMA CIAppliedIs ==
  ASSUME CIInv, NEW op \in CIOps, ~CIRaises(op), CIApplied(op), UNCHANGED ciUnique
  PROVE  ciData' \in [CIAll -> Seq(1..CIRows)] /\ ciPending' \in Seq(CIOps) /\ CIUniqueHolds'
<1>1. op.key \in CIAll /\ op.id \in 1..CIRows /\ op.what \in {"insert", "delete"}
  BY DEF CIOps
<1>2. CITyped
  BY DEF CIInv
<1>3. CASE CIQueues
  <2>1. ciPending' = Append(ciPending, op) /\ ciData' = ciData
    BY <1>3 DEF CIApplied
  <2>2. ciPending' \in Seq(CIOps)
    BY <1>2, <2>1, AppendProperties DEF CITyped
  <2>3. QED BY <1>2, <2>1, <2>2, CIUniqueKept DEF CITyped
<1>4. CASE ~CIQueues
  <2>1. ciPending' \in Seq(CIOps)
    BY <1>2, <1>4 DEF CIApplied, CITyped
  <2>2. CASE op.what = "insert"
    <3>1. ~CIDuplicate(op.key) /\ ciData' = CIAdded(op.key, op.id)
      BY <1>4, <2>2 DEF CIRaises, CIApplied
    <3>2. QED BY <1>1, <2>1, <3>1, CIAddedIs
  <2>3. CASE op.what = "delete"
    <3>1. ciData' = CIRemoved(op.key, op.id)
      BY <1>4, <2>3 DEF CIApplied
    <3>2. QED BY <1>1, <2>1, <3>1, CIRemovedIs
  <2>4. QED BY <1>1, <2>2, <2>3
<1>5. QED BY <1>3, <1>4

LEMMA CIApplyInv ==
  ASSUME CIInv, CIApply
  PROVE  CIInv'
<1> DEFINE op == Head(ciTodo)
<1>1. CITyped /\ ciBuilder = "applying" /\ ciTodo # <<>> /\ ciTodo \in Seq(CIOps)
  BY DEF CIApply, CIInv, CITyped
<1>2. CASE CIRaises(op)
  <2>1. CIFailed /\ ciKnown # "never"
    BY <1>1, <1>2, CIKnownIs DEF CIApply
  <2>2. QED BY <2>1, CIFailedInv
<1>3. CASE ~CIRaises(op)
  <2>1. /\ CIApplied(op) /\ ciTodo' = Tail(ciTodo)
        /\ UNCHANGED <<ciTable, ciWrite, ciUnique, ciOnline, ciKnown, ciLocked, ciState, ciBuilder, ciClean>>
    BY <1>3 DEF CIApply
  <2>2. op \in CIOps /\ ciTodo' \in Seq(CIOps)
    BY <1>1, <2>1, HeadTailProperties
  <2> HIDE DEF op
  <2>3. ciData' \in [CIAll -> Seq(1..CIRows)] /\ ciPending' \in Seq(CIOps) /\ CIUniqueHolds'
    BY <1>3, <2>1, <2>2, CIAppliedIs
  <2>4. CITyped'
    BY <1>1, <2>1, <2>2, <2>3 DEF CITyped
  <2>5. CIStages' /\ CIWriting'
    BY <1>1, <2>1, CIWritingKept DEF CIInv, CIStages
  <2>6. ~ciClean
    BY <1>1 DEF CIInv, CIScanned, CIBuilding
  <2>7. CILag' /\ CIScanned' /\ CIStarted'
    BY <1>1, <2>1, <2>6 DEF CILag, CIScanned, CIStarted
  <2>8. QED BY <2>3, <2>4, <2>5, <2>7 DEF CIInv
<1>4. QED BY <1>2, <1>3

-----------------------------------------------------------------------------
\* Steps of the writer.

LEMMA CIChangeInv ==
  ASSUME CIInv, NEW table \in Seq(CIAll), Len(table) <= CIRows, NEW ops \in Seq(CIOps),
         CIChange(table, ops), CIShape(table, ops),
         \A k \in CIKeys : CIBehind(table, ops, k) = CIRowsUpTo(ciTable, Len(ciTable), k)
  PROVE  CIInv'
<1>1. /\ ciWrite.at = "none" /\ ciTable' = table
      /\ ciWrite' = [changes |-> ciWrite.changes + 1, at |-> "changed", ops |-> ops]
      /\ ciClean' = (ciClean /\ ciBuilder \in {"none", "calling", "ended"})
      /\ UNCHANGED <<ciUnique, ciOnline, ciKnown, ciLocked, ciState, ciData, ciPending, ciBuilder, ciTodo>>
  BY DEF CIChange
<1>2. CITyped /\ CIWriting /\ CIStages /\ ciWrite.ops = <<>>
  BY <1>1 DEF CIInv, CIWriting
<1>3. ciWrite' \in [changes : Nat, at : {"none", "changed", "looked"}, ops : Seq(CIOps)] /\ ciWrite'.at = "changed" /\ ciWrite'.ops = ops
  <2>1. ciWrite.changes + 1 \in Nat
    BY <1>2 DEF CITyped
  <2>2. QED BY <1>1, <2>1
<1>4. CITyped'
  BY <1>1, <1>2, <1>3 DEF CITyped
<1>5. CIStages'
  BY <1>1, <1>2, <1>3 DEF CIStages
<1>6. CIWriting'
  BY <1>1, <1>3 DEF CIWriting
<1>7. CIUniqueHolds'
  BY <1>1, CIUniqueKept
<1>8. CIScanned' /\ CIStarted'
  BY <1>1 DEF CIInv, CIScanned, CIStarted, CIBuilding
<1>9. CILag'
  <2>1. SUFFICES ASSUME ciClean', CIBuilt', NEW k \in CIKeys PROVE CIHolds(ciData'[k], CIBehind(ciTable', ciWrite'.ops, k))
    BY DEF CILag
  <2>2. ciClean /\ CIBuilt
    BY <1>1, <2>1 DEF CIBuilt
  <2>3. CIHolds(ciData[k], CIRowsUpTo(ciTable, Len(ciTable), k))
    BY <1>2, <2>2, BehindIdle DEF CIInv, CILag
  <2>4. QED BY <1>1, <1>3, <2>3
<1>10. QED BY <1>4, <1>5, <1>6, <1>7, <1>8, <1>9 DEF CIInv

LEMMA CIInsertInv ==
  ASSUME CIInv, NEW key \in CIKeys \cup {CINull}, CIInsert(key)
  PROVE  CIInv'
<1> DEFINE n == Len(ciTable)
           table == Append(ciTable, key)
           op == CIOp("insert", key, n + 1)
           ops == IF key = CINull THEN <<>> ELSE <<op>>
<1>1. n < CIRows /\ CIChange(table, ops)
  BY DEF CIInsert
<1>2. CITyped /\ n \in Nat /\ ciTable \in Seq(CIAll) /\ key \in CIAll /\ CINull \notin CIKeys /\ CIRows \in Nat
  BY CITypes, CIAssumption DEF CIInv, CITyped, CIAll, CIAssumption
<1>3. op \in CIOps /\ op.what = "insert" /\ op.key = key /\ op.id = n + 1
  <2>1. n + 1 \in 1..CIRows
    BY <1>1, <1>2
  <2>2. QED BY <1>2, <2>1 DEF CIOp, CIOps
<1>4. table \in Seq(CIAll) /\ Len(table) = n + 1 /\ table[n + 1] = key /\ \A i \in 1..n : table[i] = ciTable[i]
  BY <1>2, AppendProperties
<1> HIDE DEF n, table, op
<1>5. \A k : CIRowsUpTo(table, n + 1, k) = CIRowsUpTo(ciTable, n, k) \cup (IF key = k THEN {n + 1} ELSE {})
  BY <1>2, <1>4 DEF CIRowsUpTo
<1>6. \A k : n + 1 \notin CIRowsUpTo(ciTable, n, k)
  BY <1>2 DEF CIRowsUpTo
<1>7. Len(table) <= CIRows
  BY <1>1, <1>2, <1>4
<1>8. CASE key = CINull
  <2>1. ops = <<>> /\ <<>> \in Seq(CIOps)
    BY <1>8
  <2>2. CIShape(table, <<>>)
    BY DEF CIShape
  <2>3. \A k \in CIKeys : CIBehind(table, <<>>, k) = CIRowsUpTo(ciTable, n, k)
    BY <1>2, <1>4, <1>5, <1>8, BehindIdle
  <2>4. QED BY <1>1, <1>4, <1>7, <2>1, <2>2, <2>3, CIChangeInv DEF n
<1>9. CASE key # CINull
  <2>1. ops = <<op>> /\ <<op>> \in Seq(CIOps)
    BY <1>3, <1>9
  <2>2. CIShape(table, <<op>>)
    <3>1. n + 1 \in 1..(n + 1)
      BY <1>2
    <3>2. QED BY <1>3, <1>4, <3>1 DEF CIShape
  <2>3. \A k \in CIKeys : CIBehind(table, <<op>>, k) = CIRowsUpTo(ciTable, n, k)
    <3>1. ASSUME NEW k \in CIKeys PROVE CIBehind(table, <<op>>, k) = CIRowsUpTo(ciTable, n, k)
      <4>1. CIBehind(table, <<op>>, k) = CIRowsUpTo(table, n + 1, k) \ {n + 1}
        <5>1. Len(<<op>>) \in {1, 2} /\ <<op>>[1].id = n + 1 /\ Len(<<op>>) # 2 /\ <<op>>[1].what # "delete"
          BY <1>3
        <5>2. QED BY <1>4, <5>1, BehindOne
      <4>2. QED BY <1>5, <1>6, <4>1
    <3>2. QED BY <3>1
  <2>4. QED BY <1>1, <1>4, <1>7, <2>1, <2>2, <2>3, CIChangeInv DEF n
<1>10. QED BY <1>8, <1>9

LEMMA CIDeleteInv ==
  ASSUME CIInv, CIDelete
  PROVE  CIInv'
<1> DEFINE n == Len(ciTable)
           table == Front(ciTable)
           key == Last(ciTable)
           op == CIOp("delete", key, n)
           ops == IF key = CINull THEN <<>> ELSE <<op>>
<1>1. n > 0 /\ CIChange(table, ops)
  BY DEF CIDelete
<1>2. CITyped /\ n \in Nat /\ ciTable \in Seq(CIAll) /\ n <= CIRows /\ CINull \notin CIKeys /\ CIRows \in Nat
  BY CITypes, CIAssumption DEF CIInv, CITyped, CIAssumption
<1>3. key = ciTable[n] /\ key \in CIAll
  <2>1. n \in 1..n
    BY <1>1, <1>2
  <2>2. QED BY <1>2, <2>1, ElementOfSeq DEF Last
<1>4. op \in CIOps /\ op.what = "delete" /\ op.key = key /\ op.id = n
  <2>1. n \in 1..CIRows
    BY <1>1, <1>2
  <2>2. QED BY <1>3, <2>1 DEF CIOp, CIOps
<1>5. table \in Seq(CIAll) /\ Len(table) = n - 1 /\ \A i \in 1..(n - 1) : table[i] = ciTable[i]
  <2>1. \A i \in 1..(n - 1) : ciTable[i] \in CIAll
    BY <1>2, CITypes
  <2>2. n - 1 \in Int /\ 1 \in Int
    BY <1>2
  <2>3. /\ table \in Seq(CIAll) /\ Len(table) = IF 1 <= n - 1 THEN n - 1 - 1 + 1 ELSE 0
        /\ \A i \in 1..(n - 1 - 1 + 1) : table[i] = ciTable[1 + i - 1]
    BY <2>1, <2>2, SubSeqProperties DEF Front
  <2>4. QED BY <1>1, <1>2, <2>3
<1> HIDE DEF n, table, key, op
<1>6. \A k : CIRowsUpTo(ciTable, n, k) = CIRowsUpTo(table, n - 1, k) \cup (IF key = k THEN {n} ELSE {})
  BY <1>1, <1>2, <1>3, <1>5 DEF CIRowsUpTo
<1>7. \A k : n \notin CIRowsUpTo(table, n - 1, k)
  BY <1>2 DEF CIRowsUpTo
<1>8. Len(table) <= CIRows
  BY <1>1, <1>2, <1>5
<1>9. CASE key = CINull
  <2>1. ops = <<>> /\ <<>> \in Seq(CIOps)
    BY <1>9
  <2>2. CIShape(table, <<>>)
    BY DEF CIShape
  <2>3. \A k \in CIKeys : CIBehind(table, <<>>, k) = CIRowsUpTo(ciTable, n, k)
    <3>1. ASSUME NEW k \in CIKeys PROVE CIBehind(table, <<>>, k) = CIRowsUpTo(ciTable, n, k)
      <4>1. CIBehind(table, <<>>, k) = CIRowsUpTo(table, n - 1, k)
        BY <1>5, BehindIdle
      <4>2. key # k
        BY <1>2, <1>9
      <4>3. QED BY <1>6, <4>1, <4>2
    <3>2. QED BY <3>1
  <2>4. QED BY <1>1, <1>5, <1>8, <2>1, <2>2, <2>3, CIChangeInv DEF n
<1>10. CASE key # CINull
  <2>1. ops = <<op>> /\ <<op>> \in Seq(CIOps)
    BY <1>4, <1>10
  <2>2. CIShape(table, <<op>>)
    <3>1. n = (n - 1) + 1
      BY <1>2
    <3>2. QED BY <1>4, <1>5, <3>1 DEF CIShape
  <2>3. \A k \in CIKeys : CIBehind(table, <<op>>, k) = CIRowsUpTo(ciTable, n, k)
    <3>1. ASSUME NEW k \in CIKeys PROVE CIBehind(table, <<op>>, k) = CIRowsUpTo(ciTable, n, k)
      <4>1. CIBehind(table, <<op>>, k) = (CIRowsUpTo(table, n - 1, k) \ {n}) \cup (IF key = k THEN {n} ELSE {})
        <5>1. Len(<<op>>) \in {1, 2} /\ <<op>>[1].id = n /\ Len(<<op>>) # 2 /\ <<op>>[1].what = "delete" /\ <<op>>[1].key = key
          BY <1>4
        <5>2. QED BY <1>5, <5>1, BehindOne
      <4>2. QED BY <1>6, <1>7, <4>1
    <3>2. QED BY <3>1
  <2>4. QED BY <1>1, <1>5, <1>8, <2>1, <2>2, <2>3, CIChangeInv DEF n
<1>11. QED BY <1>9, <1>10

LEMMA CIUpdateInv ==
  ASSUME CIInv, NEW id \in 1..Len(ciTable), NEW key \in CIKeys \cup {CINull}, CIUpdate(id, key)
  PROVE  CIInv'
<1> DEFINE n == Len(ciTable)
           table == [ciTable EXCEPT ![id] = key]
           old == CIOp("delete", ciTable[id], id)
           new == CIOp("insert", key, id)
           ops == <<old, new>>
<1>1. ciTable[id] # key /\ CIChange(table, ops)
  BY DEF CIUpdate
<1>2. CITyped /\ n \in Nat /\ ciTable \in Seq(CIAll) /\ n <= CIRows /\ key \in CIAll /\ CIRows \in Nat
  BY CITypes, CIAssumption DEF CIInv, CITyped, CIAll, CIAssumption
<1>3. id \in 1..CIRows /\ ciTable[id] \in CIAll
  BY <1>2, CITypes
<1>4. /\ old \in CIOps /\ old.what = "delete" /\ old.key = ciTable[id] /\ old.id = id
      /\ new \in CIOps /\ new.what = "insert" /\ new.key = key /\ new.id = id
  BY <1>2, <1>3 DEF CIOp, CIOps
<1>5. table \in Seq(CIAll) /\ Len(table) = n /\ \A i \in 1..n : table[i] = IF i = id THEN key ELSE ciTable[i]
  BY <1>2, ExceptSeq
<1> HIDE DEF n, table, old, new
<1>6. \A k : CIRowsUpTo(ciTable, n, k) = (CIRowsUpTo(table, n, k) \ {id}) \cup (IF ciTable[id] = k THEN {id} ELSE {})
  BY <1>1, <1>2, <1>5 DEF CIRowsUpTo, n
<1>7. /\ ops \in Seq(CIOps) /\ Len(ops) = 2 /\ ops[1] = old /\ ops[2] = new
  BY <1>4
<1> HIDE DEF ops
<1>8. CIShape(table, ops)
  BY <1>4, <1>5, <1>7 DEF CIShape, n
<1>9. ASSUME NEW k \in CIKeys PROVE CIBehind(table, ops, k) = CIRowsUpTo(ciTable, n, k)
  <2>1. CIBehind(table, ops, k) = (CIRowsUpTo(table, n, k) \ {id}) \cup (IF ciTable[id] = k THEN {id} ELSE {})
    <3>1. Len(ops) \in {1, 2} /\ ops[1].id = id /\ ops[2].id = id /\ ops[1].what = "delete" /\ ops[1].key = ciTable[id]
      BY <1>4, <1>7
    <3>2. QED BY <1>5, <3>1, BehindOne
  <2>2. QED BY <1>6, <2>1
<1>10. Len(table) <= CIRows
  BY <1>2, <1>5
<1>11. QED BY <1>1, <1>5, <1>7, <1>8, <1>9, <1>10, CIChangeInv DEF n

LEMMA CILookInv ==
  ASSUME CIInv, CILook
  PROVE  CIInv'
<1>1. /\ ciWrite.at = "changed"
      /\ UNCHANGED <<ciTable, ciUnique, ciOnline, ciKnown, ciLocked, ciState, ciData, ciPending,
                     ciBuilder, ciTodo, ciClean>>
  BY DEF CILook
<1>2. CITyped /\ CIStages /\ CIWriting
  BY DEF CIInv
<1>3. ~(ciClean /\ ciBuilder \in CIBuilding)
  BY <1>1 DEF CIInv, CIScanned
<1>4. CIUniqueHolds' /\ CIScanned' /\ CIStarted'
  BY <1>1, <1>3, CIUniqueKept DEF CIInv, CIScanned, CIStarted
<1> DEFINE skip == \/ ciKnown # "yes" \/ ciWrite.ops = <<>>
                   \/ Head(ciWrite.ops).what = "insert" /\ ciState \notin {"active", "building", "validating", "ready"}
<1>5. ciWrite' = IF skip THEN CIIdle(ciWrite.changes) ELSE [ciWrite EXCEPT !.at = "looked"]
  BY DEF CILook
<1>6. CASE skip
  <2>1. ciWrite' = [changes |-> ciWrite.changes, at |-> "none", ops |-> <<>>]
    BY <1>5, <1>6 DEF CIIdle
  <2>2. CITyped'
    BY <1>1, <1>2, <2>1, EmptySeq DEF CITyped
  <2>3. CIStages' /\ CIWriting'
    BY <1>1, <1>2, <2>1 DEF CIStages, CIWriting, CIShape
  <2>4. CILag'
    <3>1. CASE ciWrite.ops = <<>>
      BY <1>1, <2>1, <3>1 DEF CIInv, CILag, CIBuilt
    <3>2. CASE ciWrite.ops # <<>>
      BY <1>1, <1>6, <3>2 DEF CILag, CIBuilt
    <3>3. QED BY <3>1, <3>2
  <2>5. QED BY <1>4, <2>2, <2>3, <2>4 DEF CIInv
<1>7. CASE ~skip
  <2>1. ciWrite' = [ciWrite EXCEPT !.at = "looked"] /\ ciWrite.ops # <<>> /\ ciKnown = "yes"
    BY <1>5, <1>7
  <2>2. /\ ciWrite' \in [changes : Nat, at : {"none", "changed", "looked"}, ops : Seq(CIOps)]
        /\ ciWrite'.at = "looked" /\ ciWrite'.ops = ciWrite.ops
    BY <1>2, <2>1 DEF CITyped
  <2>3. CITyped'
    BY <1>1, <1>2, <2>2 DEF CITyped
  <2>4. CIStages' /\ CIWriting'
    BY <1>1, <1>2, <2>1, <2>2 DEF CIStages, CIWriting
  <2>5. CILag'
    BY <1>1, <2>2 DEF CIInv, CILag, CIBuilt
  <2>6. QED BY <1>4, <2>3, <2>4, <2>5 DEF CIInv
<1>8. QED BY <1>6, <1>7

\* What a telling leaves to tell.
LEMMA CITellsOn ==
  ASSUME CIInv, ciWrite.at = "looked",
         ciWrite' = IF Len(ciWrite.ops) = 1 THEN CIIdle(ciWrite.changes) ELSE [ciWrite EXCEPT !.ops = Tail(@)],
         UNCHANGED ciTable
  PROVE  /\ CIWriting' /\ ciWrite' \in [changes : Nat, at : {"none", "changed", "looked"}, ops : Seq(CIOps)]
         /\ Head(ciWrite.ops) = ciWrite.ops[1] /\ Head(ciWrite.ops) \in CIOps
         /\ \/ Len(ciWrite.ops) = 1 /\ ciWrite'.ops = <<>>
            \/ /\ Len(ciWrite.ops) = 2 /\ ciWrite.ops[1].what = "delete" /\ ciWrite.ops[2].id = ciWrite.ops[1].id
               /\ Len(ciWrite'.ops) = 1 /\ ciWrite'.ops[1] = ciWrite.ops[2] /\ ciWrite.ops[2].what = "insert"
<1> DEFINE ops == ciWrite.ops
<1>1. CITyped /\ CIWriting /\ ops # <<>> /\ ops \in Seq(CIOps)
  BY DEF CIInv, CITyped, CIWriting
<1>2. CIShape(ciTable, ops)
  BY <1>1 DEF CIWriting
<1>3. Len(ops) \in {1, 2}
  BY <1>1, <1>2 DEF CIShape
<1>4. Head(ops) = ops[1] /\ Head(ops) \in CIOps /\ Tail(ops) \in Seq(CIOps) /\ Len(Tail(ops)) = Len(ops) - 1
  BY <1>1, HeadTailProperties
<1>5. \A i \in 1..Len(Tail(ops)) : Tail(ops)[i] = ops[i + 1]
  BY <1>1, HeadTailProperties
<1>6. CASE Len(ops) = 1
  <2>1. ciWrite' = [changes |-> ciWrite.changes, at |-> "none", ops |-> <<>>]
    BY <1>6 DEF CIIdle
  <2>2. ciWrite' \in [changes : Nat, at : {"none", "changed", "looked"}, ops : Seq(CIOps)]
    BY <1>1, <2>1, EmptySeq DEF CITyped
  <2>3. CIWriting'
    BY <2>1 DEF CIWriting, CIShape
  <2>4. QED BY <1>4, <1>6, <2>1, <2>2, <2>3
<1>7. CASE Len(ops) = 2
  <2>1. ciWrite' = [ciWrite EXCEPT !.ops = Tail(ops)]
    BY <1>7
  <2>2. Len(Tail(ops)) = 1 /\ Tail(ops)[1] = ops[2]
    BY <1>4, <1>5, <1>7
  <2>3. /\ ops[1].what = "delete" /\ ops[2].what = "insert"
        /\ ops[2].id \in 1..Len(ciTable) /\ ops[2].key = ciTable[ops[2].id] /\ ops[1].id = ops[2].id
    BY <1>1, <1>2, <1>7 DEF CIShape
  <2>4. /\ ciWrite' \in [changes : Nat, at : {"none", "changed", "looked"}, ops : Seq(CIOps)]
        /\ ciWrite'.at = "looked" /\ ciWrite'.ops = Tail(ops)
    BY <1>1, <1>4, <2>1 DEF CITyped
  <2>5. CIWriting'
    BY <2>2, <2>3, <2>4, EmptySeq DEF CIWriting, CIShape
  <2>6. QED BY <1>4, <1>7, <2>2, <2>3, <2>4, <2>5
<1>8. QED BY <1>3, <1>6, <1>7

\* An index that is built takes the operation: it is behind by what is left.
LEMMA CITellLag ==
  ASSUME CIInv, ciWrite.at = "looked", ~CIQueues, CIApplied(Head(ciWrite.ops)), ~CIRaises(Head(ciWrite.ops)),
         ciWrite' = IF Len(ciWrite.ops) = 1 THEN CIIdle(ciWrite.changes) ELSE [ciWrite EXCEPT !.ops = Tail(@)],
         UNCHANGED <<ciTable, ciUnique>>, ciClean, CIBuilt, NEW k \in CIKeys
  PROVE  CIHolds(ciData'[k], CIBehind(ciTable', ciWrite'.ops, k))
<1> DEFINE ops == ciWrite.ops
           left == ciWrite'.ops
           n == Len(ciTable)
           op == ops[1]
           rows == CIRowsUpTo(ciTable, n, k)
<1>1. CITyped /\ CIWriting /\ ops # <<>> /\ CIShape(ciTable, ops)
  BY DEF CIInv, CIWriting
<1>2. /\ Head(ops) = op /\ op \in CIOps
      /\ \/ Len(ops) = 1 /\ left = <<>>
         \/ /\ Len(ops) = 2 /\ op.what = "delete" /\ ops[2].id = op.id
            /\ Len(left) = 1 /\ left[1] = ops[2] /\ ops[2].what = "insert"
  BY CITellsOn
<1>3. op.key \in CIAll /\ op.id \in 1..CIRows /\ op.what \in {"insert", "delete"}
  BY <1>2 DEF CIOps
<1>4. ciData[k] \in Seq(1..CIRows) /\ n \in Nat /\ k \in CIAll
  BY <1>1, CITypes
<1>5. /\ op.what = "insert" => Len(ops) = 1 /\ op.id \in 1..n /\ op.key = ciTable[op.id]
      /\ op.what = "delete" /\ Len(ops) = 1 => op.id = n + 1
  <2>1. CASE op.what = "insert"
    BY <1>1, <1>2, <2>1 DEF CIShape
  <2>2. CASE op.what = "delete"
    BY <1>1, <1>2, <2>2 DEF CIShape
  <2>3. QED BY <1>3, <2>1, <2>2
<1>6. CIHolds(ciData[k], CIBehind(ciTable, ops, k))
  BY DEF CIInv, CILag
<1>7. CIBehind(ciTable, ops, k) = (rows \ {op.id}) \cup (IF op.what = "delete" /\ op.key = k THEN {op.id} ELSE {})
  <2>1. Len(ops) \in {1, 2} /\ (Len(ops) = 2 => ops[2].id = op.id)
    BY <1>2
  <2> HIDE DEF ops, n
  <2>2. QED BY <2>1, BehindOne DEF n
<1>8. CIBehind(ciTable, left, k) = IF Len(ops) = 1 THEN rows ELSE rows \ {op.id}
  <2>1. CASE Len(ops) = 1
    BY <1>2, <2>1, BehindIdle
  <2>2. CASE Len(ops) # 1
    <3>1. Len(left) = 1 /\ left[1].id = op.id /\ left[1].what = "insert"
      BY <1>2, <2>2
    <3> HIDE DEF left, ops, n
    <3>2. CIBehind(ciTable, left, k) = (rows \ {op.id}) \cup (IF left[1].what = "delete" /\ left[1].key = k THEN {op.id} ELSE {})
      BY <3>1, BehindOne DEF n
    <3>3. QED BY <2>2, <3>1, <3>2
  <2>3. QED BY <2>1, <2>2
<1> HIDE DEF ops, left, n, op, rows
<1>9. CASE op.what = "insert"
  <2>1. ~CIDuplicate(op.key) /\ ciData' = CIAdded(op.key, op.id)
    BY <1>2, <1>9 DEF CIRaises, CIApplied, ops
  <2>2. ciData'[op.key] = Append(ciData[op.key], op.id) /\ \A l \in CIAll : l # op.key => ciData'[l] = ciData[l]
    BY <1>3, <2>1, CIAddedIs
  <2>3. op.id \in rows <=> op.key = k
    BY <1>5, <1>9 DEF rows, CIRowsUpTo
  <2>4. CIHolds(ciData[k], rows \ {op.id})
    BY <1>6, <1>7, <1>9 DEF ops
  <2>5. CIHolds(ciData'[k], rows)
    <3>1. CASE op.key = k
      <4>1. CIHolds(Append(ciData[k], op.id), (rows \ {op.id}) \cup {op.id})
        BY <1>3, <1>4, <2>4, HoldsMore
      <4>2. (rows \ {op.id}) \cup {op.id} = rows
        BY <2>3, <3>1
      <4>3. QED BY <2>2, <3>1, <4>1, <4>2
    <3>2. CASE op.key # k
      <4>1. rows \ {op.id} = rows
        BY <2>3, <3>2
      <4>2. QED BY <1>4, <2>2, <2>4, <3>2, <4>1
    <3>3. QED BY <3>1, <3>2
  <2>6. QED BY <1>5, <1>8, <1>9, <2>5 DEF left
<1>10. CASE op.what = "delete"
  <2>1. ciData' = CIRemoved(op.key, op.id)
    BY <1>2, <1>10 DEF CIApplied, ops
  <2>2. ciData'[op.key] = RemoveFirst(ciData[op.key], op.id) /\ \A l \in CIAll : l # op.key => ciData'[l] = ciData[l]
    BY <1>3, <2>1, CIRemovedIs
  <2>3. CIHolds(ciData[k], (rows \ {op.id}) \cup (IF op.key = k THEN {op.id} ELSE {}))
    BY <1>6, <1>7, <1>10 DEF ops
  <2>4. CIHolds(ciData'[k], rows \ {op.id})
    <3>1. CASE op.key = k
      <4>1. CIHolds(ciData[k], (rows \ {op.id}) \cup {op.id})
        BY <2>3, <3>1
      <4>2. CIHolds(RemoveFirst(ciData[k], op.id), ((rows \ {op.id}) \cup {op.id}) \ {op.id})
        BY <1>4, <4>1, HoldsLess
      <4>3. ((rows \ {op.id}) \cup {op.id}) \ {op.id} = rows \ {op.id}
        OBVIOUS
      <4>4. QED BY <2>2, <3>1, <4>2, <4>3
    <3>2. CASE op.key # k
      <4>1. (rows \ {op.id}) \cup {} = rows \ {op.id}
        OBVIOUS
      <4>2. QED BY <1>4, <2>2, <2>3, <3>2, <4>1
    <3>3. QED BY <3>1, <3>2
  <2>5. Len(ops) = 1 => rows \ {op.id} = rows
    <3>1. n + 1 \notin rows
      BY <1>4 DEF rows, CIRowsUpTo
    <3>2. QED BY <1>5, <1>10, <3>1
  <2>6. QED BY <1>8, <2>4, <2>5 DEF left
<1>11. QED BY <1>3, <1>9, <1>10

LEMMA CITellInv ==
  ASSUME CIInv, CITell
  PROVE  CIInv'
<1> DEFINE op == Head(ciWrite.ops)
<1>1. ciWrite.at = "looked" /\ UNCHANGED <<ciTable, ciUnique, ciOnline, ciKnown, ciLocked, ciState, ciBuilder, ciTodo>>
  BY DEF CITell
<1>2. CITyped /\ CIStages /\ CIWriting /\ ciBuilder # "none"
  BY <1>1 DEF CIInv, CIStages
<1>3. ~(ciClean /\ ciBuilder \in CIBuilding)
  BY <1>1 DEF CIInv, CIScanned
<1>4. CASE CIRaises(op)
  <2>1. ciWrite' = CIIdle(ciWrite.changes) /\ ciClean' = FALSE /\ UNCHANGED <<ciData, ciPending>>
    BY <1>4 DEF CITell
  <2>2. ciWrite' = [changes |-> ciWrite.changes, at |-> "none", ops |-> <<>>]
    BY <2>1 DEF CIIdle
  <2>3. CITyped'
    BY <1>1, <1>2, <2>1, <2>2, EmptySeq DEF CITyped
  <2>4. CIStages' /\ CIWriting' /\ CIUniqueHolds'
    BY <1>1, <1>2, <2>1, <2>2, CIUniqueKept DEF CIStages, CIWriting, CIShape
  <2>5. CIScanned' /\ CILag' /\ CIStarted'
    BY <1>1, <2>1 DEF CIInv, CIScanned, CILag, CIStarted
  <2>6. QED BY <2>3, <2>4, <2>5 DEF CIInv
<1>5. CASE ~CIRaises(op)
  <2>1. /\ CIApplied(op) /\ ciClean' = ciClean
        /\ ciWrite' = IF Len(ciWrite.ops) = 1 THEN CIIdle(ciWrite.changes) ELSE [ciWrite EXCEPT !.ops = Tail(@)]
    BY <1>5 DEF CITell
  <2>2. CIWriting' /\ ciWrite' \in [changes : Nat, at : {"none", "changed", "looked"}, ops : Seq(CIOps)] /\ op \in CIOps
    BY <1>1, <2>1, CITellsOn
  <2>3. ciData' \in [CIAll -> Seq(1..CIRows)] /\ ciPending' \in Seq(CIOps) /\ CIUniqueHolds'
    <3> HIDE DEF op
    <3>1. QED BY <1>1, <1>5, <2>1, <2>2, CIAppliedIs
  <2>4. CITyped'
    BY <1>1, <1>2, <2>2, <2>3 DEF CITyped
  <2>5. CIStages'
    BY <1>1, <1>2 DEF CIStages
  <2>6. CIScanned' /\ CIStarted'
    BY <1>1, <1>3, <2>1 DEF CIInv, CIScanned, CIStarted
  <2>7. CILag'
    <3>1. SUFFICES ASSUME ciClean, CIBuilt, NEW k \in CIKeys PROVE CIHolds(ciData'[k], CIBehind(ciTable', ciWrite'.ops, k))
      BY <1>1, <2>1 DEF CILag, CIBuilt
    <3>2. ~CIQueues
      BY <3>1 DEF CIBuilt, CIQueues
    <3>3. QED BY <1>1, <1>5, <2>1, <3>1, <3>2, CITellLag
  <2>8. QED BY <2>2, <2>3, <2>4, <2>5, <2>6, <2>7 DEF CIInv
<1>6. QED BY <1>4, <1>5

LEMMA CINextInv == CIInv /\ [CINext]_ciVars => CIInv'
<1>1. ASSUME CIInv, UNCHANGED ciVars PROVE CIInv'
  <2>1. UNCHANGED <<ciTable, ciWrite, ciUnique, ciOnline, ciKnown, ciLocked, ciState, ciData, ciPending,
                    ciBuilder, ciTodo, ciClean>>
    BY <1>1 DEF ciVars
  <2>2. CITyped' /\ CIStages'
    BY <1>1, <2>1 DEF CIInv, CITyped, CIStages
  <2>3. CIWriting' /\ CIUniqueHolds'
    BY <1>1, <2>1, CIWritingKept, CIUniqueKept
  <2>4. CIScanned' /\ CILag' /\ CIStarted'
    BY <1>1, <2>1 DEF CIInv, CIScanned, CILag, CIStarted, CIBuilt
  <2>5. QED BY <2>2, <2>3, <2>4 DEF CIInv
<1>2. ASSUME CIInv, CIBuildStep PROVE CIInv'
  BY <1>2, CISnapshotInv, CIScanInv, CITakePendingInv, CIApplyInv, CIControlInv DEF CIBuildStep
<1>3. ASSUME CIInv, CINext PROVE CIInv'
  BY <1>2, <1>3, CIInsertInv, CIUpdateInv, CIDeleteInv, CILookInv, CITellInv, CICreateInv, CIControlInv DEF CINext
<1>4. QED BY <1>1, <1>3

-----------------------------------------------------------------------------
(* All of them, as MCCoordination composes them.                           *)

ThreadsInv == MVInv /\ CIInv /\ AMInv /\ BPInv /\ CDInv /\ SRInv

LEMMA ThreadsInitInv == Init => ThreadsInv
BY MVInitInv, CIInitInv, AMInitInv, BPInitInv, CDInitInv, SRInitInv DEF Init, ThreadsInv

\* A step is one of a component, or leaves it alone.
LEMMA StepsOfEach ==
  [Next]_allVars =>
    /\ [MVNext]_mvVars /\ [CINext]_ciVars /\ [AMNext]_amVars
    /\ [BPNext]_bpVars /\ [CDNext]_cdVars /\ [SRNext]_srVars
    /\ UNCHANGED service
<1>1. ASSUME UNCHANGED allVars
      PROVE  UNCHANGED <<service, mvVars, ciVars, amVars, bpVars, cdVars, srVars>>
  BY <1>1 DEF allVars
<1>2. ASSUME MVNext, Others("refresh timers")
      PROVE  UNCHANGED <<service, ciVars, amVars, bpVars, cdVars, srVars>>
  BY <1>2, Zenon DEF Others
<1>3. ASSUME CINext, Others("index")
      PROVE  UNCHANGED <<service, mvVars, amVars, bpVars, cdVars, srVars>>
  BY <1>3, Zenon DEF Others
<1>4. ASSUME AMNext, Others("agents")
      PROVE  UNCHANGED <<service, mvVars, ciVars, bpVars, cdVars, srVars>>
  BY <1>4, Zenon DEF Others
<1>5. ASSUME BPNext, Others("batch pool")
      PROVE  UNCHANGED <<service, mvVars, ciVars, amVars, cdVars, srVars>>
  BY <1>5, Zenon DEF Others
<1>6. ASSUME CDNext, Others("changes")
      PROVE  UNCHANGED <<service, mvVars, ciVars, amVars, bpVars, srVars>>
  BY <1>6, Zenon DEF Others
<1>7. ASSUME SRNext, Others("stream")
      PROVE  UNCHANGED <<service, mvVars, ciVars, amVars, bpVars, cdVars>>
  BY <1>7, Zenon DEF Others
<1>8. QED BY <1>1, <1>2, <1>3, <1>4, <1>5, <1>6, <1>7, Zenon DEF Next

LEMMA ThreadsNextInv == ThreadsInv /\ [Next]_allVars => ThreadsInv'
BY StepsOfEach, MVNextInv, CINextInv, AMNextInv, BPNextInv, CDNextInv, SRNextInv DEF ThreadsInv

LEMMA ThreadsInvHolds == Spec => []ThreadsInv
<1>1. QED BY ThreadsInitInv, ThreadsNextInv, PTL DEF Spec

\* Whatever threads do at the same time, every component's state stays of its types: locks are
\* held only while someone works under them, tables have entries only for those who wait, and
\* queues stay within their room.
THEOREM ThreadsTyped == Spec => []ThreadsTypeOK
<1>1. ThreadsInv => ThreadsTypeOK
  BY CIInvTypes, AMInvTypes, CDInvTypes DEF ThreadsInv, ThreadsTypeOK, MVInv, BPInv, SRInv
<1>2. QED BY <1>1, ThreadsInvHolds, PTL

\* For tables of any size, any keys and any number of writes: an index whose build no write met
\* holds exactly its table's rows whenever the writer has told its change, a unique index never
\* holds two rows of a key, and a dropped one is never made active by its callback.
THEOREM IndexesTrue == Spec => []IndexesFollow
<1>1. ThreadsInv => IndexesFollow
  BY CIInvTypes DEF ThreadsInv, IndexesFollow
<1>2. QED BY <1>1, ThreadsInvHolds, PTL

\* For any number of callers, consumers, threads, rows and messages: a schedule keeps its timer,
\* a caller gets the answer to its own last request and a request runs once, connections are
\* counted, a consumer's callback has had each event before its position, and a stream gives the
\* rows in order and says its end truly.
THEOREM NothingMissed == Spec => []NothingLostOrTwice
<1>1. BPInv => BPOnceAfterClose
  BY DEF BPInv, BPOnceAfterClose
<1>2. ThreadsInv => NothingLostOrTwice
  BY <1>1, AMInvTypes, CDInvTypes, SRInvFaithful DEF ThreadsInv, NothingLostOrTwice, MVInv, BPInv
<1>3. QED BY <1>2, ThreadsInvHolds, PTL

-----------------------------------------------------------------------------
(* Connections that threads share, ConnectionPool: an id is in one place,  *)
(* in the queue once or in one hand, and every permit has one.             *)

USE DEF poolVars, poolTable, HasLock, Rest, GivesUp, Requeues, Swept

LEMMA Constants ==
  /\ MinConns \in Nat /\ MaxConns \in Nat /\ MinConns <= MaxConns
  /\ IsFiniteSet(Threads) /\ NoThread \notin Threads
BY PoolAssumption DEF PoolAssumption

-----------------------------------------------------------------------------
(* Sequences and counts. *)

LEMMA TailFacts ==
  ASSUME NEW q \in Seq(Nat), q # <<>>
  PROVE  /\ Tail(q) \in Seq(Nat) /\ Head(q) = q[1] /\ 1 \in DOMAIN q
         /\ Len(Tail(q)) = Len(q) - 1 /\ Len(q) \in Nat
         /\ \A i \in DOMAIN Tail(q) : i + 1 \in DOMAIN q /\ Tail(q)[i] = q[i + 1]
         /\ \A i \in DOMAIN q : i # 1 => i - 1 \in DOMAIN Tail(q) /\ i = (i - 1) + 1
OBVIOUS

LEMMA AppendFacts ==
  ASSUME NEW q \in Seq(Nat), NEW id \in Nat
  PROVE  /\ Append(q, id) \in Seq(Nat) /\ Len(Append(q, id)) = Len(q) + 1
         /\ DOMAIN Append(q, id) = DOMAIN q \cup {Len(q) + 1}
         /\ Len(q) + 1 \notin DOMAIN q /\ Append(q, id)[Len(q) + 1] = id
         /\ \A i \in DOMAIN q : Append(q, id)[i] = q[i]
OBVIOUS

LEMMA CountConns ==
  ASSUME NEW c \in Nat, NEW S \in SUBSET (1..c)
  PROVE  IsFiniteSet(S) /\ Cardinality(S) \in Nat
<1>1. IsFiniteSet(1..c)
  BY FS_Interval
<1>2. IsFiniteSet(S)
  BY <1>1, FS_Subset
<1>3. QED BY <1>2, FS_CardinalityType

LEMMA CreatesType ==
  ASSUME TableType, NEW id, id = counter + 1, Creates(id), UNCHANGED replaced
  PROVE  TableType' /\ counter' = counter + 1
<1>1. IsFiniteSet(conns) /\ Cardinality(conns) \in Nat
  BY CountConns DEF TableType
<1>2. Cardinality(conns \cup {id}) <= MaxConns
  <2>1. Cardinality(conns \cup {id}) \in {Cardinality(conns), Cardinality(conns) + 1}
    BY <1>1, FS_AddElement
  <2>2. QED BY <1>1, <2>1, Constants DEF Creates, Full
<1>3. 1..counter \subseteq 1..(counter + 1) /\ counter + 1 \in 1..(counter + 1)
  BY DEF TableType
<1>4. QED BY <1>2, <1>3 DEF TableType, Creates

LEMMA DestroysType ==
  ASSUME TableType, NEW gone, Destroys(gone), UNCHANGED replaced
  PROVE  TableType' /\ counter' = counter
<1>1. IsFiniteSet(conns) /\ Cardinality(conns) \in Nat
  BY CountConns DEF TableType
<1>2. IsFiniteSet(conns \ gone) /\ Cardinality(conns \ gone) <= Cardinality(conns)
  BY <1>1, FS_Subset, conns \ gone \subseteq conns
<1>3. Cardinality(conns \ gone) \in Nat
  BY <1>2, FS_CardinalityType
<1>4. Cardinality(conns \ gone) <= MaxConns
  BY <1>1, <1>2, <1>3, Constants DEF TableType
<1>5. QED BY <1>4 DEF TableType, Destroys

-----------------------------------------------------------------------------
(* Types. *)

PCs == {"out", "asking", "popping", "popped", "creating", "created", "holding"}

LEMMA InitTypeOK == PoolInit => TypeOK
<1> SUFFICES ASSUME PoolInit PROVE TypeOK
  OBVIOUS
<1>1. counter \in Nat /\ counter <= MinConns /\ counter <= MaxConns
  BY Constants DEF PoolInit
<1>2. Cardinality(1..counter) = counter
  BY <1>1, FS_Interval
<1>3. TableType
  BY <1>1, <1>2 DEF PoolInit, TableType
<1>4. QueueType
  BY <1>1 DEF PoolInit, QueueType, Queued
<1>5. ThreadType
  BY <1>1, Constants DEF PoolInit, ThreadType
<1>6. QED BY <1>3, <1>4, <1>5 DEF TypeOK

\* A thread goes on.
LEMMA GoesType ==
  ASSUME TableType, ThreadType, NEW t \in Threads, NEW where \in PCs, NEW id,
         Goes(t, where, id), counter' \in {counter, counter + 1}, id \in 0..counter',
         UNCHANGED poolPhase,
         owner' \in {owner, t, NoThread},
         owner' = t => where \notin {"out", "holding"}
  PROVE  ThreadType'
<1>1. counter \in Nat /\ 0..counter \subseteq 0..counter'
  BY DEF TableType
<1>2. conn' \in [Threads -> 0..counter']
  BY <1>1 DEF ThreadType, Goes
<1>3. pc' \in [Threads -> PCs]
  BY DEF ThreadType, Goes, PCs
<1>4. ASSUME owner' \in Threads PROVE pc'[owner'] \notin {"out", "holding"}
  BY <1>4, Constants DEF ThreadType, Goes
<1>5. owner' \in Threads \cup {NoThread}
  BY DEF ThreadType
<1>6. QED BY <1>2, <1>3, <1>4, <1>5 DEF ThreadType, PCs

LEMMA QueueKept ==
  ASSUME QueueType, TableType, UNCHANGED <<idleQueue, permits>>,
         counter' \in {counter, counter + 1}
  PROVE  QueueType'
BY DEF QueueType, TableType, Queued

LEMMA StepTypeOK == TypeOK /\ [PoolNext]_poolVars => TypeOK'
<1> SUFFICES ASSUME TypeOK, [PoolNext]_poolVars PROVE TypeOK'
  OBVIOUS
<1>0. /\ TableType /\ QueueType /\ ThreadType
      /\ counter \in Nat /\ counter \in 0..counter /\ 0 \in 0..counter
      /\ conns \subseteq 0..counter
      /\ \A t \in Threads : conn[t] \in 0..counter
  BY DEF TypeOK, TableType, ThreadType
<1>1. ASSUME NEW t \in Threads,
             Ask(t) \/ TimeOut(t) \/ PoppedStale(t) \/ CreateFails(t) \/ ReturnUnknown(t)
      PROVE  TypeOK'
  <2>1. TableType' /\ QueueType'
    BY <1>0, <1>1, QueueKept
    DEF Ask, TimeOut, PoppedStale, CreateFails, ReturnUnknown, TableType
  <2>2. /\ \E where \in PCs \ {"holding"} : Goes(t, where, 0) /\ (where = "out" => owner' # t)
        /\ owner' \in {owner, NoThread} /\ UNCHANGED <<poolPhase, counter>>
    BY <1>0, <1>1, Constants
    DEF Ask, TimeOut, PoppedStale, CreateFails, ReturnUnknown, Leaves, PCs, ThreadType
  <2>3. QED BY <1>0, <2>1, <2>2, GoesType, Constants DEF TypeOK
<1>2. ASSUME NEW t \in Threads, Acquire(t) PROVE TypeOK'
  <2>1. TableType' /\ QueueType'
    BY <1>0, <1>2 DEF Acquire, TableType, QueueType, Queued
  <2>2. QED BY <1>0, <1>2, <2>1, GoesType, Constants DEF TypeOK, Acquire, PCs
<1>3. ASSUME NEW t \in Threads, Pop(t) PROVE TypeOK'
  <2>1. Head(idleQueue) \in 0..counter /\ Queued' \subseteq Queued /\ idleQueue' \in Seq(Nat)
    BY <1>0, <1>3, TailFacts DEF Pop, QueueType, Queued
  <2>2. TableType' /\ QueueType'
    BY <1>0, <1>3, <2>1 DEF Pop, TableType, QueueType
  <2>3. QED BY <1>0, <1>3, <2>1, <2>2, GoesType, Constants DEF TypeOK, Pop, PCs
<1>4. ASSUME NEW t \in Threads, TakePopped(t) \/ TakeCreated(t) PROVE TypeOK'
  <2>1. TableType' /\ QueueType'
    BY <1>0, <1>4 DEF TakePopped, TakeCreated, TableType, QueueType, Queued
  <2>2. Goes(t, "holding", conn[t]) /\ owner' = NoThread /\ UNCHANGED <<poolPhase, counter>>
    BY <1>4 DEF TakePopped, TakeCreated, Leaves
  <2>3. QED BY <1>0, <2>1, <2>2, GoesType, Constants DEF TypeOK, PCs
<1>5. ASSUME NEW t \in Threads, Retry(t) PROVE TypeOK'
  <2>1. TableType' /\ counter' = counter
    BY <1>0, <1>5, DestroysType DEF Retry
  <2>2. QueueType'
    BY <1>0, <1>5, <2>1, QueueKept DEF Retry
  <2>3. /\ \/ Goes(t, "asking", 0) /\ owner' = t
           \/ Goes(t, "out", 0) /\ owner' = NoThread
        /\ UNCHANGED poolPhase
    BY <1>5 DEF Retry, Leaves
  <2>4. ThreadType'
    BY <1>0, <2>1, <2>3, GoesType, Constants DEF PCs
  <2>5. QED BY <2>1, <2>2, <2>4 DEF TypeOK
<1>6. ASSUME NEW t \in Threads, Create(t) PROVE TypeOK'
  <2>1. TableType' /\ counter' = counter + 1
    BY <1>0, <1>6, CreatesType DEF Create
  <2>2. QueueType'
    BY <1>0, <1>6, <2>1, QueueKept DEF Create
  <2>3. counter + 1 \in 0..(counter + 1)
    BY <1>0
  <2>4. owner' = t => "created" \notin {"out", "holding"}
    OBVIOUS
  <2>5. ThreadType'
    BY <1>0, <1>6, <2>1, <2>3, <2>4, GoesType, Constants DEF Create, PCs
  <2>6. QED BY <2>1, <2>2, <2>5 DEF TypeOK
<1>7. ASSUME NEW t \in Threads, ReturnHealthy(t) PROVE TypeOK'
  <2>1. TableType'
    BY <1>0, <1>7 DEF ReturnHealthy, TableType
  <2>2. conn[t] \in 1..counter
    BY <1>0, <1>7 DEF ReturnHealthy, TableType
  <2>3. QueueType'
    <3>1. idleQueue' = Append(idleQueue, conn[t]) /\ permits' = permits + 1 /\ counter' = counter
      BY <1>7 DEF ReturnHealthy
    <3>2. idleQueue' \in Seq(Nat) /\ Queued' \subseteq Queued \cup {conn[t]}
      BY <1>0, <2>2, <3>1, AppendFacts DEF QueueType, Queued
    <3>3. QED BY <1>0, <2>2, <3>1, <3>2 DEF QueueType
  <2>4. QED BY <1>0, <1>7, <2>1, <2>3, GoesType, Constants DEF TypeOK, ReturnHealthy, PCs
<1>8. ASSUME NEW t \in Threads, ReturnBad(t) PROVE TypeOK'
  <2>1. TableType' /\ counter' \in {counter, counter + 1}
    <3>1. CASE Destroys({conn[t]}) /\ UNCHANGED replaced
      BY <1>0, <3>1, DestroysType
    <3>2. CASE /\ Cardinality(conns \ {conn[t]}) < MinConns
               /\ counter' = counter + 1
               /\ conns' = (conns \ {conn[t]}) \cup {counter + 1}
               /\ idle' = (idle \ {conn[t]}) \cup {counter + 1}
               /\ active' = (active \ {conn[t]}) \cup {counter + 1}
               /\ replaced' = replaced \cup {counter + 1}
      <4>1. IsFiniteSet(conns \ {conn[t]}) /\ Cardinality(conns \ {conn[t]}) \in Nat
        BY <1>0, CountConns, conns \ {conn[t]} \in SUBSET (1..counter) DEF TableType
      <4>2. Cardinality(conns')
              \in {Cardinality(conns \ {conn[t]}), Cardinality(conns \ {conn[t]}) + 1}
        BY <3>2, <4>1, FS_AddElement
      <4>3. Cardinality(conns') <= MaxConns
        BY <3>2, <4>1, <4>2, Constants
      <4>4. 1..counter \subseteq 1..(counter + 1) /\ counter + 1 \in 1..(counter + 1)
        BY <1>0
      <4>5. /\ conns' \subseteq 1..counter' /\ idle' \subseteq conns'
            /\ active' \subseteq conns' /\ replaced' \subseteq 1..counter'
        BY <1>0, <3>2, <4>4 DEF TableType
      <4>6. QED BY <1>0, <3>2, <4>3, <4>5 DEF TableType
    <3>3. QED BY <1>8, <3>1, <3>2 DEF ReturnBad
  <2>2. QueueType'
    BY <1>0, <1>8, <2>1, QueueKept DEF ReturnBad
  <2>3. 0 \in 0..counter'
    BY <1>0, <2>1
  <2>4. ThreadType'
    BY <1>0, <1>8, <2>1, <2>3, GoesType, Constants DEF ReturnBad, PCs
  <2>5. QED BY <2>1, <2>2, <2>4 DEF TypeOK
<1>9. ASSUME NEW ids \in SUBSET idle, HealthCheck(ids) \/ Cleanup(ids) PROVE TypeOK'
  <2>1. TableType' /\ counter' = counter
    <3>1. CASE HealthCheck(ids)
      BY <1>0, <3>1 DEF HealthCheck, TableType
    <3>2. CASE Cleanup(ids)
      BY <1>0, <3>2, DestroysType DEF Cleanup
    <3>3. QED BY <1>9, <3>1, <3>2
  <2>2. QED BY <1>0, <1>9, <2>1, QueueKept DEF TypeOK, HealthCheck, Cleanup, ThreadType
<1>10. CASE ShutdownBegin \/ ShutdownEnd
  <2>1. TableType' /\ counter' = counter
    <3>1. CASE ShutdownBegin
      BY <1>0, <3>1 DEF ShutdownBegin, TableType
    <3>2. CASE ShutdownEnd
      BY <1>0, <3>2, DestroysType DEF ShutdownEnd
    <3>3. QED BY <1>10, <3>1, <3>2
  <2>2. QED
    BY <1>0, <1>10, <2>1, QueueKept DEF TypeOK, ShutdownBegin, ShutdownEnd, ThreadType
<1>11. CASE UNCHANGED poolVars
  BY <1>0, <1>11 DEF TypeOK, TableType, QueueType, ThreadType, Queued
<1>12. QED
  BY <1>1, <1>2, <1>3, <1>4, <1>5, <1>6, <1>7, <1>8, <1>9, <1>10, <1>11
  DEF PoolNext, GetStep

-----------------------------------------------------------------------------
(* Connections in hand. *)

InHand == {"popped", "created", "holding"}

\* What a thread's step makes of the hands a connection is in.
LEMMA HandsStep ==
  ASSUME ThreadType, NEW t \in Threads, NEW where \in PCs, NEW id, Goes(t, where, id)
  PROVE  \A c : Hands(c)' = (Hands(c) \ {t}) \cup
                            IF where \in InHand /\ c = id THEN {t} ELSE {}
BY DEF ThreadType, Goes, Hands, InHand, PCs

LEMMA NewIdUnused ==
  ASSUME TypeOK
  PROVE  Hands(counter + 1) = {} /\ counter + 1 \notin Queued
BY DEF TypeOK, TableType, QueueType, ThreadType, Hands

\* Exclusive survives when nothing is queued and no thread gets a connection.
LEMMA KeepExclusive ==
  ASSUME TypeOK, Exclusive, UNCHANGED idleQueue, counter' \in {counter, counter + 1},
         \A c : Hands(c)' \subseteq Hands(c)
  PROVE  Exclusive'
<1>1. \A id \in 1..counter' : id \in 1..counter \/ id = counter + 1
  BY DEF TypeOK, TableType
<1>2. \A id \in 1..counter' : \A t, u \in Hands(id)' : t = u
  BY <1>1, NewIdUnused DEF Exclusive
<1>3. QED BY <1>2 DEF Exclusive, Queued

LEMMA InitExclusive == PoolInit => Exclusive
BY Constants DEF PoolInit, Exclusive, Queued, Hands

LEMMA StepExclusive == TypeOK /\ Exclusive /\ [PoolNext]_poolVars => Exclusive'
<1> SUFFICES ASSUME TypeOK, Exclusive, [PoolNext]_poolVars PROVE Exclusive'
  OBVIOUS
<1>0. TableType /\ QueueType /\ ThreadType /\ counter \in Nat
  BY DEF TypeOK, TableType
<1>1. ASSUME NEW t \in Threads,
             \/ Ask(t) \/ Acquire(t) \/ TimeOut(t) \/ PoppedStale(t) \/ CreateFails(t)
             \/ ReturnUnknown(t) \/ Retry(t) \/ ReturnBad(t)
      PROVE  Exclusive'
  <2>1. /\ UNCHANGED idleQueue /\ counter' \in {counter, counter + 1}
        /\ \E where \in PCs \ InHand : Goes(t, where, 0)
    BY <1>1 DEF Ask, Acquire, TimeOut, PoppedStale, CreateFails, ReturnUnknown, Retry,
                ReturnBad, Leaves, Destroys, PCs, InHand
  <2>2. \A c : Hands(c)' \subseteq Hands(c)
    BY <1>0, <2>1, HandsStep
  <2>3. QED BY <2>1, <2>2, KeepExclusive
<1>2. ASSUME NEW t \in Threads, TakePopped(t) \/ TakeCreated(t) PROVE Exclusive'
  <2>1. /\ UNCHANGED <<idleQueue, counter>> /\ Goes(t, "holding", conn[t])
        /\ pc[t] \in {"popped", "created"}
    BY <1>2 DEF TakePopped, TakeCreated, Leaves
  <2>2. t \in Hands(conn[t])
    BY <2>1 DEF Hands
  <2>3. \A c : Hands(c)' \subseteq Hands(c)
    BY <1>0, <2>1, <2>2, HandsStep DEF PCs
  <2>4. QED BY <2>1, <2>3, KeepExclusive
<1>3. ASSUME NEW t \in Threads, Pop(t) PROVE Exclusive'
  <2>1. /\ idleQueue # <<>> /\ idleQueue \in Seq(Nat) /\ idleQueue' = Tail(idleQueue)
        /\ Goes(t, "popped", idleQueue[1]) /\ UNCHANGED counter
        /\ 1 \in DOMAIN idleQueue /\ idleQueue[1] \in Queued
    BY <1>0, <1>3, TailFacts DEF Pop, QueueType, Queued
  <2>2. \A c : Hands(c)' = (Hands(c) \ {t}) \cup IF c = idleQueue[1] THEN {t} ELSE {}
    BY <1>0, <2>1, HandsStep DEF PCs, InHand
  <2>3. Hands(idleQueue[1]) = {}
    BY <2>1 DEF Exclusive
  <2>4. \A i \in DOMAIN idleQueue' : /\ i + 1 \in DOMAIN idleQueue /\ i + 1 # 1 /\ i \in Nat
                                 /\ idleQueue'[i] = idleQueue[i + 1]
    BY <2>1, TailFacts
  <2>5. \A i \in DOMAIN idleQueue' : idleQueue'[i] # idleQueue[1] /\ idleQueue'[i] \in Queued
    BY <2>1, <2>4 DEF Exclusive, Queued
  <2>6. \A i, j \in DOMAIN idleQueue' : idleQueue'[i] = idleQueue'[j] => i = j
    <3>1. SUFFICES ASSUME NEW i \in DOMAIN idleQueue', NEW j \in DOMAIN idleQueue',
                          idleQueue'[i] = idleQueue'[j]
                   PROVE  i = j
      OBVIOUS
    <3>2. i + 1 = j + 1
      BY <2>4, <3>1 DEF Exclusive
    <3>3. QED BY <2>4, <3>2
  <2>7. \A id \in Queued' : Hands(id)' = {}
    BY <2>2, <2>5 DEF Exclusive, Queued
  <2>8. \A id \in 1..counter' : \A u, v \in Hands(id)' : u = v
    BY <2>1, <2>2, <2>3 DEF Exclusive
  <2>9. QED BY <2>6, <2>7, <2>8 DEF Exclusive
<1>4. ASSUME NEW t \in Threads, Create(t) PROVE Exclusive'
  <2>1. /\ UNCHANGED idleQueue /\ Goes(t, "created", counter + 1) /\ counter' = counter + 1
    BY <1>4 DEF Create, Creates
  <2>2. \A c : Hands(c)' = (Hands(c) \ {t}) \cup IF c = counter + 1 THEN {t} ELSE {}
    BY <1>0, <2>1, HandsStep DEF PCs, InHand
  <2>3. \A id \in 1..counter' : id \in 1..counter \/ id = counter + 1
    BY <1>0, <2>1
  <2>4. \A id \in 1..counter' : \A u, v \in Hands(id)' : u = v
    BY <2>2, <2>3, NewIdUnused DEF Exclusive
  <2>5. \A id \in Queued : Hands(id)' = {}
    BY <2>2, NewIdUnused DEF Exclusive
  <2>6. QED BY <2>1, <2>4, <2>5 DEF Exclusive, Queued
<1>5. ASSUME NEW t \in Threads, ReturnHealthy(t) PROVE Exclusive'
  <2>1. /\ idleQueue' = Append(idleQueue, conn[t]) /\ Goes(t, "out", 0) /\ UNCHANGED counter
        /\ conn[t] \in 1..counter /\ t \in Hands(conn[t]) /\ idleQueue \in Seq(Nat)
    BY <1>0, <1>5 DEF ReturnHealthy, Hands, TableType, QueueType
  <2>2. \A c : Hands(c)' = Hands(c) \ {t}
    BY <1>0, <2>1, HandsStep DEF PCs, InHand
  <2>3. \A c : c = conn[t] => Hands(c)' = {}
    <3>1. \A u \in Hands(conn[t]) : u = t
      BY <2>1 DEF Exclusive
    <3>2. QED BY <2>2, <3>1
  <2>4. conn[t] \notin Queued
    BY <2>1 DEF Exclusive
  <2>5. /\ DOMAIN idleQueue' = DOMAIN idleQueue \cup {Len(idleQueue) + 1}
        /\ idleQueue'[Len(idleQueue) + 1] = conn[t]
        /\ \A i \in DOMAIN idleQueue : idleQueue'[i] = idleQueue[i] /\ idleQueue[i] # conn[t]
    BY <1>0, <2>1, <2>4, AppendFacts DEF Queued
  <2>6. \A i, j \in DOMAIN idleQueue' : idleQueue'[i] = idleQueue'[j] => i = j
    BY <2>5 DEF Exclusive
  <2>7. \A id \in Queued' : id \in Queued \/ id = conn[t]
    BY <2>5 DEF Queued
  <2>8. \A id \in Queued' : Hands(id)' = {}
    BY <2>2, <2>3, <2>7 DEF Exclusive
  <2>9. \A id \in 1..counter' : \A u, v \in Hands(id)' : u = v
    BY <2>1, <2>2 DEF Exclusive
  <2>10. QED BY <2>6, <2>8, <2>9 DEF Exclusive
<1>6. CASE \/ \E ids \in SUBSET idle : HealthCheck(ids) \/ Cleanup(ids)
           \/ ShutdownBegin \/ ShutdownEnd \/ UNCHANGED poolVars
  <2>1. UNCHANGED <<idleQueue, counter, pc, conn>>
    BY <1>6 DEF HealthCheck, Cleanup, ShutdownBegin, ShutdownEnd, Destroys
  <2>2. \A c : Hands(c)' = Hands(c)
    BY <2>1 DEF Hands
  <2>3. QED BY <2>1, <2>2, KeepExclusive
<1>7. QED BY <1>1, <1>2, <1>3, <1>4, <1>5, <1>6 DEF PoolNext, GetStep

-----------------------------------------------------------------------------
(* Permits. *)

LEMMA PoppingStep ==
  ASSUME ThreadType, NEW t \in Threads, NEW where \in PCs, NEW id, Goes(t, where, id)
  PROVE  Popping' = (Popping \ {t}) \cup IF where = "popping" THEN {t} ELSE {}
BY DEF ThreadType, Goes, Popping, PCs

LEMMA InitPermitsBacked == PoolInit => PermitsBacked
<1> SUFFICES ASSUME PoolInit PROVE PermitsBacked
  OBVIOUS
<1>1. Popping = {}
  BY DEF PoolInit, Popping
<1>2. Len(idleQueue) = counter /\ counter \in Nat /\ permits = counter
  BY Constants DEF PoolInit
<1>3. Cardinality({}) = 0
  BY FS_EmptySet
<1>4. QED BY <1>1, <1>2, <1>3 DEF PermitsBacked

LEMMA StepPermitsBacked == TypeOK /\ PermitsBacked /\ [PoolNext]_poolVars => PermitsBacked'
<1> SUFFICES ASSUME TypeOK, PermitsBacked, [PoolNext]_poolVars PROVE PermitsBacked'
  OBVIOUS
<1>0. /\ ThreadType /\ permits \in Nat /\ idleQueue \in Seq(Nat) /\ Len(idleQueue) \in Nat
      /\ IsFiniteSet(Popping) /\ Cardinality(Popping) \in Nat
      /\ permits + Cardinality(Popping) = Len(idleQueue)
  BY Constants, FS_Subset, FS_CardinalityType DEF TypeOK, QueueType, PermitsBacked, Popping
<1>1. ASSUME NEW t \in Threads, Acquire(t) PROVE PermitsBacked'
  <2>1. t \notin Popping /\ Popping' = Popping \cup {t}
    BY <1>0, <1>1, PoppingStep DEF Acquire, Popping, PCs
  <2>2. Cardinality(Popping') = Cardinality(Popping) + 1
    BY <1>0, <2>1, FS_AddElement
  <2>3. permits' = permits - 1 /\ UNCHANGED idleQueue
    BY <1>1 DEF Acquire
  <2>4. permits' + Cardinality(Popping') = Len(idleQueue')
    BY <1>0, <2>2, <2>3
  <2>5. QED BY <2>4 DEF PermitsBacked, Popping
<1>2. ASSUME NEW t \in Threads, Pop(t) PROVE PermitsBacked'
  <2>1. t \in Popping /\ Popping' = Popping \ {t}
    BY <1>0, <1>2, PoppingStep DEF Pop, Popping, PCs
  <2>2. Cardinality(Popping') = Cardinality(Popping) - 1
    BY <1>0, <2>1, FS_RemoveElement
  <2>3. Len(idleQueue') = Len(idleQueue) - 1 /\ UNCHANGED permits
    BY <1>0, <1>2, TailFacts DEF Pop
  <2>4. permits' + Cardinality(Popping') = Len(idleQueue')
    BY <1>0, <2>2, <2>3
  <2>5. QED BY <2>4 DEF PermitsBacked, Popping
<1>3. ASSUME NEW t \in Threads, ReturnHealthy(t) PROVE PermitsBacked'
  <2>1. Popping' = Popping
    BY <1>0, <1>3, PoppingStep DEF ReturnHealthy, Popping, PCs
  <2>2. conn[t] \in Nat
    <3>1. conn[t] \in conns
      BY <1>3 DEF ReturnHealthy
    <3>2. conn[t] \in 1..counter /\ counter \in Nat
      BY <3>1 DEF TypeOK, TableType
    <3>3. QED BY <3>2
  <2>3. Len(idleQueue') = Len(idleQueue) + 1 /\ permits' = permits + 1
    BY <1>0, <1>3, <2>2, AppendFacts DEF ReturnHealthy
  <2>4. Cardinality(Popping') = Cardinality(Popping)
    BY <2>1
  <2>5. permits' + Cardinality(Popping') = Len(idleQueue')
    BY <1>0, <2>3, <2>4
  <2>6. QED BY <2>5 DEF PermitsBacked, Popping
<1>4. ASSUME NEW t \in Threads,
             \/ Ask(t) \/ TimeOut(t) \/ TakePopped(t) \/ Retry(t) \/ PoppedStale(t)
             \/ Create(t) \/ CreateFails(t) \/ TakeCreated(t)
             \/ ReturnBad(t) \/ ReturnUnknown(t)
      PROVE  PermitsBacked'
  <2>1. /\ pc[t] # "popping" /\ UNCHANGED <<idleQueue, permits>>
        /\ \E where \in PCs \ {"popping"}, id \in {0, conn[t], counter + 1} :
             Goes(t, where, id)
    BY <1>4 DEF Ask, TimeOut, TakePopped, Retry, PoppedStale, Create, CreateFails,
                TakeCreated, ReturnBad, ReturnUnknown, Leaves, PCs
  <2>2. Popping' = Popping
    BY <1>0, <2>1, PoppingStep DEF Popping
  <2>3. QED BY <1>0, <2>1, <2>2 DEF PermitsBacked, Popping
<1>5. CASE \/ \E ids \in SUBSET idle : HealthCheck(ids) \/ Cleanup(ids)
           \/ ShutdownBegin \/ ShutdownEnd \/ UNCHANGED poolVars
  <2>1. UNCHANGED <<idleQueue, permits, pc>>
    BY <1>5 DEF HealthCheck, Cleanup, ShutdownBegin, ShutdownEnd
  <2>2. QED BY <2>1 DEF PermitsBacked, Popping
<1>6. QED BY <1>1, <1>2, <1>3, <1>4, <1>5 DEF PoolNext, GetStep

-----------------------------------------------------------------------------
(* Lost connections. *)

\* A thread lets go of what it has, which is no longer the pool's.
LEMMA LetsGo ==
  ASSUME ThreadType, NothingLost, NEW t \in Threads, NEW where \in PCs \ InHand,
         Goes(t, where, 0), UNCHANGED idleQueue, replaced \subseteq replaced',
         \A c \in conns' : c \in replaced' \/ (c \in conns /\ t \notin Hands(c))
  PROVE  NothingLost'
<1>1. \A c : Hands(c)' = Hands(c) \ {t}
  BY HandsStep
<1>2. Queued' = Queued
  BY DEF Queued
<1>3. \A c \in conns' : c \in Queued' \/ Hands(c)' # {} \/ c \in replaced'
  BY <1>1, <1>2 DEF NothingLost
<1>4. QED BY <1>3 DEF NothingLost

LEMMA StepNothingLost == TypeOK /\ NothingLost /\ [PoolNext]_poolVars => NothingLost'
<1> SUFFICES ASSUME TypeOK, NothingLost, [PoolNext]_poolVars PROVE NothingLost'
  OBVIOUS
<1>0. TableType /\ QueueType /\ ThreadType /\ counter \in Nat
  BY DEF TypeOK, TableType
<1>1. ASSUME NEW t \in Threads,
             \/ Ask(t) \/ Acquire(t) \/ TimeOut(t) \/ PoppedStale(t) \/ CreateFails(t)
             \/ ReturnUnknown(t)
      PROVE  NothingLost'
  <2>1. /\ UNCHANGED <<idleQueue, conns, replaced>>
        /\ \E where \in PCs \ InHand : Goes(t, where, 0)
        /\ \A c \in conns : t \notin Hands(c)
    BY <1>1 DEF Ask, Acquire, TimeOut, PoppedStale, CreateFails, ReturnUnknown,
                Leaves, PCs, InHand, Hands
  <2>2. QED BY <1>0, <2>1, LetsGo
<1>2. ASSUME NEW t \in Threads, Retry(t) \/ ReturnBad(t) PROVE NothingLost'
  <2>1. /\ UNCHANGED idleQueue /\ replaced \subseteq replaced'
        /\ \E where \in PCs \ InHand : Goes(t, where, 0)
    BY <1>2 DEF Retry, ReturnBad, Leaves, PCs, InHand
  <2>2. \A c \in conns' : c \in replaced' \/ (c \in conns /\ c # conn[t])
    BY <1>2 DEF Retry, ReturnBad, Destroys
  <2>3. QED BY <1>0, <2>1, <2>2, LetsGo DEF Hands
<1>3. ASSUME NEW t \in Threads, Pop(t) PROVE NothingLost'
  <2>1. /\ idleQueue # <<>> /\ idleQueue \in Seq(Nat) /\ idleQueue' = Tail(idleQueue)
        /\ Goes(t, "popped", idleQueue[1]) /\ UNCHANGED <<conns, replaced>>
        /\ pc[t] = "popping"
    BY <1>0, <1>3, TailFacts DEF Pop, QueueType
  <2>2. \A c : Hands(c)' = (Hands(c) \ {t}) \cup IF c = idleQueue[1] THEN {t} ELSE {}
    BY <1>0, <2>1, HandsStep DEF PCs, InHand
  <2>3. \A c : t \notin Hands(c)
    BY <2>1 DEF Hands
  <2>4. \A c \in Queued : c = idleQueue[1] \/ c \in Queued'
    <3>1. SUFFICES ASSUME NEW i \in DOMAIN idleQueue, i # 1 PROVE idleQueue[i] \in Queued'
      BY DEF Queued
    <3>2. i - 1 \in DOMAIN Tail(idleQueue) /\ Tail(idleQueue)[i - 1] = idleQueue[i]
      BY <2>1, <3>1, TailFacts
    <3>3. QED BY <2>1, <3>2 DEF Queued
  <2>5. \A c \in conns : c \in Queued' \/ Hands(c)' # {} \/ c \in replaced
    BY <2>2, <2>3, <2>4 DEF NothingLost
  <2>6. QED BY <2>1, <2>5 DEF NothingLost
<1>4. ASSUME NEW t \in Threads, TakePopped(t) \/ TakeCreated(t) PROVE NothingLost'
  <2>1. /\ UNCHANGED <<idleQueue, conns, replaced>> /\ Goes(t, "holding", conn[t])
    BY <1>4 DEF TakePopped, TakeCreated, Leaves
  <2>2. \A c : Hands(c) \subseteq Hands(c)'
    BY <1>0, <2>1, HandsStep DEF PCs, InHand, Hands
  <2>3. QED BY <2>1, <2>2 DEF NothingLost, Queued
<1>5. ASSUME NEW t \in Threads, Create(t) PROVE NothingLost'
  <2>1. /\ UNCHANGED <<idleQueue, replaced>> /\ Goes(t, "created", counter + 1)
        /\ conns' = conns \cup {counter + 1} /\ pc[t] = "creating"
    BY <1>5 DEF Create, Creates
  <2>2. \A c : Hands(c)' = (Hands(c) \ {t}) \cup IF c = counter + 1 THEN {t} ELSE {}
    BY <1>0, <2>1, HandsStep DEF PCs, InHand
  <2>3. \A c : t \notin Hands(c)
    BY <2>1 DEF Hands
  <2>4. \A c \in conns' : c \in Queued \/ Hands(c)' # {} \/ c \in replaced
    BY <2>1, <2>2, <2>3 DEF NothingLost
  <2>5. QED BY <2>1, <2>4 DEF NothingLost, Queued
<1>6. ASSUME NEW t \in Threads, ReturnHealthy(t) PROVE NothingLost'
  <2>1. /\ idleQueue' = Append(idleQueue, conn[t]) /\ Goes(t, "out", 0)
        /\ UNCHANGED <<conns, replaced>>
        /\ conn[t] \in 1..counter /\ idleQueue \in Seq(Nat)
    BY <1>0, <1>6 DEF ReturnHealthy, TableType, QueueType
  <2>2. \A c : Hands(c)' = Hands(c) \ {t}
    BY <1>0, <2>1, HandsStep DEF PCs, InHand
  <2>3. \A c : t \in Hands(c) => c = conn[t]
    BY DEF Hands
  <2>4. /\ \A c \in Queued : c \in Queued'
        /\ \A c : c = conn[t] => c \in Queued'
    BY <1>0, <2>1, AppendFacts DEF Queued
  <2>5. \A c \in conns : c \in Queued' \/ Hands(c)' # {} \/ c \in replaced
    BY <2>2, <2>3, <2>4 DEF NothingLost
  <2>6. QED BY <2>1, <2>5 DEF NothingLost
<1>7. CASE \/ \E ids \in SUBSET idle : HealthCheck(ids) \/ Cleanup(ids)
           \/ ShutdownBegin \/ ShutdownEnd \/ UNCHANGED poolVars
  <2>1. UNCHANGED <<idleQueue, replaced, pc, conn>> /\ conns' \subseteq conns
    BY <1>7 DEF HealthCheck, Cleanup, ShutdownBegin, ShutdownEnd, Destroys
  <2>2. QED BY <2>1 DEF NothingLost, Queued, Hands
<1>8. QED BY <1>1, <1>2, <1>3, <1>4, <1>5, <1>6, <1>7 DEF PoolNext, GetStep

LEMMA InitNothingLost == PoolInit => NothingLost
<1> SUFFICES ASSUME PoolInit, NEW id \in conns PROVE id \in Queued
  BY DEF NothingLost
<1>1. id \in 1..counter /\ idleQueue = [i \in 1..counter |-> i]
  BY DEF PoolInit
<1>2. QED BY <1>1 DEF Queued

-----------------------------------------------------------------------------
(* Theorems. *)

\* The inductive invariant.
Inv == TypeOK /\ Exclusive /\ PermitsBacked /\ NothingLost

LEMMA InitInv == PoolInit => Inv
BY InitTypeOK, InitExclusive, InitPermitsBacked, InitNothingLost DEF Inv

LEMMA StepInv == Inv /\ [PoolNext]_poolVars => Inv'
BY StepTypeOK, StepExclusive, StepPermitsBacked, StepNothingLost DEF Inv

\* Types, and never more than max_connections.
THEOREM PoolTypes == PoolSpec => []TypeOK
<1>1. Inv => TypeOK
  BY DEF Inv
<1>2. QED BY <1>1, InitInv, StepInv, PTL DEF PoolSpec

\* However many threads share the pool, and whatever the clean-up, the health check
\* and the shutdown do meanwhile, no two of them have the same connection.
THEOREM NeverShared == PoolSpec => []Exclusive
<1>1. Inv => Exclusive
  BY DEF Inv
<1>2. QED BY <1>1, InitInv, StepInv, PTL DEF PoolSpec

\* A thread that got a permit finds an id in the queue.
THEOREM QueueNeverBlocks == PoolSpec => []PermitsBacked
<1>1. Inv => PermitsBacked
  BY DEF Inv
<1>2. QED BY <1>1, InitInv, StepInv, PTL DEF PoolSpec

\* Every connection of the pool can still be borrowed, is in a thread's hands, or is
\* a replacement.
THEOREM NoneLost == PoolSpec => []NothingLost
<1>1. Inv => NothingLost
  BY DEF Inv
<1>2. QED BY <1>1, InitInv, StepInv, PTL DEF PoolSpec
=============================================================================
