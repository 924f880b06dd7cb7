--------------------------- MODULE ServicesProofs ---------------------------
(***************************************************************************)
(* Proofs about MCDataServices, for every value of its constants.  The     *)
(* components share no state: the invariants of ComponentsProofs hold side *)
(* by side in what MCDataServices composes, and give EachItsOwn and        *)
(* NothingStale.  At the end, two-phase commit, with the refinement of     *)
(* AtomicCommit.                                                           *)
(***************************************************************************)
EXTENDS MCDataServices, ComponentsProofs, FiniteSetTheorems, SequenceTheorems, TLAPS

-----------------------------------------------------------------------------
(* Roles and permissions, AccessControl: a check collects what the tables  *)
(* grant, directly or through roles, in any state of them.                 *)

LEMMA RAAgrees == RAAgree
<1> SUFFICES ASSUME NEW u \in RAUsers, NEW p \in RAPermissions
             PROVE  RAChecks(u, p) <=> {p, RAAdmin} \cap RACollected(u) # {}
  BY DEF RAAgree
<1>1. QED BY DEF RAChecks, RAHolds, RACollected, ToSet

-----------------------------------------------------------------------------
(* The components side by side: a step of one leaves the variables of the  *)
(* others alone.                                                           *)

LEMMA StepsOfEach ==
  [Next]_allVars =>
    /\ [SVNext]_svVars
    /\ [UGNext]_ugVars
    /\ [AUNext]_auVars
    /\ [TQNext]_tqVars
    /\ [TBNext]_tbVars
    /\ [RCNext]_rcVars
    /\ [PCNext]_pcVars
    /\ [QPNext]_qpVars
    /\ [PSNext]_psVars
    /\ [BENext]_beVars
    /\ [SGNext]_sgVars
    /\ [VKNext]_vkVars
    /\ UNCHANGED service
<1>1. ASSUME UNCHANGED allVars
      PROVE  UNCHANGED <<service, svVars, ugVars, auVars, tqVars, tbVars, rcVars, pcVars, qpVars, psVars, beVars, sgVars, vkVars>>
  BY <1>1 DEF allVars
<1>2. ASSUME SVNext, Others("server sessions")
      PROVE  UNCHANGED <<service, ugVars, auVars, tqVars, tbVars, rcVars, pcVars, qpVars, psVars, beVars, sgVars, vkVars>>
  BY <1>2, Zenon DEF Others
<1>3. ASSUME UGNext, Others("users")
      PROVE  UNCHANGED <<service, svVars, auVars, tqVars, tbVars, rcVars, pcVars, qpVars, psVars, beVars, sgVars, vkVars>>
  BY <1>3, Zenon DEF Others
<1>4. ASSUME AUNext, Others("audit")
      PROVE  UNCHANGED <<service, svVars, ugVars, tqVars, tbVars, rcVars, pcVars, qpVars, psVars, beVars, sgVars, vkVars>>
  BY <1>4, Zenon DEF Others
<1>5. ASSUME TQNext, Others("tenants")
      PROVE  UNCHANGED <<service, svVars, ugVars, auVars, tbVars, rcVars, pcVars, qpVars, psVars, beVars, sgVars, vkVars>>
  BY <1>5, Zenon DEF Others
<1>6. ASSUME TBNext, Others("tenant batch")
      PROVE  UNCHANGED <<service, svVars, ugVars, auVars, tqVars, rcVars, pcVars, qpVars, psVars, beVars, sgVars, vkVars>>
  BY <1>6, Zenon DEF Others
<1>7. ASSUME RCNext, Others("results")
      PROVE  UNCHANGED <<service, svVars, ugVars, auVars, tqVars, tbVars, pcVars, qpVars, psVars, beVars, sgVars, vkVars>>
  BY <1>7, Zenon DEF Others
<1>8. ASSUME PCNext, Others("plans")
      PROVE  UNCHANGED <<service, svVars, ugVars, auVars, tqVars, tbVars, rcVars, qpVars, psVars, beVars, sgVars, vkVars>>
  BY <1>8, Zenon DEF Others
<1>9. ASSUME QPNext, Others("planner")
      PROVE  UNCHANGED <<service, svVars, ugVars, auVars, tqVars, tbVars, rcVars, pcVars, psVars, beVars, sgVars, vkVars>>
  BY <1>9, Zenon DEF Others
<1>10. ASSUME PSNext, Others("prepared")
      PROVE  UNCHANGED <<service, svVars, ugVars, auVars, tqVars, tbVars, rcVars, pcVars, qpVars, beVars, sgVars, vkVars>>
  BY <1>10, Zenon DEF Others
<1>11. ASSUME BENext, Others("batches")
      PROVE  UNCHANGED <<service, svVars, ugVars, auVars, tqVars, tbVars, rcVars, pcVars, qpVars, psVars, sgVars, vkVars>>
  BY <1>11, Zenon DEF Others
<1>12. ASSUME SGNext, Others("settings")
      PROVE  UNCHANGED <<service, svVars, ugVars, auVars, tqVars, tbVars, rcVars, pcVars, qpVars, psVars, beVars, vkVars>>
  BY <1>12, Zenon DEF Others
<1>13. ASSUME VKNext, Others("clocks")
      PROVE  UNCHANGED <<service, svVars, ugVars, auVars, tqVars, tbVars, rcVars, pcVars, qpVars, psVars, beVars, sgVars>>
  BY <1>13, Zenon DEF Others
<1>14. QED BY <1>1, <1>2, <1>3, <1>4, <1>5, <1>6, <1>7, <1>8, <1>9, <1>10, <1>11, <1>12, <1>13, Zenon DEF Next, Others

\* What a call of any of them knows between two of its steps.
KeptInv == RCInv /\ PCInv /\ QPInv /\ PSInv /\ BEInv /\ SGInv /\ VKInv

ServicesInv == SVInv /\ UGInv /\ AUInv /\ TQInv /\ TBInv /\ KeptInv

LEMMA ServicesInit == Init => ServicesInv
<1>1. Init => SVInit /\ UGInit /\ AUInit /\ TQInit /\ TBInit
  BY Zenon DEF Init
<1>2. Init => RCInit /\ PCInit /\ QPInit /\ PSInit /\ BEInit /\ SGInit /\ VKInit
  BY Zenon DEF Init
<1>3. Init => KeptInv
  BY <1>2, RCInitInv, PCInitInv, QPInitInv, PSInitInv, BEInitInv, SGInitInv, VKInitInv, Zenon DEF KeptInv
<1>4. QED BY <1>1, <1>3, SVInitInv, UGInitInv, AUInitInv, TQInitInv, TBInitInv, Zenon DEF ServicesInv

LEMMA ServicesNext == ServicesInv /\ [Next]_allVars => ServicesInv'
<1> SUFFICES ASSUME ServicesInv, [Next]_allVars PROVE ServicesInv'
  OBVIOUS
<1>1. SVInv' /\ UGInv' /\ AUInv' /\ TQInv' /\ TBInv'
  BY StepsOfEach, SVNextInv, UGNextInv, AUNextInv, TQNextInv, TBNextInv, Zenon DEF ServicesInv
<1>2. KeptInv'
  BY StepsOfEach, RCNextInv, PCNextInv, QPNextInv, PSNextInv, BENextInv, SGNextInv, VKNextInv, Zenon
  DEF ServicesInv, KeptInv
<1>3. QED BY <1>1, <1>2 DEF ServicesInv

LEMMA ServicesOwn == ServicesInv => EachItsOwn
<1> SUFFICES ASSUME ServicesInv PROVE EachItsOwn
  OBVIOUS
<1>1. SVOwnDatabase /\ SVPutWhereFound /\ SVNoGhosts
  BY SVInvOfSessions DEF ServicesInv
<1>2. UGAnsweredStay /\ UGReplicas
  BY UGInvOfUsers DEF ServicesInv
<1>3. TQBalanced /\ TQRateKept
  BY DEF ServicesInv, TQInv
<1>4. TBOne /\ TBStays
  BY TBInvOfBatch DEF ServicesInv
<1>5. AUChain /\ AUVerdicts
  BY DEF ServicesInv, AUInv
<1>6. QED BY <1>1, <1>2, <1>3, <1>4, <1>5, RAAgrees, Zenon DEF EachItsOwn

\* What belongs to one session, user or tenant is not given to, or counted for, another, for
\* any sessions, databases, users, queries, tenants and threads: a statement acts on the database
\* its session chose, a role grants what the checks find, a quota counts the threads that are
\* inside, a batch touches one tenant, and the audit log is the chain of the verdicts.
THEOREM OwnOnly == Spec => []EachItsOwn
<1>1. Init => ServicesInv
  BY ServicesInit
<1>2. ServicesInv /\ [Next]_allVars => ServicesInv'
  BY ServicesNext
<1>3. ServicesInv => EachItsOwn
  BY ServicesOwn
<1>4. QED BY <1>1, <1>2, <1>3, PTL DEF Spec

LEMMA ServicesFresh == ServicesInv => NothingStale
<1> SUFFICES ASSUME KeptInv PROVE NothingStale
  BY DEF ServicesInv
<1>1. RCFresh /\ PCIndexed /\ QPEstimates /\ PSIndexExact /\ BEFresh /\ SGRecent /\ SGFileDecides
  BY RCInvFresh, PCInvIndexed, QPInvEstimates, PSInvExact, BEInvFresh, SGInvRecent, SGFileAlways, Zenon DEF KeptInv
<1>2. VKCausal /\ VKAgree /\ VKSettles /\ VKSkipsOld
  BY VKInvCausal, VKInvAgree, VKInvSettles, VKInvSkips, Zenon DEF KeptInv
<1>3. QED BY <1>1, <1>2, Zenon DEF NothingStale

\* What is kept to save work is not older than it may be, for any tables, queries, statements,
\* servers and capacities: no cached result of before an invalidation or a statement that returned,
\* but those the code lets in late; indexes that find all they must drop; estimates, settings and
\* the rows of masters that met.
THEOREM NeverStale == Spec => []NothingStale
<1>1. Init => ServicesInv
  BY ServicesInit
<1>2. ServicesInv /\ [Next]_allVars => ServicesInv'
  BY ServicesNext
<1>3. ServicesInv => NothingStale
  BY ServicesFresh
<1>4. QED BY <1>1, <1>2, <1>3, PTL DEF Spec

-----------------------------------------------------------------------------
(* Two-phase commit, DistributedTx, for any callers and any number of      *)
(* shards: threads that prepare, commit and abort one transaction leave    *)
(* its participants alike, and callers that wait for each other implement  *)
(* AtomicCommit.                                                           *)

LEMMA DTVisitedIs ==
  DTVisited["prepare"] = "prepared" /\ DTVisited["commit"] = "committed"
    /\ DTVisited["abort"] = "aborted"
BY DEF DTVisited

LEMMA DTShardsAre ==
  /\ Len(DTShards) \in Nat
  /\ \A i \in 1 .. Len(DTShards) : DTShards[i] \in DTParts
  /\ \A p \in DTParts : \E i \in 1 .. Len(DTShards) : p = DTShards[i]
<1>1. DTShards \in Seq(DTParts)
  BY DTAssumption DEF DTAssumption
<1>2. Len(DTShards) \in Nat /\ \A i \in 1 .. Len(DTShards) : DTShards[i] \in DTParts
  BY <1>1
<1>3. DOMAIN DTShards = 1 .. Len(DTShards)
  BY <1>1
<1>4. QED BY <1>2, <1>3 DEF DTParts, ToSet

-----------------------------------------------------------------------------
(* Types.                                                                  *)

LEMMA DTInitTypes == DTInit => DTTypeOK
<1>1. 1 \in 1 .. (Len(DTShards) + 1)
  BY DTShardsAre
<1> SUFFICES ASSUME DTInit PROVE DTTypeOK
  OBVIOUS
<1>2. /\ dtPart \in [DTParts -> {"active", "prepared", "committed", "aborted"}]
      /\ dtPc \in [DTCallers -> {"out", "prepare", "commit", "abort"}]
      /\ dtShard \in [DTParts -> {"unknown", "prepared", "committed", "aborted"}]
  BY DEF DTInit
<1>3. dtNext \in [DTCallers -> 1 .. (Len(DTShards) + 1)]
  BY <1>1 DEF DTInit
<1>4. QED BY <1>2, <1>3 DEF DTInit, DTTypeOK, DTStates

LEMMA DTBeginTypes ==
  ASSUME DTTypeOK, NEW c \in DTCallers, NEW loop \in {"prepare", "commit", "abort"},
         NEW stage \in DTStates, DTBegin(c, loop, stage)
  PROVE  DTTypeOK'
<1>1. 1 \in 1 .. (Len(DTShards) + 1)
  BY DTShardsAre
<1>2. dtOrderly => ~ \E d \in DTInside : "abort" \in {loop, dtPc[d]} /\ dtPc[d] # loop
  BY DEF DTBegin
<1>3. dtClash' \in BOOLEAN /\ (dtOrderly' => ~dtClash')
  BY <1>2 DEF DTTypeOK, DTBegin
<1>4. QED BY <1>1, <1>3 DEF DTTypeOK, DTBegin

LEMMA DTVisitTypes ==
  ASSUME DTTypeOK, NEW c \in DTCallers, DTVisit(c)
  PROVE  DTTypeOK'
<1>1. dtPc[c] \in {"prepare", "commit", "abort"} /\ dtNext[c] \in 1 .. (Len(DTShards) + 1)
  BY DEF DTTypeOK, DTVisit
<1>2. DTVisited[dtPc[c]] \in {"active", "prepared", "committed", "aborted"}
  BY <1>1, DTVisitedIs
<1>3. dtNext[c] + 1 \in 1 .. (Len(DTShards) + 1)
  BY <1>1, DTShardsAre DEF DTVisit, DTLoopOver
<1>4. /\ dtPart' = [dtPart EXCEPT ![DTShards[dtNext[c]]] = DTVisited[dtPc[c]]]
      /\ dtNext' = [dtNext EXCEPT ![c] = dtNext[c] + 1]
      /\ UNCHANGED <<dtOrderly, dtState, dtPc, dtClash, dtShard>>
  BY DEF DTVisit
<1>5. dtPart' \in [DTParts -> {"active", "prepared", "committed", "aborted"}]
  BY <1>2, <1>4 DEF DTTypeOK
<1>6. dtNext' \in [DTCallers -> 1 .. (Len(DTShards) + 1)]
  BY <1>3, <1>4 DEF DTTypeOK
<1>7. QED BY <1>4, <1>5, <1>6 DEF DTTypeOK

LEMMA DTEndTypes ==
  ASSUME DTTypeOK, NEW c \in DTCallers, DTEnd(c)
  PROVE  DTTypeOK'
<1>1. dtPc[c] \in {"prepare", "commit", "abort"} /\ 1 \in 1 .. (Len(DTShards) + 1)
  BY DTShardsAre DEF DTTypeOK, DTEnd
<1>2. DTVisited[dtPc[c]] \in DTStates
  BY <1>1, DTVisitedIs DEF DTStates
<1>3. QED BY <1>1, <1>2 DEF DTTypeOK, DTEnd

LEMMA DTShardTypes ==
  ASSUME DTTypeOK, NEW p \in DTParts, DTShardPrepare(p) \/ DTShardCommit(p) \/ DTShardAbort(p)
  PROVE  DTTypeOK'
BY DEF DTTypeOK, DTShardPrepare, DTShardCommit, DTShardAbort, DTShardBecomes

LEMMA DTNextTypes == DTTypeOK /\ [DTNextStep]_dtVars => DTTypeOK'
<1> SUFFICES ASSUME DTTypeOK, [DTNextStep]_dtVars PROVE DTTypeOK'
  OBVIOUS
<1>1. ASSUME NEW c \in DTCallers, DTPrepare(c) PROVE DTTypeOK'
  BY <1>1, DTBeginTypes DEF DTPrepare, DTStates
<1>2. ASSUME NEW c \in DTCallers, DTCommit(c) PROVE DTTypeOK'
  BY <1>2, DTBeginTypes DEF DTCommit, DTStates
<1>3. ASSUME NEW c \in DTCallers, DTAbort(c) PROVE DTTypeOK'
  BY <1>3, DTBeginTypes DEF DTAbort, DTStates
<1>4. ASSUME NEW c \in DTCallers, DTStep(c) PROVE DTTypeOK'
  BY <1>4, DTVisitTypes, DTEndTypes DEF DTStep
<1>5. ASSUME NEW p \in DTParts, DTShardPrepare(p) \/ DTShardCommit(p) \/ DTShardAbort(p)
      PROVE  DTTypeOK'
  BY <1>5, DTShardTypes
<1>6. CASE UNCHANGED dtVars
  BY <1>6 DEF dtVars, DTTypeOK
<1>7. QED BY <1>1, <1>2, <1>3, <1>4, <1>5, <1>6, Zenon DEF DTNextStep

-----------------------------------------------------------------------------
(* The state, the callers inside and the participants go together, as long *)
(* as no abort met another phase.                                          *)

\* Who is inside when.
DTCallersFit ==
  /\ \A c \in DTCallers :
       /\ dtPc[c] = "prepare" => dtState = "preparing"
       /\ dtPc[c] = "commit"  => dtState = "committing"
       /\ dtPc[c] = "abort"   => dtState \in {"aborting", "aborted"}
  /\ \A c, d \in DTCallers : dtPc[c] \in {"prepare", "commit"} /\ dtPc[d] # "out" => c = d
  /\ dtState = "preparing"  => \E c \in DTCallers : dtPc[c] = "prepare"
  /\ dtState = "committing" => \E c \in DTCallers : dtPc[c] = "commit"

\* What the participants were told.
DTPartsFit ==
  \A p \in DTParts :
    /\ dtState = "active"     => dtPart[p] = "active"
    /\ dtState = "preparing"  => dtPart[p] \in {"active", "prepared"}
    /\ dtState = "prepared"   => dtPart[p] = "prepared"
    /\ dtState = "committing" => dtPart[p] \in {"prepared", "committed"}
    /\ dtState = "committed"  => dtPart[p] = "committed"
    /\ dtState = "aborting"   => dtPart[p] \in {"active", "prepared", "aborted"}
    /\ dtState = "aborted"    => dtPart[p] = "aborted"

\* How far each caller is.
DTVisitsFit ==
  \A c \in DTCallers : dtPc[c] # "out" =>
    \A i \in 1 .. Len(DTShards) : i < dtNext[c] => dtPart[DTShards[i]] = DTVisited[dtPc[c]]

DTCalm == DTCallersFit /\ DTPartsFit /\ DTVisitsFit

DTAlone == dtOrderly => \A c, d \in DTInside : c = d

DTInv == DTTypeOK /\ DTAlone /\ (~dtClash => DTCalm)

LEMMA DTInitInv == DTInit => DTInv
<1> SUFFICES ASSUME DTInit PROVE DTInv
  OBVIOUS
<1>1. DTTypeOK
  BY DTInitTypes
<1>2. DTAlone
  BY DEF DTInit, DTAlone, DTInside
<1>3. DTCallersFit
  BY DEF DTInit, DTCallersFit
<1>4. DTPartsFit
  BY DEF DTInit, DTPartsFit
<1>5. DTVisitsFit
  BY DEF DTInit, DTVisitsFit
<1>6. QED BY <1>1, <1>2, <1>3, <1>4, <1>5 DEF DTInv, DTCalm

LEMMA DTBeginAlone ==
  ASSUME DTInv, NEW c \in DTCallers, NEW loop \in {"prepare", "commit", "abort"},
         NEW stage \in DTStates, DTBegin(c, loop, stage)
  PROVE  DTAlone'
<1>1. \A d \in DTCallers : d # c => dtPc'[d] = dtPc[d]
  BY DEF DTInv, DTTypeOK, DTBegin
<1>2. dtOrderly => \A d \in DTCallers : dtPc[d] = "out"
  BY DEF DTBegin, DTInside
<1>3. ASSUME dtOrderly' PROVE \A d \in DTCallers : dtPc'[d] # "out" => d = c
  BY <1>1, <1>2, <1>3 DEF DTBegin
<1>4. QED BY <1>3 DEF DTAlone, DTInside

\* A caller that comes in finds nobody, or only callers that abort as it does.
LEMMA DTBeginCalm ==
  ASSUME DTInv, NEW c \in DTCallers,
         DTPrepare(c) \/ DTCommit(c) \/ DTAbort(c), ~dtClash'
  PROVE  DTCalm'
<1>0. DTTypeOK /\ DTTypeOK'
  BY DTNextTypes DEF DTInv, DTNextStep
<1>1. ~dtClash
  BY DEF DTPrepare, DTCommit, DTAbort, DTBegin
<1>2. DTCalm
  BY <1>1 DEF DTInv
<1>3. /\ dtPc \in [DTCallers -> {"out", "prepare", "commit", "abort"}]
      /\ dtNext \in [DTCallers -> 1 .. (Len(DTShards) + 1)] /\ dtState \in DTStates
  BY <1>0 DEF DTTypeOK
<1>4. PICK loop \in {"prepare", "commit", "abort"}, stage \in DTStates :
        /\ DTBegin(c, loop, stage)
        /\ loop = "prepare" => dtState = "active" /\ stage = "preparing"
        /\ loop = "commit"  => dtState = "prepared" /\ stage = "committing"
        /\ loop = "abort"   => dtState \notin {"committed", "aborted"} /\ stage = "aborting"
  <2>1. CASE DTPrepare(c)
    BY <2>1 DEF DTPrepare, DTStates
  <2>2. CASE DTCommit(c)
    BY <2>2 DEF DTCommit, DTMayCommit, DTStates
  <2>3. CASE DTAbort(c)
    BY <2>3 DEF DTAbort, DTMayAbort, DTStates
  <2>4. QED BY <2>1, <2>2, <2>3
<1>5. /\ dtState' = stage /\ dtPc' = [dtPc EXCEPT ![c] = loop]
      /\ dtNext' = [dtNext EXCEPT ![c] = 1] /\ dtPart' = dtPart /\ dtPc[c] = "out"
      /\ ~ \E d \in DTInside : "abort" \in {loop, dtPc[d]} /\ dtPc[d] # loop
  BY <1>4 DEF DTBegin
<1>6. /\ dtPc'[c] = loop /\ dtNext'[c] = 1
      /\ \A d \in DTCallers : d # c => dtPc'[d] = dtPc[d] /\ dtNext'[d] = dtNext[d]
  BY <1>3, <1>5
<1>7. ASSUME NEW d \in DTCallers, d # c, dtPc[d] # "out"
      PROVE  loop = "abort" /\ dtPc[d] = "abort"
  <2>1. dtPc[d] \in {"prepare", "commit", "abort"}
    BY <1>3, <1>7
  <2>2. loop = "abort" => dtPc[d] = "abort"
    BY <1>5, <1>7 DEF DTInside
  <2>3. loop # "prepare" /\ loop # "commit"
    BY <1>2, <1>4, <1>7, <2>1 DEF DTCalm, DTCallersFit
  <2>4. QED BY <1>4, <2>2, <2>3
<1>8. dtState \in {"active", "prepared", "aborting"}
  <2>1. loop = "abort" => dtState # "preparing" /\ dtState # "committing"
    BY <1>2, <1>5, <1>7 DEF DTCalm, DTCallersFit
  <2>2. QED BY <1>3, <1>4, <2>1 DEF DTStates
<1>9. DTCallersFit'
  <2>1. ASSUME NEW d \in DTCallers
        PROVE  /\ dtPc'[d] = "prepare" => dtState' = "preparing"
               /\ dtPc'[d] = "commit"  => dtState' = "committing"
               /\ dtPc'[d] = "abort"   => dtState' \in {"aborting", "aborted"}
    <3>1. CASE d = c
      BY <1>4, <1>5, <1>6, <3>1
    <3>2. CASE d # c
      BY <1>4, <1>5, <1>6, <1>7, <3>2
    <3>3. QED BY <3>1, <3>2
  <2>2. ASSUME NEW d \in DTCallers, NEW e \in DTCallers,
               dtPc'[d] \in {"prepare", "commit"}, dtPc'[e] # "out"
        PROVE  d = e
    <3>1. d = c
      BY <1>6, <1>7, <2>2
    <3>2. e = c
      BY <1>6, <1>7, <2>2, <3>1
    <3>3. QED BY <3>1, <3>2
  <2>3. /\ dtState' = "preparing"  => dtPc'[c] = "prepare"
        /\ dtState' = "committing" => dtPc'[c] = "commit"
    BY <1>4, <1>5, <1>6
  <2>4. QED BY <2>1, <2>2, <2>3 DEF DTCallersFit
<1>10. DTPartsFit'
  BY <1>2, <1>4, <1>5, <1>8 DEF DTCalm, DTPartsFit
<1>11. DTVisitsFit'
  <2>1. ASSUME NEW d \in DTCallers, dtPc'[d] # "out", NEW i \in 1 .. Len(DTShards), i < dtNext'[d]
        PROVE  dtPart'[DTShards[i]] = DTVisited[dtPc'[d]]
    <3>1. d # c
      BY <1>6, <2>1
    <3>2. QED BY <1>2, <1>5, <1>6, <2>1, <3>1 DEF DTCalm, DTVisitsFit
  <2>2. QED BY <2>1 DEF DTVisitsFit
<1>12. QED BY <1>9, <1>10, <1>11 DEF DTCalm

\* The caller's own phase, of which the state speaks.
LEMMA DTVisitCalm ==
  ASSUME DTInv, NEW c \in DTCallers, DTVisit(c), ~dtClash'
  PROVE  DTCalm'
<1>1. /\ dtPart' = [dtPart EXCEPT ![DTShards[dtNext[c]]] = DTVisited[dtPc[c]]]
      /\ dtNext' = [dtNext EXCEPT ![c] = dtNext[c] + 1] /\ dtPc[c] # "out"
      /\ dtState' = dtState /\ dtPc' = dtPc /\ dtClash' = dtClash
      /\ ~ (dtNext[c] > Len(DTShards))
  BY DEF DTVisit, DTLoopOver
<1>2. DTCalm
  BY <1>1 DEF DTInv
<1>3. /\ dtPc[c] \in {"prepare", "commit", "abort"} /\ Len(DTShards) \in Nat
      /\ dtNext \in [DTCallers -> 1 .. (Len(DTShards) + 1)]
      /\ dtPart \in [DTParts -> {"active", "prepared", "committed", "aborted"}]
  BY <1>1, DTShardsAre DEF DTInv, DTTypeOK
<1>4. dtNext[c] \in 1 .. Len(DTShards) /\ DTShards[dtNext[c]] \in DTParts
  BY <1>1, <1>3, DTShardsAre
<1> DEFINE q == DTShards[dtNext[c]]
           stage == DTVisited[dtPc[c]]
<1>5. \A p \in DTParts : dtPart'[p] = IF p = q THEN stage ELSE dtPart[p]
  BY <1>1, <1>3
<1>6. DTCallersFit'
  BY <1>1, <1>2 DEF DTCalm, DTCallersFit
<1>7. DTPartsFit'
  <2>1. CASE dtPc[c] = "prepare"
    BY <1>1, <1>2, <1>5, <2>1, DTVisitedIs DEF DTCalm, DTCallersFit, DTPartsFit
  <2>2. CASE dtPc[c] = "commit"
    BY <1>1, <1>2, <1>5, <2>2, DTVisitedIs DEF DTCalm, DTCallersFit, DTPartsFit
  <2>3. CASE dtPc[c] = "abort"
    BY <1>1, <1>2, <1>5, <2>3, DTVisitedIs DEF DTCalm, DTCallersFit, DTPartsFit
  <2>4. QED BY <1>3, <2>1, <2>2, <2>3
<1>8. ASSUME NEW d \in DTCallers, dtPc[d] # "out" PROVE DTVisited[dtPc[d]] = stage
  BY <1>2, <1>3, <1>8 DEF DTCalm, DTCallersFit, DTInv, DTTypeOK
<1>9. ASSUME NEW d \in DTCallers, dtPc'[d] # "out", NEW i \in 1 .. Len(DTShards), i < dtNext'[d]
      PROVE  dtPart'[DTShards[i]] = DTVisited[dtPc'[d]]
  <2>1. DTShards[i] \in DTParts /\ DTVisited[dtPc'[d]] = stage
    BY <1>1, <1>8, <1>9, DTShardsAre
  <2>2. CASE DTShards[i] = q
    BY <1>5, <2>1, <2>2
  <2>3. CASE DTShards[i] # q
    <3>1. i < dtNext[d]
      <4>1. CASE d = c
        <5>1. dtNext'[c] = dtNext[c] + 1 /\ i # dtNext[c]
          BY <1>1, <1>3, <2>3
        <5>2. QED BY <1>4, <1>9, <4>1, <5>1
      <4>2. CASE d # c
        BY <1>1, <1>3, <1>9, <4>2
      <4>3. QED BY <4>1, <4>2
    <3>2. dtPart[DTShards[i]] = stage
      BY <1>1, <1>2, <1>9, <2>1, <3>1 DEF DTCalm, DTVisitsFit
    <3>3. QED BY <1>5, <2>1, <2>3, <3>2
  <2>4. QED BY <2>2, <2>3
<1>10. DTVisitsFit'
  BY <1>9 DEF DTVisitsFit
<1>11. QED BY <1>6, <1>7, <1>10 DEF DTCalm

\* At the end of its loop a caller has told every participant.
LEMMA DTEndCalm ==
  ASSUME DTInv, NEW c \in DTCallers, DTEnd(c), ~dtClash'
  PROVE  DTCalm'
<1>1. /\ dtPc[c] # "out" /\ dtNext[c] > Len(DTShards)
      /\ dtState' = DTVisited[dtPc[c]]
      /\ dtPc' = [dtPc EXCEPT ![c] = "out"] /\ dtNext' = [dtNext EXCEPT ![c] = 1]
      /\ dtPart' = dtPart /\ dtClash' = dtClash
  BY DEF DTEnd, DTLoopOver
<1>2. DTCalm
  BY <1>1 DEF DTInv
<1>3. /\ dtPc \in [DTCallers -> {"out", "prepare", "commit", "abort"}]
      /\ dtNext \in [DTCallers -> 1 .. (Len(DTShards) + 1)] /\ Len(DTShards) \in Nat
  BY DTShardsAre DEF DTInv, DTTypeOK
<1>4. /\ dtPc'[c] = "out"
      /\ \A d \in DTCallers : d # c => dtPc'[d] = dtPc[d] /\ dtNext'[d] = dtNext[d]
  BY <1>1, <1>3
<1>5. ASSUME NEW p \in DTParts PROVE dtPart[p] = DTVisited[dtPc[c]]
  <2>1. PICK i \in 1 .. Len(DTShards) : p = DTShards[i]
    BY DTShardsAre
  <2>2. i < dtNext[c]
    BY <1>1, <1>3
  <2>3. QED BY <1>1, <1>2, <2>1, <2>2 DEF DTCalm, DTVisitsFit
<1>6. ASSUME NEW d \in DTCallers, d # c, dtPc[d] # "out"
      PROVE  dtPc[c] = "abort" /\ dtPc[d] = "abort"
  BY <1>1, <1>2, <1>3, <1>6 DEF DTCalm, DTCallersFit
<1>7. \/ dtPc[c] = "prepare" /\ dtState' = "prepared"
      \/ dtPc[c] = "commit" /\ dtState' = "committed"
      \/ dtPc[c] = "abort" /\ dtState' = "aborted"
  BY <1>1, <1>3, DTVisitedIs
<1>8. DTCallersFit'
  <2>1. \A d \in DTCallers : dtPc'[d] # "out" => dtPc'[d] = "abort" /\ dtState' = "aborted"
    BY <1>4, <1>6, <1>7
  <2>2. QED BY <1>7, <2>1 DEF DTCallersFit
<1>9. DTPartsFit'
  BY <1>1, <1>5, <1>7, DTVisitedIs DEF DTPartsFit
<1>10. DTVisitsFit'
  BY <1>1, <1>2, <1>4 DEF DTCalm, DTVisitsFit
<1>11. QED BY <1>8, <1>9, <1>10 DEF DTCalm

LEMMA DTStepAlone ==
  ASSUME DTInv, NEW c \in DTCallers, DTStep(c)
  PROVE  DTAlone'
<1>1. \A d \in DTCallers : dtPc'[d] # "out" => dtPc[d] # "out"
  BY DEF DTStep, DTVisit, DTEnd, DTInv, DTTypeOK
<1>2. dtOrderly' = dtOrderly
  BY DEF DTStep, DTVisit, DTEnd
<1>3. QED BY <1>1, <1>2 DEF DTInv, DTAlone, DTInside

LEMMA DTNextInv == DTInv /\ [DTNextStep]_dtVars => DTInv'
<1> SUFFICES ASSUME DTInv, [DTNextStep]_dtVars PROVE DTInv'
  OBVIOUS
<1>0. DTTypeOK'
  BY DTNextTypes DEF DTInv
<1>1. ASSUME NEW c \in DTCallers, DTPrepare(c) \/ DTCommit(c) \/ DTAbort(c) PROVE DTInv'
  <2>1. DTAlone'
    BY <1>1, DTBeginAlone DEF DTPrepare, DTCommit, DTAbort, DTStates
  <2>2. ~dtClash' => DTCalm'
    BY <1>1, DTBeginCalm
  <2>3. QED BY <1>0, <2>1, <2>2 DEF DTInv
<1>2. ASSUME NEW c \in DTCallers, DTStep(c) PROVE DTInv'
  <2>1. DTAlone'
    BY <1>2, DTStepAlone
  <2>2. ~dtClash' => DTCalm'
    BY <1>2, DTVisitCalm, DTEndCalm DEF DTStep
  <2>3. QED BY <1>0, <2>1, <2>2 DEF DTInv
<1>3. ASSUME NEW p \in DTParts, DTShardPrepare(p) \/ DTShardCommit(p) \/ DTShardAbort(p)
      PROVE  DTInv'
  <2>1. UNCHANGED <<dtOrderly, dtState, dtPart, dtPc, dtNext, dtClash>>
    BY <1>3 DEF DTShardPrepare, DTShardCommit, DTShardAbort, DTShardBecomes
  <2>2. QED BY <1>0, <2>1 DEF DTInv, DTAlone, DTInside, DTCalm, DTCallersFit, DTPartsFit, DTVisitsFit
<1>4. CASE UNCHANGED dtVars
  BY <1>0, <1>4 DEF dtVars, DTInv, DTAlone, DTInside, DTCalm, DTCallersFit, DTPartsFit, DTVisitsFit
<1>5. QED BY <1>1, <1>2, <1>3, <1>4, Zenon DEF DTNextStep

LEMMA DTInvHolds == DTSpec => []DTInv
<1>1. QED BY DTInitInv, DTNextInv, PTL DEF DTSpec

\* Types; and callers that wait for each other never clash.
THEOREM CommitTypes == DTSpec => []DTTypeOK
<1>1. DTInv => DTTypeOK
  BY DEF DTInv
<1>2. QED BY DTInvHolds, <1>1, PTL

\* Participants end alike, whichever threads prepare, commit and abort at the
\* same time, unless an abort overlaps a prepare or a commit; and what the final
\* state says is what they were told.
THEOREM AllAlike == DTSpec => [](DTAllAlike /\ DTFinalTrue)
<1>1. DTInv => DTAllAlike
  <2>1. SUFFICES ASSUME DTInv, ~dtClash, NEW p \in DTParts, NEW q \in DTParts,
                        dtPart[p] = "committed", dtPart[q] = "aborted"
                 PROVE  FALSE
    BY DEF DTAllAlike, DTMixed
  <2>2. dtState \in DTStates /\ DTPartsFit
    BY <2>1 DEF DTInv, DTTypeOK, DTCalm
  <2>3. QED BY <2>1, <2>2 DEF DTPartsFit, DTStates
<1>2. DTInv => DTFinalTrue
  BY DEF DTInv, DTCalm, DTPartsFit, DTFinalTrue
<1>3. QED BY DTInvHolds, <1>1, <1>2, PTL

-----------------------------------------------------------------------------
(* Callers that wait for each other implement AtomicCommit.                *)

Decided  == IF dtOrderly THEN DTDecision ELSE "none"
DTOutcomes == [p \in DTParts |-> IF dtOrderly THEN DTOutcome(dtPart[p]) ELSE "none"]

LEMMA DTPromiseIs ==
  /\ Promise!Init <=> Decided = "none" /\ DTOutcomes = [p \in DTParts |-> "none"]
  /\ \A d : Promise!Decide(d) <=> Decided = "none" /\ Decided' = d /\ DTOutcomes' = DTOutcomes
  /\ \A p : Promise!Learn(p) <=> /\ Decided # "none" /\ DTOutcomes[p] = "none"
                                 /\ DTOutcomes' = [DTOutcomes EXCEPT ![p] = Decided]
                                 /\ Decided' = Decided
  /\ (Decided' = Decided /\ DTOutcomes' = DTOutcomes) <=> UNCHANGED Promise!vars
BY DEF Promise!Init, Promise!Decide, Promise!Learn, Promise!vars, Decided, DTOutcomes

LEMMA DTPromiseInit == DTInit => Promise!Init
<1> SUFFICES ASSUME DTInit PROVE Decided = "none" /\ DTOutcomes = [p \in DTParts |-> "none"]
  BY DTPromiseIs
<1>1. QED BY DEF DTInit, Decided, DTDecision, DTOutcomes, DTOutcome

\* A phase begins: committing or aborting is the decision, preparing is not.
LEMMA DTBeginPromise ==
  ASSUME DTInv, NEW c \in DTCallers, DTPrepare(c) \/ DTCommit(c) \/ DTAbort(c)
  PROVE  [Promise!Next]_Promise!vars
<1>1. DTOutcomes' = DTOutcomes /\ dtOrderly' = dtOrderly
  BY DEF DTPrepare, DTCommit, DTAbort, DTBegin, DTOutcomes
<1>2. CASE ~dtOrderly
  BY <1>1, <1>2, DTPromiseIs DEF Decided
<1>3. CASE dtOrderly
  <2>1. ~dtClash /\ DTCalm /\ dtState \in DTStates
    BY <1>3 DEF DTInv, DTTypeOK
  <2>2. \A d \in DTCallers : dtPc[d] = "out"
    BY <1>3 DEF DTPrepare, DTCommit, DTAbort, DTBegin, DTInside
  <2>3. CASE DTPrepare(c)
    <3>1. Decided = "none" /\ Decided' = "none"
      BY <1>1, <1>3, <2>3 DEF DTPrepare, DTBegin, Decided, DTDecision
    <3>2. QED BY <1>1, <3>1, DTPromiseIs
  <2>4. CASE DTCommit(c)
    <3>1. Decided = "none" /\ Decided' = "commit"
      BY <1>1, <1>3, <2>4 DEF DTCommit, DTMayCommit, DTBegin, Decided, DTDecision
    <3>2. Promise!Decide("commit")
      BY <1>1, <3>1, DTPromiseIs
    <3>3. QED BY <3>2 DEF Promise!Next
  <2>5. CASE DTAbort(c)
    <3>1. Decided' = "abort"
      BY <1>1, <1>3, <2>5 DEF DTAbort, DTBegin, Decided, DTDecision
    <3>2. dtState \notin {"committed", "aborted", "committing"}
      BY <2>1, <2>2, <2>5 DEF DTAbort, DTMayAbort, DTCalm, DTCallersFit
    <3>3. CASE dtState = "aborting"
      <4>1. Decided = "abort"
        BY <1>3, <3>3 DEF Decided, DTDecision
      <4>2. QED BY <1>1, <3>1, <4>1, DTPromiseIs
    <3>4. CASE dtState # "aborting"
      <4>1. Decided = "none"
        BY <1>3, <2>1, <3>2, <3>4 DEF Decided, DTDecision, DTStates
      <4>2. Promise!Decide("abort")
        BY <1>1, <3>1, <4>1, DTPromiseIs
      <4>3. QED BY <4>2 DEF Promise!Next
    <3>5. QED BY <3>3, <3>4
  <2>6. QED BY <2>3, <2>4, <2>5
<1>4. QED BY <1>2, <1>3

\* A visit: the participant learns the decision, if there is one.
LEMMA DTVisitPromise ==
  ASSUME DTInv, NEW c \in DTCallers, DTVisit(c)
  PROVE  [Promise!Next]_Promise!vars
<1>1. /\ dtPart' = [dtPart EXCEPT ![DTShards[dtNext[c]]] = DTVisited[dtPc[c]]]
      /\ dtPc[c] # "out" /\ dtState' = dtState /\ dtOrderly' = dtOrderly
      /\ ~ (dtNext[c] > Len(DTShards))
  BY DEF DTVisit, DTLoopOver
<1>2. /\ dtPc[c] \in {"prepare", "commit", "abort"} /\ dtNext[c] \in 1 .. (Len(DTShards) + 1)
      /\ dtPart \in [DTParts -> {"active", "prepared", "committed", "aborted"}]
      /\ Len(DTShards) \in Nat
  BY <1>1, DTShardsAre DEF DTInv, DTTypeOK
<1> DEFINE q == DTShards[dtNext[c]]
<1>3. q \in DTParts
  BY <1>1, <1>2, DTShardsAre
<1>4. Decided' = Decided
  BY <1>1 DEF Decided, DTDecision
<1>5. CASE ~dtOrderly
  <2>1. DTOutcomes' = DTOutcomes
    BY <1>1, <1>5 DEF DTOutcomes
  <2>2. QED BY <1>4, <2>1, DTPromiseIs
<1>6. CASE dtOrderly
  <2>1. DTCalm
    BY <1>6 DEF DTInv, DTTypeOK
  <2>2. \A p \in DTParts :
          dtPart'[p] = IF p = q THEN DTVisited[dtPc[c]] ELSE dtPart[p]
    BY <1>1, <1>2
  <2>3. DTOutcomes' = [DTOutcomes EXCEPT ![q] = DTOutcome(DTVisited[dtPc[c]])]
    <3>1. DTOutcomes' = [p \in DTParts |-> DTOutcome(dtPart'[p])]
      BY <1>1, <1>6 DEF DTOutcomes
    <3>2. DTOutcomes = [p \in DTParts |-> DTOutcome(dtPart[p])]
      BY <1>6 DEF DTOutcomes
    <3>3. QED BY <1>3, <2>2, <3>1, <3>2
  <2>4. DTOutcomes[q] = DTOutcome(dtPart[q])
    BY <1>3, <1>6 DEF DTOutcomes
  <2>5. CASE dtPc[c] = "prepare"
    <3>1. dtState = "preparing"
      BY <2>1, <2>5 DEF DTCalm, DTCallersFit
    <3>2. dtPart[q] \in {"active", "prepared"}
      BY <1>3, <2>1, <3>1 DEF DTCalm, DTPartsFit
    <3>3. DTOutcome(DTVisited[dtPc[c]]) = "none" /\ DTOutcomes[q] = "none"
      BY <2>4, <2>5, <3>2, DTVisitedIs DEF DTOutcome
    <3>4. DTOutcomes' = DTOutcomes
      BY <1>3, <2>3, <3>3 DEF DTOutcomes
    <3>5. QED BY <1>4, <3>4, DTPromiseIs
  <2>6. ASSUME dtPc[c] = "commit" \/ dtPc[c] = "abort"
        PROVE  [Promise!Next]_Promise!vars
    <3>1. DTOutcome(DTVisited[dtPc[c]]) = Decided /\ Decided # "none"
      BY <1>6, <2>1, <2>6, DTVisitedIs DEF DTCalm, DTCallersFit, DTOutcome, Decided, DTDecision
    <3>2. DTOutcomes[q] = "none" \/ DTOutcomes[q] = Decided
      <4>1. CASE dtPc[c] = "commit"
        <5>1. dtState = "committing"
          BY <2>1, <4>1 DEF DTCalm, DTCallersFit
        <5>2. dtPart[q] \in {"prepared", "committed"}
          BY <1>3, <2>1, <5>1 DEF DTCalm, DTPartsFit
        <5>3. QED BY <2>4, <3>1, <4>1, <5>2, DTVisitedIs DEF DTOutcome
      <4>2. CASE dtPc[c] = "abort"
        <5>1. dtState \in {"aborting", "aborted"}
          BY <2>1, <4>2 DEF DTCalm, DTCallersFit
        <5>2. dtPart[q] \in {"active", "prepared", "aborted"}
          BY <1>3, <2>1, <5>1 DEF DTCalm, DTPartsFit
        <5>3. QED BY <2>4, <3>1, <4>2, <5>2, DTVisitedIs DEF DTOutcome
      <4>3. QED BY <2>6, <4>1, <4>2
    <3>3. DTOutcomes' = [DTOutcomes EXCEPT ![q] = Decided]
      BY <2>3, <3>1
    <3>4. CASE DTOutcomes[q] = "none"
      <4>1. Promise!Learn(q)
        BY <1>4, <3>1, <3>3, <3>4, DTPromiseIs
      <4>2. QED BY <1>3, <4>1 DEF Promise!Next
    <3>5. CASE DTOutcomes[q] = Decided
      <4>1. DTOutcomes' = DTOutcomes
        BY <1>3, <3>3, <3>5 DEF DTOutcomes
      <4>2. QED BY <1>4, <4>1, DTPromiseIs
    <3>6. QED BY <3>2, <3>4, <3>5
  <2>7. QED BY <1>2, <2>5, <2>6
<1>7. QED BY <1>5, <1>6

\* A phase ends: the decision stands.
LEMMA DTEndPromise ==
  ASSUME DTInv, NEW c \in DTCallers, DTEnd(c)
  PROVE  [Promise!Next]_Promise!vars
<1>1. /\ dtPc[c] # "out" /\ dtState' = DTVisited[dtPc[c]]
      /\ dtPart' = dtPart /\ dtOrderly' = dtOrderly
  BY DEF DTEnd
<1>2. DTOutcomes' = DTOutcomes
  BY <1>1 DEF DTOutcomes
<1>3. CASE ~dtOrderly
  BY <1>1, <1>2, <1>3, DTPromiseIs DEF Decided
<1>4. CASE dtOrderly
  <2>1. DTCalm /\ dtPc[c] \in {"prepare", "commit", "abort"}
    BY <1>1, <1>4 DEF DTInv, DTTypeOK
  <2>2. Decided' = Decided
    BY <1>1, <1>4, <2>1, DTVisitedIs DEF DTCalm, DTCallersFit, Decided, DTDecision
  <2>3. QED BY <1>2, <2>2, DTPromiseIs
<1>5. QED BY <1>3, <1>4

LEMMA DTStepPromise == DTInv /\ [DTNextStep]_dtVars => [Promise!Next]_Promise!vars
<1> SUFFICES ASSUME DTInv, [DTNextStep]_dtVars PROVE [Promise!Next]_Promise!vars
  OBVIOUS
<1>1. ASSUME NEW c \in DTCallers, DTPrepare(c) \/ DTCommit(c) \/ DTAbort(c)
      PROVE  [Promise!Next]_Promise!vars
  BY <1>1, DTBeginPromise
<1>2. ASSUME NEW c \in DTCallers, DTStep(c) PROVE [Promise!Next]_Promise!vars
  BY <1>2, DTVisitPromise, DTEndPromise DEF DTStep
<1>3. ASSUME UNCHANGED <<dtOrderly, dtState, dtPart>> PROVE [Promise!Next]_Promise!vars
  <2>1. Decided' = Decided /\ DTOutcomes' = DTOutcomes
    BY <1>3 DEF Decided, DTDecision, DTOutcomes
  <2>2. QED BY <2>1, DTPromiseIs
<1>4. ASSUME NEW p \in DTParts, DTShardPrepare(p) \/ DTShardCommit(p) \/ DTShardAbort(p)
      PROVE  [Promise!Next]_Promise!vars
  BY <1>3, <1>4 DEF DTShardPrepare, DTShardCommit, DTShardAbort, DTShardBecomes
<1>5. CASE UNCHANGED dtVars
  BY <1>3, <1>5 DEF dtVars
<1>6. QED BY <1>1, <1>2, <1>4, <1>5, Zenon DEF DTNextStep

\* One decision, taken once, and followed by every participant: the phases, the
\* visits between two locked sections and the final states of calls that wait for
\* each other are steps of AtomicCommit or none.
THEOREM CommitImplemented == DTSpec => DTImplements
<1>1. DTInit => Promise!Init
  BY DTPromiseInit
<1>2. DTInv /\ [DTNextStep]_dtVars => [Promise!Next]_Promise!vars
  BY DTStepPromise
<1>3. QED BY DTInvHolds, <1>1, <1>2, PTL DEF DTSpec, DTImplements, Promise!Spec
=============================================================================
