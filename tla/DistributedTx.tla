--------------------------- MODULE DistributedTx ---------------------------
(***************************************************************************)
(* Two-phase commit (distributed_tx.py): one transaction of a coordinator, *)
(* whose methods are called by several threads.  A method takes the lock   *)
(* to look at the state and to change it, lets go of it while it visits    *)
(* the participants, and takes it again to set the final state.            *)
(*                                                                         *)
(* Every participant votes yes: prepare_phase sends no message.  The       *)
(* callers are external; dtOrderly says whether they wait for each other.  *)
(* The transactions of a coordinator share nothing, so one is enough.      *)
(* ShardParticipant is the other side, which the coordinator never calls.  *)
(***************************************************************************)
EXTENDS Naturals, Sequences, FiniteSets, SequencesExt

CONSTANTS
  DTCallers,
  DTShards    \* the participants, in the order of the dictionary: a sequence

DTParts == ToSet(DTShards)

ASSUME DTAssumption == DTShards \in Seq(DTParts) /\ Len(DTShards) = Cardinality(DTParts)

VARIABLES
  dtOrderly,  \* whether a caller calls only while no other is inside
  dtState,    \* the transaction's state
  dtPart,     \* the coordinator's record of each participant's state
  dtPc,       \* per caller: "out", or the loop it is in
  dtNext,     \* per caller: the index of the next participant to visit
  dtClash,    \* history: an abort and another phase were under way together
  dtShard     \* the shards' own states of the transaction

dtVars == <<dtOrderly, dtState, dtPart, dtPc, dtNext, dtClash, dtShard>>

DTInit ==
  /\ dtOrderly \in BOOLEAN
  /\ dtState = "active" /\ dtPart = [p \in DTParts |-> "active"]
  /\ dtPc = [c \in DTCallers |-> "out"] /\ dtNext = [c \in DTCallers |-> 1]
  /\ dtClash = FALSE
  /\ dtShard = [p \in DTParts |-> "unknown"]

-----------------------------------------------------------------------------
(* TwoPhaseCommitCoordinator. *)

DTInside == {c \in DTCallers : dtPc[c] # "out"}

\* The first locked section of a phase.
DTBegin(c, loop, state) ==
  /\ dtPc[c] = "out" /\ (dtOrderly => DTInside = {})
  /\ dtState' = state
  /\ dtPc' = [dtPc EXCEPT ![c] = loop] /\ dtNext' = [dtNext EXCEPT ![c] = 1]
  /\ dtClash' = (dtClash \/ \E d \in DTInside : "abort" \in {loop, dtPc[d]} /\ dtPc[d] # loop)
  /\ UNCHANGED <<dtOrderly, dtPart, dtShard>>

\* prepare_phase, of execute_transaction as well.
DTPrepare(c) == dtState = "active" /\ DTBegin(c, "prepare", "preparing")

\* Mutant of DTMayCommit: a transaction that was given up may still be committed.
DTMayCommitLate == dtState \in {"prepared", "aborted"}

DTMayCommit == dtState = "prepared"

\* commit_phase; recover_transaction of a prepared transaction calls it, and of a
\* committing one has it raise ValueError.
DTCommit(c) == DTMayCommit /\ DTBegin(c, "commit", "committing")

\* Mutant of DTMayAbort: a finished transaction may be aborted.
DTMayAbortDone == dtState # "aborted"

DTMayAbort == dtState \notin {"committed", "aborted"}

\* abort_transaction, in any state that is not final, also in the middle of a phase.
DTAbort(c) == DTMayAbort /\ DTBegin(c, "abort", "aborting")

\* Mutant of DTVisited: an aborted participant is recorded as failed.
DTVisitedFailed == [prepare |-> "prepared", commit |-> "committed", abort |-> "failed"]

DTVisited == [prepare |-> "prepared", commit |-> "committed", abort |-> "aborted"]

\* Mutant of DTLoopOver: the last participant is left out.
DTLoopOverEarly(c) == dtNext[c] >= Len(DTShards)

DTLoopOver(c) == dtNext[c] > Len(DTShards)

\* One round of the loop over the participants.
DTVisit(c) ==
  /\ dtPc[c] # "out" /\ ~DTLoopOver(c)
  /\ dtPart' = [dtPart EXCEPT ![DTShards[dtNext[c]]] = DTVisited[dtPc[c]]]
  /\ dtNext' = [dtNext EXCEPT ![c] = @ + 1]
  /\ UNCHANGED <<dtOrderly, dtState, dtPc, dtClash, dtShard>>

\* The second locked section: it does not look at the state again.
DTEnd(c) ==
  /\ dtPc[c] # "out" /\ DTLoopOver(c)
  /\ dtState' = DTVisited[dtPc[c]]
  /\ dtPc' = [dtPc EXCEPT ![c] = "out"] /\ dtNext' = [dtNext EXCEPT ![c] = 1]
  /\ UNCHANGED <<dtOrderly, dtPart, dtClash, dtShard>>

-----------------------------------------------------------------------------
(* ShardParticipant: its calls come from elsewhere, in any order, repeated or    *)
(* not.  A commit applies the operations if the transaction is prepared.         *)

DTShardBecomes(p, state) ==
  /\ dtShard' = [dtShard EXCEPT ![p] = state]
  /\ UNCHANGED <<dtOrderly, dtState, dtPart, dtPc, dtNext, dtClash>>

DTShardPrepare(p) == DTShardBecomes(p, "prepared")

DTShardCommit(p) == dtShard[p] = "prepared" /\ DTShardBecomes(p, "committed")

DTShardAbort(p) == dtShard[p] # "unknown" /\ DTShardBecomes(p, "aborted")

DTStep(c) == DTVisit(c) \/ DTEnd(c)

DTNextStep ==
  \/ \E c \in DTCallers : DTPrepare(c) \/ DTCommit(c) \/ DTAbort(c) \/ DTStep(c)
  \/ \E p \in DTParts : DTShardPrepare(p) \/ DTShardCommit(p) \/ DTShardAbort(p)

DTSpec == DTInit /\ [][DTNextStep]_dtVars

-----------------------------------------------------------------------------
(* Properties. *)

DTStates == {"active", "preparing", "prepared", "committing", "committed", "aborting", "aborted"}

\* Every variable has its type; callers that wait for each other do not clash.
DTTypeOK ==
  /\ dtOrderly \in BOOLEAN /\ dtClash \in BOOLEAN /\ (dtOrderly => ~dtClash)
  /\ dtState \in DTStates
  /\ dtPart \in [DTParts -> {"active", "prepared", "committed", "aborted"}]
  /\ dtPc \in [DTCallers -> {"out", "prepare", "commit", "abort"}]
  /\ dtNext \in [DTCallers -> 1..(Len(DTShards) + 1)]
  /\ dtShard \in [DTParts -> {"unknown", "prepared", "committed", "aborted"}]

DTMixed == \E p, q \in DTParts : dtPart[p] = "committed" /\ dtPart[q] = "aborted"

\* The coordinator "ensures atomicity across multiple database shards" (distributed_tx.py:5): whoever
\* calls it and when, once everyone has returned no participant is recorded as committed beside
\* one that is recorded as aborted.
DTAtomic == DTInside = {} => ~DTMixed

\* Threads that prepare, commit, recover or abort at the same time never leave one
\* participant committed and another aborted, as long as no abort overlaps a
\* prepare or a commit (commit_phase and abort_transaction each check the state
\* under the lock, and work outside of it).
DTAllAlike == ~dtClash => ~DTMixed

\* A final state is what the participants were told, once nobody is inside.
DTFinalTrue ==
  ~dtClash /\ DTInside = {} => \A p \in DTParts :
     dtState \in {"committed", "aborted"} => dtPart[p] = dtState

DTOutcome(s) == CASE s = "committed" -> "commit" [] s = "aborted" -> "abort" [] OTHER -> "none"

DTDecision ==
  CASE dtState \in {"committing", "committed"} -> "commit"
    [] dtState \in {"aborting", "aborted"} -> "abort"
    [] OTHER -> "none"

\* Callers that wait for each other get an atomic commit: one decision, which no
\* later call takes back, and which every participant follows.  With callers that
\* do not, the mapping stays where it began.
Promise == INSTANCE AtomicCommit WITH
  Participants <- DTParts,
  decision <- IF dtOrderly THEN DTDecision ELSE "none",
  outcome  <- [p \in DTParts |-> IF dtOrderly THEN DTOutcome(dtPart[p]) ELSE "none"]

DTImplements == Promise!Spec
=============================================================================
