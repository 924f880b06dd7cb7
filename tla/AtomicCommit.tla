---------------------------- MODULE AtomicCommit ----------------------------
(***************************************************************************)
(* What a distributed transaction promises, without phases: one decision   *)
(* is taken, once, and every participant ends as it says.                  *)
(***************************************************************************)
CONSTANT Participants

VARIABLES
  decision,  \* "none", "commit" or "abort"
  outcome    \* per participant: the same

vars == <<decision, outcome>>

Init == decision = "none" /\ outcome = [p \in Participants |-> "none"]

Decide(d) ==
  /\ decision = "none"
  /\ decision' = d
  /\ UNCHANGED outcome

Learn(p) ==
  /\ decision # "none" /\ outcome[p] = "none"
  /\ outcome' = [outcome EXCEPT ![p] = decision]
  /\ UNCHANGED decision

Next == \/ \E d \in {"commit", "abort"} : Decide(d)
        \/ \E p \in Participants : Learn(p)

Spec == Init /\ [][Next]_vars
=============================================================================
