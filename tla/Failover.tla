------------------------------ MODULE Failover ------------------------------
(***************************************************************************)
(* Leader election and the log of a leader (failover.py, RaftConsensus and *)
(* FailoverManager): a node's election timer, the vote requests it sends   *)
(* from one thread per peer, the handler of a peer's requests, and         *)
(* propose.                                                                *)
(*                                                                         *)
(* Every node has one lock.  The election timer holds it from the start of *)
(* an election to its end, also while it waits for the vote threads, each  *)
(* of which needs it to count its vote; the other uses of the lock are     *)
(* single steps.  A node with peers therefore never leads (LeadersAlone),  *)
(* and AppendEntries, which only leaders send, and only to peers, is never *)
(* sent: its handler and the heartbeat threads are left out.               *)
(***************************************************************************)
EXTENDS Naturals, Sequences, FiniteSets

CONSTANTS
  Nodes,
  Clusters,     \* configurations: functions from nodes to their peers
  None,         \* no vote
  MaxTerm,      \* bound: the highest term an election is started for
  MaxProposals  \* bound: commands proposed

ASSUME FailoverAssumption ==
  /\ IsFiniteSet(Nodes)
  /\ Clusters \subseteq [Nodes -> SUBSET Nodes]
  /\ \A peers \in Clusters, n \in Nodes : n \notin peers[n]
  /\ None \notin Nodes /\ {MaxTerm, MaxProposals} \subseteq Nat

VARIABLES
  peers,       \* the configuration
  state,       \* per node: "follower", "candidate" or "leader"
  term,        \* current_term
  votedFor,    \* voted_for
  votes,       \* votes_received
  locked,      \* the nodes whose timer is inside _start_election
  rpcs,        \* RequestVote calls under way
  log,         \* per node: the terms of its entries
  commit,      \* commit_index
  lastApplied, \* last_applied
  primary,     \* FailoverManager.is_primary
  proposals

failoverVars ==
  <<peers, state, term, votedFor, votes, locked, rpcs, log, commit, lastApplied,
    primary, proposals>>

FailoverInit ==
  /\ peers \in Clusters
  /\ state = [n \in Nodes |-> "follower"]
  /\ term = [n \in Nodes |-> 0]
  /\ votedFor = [n \in Nodes |-> None]
  /\ votes = [n \in Nodes |-> 0]
  /\ locked = {} /\ rpcs = {}
  /\ log = [n \in Nodes |-> <<>>]
  /\ commit = [n \in Nodes |-> 0]
  /\ lastApplied = [n \in Nodes |-> 0]
  /\ primary = [n \in Nodes |-> FALSE]
  /\ proposals = 0

LastTerm(n) == IF log[n] = <<>> THEN 0 ELSE log[n][Len(log[n])]

Majority(k, n) == 2 * k > Cardinality(peers[n]) + 1

-----------------------------------------------------------------------------
(* Elections. *)

\* A vote request: "asked" until the peer has handled it, then "answered".
\* waiting: the thread that sent it has not given up.
Request(n, p) ==
  [from |-> n, to |-> p, term |-> term[n] + 1, lastTerm |-> LastTerm(n),
   lastIndex |-> Len(log[n]), phase |-> "asked", waiting |-> TRUE,
   reply |-> 0, granted |-> FALSE]

\* _election_timer, which looks only while nobody holds the lock, and the first
\* half of _start_election.
StartElection(n) ==
  /\ n \notin locked /\ state[n] # "leader" /\ term[n] < MaxTerm
  /\ locked' = locked \cup {n}
  /\ state' = [state EXCEPT ![n] = "candidate"]
  /\ term' = [term EXCEPT ![n] = @ + 1]
  /\ votedFor' = [votedFor EXCEPT ![n] = n]
  /\ votes' = [votes EXCEPT ![n] = 1]
  /\ rpcs' = rpcs \cup {Request(n, p) : p \in peers[n]}
  /\ UNCHANGED <<peers, log, commit, lastApplied, primary, proposals>>

\* Mutant of CanVote: whoever asks gets the vote.
AlwaysVotes(p, vote, r) == TRUE

CanVote(p, vote, r) == vote \in {None, r.from}

LogIsCurrent(p, r) ==
  \/ r.lastTerm > LastTerm(p)
  \/ r.lastTerm = LastTerm(p) /\ r.lastIndex >= Len(log[p])

Answer(r, now, grant) ==
  [r EXCEPT !.phase = "answered", !.reply = now, !.granted = grant]

\* _handle_request_vote; a thread that has given up hears no answer.
HandleRequestVote(r) ==
  LET p     == r.to
      newer == r.term > term[p]
      vote  == IF newer THEN None ELSE votedFor[p]
      grant == r.term >= term[p] /\ CanVote(p, vote, r) /\ LogIsCurrent(p, r)
      now   == IF newer THEN r.term ELSE term[p]
  IN  /\ r.phase = "asked" /\ p \notin locked
      /\ term' = [term EXCEPT ![p] = now]
      /\ state' = IF newer THEN [state EXCEPT ![p] = "follower"] ELSE state
      /\ votedFor' = [votedFor EXCEPT ![p] = IF grant THEN r.from ELSE vote]
      /\ rpcs' = (rpcs \ {r}) \cup IF r.waiting THEN {Answer(r, now, grant)} ELSE {}
      /\ UNCHANGED <<peers, votes, locked, log, commit, lastApplied, primary,
                     proposals>>

\* _send_rpc fails: the peer cannot be reached, or answers after the time-out,
\* in which case its handler goes on.
RpcFails(r) ==
  /\ r.waiting
  /\ rpcs' = (rpcs \ {r}) \cup
       IF r.phase = "asked" THEN {[r EXCEPT !.waiting = FALSE]} ELSE {}
  /\ UNCHANGED <<peers, state, term, votedFor, votes, locked, log, commit,
                 lastApplied, primary, proposals>>

Unreachable(r) ==
  /\ r.phase = "asked"
  /\ rpcs' = rpcs \ {r}
  /\ UNCHANGED <<peers, state, term, votedFor, votes, locked, log, commit,
                 lastApplied, primary, proposals>>

\* Mutant of HigherTerm: an answer's term is adopted whatever it is.
AnyTerm(r) == ~r.granted

HigherTerm(r) == r.reply > term[r.from]

\* Mutant of MayCount: votes are counted without the lock.
CountsAnyTime(n) == TRUE

MayCount(n) == n \notin locked

\* _request_vote, once the thread gets its own node's lock.
CountVote(r) ==
  LET n == r.from
  IN  /\ r.phase = "answered" /\ MayCount(n)
      /\ IF HigherTerm(r)
         THEN /\ term' = [term EXCEPT ![n] = r.reply]
              /\ state' = [state EXCEPT ![n] = "follower"]
              /\ votedFor' = [votedFor EXCEPT ![n] = None]
              /\ UNCHANGED votes
         ELSE /\ votes' = IF r.granted THEN [votes EXCEPT ![n] = @ + 1] ELSE votes
              /\ UNCHANGED <<term, state, votedFor>>
      /\ rpcs' = rpcs \ {r}
      /\ UNCHANGED <<peers, locked, log, commit, lastApplied, primary, proposals>>

\* The join of each vote thread has a time-out; then the votes counted so far
\* decide (_become_leader, FailoverManager._on_leader_elected).
EndElection(n) ==
  /\ n \in locked
  /\ locked' = locked \ {n}
  /\ IF state[n] = "candidate" /\ Majority(votes[n], n)
     THEN /\ state' = [state EXCEPT ![n] = "leader"]
          /\ primary' = [primary EXCEPT ![n] = TRUE]
     ELSE UNCHANGED <<state, primary>>
  /\ UNCHANGED <<peers, term, votedFor, votes, rpcs, log, commit, lastApplied,
                 proposals>>

-----------------------------------------------------------------------------
(* The log of a leader. *)

\* propose and _replicate_entry of a leader without peers, which counts itself.
Propose(n) ==
  /\ n \notin locked /\ state[n] = "leader" /\ proposals < MaxProposals
  /\ proposals' = proposals + 1
  /\ log' = [log EXCEPT ![n] = Append(@, term[n])]
  /\ commit' = IF Majority(1, n) THEN [commit EXCEPT ![n] = Len(log[n]) + 1]
                                 ELSE commit
  /\ UNCHANGED <<peers, state, term, votedFor, votes, locked, rpcs, lastApplied,
                 primary>>

\* _log_applier.
ApplyCommitted(n) ==
  /\ n \notin locked /\ lastApplied[n] < commit[n]
  /\ lastApplied' = [lastApplied EXCEPT ![n] = commit[n]]
  /\ UNCHANGED <<peers, state, term, votedFor, votes, locked, rpcs, log, commit,
                 primary, proposals>>

-----------------------------------------------------------------------------
FailoverNext ==
  \/ \E n \in Nodes : \/ StartElection(n) \/ EndElection(n)
                      \/ Propose(n) \/ ApplyCommitted(n)
  \/ \E r \in rpcs : \/ HandleRequestVote(r) \/ RpcFails(r) \/ Unreachable(r)
                     \/ CountVote(r)

FailoverSpec == FailoverInit /\ [][FailoverNext]_failoverVars

-----------------------------------------------------------------------------
(* Properties. *)

Calls ==
  [from : Nodes, to : Nodes, term : Nat, lastTerm : Nat, lastIndex : Nat,
   phase : {"asked", "answered"}, waiting : BOOLEAN, reply : Nat,
   granted : BOOLEAN]

\* Every variable has its type; while a node's timer waits in an election nobody
\* else changes the node, and no entry is applied that is not committed.
FailoverTypeOK ==
  /\ peers \in [Nodes -> SUBSET Nodes]
  /\ state \in [Nodes -> {"follower", "candidate", "leader"}]
  /\ term \in [Nodes -> Nat] /\ votes \in [Nodes -> Nat]
  /\ votedFor \in [Nodes -> Nodes \cup {None}]
  /\ locked \subseteq Nodes /\ rpcs \subseteq Calls
  /\ log \in [Nodes -> Seq(Nat)]
  /\ commit \in [Nodes -> Nat] /\ lastApplied \in [Nodes -> Nat]
  /\ primary \in [Nodes -> BOOLEAN] /\ proposals \in Nat
  /\ \A n \in locked : state[n] = "candidate" /\ votedFor[n] = n
  /\ \A n \in Nodes : lastApplied[n] <= commit[n] /\ commit[n] <= Len(log[n])

VoteKept ==
  \A n \in Nodes :
    \/ term'[n] > term[n]
    \/ term'[n] = term[n] /\ votedFor[n] \in {None, votedFor'[n]}

\* A node votes once in a term and never goes back to an earlier one, also when
\* answers to an old election arrive in a new one (_handle_request_vote,
\* _request_vote).
VoteStands == [][VoteKept]_failoverVars

\* Only a node without peers ever leads or calls itself primary: the votes of
\* the others are counted when _start_election has let go of the lock, behind
\* its test of votes_received.
LeadersAlone ==
  \A n \in Nodes : state[n] = "leader" \/ primary[n] => peers[n] = {}

\* A waiting timer has counted no vote but its own node's.
OwnVoteOnly == \A n \in locked : votes[n] = 1
=============================================================================
