---------------------------- MODULE ManyServers -----------------------------
(***************************************************************************)
(* Two things several servers must agree on: where a key is                *)
(* (shard_router.py), and which of two writes is the later one             *)
(* (replication.py).                                                       *)
(***************************************************************************)
EXTENDS Naturals, Sequences, FiniteSets, SequencesExt

(***************************************************************************)
(* Which shard a key belongs to (shard_router.py): a consistent hash ring, *)
(* or a list of ranges, while shards are added, removed, added again, and  *)
(* the router is saved and loaded.  Every operation is one locked section. *)
(*                                                                         *)
(* A key is its place in the order of the ranges and its hash; hashes of   *)
(* virtual nodes do not collide.  The callers that store a key at the      *)
(* shard it is routed to are external; nothing in the module moves data.   *)
(* Whether a shard is active does not enter: routing does not look at it.  *)
(***************************************************************************)

CONSTANTS
  RTShards, RTKeys, RTNone,
  RTNodes,      \* [RTShards -> SUBSET Nat]: the hashes of a shard's virtual nodes
  RTHash,       \* [RTKeys -> Nat]
  RTPlace,      \* [RTKeys -> Nat \ {0}]: keys are ordered by it
  RTBounds,     \* the ranges a caller may give: a set of <<start, end>>, 0 for None
  RTMaxRanges   \* bound: ranges in the list

ASSUME RTAssumption ==
  /\ RTNone \notin RTShards /\ RTMaxRanges \in Nat
  /\ \A s, u \in RTShards : s # u => RTNodes[s] \cap RTNodes[u] = {}

VARIABLES
  rtStrategy,  \* "hash" or "range"
  rtShards,    \* the ids in shards, in the order of the dictionary
  rtRing,      \* the ring: the nodes it has
  rtRanges,    \* the ranges in order: a sequence of [lo, hi, shard]
  rtStored,    \* external: the shard each key was last written to, or RTNone
  rtSince      \* history, per key: the shards added since then

rtVars == <<rtStrategy, rtShards, rtRing, rtRanges, rtStored, rtSince>>

RTInit ==
  /\ rtStrategy \in {"hash", "range"}
  /\ rtShards = <<>> /\ rtRing = {} /\ rtRanges = <<>>
  /\ rtStored = [k \in RTKeys |-> RTNone] /\ rtSince = [k \in RTKeys |-> {}]

-----------------------------------------------------------------------------
(* get_shard. *)

RTOwner(node) == CHOOSE s \in RTShards : node \in RTNodes[s]

\* Mutant of RTNode: the hash modulo the number of nodes.
RTNodeModulo(h) ==
  CHOOSE n \in rtRing : Cardinality({m \in rtRing : m < n}) = h % Cardinality(rtRing)

\* The first node at or after the hash, or the first of the ring.
RTNode(h) ==
  LET above == {n \in rtRing : n >= h} IN IF above = {} THEN Min(rtRing) ELSE Min(above)

RTHolds(r, place) == place >= r.lo /\ (r.hi = 0 \/ place < r.hi)

\* The first range that holds the key, or the last range of all.
RTRange(place) ==
  LET fits == {i \in DOMAIN rtRanges : RTHolds(rtRanges[i], place)}
  IN  IF fits = {} THEN Len(rtRanges) ELSE Min(fits)

RTRoutes == IF rtStrategy = "hash" THEN rtRing # {} ELSE rtRanges # <<>>

RTRoute(k) ==
  IF rtStrategy = "hash" THEN RTOwner(RTNode(RTHash[k]))
  ELSE rtRanges[RTRange(RTPlace[k])].shard

-----------------------------------------------------------------------------
(* ShardRouter. *)

\* ranges.sort() is stable, and None counts as the empty string.
RTInsert(ranges, r) ==
  LET before(i) == ranges[i].lo < r.lo \/ (ranges[i].lo = r.lo /\ ranges[i].hi <= r.hi)
      n == Cardinality({i \in DOMAIN ranges : before(i)})
  IN  SubSeq(ranges, 1, n) \o <<r>> \o SubSeq(ranges, n + 1, Len(ranges))

RTNoted(added) == rtSince' = [k \in RTKeys |-> rtSince[k] \cup added]

\* add_shard: a shard that is there already gets one more range.
RTAdd(s, lo, hi) ==
  /\ rtShards' = IF s \in ToSet(rtShards) THEN rtShards ELSE Append(rtShards, s)
  /\ IF rtStrategy = "hash"
     THEN rtRing' = rtRing \cup RTNodes[s] /\ UNCHANGED rtRanges
     ELSE /\ Len(rtRanges) < RTMaxRanges
          /\ rtRanges' = RTInsert(rtRanges, [lo |-> lo, hi |-> hi, shard |-> s])
          /\ UNCHANGED rtRing
  /\ RTNoted({s})
  /\ UNCHANGED <<rtStrategy, rtStored>>

\* Mutant of RTForgotten: one virtual node stays behind.
RTForgottenMost(s) == RTNodes[s] \ {Min(RTNodes[s])}

RTForgotten(s) == RTNodes[s]

\* remove_shard, of any id; the shard takes the keys it has along.
RTRemove(s) ==
  /\ rtShards' = SelectSeq(rtShards, LAMBDA u : u # s)
  /\ rtRing' = rtRing \ RTForgotten(s)
  /\ rtRanges' = SelectSeq(rtRanges, LAMBDA r : r.shard # s)
  /\ rtStored' = [k \in RTKeys |-> IF rtStored[k] = s THEN RTNone ELSE rtStored[k]]
  /\ UNCHANGED <<rtStrategy, rtSince>>

\* to_dict and from_dict.  The shards keep their order and lose their ranges: each
\* is added again from None to None.
RTReload ==
  /\ rtRanges' = IF rtStrategy = "hash" THEN <<>>
                 ELSE [i \in DOMAIN rtShards |-> [lo |-> 0, hi |-> 0, shard |-> rtShards[i]]]
  /\ RTNoted(IF rtStrategy = "hash" THEN {} ELSE ToSet(rtShards))
  /\ UNCHANGED <<rtStrategy, rtShards, rtRing, rtStored>>

\* A caller writes a key to the shard get_shard_for_key names.
RTPut(k) ==
  /\ RTRoutes
  /\ rtStored' = [rtStored EXCEPT ![k] = RTRoute(k)]
  /\ rtSince' = [rtSince EXCEPT ![k] = {}]
  /\ UNCHANGED <<rtStrategy, rtShards, rtRing, rtRanges>>

RTNext ==
  \/ \E s \in RTShards : \/ \E b \in RTBounds : RTAdd(s, b[1], b[2])
                         \/ RTRemove(s)
  \/ RTReload
  \/ \E k \in RTKeys : RTPut(k)

RTSpec == RTInit /\ [][RTNext]_rtVars

-----------------------------------------------------------------------------
(* Properties. *)

\* Every variable has its type; ring, ranges and shards name the same shards.
RTTypeOK ==
  /\ rtStrategy \in {"hash", "range"}
  /\ rtShards \in Seq(RTShards) /\ Len(rtShards) = Cardinality(ToSet(rtShards))
  /\ rtRing = IF rtStrategy = "hash" THEN UNION {RTNodes[s] : s \in ToSet(rtShards)} ELSE {}
  /\ rtRanges \in Seq([lo : Nat, hi : Nat, shard : RTShards])
  /\ {rtRanges[i].shard : i \in DOMAIN rtRanges}
       = IF rtStrategy = "range" THEN ToSet(rtShards) ELSE {}
  /\ rtStored \in [RTKeys -> RTShards \cup {RTNone}]
  /\ rtSince \in [RTKeys -> SUBSET RTShards]

\* A key is looked for where it was written, whatever was added and removed, unless
\* its shard is gone or the shard it is routed to was added after the write: a
\* change of the shards moves no key between the others.
RTStable ==
  \A k \in RTKeys :
    rtStored[k] # RTNone /\ RTRoutes
      => RTRoute(k) = rtStored[k] \/ RTRoute(k) \in rtSince[k]

-----------------------------------------------------------------------------
(***************************************************************************)
(* VectorClock and ConflictResolver of replication.py, and check_conflict, *)
(* which asks them whether an entry of the master's binlog is older than   *)
(* the row it is to change.  Servers that write stamp what they write with *)
(* their clock, and merge the clocks of what they receive, in any order.   *)
(* The strategy 'hash', an order of the entries' texts, is left out.       *)
(***************************************************************************)

CONSTANTS
  VKServers,  \* server ids
  VKMaxTicks, \* bound: increments of a server
  VKStamps,   \* timestamps: the servers' clocks may differ
  VKEntries   \* bound: entries written

VARIABLES
  vkClock,    \* server |-> its VectorClock: server |-> number, for the servers it has heard of
  vkSent,     \* the entries written: [server_id, clock, timestamp, known]
  vkKnown     \* history: server |-> the increments that it knows of

vkVars == <<vkClock, vkSent, vkKnown>>

ASSUME VKAssumption == VKServers \subseteq Nat /\ VKMaxTicks \in Nat /\ VKEntries \in Nat /\ VKStamps \subseteq Nat \ {0}

\* float('inf'): more than any server id.
VKNoServer == 99

VKInit ==
  /\ vkClock = [s \in VKServers |-> [t \in {s} |-> 0]]
  /\ vkSent = {} /\ vkKnown = [s \in VKServers |-> {}]

VKOf(clock, s) == IF s \in DOMAIN clock THEN clock[s] ELSE 0

\* A server increments its clock and writes an entry with it.
VKWrite(s) ==
  /\ vkClock[s][s] < VKMaxTicks /\ Cardinality(vkSent) < VKEntries
  /\ vkClock' = [vkClock EXCEPT ![s][s] = @ + 1]
  /\ vkKnown' = [vkKnown EXCEPT ![s] = @ \cup {<<s, vkClock[s][s] + 1>>}]
  /\ \E time \in VKStamps :
       vkSent' = vkSent \cup {[server_id |-> s, clock |-> vkClock'[s], timestamp |-> time, known |-> vkKnown'[s]]}

\* Mutant of VKMerged: the numbers are added up.
VKMergedSum(clock, other) == [s \in DOMAIN clock \cup DOMAIN other |-> VKOf(clock, s) + VKOf(other, s)]

\* merge.
VKMerged(clock, other) ==
  [s \in DOMAIN clock \cup DOMAIN other |->
     IF s \in DOMAIN other /\ other[s] > VKOf(clock, s) THEN other[s] ELSE VKOf(clock, s)]

VKReceive(s, e) ==
  /\ vkClock' = [vkClock EXCEPT ![s] = VKMerged(@, e.clock)]
  /\ vkKnown' = [vkKnown EXCEPT ![s] = @ \cup e.known]
  /\ UNCHANGED vkSent

VKNext == \E s \in VKServers : VKWrite(s) \/ \E e \in vkSent : VKReceive(s, e)

-----------------------------------------------------------------------------
(* Comparing and resolving. *)

\* Mutant of VKServersOf: servers only the other clock has are not looked at.
VKServersOfFirst(clock, other) == DOMAIN clock

VKServersOf(clock, other) == DOMAIN clock \cup DOMAIN other

VKAhead(clock, other) == \E s \in VKServersOf(clock, other) : VKOf(clock, s) > VKOf(other, s)

VKBehind(clock, other) == \E s \in VKServersOf(clock, other) : VKOf(other, s) > VKOf(clock, s)

\* compare: "concurrent" is also what equal clocks are.
VKCompare(clock, other) ==
  IF VKAhead(clock, other) /\ ~VKBehind(clock, other) THEN "after"
  ELSE IF VKBehind(clock, other) /\ ~VKAhead(clock, other) THEN "before" ELSE "concurrent"

\* Mutant of VKLocalWins: the server with the lower id keeps the remote entry.
VKLocalWinsOwn(local, remote, strategy) ==
  IF strategy = "last_write_wins" THEN local.timestamp >= remote.timestamp ELSE TRUE

\* _apply_strategy; the two of its strategies that look at the entries, and the default.
VKLocalWins(local, remote, strategy) ==
  CASE strategy = "last_write_wins"    -> local.timestamp >= remote.timestamp
    [] strategy = "server_id_priority" -> local.server_id < remote.server_id
    [] OTHER                           -> TRUE

\* resolve.
VKResolve(local, remote, strategy) ==
  LET order == VKCompare(local.clock, remote.clock) IN
  IF order = "after" \/ (order = "concurrent" /\ VKLocalWins(local, remote, strategy)) THEN local ELSE remote

\* Mutant of VKConflicts: a concurrent write is a conflict too.
VKConflictsMore(row, e) == VKCompare(row.clock, e.clock) # "before"

\* check_conflict, for a row written by the entry row.
VKConflicts(row, e) == VKCompare(row.clock, e.clock) = "after"

\* What the resolver is given for the row: its clock, no time, and no server id, which counts as infinite.
VKConflict(row) == [clock |-> row.clock, timestamp |-> 0, server_id |-> VKNoServer]

\* apply_entry leaves the entry out.
VKSkips(row, e, strategy) == VKConflicts(row, e) /\ VKResolve(VKConflict(row), e, strategy) # e

-----------------------------------------------------------------------------
(* Properties. *)

\* Every variable has its type, and no server is further in another's clock than in its own.
VKTypeOK ==
  /\ vkClock \in [VKServers -> UNION {[S -> 0..VKMaxTicks] : S \in SUBSET VKServers}]
  /\ \A s \in VKServers, t \in VKServers : s \in DOMAIN vkClock[s] /\ VKOf(vkClock[s], t) <= vkClock[t][t]
  /\ Cardinality(vkSent) <= VKEntries

\* Clocks compare as what their servers knew: one is after another exactly if it knew all of it and more.
VKCausal ==
  \A e \in vkSent, f \in vkSent :
    /\ VKCompare(e.clock, f.clock) = "after" <=> f.known \subseteq e.known /\ f.known # e.known
    /\ VKCompare(e.clock, f.clock) = "before" <=> e.known \subseteq f.known /\ f.known # e.known

\* Two servers that have each an entry of their own and receive the other's settle on the same one:
\* by server id always, by time unless the entries have the same.
VKAgree ==
  \A e \in vkSent, f \in vkSent :
    /\ VKResolve(e, f, "server_id_priority") = VKResolve(f, e, "server_id_priority")
    /\ e.timestamp # f.timestamp => VKResolve(e, f, "last_write_wins") = VKResolve(f, e, "last_write_wins")

\* Of the entries of two servers the same one is left, in whatever order they are resolved, by server id.
\* (Of three servers' not: the second is after the first, and the third, concurrent with both, between them.)
VKSettles ==
  \A e \in vkSent, f \in vkSent, g \in vkSent :
    Cardinality({e.server_id, f.server_id, g.server_id}) <= 2 =>
      LET win(local, remote) == VKResolve(local, remote, "server_id_priority")
      IN  win(win(e, f), g) = win(win(g, e), f)

\* An entry is left out exactly if the row was written by a server that knew of it, and of more.
VKSkipsOld ==
  \A row \in vkSent, e \in vkSent, strategy \in {"last_write_wins", "server_id_priority", "none"} :
    VKSkips(row, e, strategy) <=> e.known \subseteq row.known /\ e.known # row.known
=============================================================================
