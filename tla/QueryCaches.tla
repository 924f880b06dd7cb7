---------------------------- MODULE QueryCaches -----------------------------
(***************************************************************************)
(* What is kept of queries: the results of query_cache.py, the plans of    *)
(* query_plan_cache.py, and the plans and statistics of query_optimizer.py.*)
(***************************************************************************)
EXTENDS Naturals, Sequences, FiniteSets, SequencesExt, Subsequences

(***************************************************************************)
(* The cache of query results (query_cache.py): an LRU list under a lock,  *)
(* and CachedQueryExecutor.execute, which looks into the cache, runs the   *)
(* query and stores the result in three steps, the lock free in between.   *)
(*                                                                         *)
(* A result is the version of each table the query read.  Nothing in the   *)
(* repository calls invalidate_table: the caller that writes to the        *)
(* database and then invalidates is external.  Whether an entry has        *)
(* outlived its ttl is a choice of the step that looks.                    *)
(***************************************************************************)

CONSTANTS
  RCTables, RCQueries, RCReaders,
  RCKey,        \* [RCQueries -> keys]: the hash of the lower-cased text
  RCReads,      \* [RCQueries -> SUBSET RCTables]: the tables a query reads
  RCMentions,   \* and those whose name is a substring of its text
  RCMaxSize,    \* max_size
  RCMaxVersion  \* bound: writes per table

ASSUME RCAssumption ==
  /\ RCMaxSize \in Nat \ {0} /\ RCMaxVersion \in Nat
  /\ \A q \in RCQueries : RCReads[q] \subseteq RCMentions[q] \cap RCTables

VARIABLES
  rcData,     \* the version of each table
  rcCache,    \* _cache, oldest first: [query, seen, late], late being history
  rcEnabled,  \* _enabled
  rcPc,       \* per reader: "out", "running" (missed) or "storing"
  rcQuery,    \* per reader: its query
  rcSeen,     \* per reader: the versions its query saw
  rcLate,     \* history, per reader: the tables invalidated since it ran its query
  rcDirty,    \* tables written and not yet invalidated
  rcFlushed   \* history: the version of each table when it was last invalidated

rcVars == <<rcData, rcCache, rcEnabled, rcPc, rcQuery, rcSeen, rcLate, rcDirty, rcFlushed>>

RCNone == [t \in RCTables |-> 0]

RCInit ==
  /\ rcData = RCNone /\ rcFlushed = RCNone /\ rcDirty = {}
  /\ rcCache = <<>> /\ rcEnabled = TRUE
  /\ rcPc = [r \in RCReaders |-> "out"]
  /\ rcQuery \in [RCReaders -> {CHOOSE q \in RCQueries : TRUE}]
  /\ rcSeen = [r \in RCReaders |-> RCNone] /\ rcLate = [r \in RCReaders |-> {}]

-----------------------------------------------------------------------------
(* QueryCache. *)

RCHas(e, q) == RCKey[e.query] = RCKey[q]

RCFound(cache, q) == Kept(cache, {i \in DOMAIN cache : RCHas(cache[i], q)})

RCWithout(cache, q) == Kept(cache, {i \in DOMAIN cache : ~RCHas(cache[i], q)})

\* get: an expired entry goes, a hit moves to the end.
RCGet(q, hit) ==
  LET found == RCFound(rcCache, q)
  IN  IF ~rcEnabled \/ found = <<>> THEN hit = FALSE /\ UNCHANGED rcCache
      ELSE rcCache' = RCWithout(rcCache, q) \o (IF hit THEN found ELSE <<>>)

\* Mutant of RCMakeRoom: compares after the new entry's place was taken.
RCMakeRoomLate(cache) ==
  IF Len(cache) > RCMaxSize THEN SubSeq(cache, Len(cache) - RCMaxSize + 1, Len(cache))
  ELSE cache

\* The oldest go while the cache is full, also when the key is there already.
RCMakeRoom(cache) ==
  IF Len(cache) < RCMaxSize THEN cache
  ELSE SubSeq(cache, Len(cache) - RCMaxSize + 2, Len(cache))

\* put: a key that is still there keeps its place in the OrderedDict.
RCPut(entry) ==
  LET room == RCMakeRoom(rcCache)
      at   == {i \in DOMAIN room : RCHas(room[i], entry.query)}
  IN  rcCache' = IF at = {} THEN Append(room, entry)
                 ELSE [i \in DOMAIN room |-> IF i \in at THEN entry ELSE room[i]]

\* Mutant of RCDrops: nothing is dropped while caching is off.
RCDropsEnabled(t, e) == rcEnabled /\ t \in RCMentions[e.query]

\* invalidate(table_name): entries whose text contains the table's name.
RCDrops(t, e) == t \in RCMentions[e.query]

-----------------------------------------------------------------------------
(* CachedQueryExecutor.execute. *)

\* A hit is returned; a miss goes on to the database.
RCLookUp(r, q, hit) ==
  /\ rcPc[r] = "out"
  /\ RCGet(q, hit)
  /\ IF hit THEN UNCHANGED <<rcQuery, rcPc>>
     ELSE /\ rcQuery' = [rcQuery EXCEPT ![r] = q]
          /\ rcPc' = [rcPc EXCEPT ![r] = "running"]
  /\ UNCHANGED <<rcData, rcEnabled, rcSeen, rcLate, rcDirty, rcFlushed>>

RCRun(r) ==
  /\ rcPc[r] = "running"
  /\ rcPc' = [rcPc EXCEPT ![r] = "storing"]
  /\ rcSeen' = [rcSeen EXCEPT ![r] = rcData]
  /\ UNCHANGED <<rcData, rcCache, rcEnabled, rcQuery, rcLate, rcDirty, rcFlushed>>

RCStore(r) ==
  /\ rcPc[r] = "storing"
  /\ rcPc' = [rcPc EXCEPT ![r] = "out"]
  /\ IF rcEnabled
     THEN RCPut([query |-> rcQuery[r], seen |-> rcSeen[r], late |-> rcLate[r]])
     ELSE UNCHANGED rcCache
  /\ rcSeen' = [rcSeen EXCEPT ![r] = RCNone]
  /\ rcLate' = [rcLate EXCEPT ![r] = {}]
  /\ UNCHANGED <<rcData, rcEnabled, rcQuery, rcDirty, rcFlushed>>

\* The caller's write, and invalidate_table after it.
RCWrite(t) ==
  /\ rcData[t] < RCMaxVersion
  /\ rcData' = [rcData EXCEPT ![t] = @ + 1]
  /\ rcDirty' = rcDirty \cup {t}
  /\ UNCHANGED <<rcCache, rcEnabled, rcPc, rcQuery, rcSeen, rcLate, rcFlushed>>

RCInvalidate(t) ==
  /\ t \in rcDirty
  /\ rcCache' = Kept(rcCache, {i \in DOMAIN rcCache : ~RCDrops(t, rcCache[i])})
  /\ rcDirty' = rcDirty \ {t}
  /\ rcFlushed' = [rcFlushed EXCEPT ![t] = rcData[t]]
  /\ rcLate' = [r \in RCReaders |->
                  IF rcPc[r] = "storing" THEN rcLate[r] \cup {t} ELSE rcLate[r]]
  /\ UNCHANGED <<rcData, rcEnabled, rcPc, rcQuery, rcSeen>>

\* enable, disable: the entries stay.
RCSwitch ==
  /\ rcEnabled' = ~rcEnabled
  /\ UNCHANGED <<rcData, rcCache, rcPc, rcQuery, rcSeen, rcLate, rcDirty, rcFlushed>>

\* clear, and invalidate without an argument.
RCClear ==
  /\ rcCache' = <<>>
  /\ UNCHANGED <<rcData, rcEnabled, rcPc, rcQuery, rcSeen, rcLate, rcDirty, rcFlushed>>

RCNext ==
  \/ \E r \in RCReaders :
       \/ \E q \in RCQueries, hit \in BOOLEAN : RCLookUp(r, q, hit)
       \/ RCRun(r) \/ RCStore(r)
  \/ \E t \in RCTables : RCWrite(t) \/ RCInvalidate(t)
  \/ RCSwitch \/ RCClear

RCSpec == RCInit /\ [][RCNext]_rcVars

-----------------------------------------------------------------------------
(* Properties. *)

RCVersions == [RCTables -> 0..RCMaxVersion]

RCEntries == [query : RCQueries, seen : RCVersions, late : SUBSET RCTables]

\* Every variable has its type; the cache holds at most max_size entries, one for
\* each key (QueryCache.put, lines 122-133).
RCTypeOK ==
  /\ rcData \in RCVersions /\ rcFlushed \in RCVersions
  /\ rcCache \in Seq(RCEntries) /\ Len(rcCache) <= RCMaxSize
  /\ \A i, j \in DOMAIN rcCache : RCHas(rcCache[i], rcCache[j].query) => i = j
  /\ rcEnabled \in BOOLEAN /\ rcDirty \subseteq RCTables
  /\ rcPc \in [RCReaders -> {"out", "running", "storing"}]
  /\ rcQuery \in [RCReaders -> RCQueries]
  /\ rcSeen \in [RCReaders -> RCVersions] /\ rcLate \in [RCReaders -> SUBSET RCTables]

\* After a write and its invalidation no entry shows the table as it was before,
\* whether the cache was on or off in between, unless the query ran before the
\* invalidation and its result was stored after it: put does not look whether the
\* table was invalidated while the query ran.
RCFresh ==
  \A i \in DOMAIN rcCache : LET e == rcCache[i] IN
    \A t \in RCReads[e.query] : e.seen[t] < rcFlushed[t] => t \in e.late

-----------------------------------------------------------------------------
(***************************************************************************)
(* The cache of parsed plans (query_plan_cache.py): an LRU list of plans   *)
(* and an index from each table to the plans that depend on it, kept       *)
(* together under one lock.  A plan is its key and its tables.  The        *)
(* callers' threads need no state: every operation is one locked section.  *)
(***************************************************************************)

CONSTANTS
  PCKeys,      \* hashes of query texts
  PCTables,
  PCCapacity   \* capacity

ASSUME PCAssumption == PCCapacity \in Nat \ {0}

VARIABLES
  pcPlans,   \* _cache, oldest first: a sequence of [key, tables]
  pcIndex    \* _table_index: the keys of each table, {} for a table that is not in it

pcVars == <<pcPlans, pcIndex>>

PCInit == pcPlans = <<>> /\ pcIndex = [t \in PCTables |-> {}]

PCKeysOf(plans) == {plans[i].key : i \in DOMAIN plans}

PCWithout(plans, keys) == Kept(plans, {i \in DOMAIN plans : plans[i].key \notin keys})

\* Mutant of PCUnlink: _evict forgets only the first of the plan's tables.
PCUnlinkOne(index, plan) ==
  LET one == CHOOSE t \in plan.tables : TRUE
  IN  IF plan.tables = {} THEN index ELSE [index EXCEPT ![one] = @ \ {plan.key}]

\* _evict: the index forgets the plan's tables, of which a former plan of the same
\* text may have had others.
PCUnlink(index, plan) ==
  [t \in PCTables |-> IF t \in plan.tables THEN index[t] \ {plan.key} ELSE index[t]]

\* get that finds the plan too old.
PCExpire(k) ==
  \E i \in DOMAIN pcPlans :
    /\ pcPlans[i].key = k
    /\ pcIndex' = PCUnlink(pcIndex, pcPlans[i])
    /\ pcPlans' = PCWithout(pcPlans, {k})

\* get: a hit becomes the youngest.
PCHit(k) ==
  \E i \in DOMAIN pcPlans :
    /\ pcPlans[i].key = k
    /\ pcPlans' = Append(PCWithout(pcPlans, {k}), pcPlans[i])
    /\ UNCHANGED pcIndex

\* Mutant of PCLink: only tables that are not in the index yet are entered.
PCLinkNew(index, k, tables) ==
  [t \in PCTables |-> IF t \in tables /\ index[t] = {} THEN {k} ELSE index[t]]

PCLink(index, k, tables) ==
  [t \in PCTables |-> IF t \in tables THEN index[t] \cup {k} ELSE index[t]]

\* Mutant of PCCrowded: lets the cache grow by one.
PCCrowdedLate(k) == Len(pcPlans) > PCCapacity /\ k \notin PCKeysOf(pcPlans)

PCCrowded(k) == Len(pcPlans) >= PCCapacity /\ k \notin PCKeysOf(pcPlans)

\* put: _evict_lru removes the oldest key from every table, then the plan is added,
\* or put in the place of the one with its key.
PCPut(k, tables) ==
  LET oldest == IF PCCrowded(k) THEN {Head(pcPlans).key} ELSE {}
      left   == PCWithout(pcPlans, oldest)
      plan   == [key |-> k, tables |-> tables]
  IN  /\ pcPlans' = IF k \in PCKeysOf(left)
                    THEN [i \in DOMAIN left |-> IF left[i].key = k THEN plan ELSE left[i]]
                    ELSE Append(left, plan)
      /\ pcIndex' = PCLink([t \in PCTables |-> pcIndex[t] \ oldest], k, tables)

\* invalidate_table evicts every key of the table: all of its plan's tables forget it.
PCInvalidate(t) ==
  LET gone == pcIndex[t]
      deps(k) == UNION {pcPlans[i].tables : i \in {j \in DOMAIN pcPlans : pcPlans[j].key = k}}
  IN  /\ pcPlans' = PCWithout(pcPlans, gone)
      /\ pcIndex' = [u \in PCTables |-> {k \in pcIndex[u] : k \notin gone \/ u \notin deps(k)}]

\* invalidate_all, disable.
PCInvalidateAll == pcPlans' = <<>> /\ pcIndex' = [t \in PCTables |-> {}]

PCNext ==
  \/ \E k \in PCKeys : \/ PCHit(k) \/ PCExpire(k)
                       \/ \E tables \in SUBSET PCTables : PCPut(k, tables)
  \/ \E t \in PCTables : PCInvalidate(t)
  \/ PCInvalidateAll

PCSpec == PCInit /\ [][PCNext]_pcVars

-----------------------------------------------------------------------------
(* Properties. *)

\* Every variable has its type; at most capacity plans, one per key.
PCTypeOK ==
  /\ pcPlans \in Seq([key : PCKeys, tables : SUBSET PCTables])
  /\ Len(pcPlans) <= PCCapacity
  /\ \A i, j \in DOMAIN pcPlans : pcPlans[i].key = pcPlans[j].key => i = j
  /\ pcIndex \in [PCTables -> SUBSET PCKeys]

\* invalidate_table finds every plan it must drop: a cached plan is in the index
\* under each of its tables, whatever was evicted, replaced or expired before.
PCIndexed ==
  \A i \in DOMAIN pcPlans : \A t \in pcPlans[i].tables : pcPlans[i].key \in pcIndex[t]

-----------------------------------------------------------------------------
(***************************************************************************)
(* query_optimizer.py: plans from the statistics of the tables, their      *)
(* estimated costs and rows, and the cache of plans.  A query is the       *)
(* record its parser makes; every plan is a chain of operators, here the   *)
(* sequence from the root to the scan.  Costs are counted in units of      *)
(* 0.00005; the logarithm of a sort's cost is rounded down.                *)
(***************************************************************************)

CONSTANTS
  QPTables,
  QPQueries, \* [kind, table, column, op, value, order, limit]: op "" without WHERE, limit 9 without LIMIT
  QPLower,   \* of each value: its lower case
  QPStatistics, \* what a table's statistics may be: [rows, distinct, indexed]
  QPCalls    \* bound: queries optimized

ASSUME QPAssumption ==
  /\ QPCalls \in Nat
  /\ \A s \in QPStatistics : s.rows \in Nat /\ s.distinct \in Nat
  /\ \A q \in QPQueries : /\ DOMAIN q = {"kind", "table", "column", "op", "value", "order", "limit"}
                          /\ q.kind \in {"SELECT", "INSERT", "UPDATE", "DELETE"} /\ q.limit \in Nat
                          /\ q.kind = "INSERT" => q.op = ""

VARIABLES
  qpStatistics, \* of the tables that have them
  qpCache,      \* plan_cache, by key
  qpHits, qpMisses,
  qpAnswer,     \* the last query and the plan that was returned
  qpStale,      \* history: the keys whose table got other statistics since their plan was made
  qpMixed       \* history: the keys that were asked for with values of another case

qpVars == <<qpStatistics, qpCache, qpHits, qpMisses, qpAnswer, qpStale, qpMixed>>

QPInit ==
  /\ qpStatistics = <<>> /\ qpCache = <<>> /\ qpHits = 0 /\ qpMisses = 0
  /\ qpAnswer = <<>> /\ qpStale = {} /\ qpMixed = {}

-----------------------------------------------------------------------------
(* The cost model. *)

QPLeast(m, n) == IF m < n THEN m ELSE n
QPMost(m, n) == IF m < n THEN n ELSE m

\* min(1, 1/distinct) of the rows, at least one.
QPMatching(s) == IF s.distinct = 0 THEN QPMost(1, s.rows) ELSE QPMost(1, s.rows \div s.distinct)

\* The index is used for an equality on its column, whatever it costs.
QPUsesIndex(q) == q.op = "=" /\ q.table \in DOMAIN qpStatistics /\ q.column \in qpStatistics[q.table].indexed

QPScan(q) ==
  IF q.table \notin DOMAIN qpStatistics THEN [op |-> "SCAN", cost |-> 200000, rows |-> 1000, about |-> ""]
  ELSE LET s == qpStatistics[q.table]
           n == QPMatching(s)
       IN  IF QPUsesIndex(q)
           THEN [op |-> "INDEX_SCAN", cost |-> QPMost(80000, 800 * n) + 300 * n, rows |-> n, about |-> q.column]
           ELSE [op |-> "SCAN", cost |-> QPMost(20000, 200 * s.rows) + 200 * s.rows, rows |-> s.rows, about |-> ""]

\* Mutant of QPPassing: no rows are expected of a small input.
QPPassingNone(q, rows) == IF q.op = "=" THEN rows \div 100 ELSE (3 * rows) \div 10

\* One row of a hundred passes an equality, three of ten a comparison, one at least.
QPPassing(q, rows) == QPMost(1, IF q.op = "=" THEN rows \div 100 ELSE (3 * rows) \div 10)

QPFiltered(q) ==
  LET scan == QPScan(q)
  IN  IF q.op = "" THEN <<scan>>
      ELSE <<[op |-> "SELECT", cost |-> 50 * scan.rows, rows |-> QPPassing(q, scan.rows), about |-> <<q.column, q.op, q.value>>], scan>>

QPLog(n) == LET f[k \in Nat] == IF k < 2 THEN 0 ELSE 1 + f[k \div 2] IN f[QPMost(2, n)]

QPProjected(q) ==
  LET below == QPFiltered(q)
  IN  <<[op |-> "PROJECT", cost |-> Head(below).cost + 100 * Head(below).rows, rows |-> Head(below).rows, about |-> ""]>> \o below

\* A sort's cost leaves out what is below it.
QPSorted(q) ==
  LET below == QPProjected(q)
      n == Head(below).rows
  IN  IF q.order THEN <<[op |-> "SORT", cost |-> 50 * n * QPLog(n), rows |-> n, about |-> ""]>> \o below ELSE below

QPLimited(q) ==
  LET below == QPSorted(q)
  IN  IF q.limit = 9 THEN below
      ELSE <<[op |-> "LIMIT", cost |-> Head(below).cost + 50, rows |-> QPLeast(q.limit, Head(below).rows), about |-> ""]>> \o below

\* An update or a deletion, over the rows it finds.
QPChange(q, each) ==
  LET below == QPFiltered(q)
  IN  <<[op |-> q.kind, cost |-> Head(below).cost + each * Head(below).rows, rows |-> Head(below).rows, about |-> ""]>> \o below

\* An insertion reads nothing.
QPInsert == [op |-> "INSERT", cost |-> 20200, rows |-> 1, about |-> ""]

QPChain(q) ==
  CASE q.kind = "SELECT" -> QPLimited(q)
    [] q.kind = "INSERT" -> <<QPInsert>>
    [] q.kind = "UPDATE" -> QPChange(q, 400)
    [] q.kind = "DELETE" -> QPChange(q, 200)

\* The total cost, which is the sum over the chain only for a SELECT.
QPTotal(q) ==
  IF q.kind = "SELECT" THEN FoldLeft(LAMBDA sum, o : sum + o.cost, 0, QPChain(q)) ELSE Head(QPChain(q)).cost

QPPlan(q) == [chain |-> QPChain(q), rows |-> Head(QPChain(q)).rows, total |-> QPTotal(q)]

-----------------------------------------------------------------------------
(* The optimizer. *)

\* Mutant of QPKey: the kind of statement is left out.
QPKeyLoose(q) == [q EXCEPT !.kind = "", !.value = QPLower[q.value]]

\* The key: the query in lower case.
QPKey(q) == [q EXCEPT !.value = QPLower[q.value]]

\* Mutant of QPCounted: only what does not go into the cache counts as a miss.
QPCountedUsed(hit, use) == [hits |-> IF hit THEN 1 ELSE 0, misses |-> IF use THEN 0 ELSE 1]

QPCounted(hit, use) == [hits |-> IF hit THEN 1 ELSE 0, misses |-> IF hit THEN 0 ELSE 1]

QPAddStatistics(t, s) ==
  /\ qpStatistics' = [u \in DOMAIN qpStatistics \cup {t} |-> IF u = t THEN s ELSE qpStatistics[u]]
  /\ qpStale' = IF qpStatistics' = qpStatistics THEN qpStale ELSE qpStale \cup {k \in DOMAIN qpCache : k.table = t}
  /\ UNCHANGED <<qpCache, qpHits, qpMisses, qpAnswer, qpMixed>>

\* optimize, with the cache or without.
QPOptimize(q, use) ==
  LET k   == QPKey(q)
      hit == use /\ k \in DOMAIN qpCache
  IN  /\ qpHits + qpMisses < QPCalls
      /\ qpHits' = qpHits + QPCounted(hit, use).hits /\ qpMisses' = qpMisses + QPCounted(hit, use).misses
      /\ qpAnswer' = <<q, IF hit THEN qpCache[k] ELSE QPPlan(q)>>
      /\ qpCache' = IF use THEN [l \in DOMAIN qpCache \cup {k} |-> IF l = k THEN qpAnswer'[2] ELSE qpCache[l]] ELSE qpCache
      /\ qpStale' = IF hit \/ ~use THEN qpStale ELSE qpStale \ {k}
      /\ qpMixed' = IF q.value # QPLower[q.value] THEN qpMixed \cup {k} ELSE qpMixed
      /\ UNCHANGED qpStatistics

QPClear ==
  /\ qpCache # <<>> /\ qpCache' = <<>> /\ qpHits' = 0 /\ qpMisses' = 0 /\ qpStale' = {} /\ qpMixed' = {}
  /\ UNCHANGED <<qpStatistics, qpAnswer>>

QPNext ==
  \/ \E t \in QPTables, s \in QPStatistics : QPAddStatistics(t, s)
  \/ \E q \in QPQueries, use \in BOOLEAN : QPOptimize(q, use)
  \/ QPClear

-----------------------------------------------------------------------------
(* Properties. *)

\* Every variable has its type; a plan is cached for a miss, and each key has one.
QPTypeOK ==
  /\ DOMAIN qpStatistics \subseteq QPTables /\ \A t \in DOMAIN qpStatistics : qpStatistics[t] \in QPStatistics
  /\ DOMAIN qpCache \subseteq {QPKey(q) : q \in QPQueries} /\ qpStale \subseteq DOMAIN qpCache
  /\ qpHits + qpMisses \in 0..QPCalls /\ Cardinality(DOMAIN qpCache) <= qpMisses

\* The estimates of the plan a query got, whatever the statistics: going up from the scan the rows
\* do not grow, but from none to the one a filter expects at least; and with a filter and no LIMIT 0
\* some row is expected.
QPEstimates ==
  qpAnswer # <<>> =>
    LET q == qpAnswer[1]
        plan == qpAnswer[2]
    IN  /\ \A n \in 1..(Len(plan.chain) - 1) : plan.chain[n].rows <= QPMost(plan.chain[n + 1].rows, 1)
        /\ q.op # "" /\ q.limit # 0 => plan.rows >= 1

\* A plan, from the cache or not, is the one the query gets from the statistics of now; unless
\* those changed since it was cached, or the values of the queries differ in their case.
QPFits ==
  [][qpAnswer' # qpAnswer =>
       LET q == qpAnswer'[1] IN qpAnswer'[2] = QPPlan(q) \/ QPKey(q) \in qpStale \cup qpMixed']_qpVars
=============================================================================
