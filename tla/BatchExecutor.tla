--------------------------- MODULE BatchExecutor ---------------------------
(***************************************************************************)
(* The batch executor (batch_executor.py) with its own cache of SELECT     *)
(* results (batch_query_cache.py): one batch at a time, under one of the   *)
(* three error modes.                                                      *)
(*                                                                         *)
(* The command registry is external: a command returns a response, which   *)
(* may say ERROR, or raises; only then may it have done a part of its      *)
(* work.  A table's contents are the number of statements that changed it. *)
(* The parsed commands that CommandCache keeps, a history nobody records   *)
(* and the metrics are left out.                                           *)
(***************************************************************************)
EXTENDS Naturals, Sequences, FiniteSets, Subsequences

CONSTANTS
  BETables,
  BEQueries,   \* the texts of SELECTs
  BEStatements, \* those of statements that change a table, as WARM CACHE FOR may be given
  BEReads,     \* of each text, the tables after FROM and JOIN
  BETarget,    \* of each statement, the table that it changes
  BEMaxSize,   \* batch_query_cache_size
  BEMaxLen,    \* bound: commands in a batch
  BEMaxWrites  \* bound: changes of a table

BETexts == BEQueries \cup BEStatements

ASSUME BEAssumption ==
  /\ BEMaxSize \in Nat \ {0} /\ BEMaxLen \in Nat /\ BEMaxWrites \in Nat
  /\ BEReads \in [BETexts -> SUBSET BETables] /\ BETarget \in [BEStatements -> BETables]

VARIABLES
  beData,     \* the contents of each table
  beCache,    \* _cache in the order of the timestamps: [query, seen, error], seen being the
              \* contents of the tables it reads
  beIndex,    \* _table_index
  beMode,     \* the running batch's error mode, "" between batches
  beResults,  \* its BatchResults: [status, error], error being the response's
  beReturned  \* history: the contents after the last DML command of a batch that returned

beVars == <<beData, beCache, beIndex, beMode, beResults, beReturned>>

BEInit ==
  /\ beData = [t \in BETables |-> 0] /\ beReturned = beData
  /\ beCache = <<>> /\ beIndex = [t \in BETables |-> {}]
  /\ beMode = "" /\ beResults = <<>>

-----------------------------------------------------------------------------
(* BatchQueryCache. *)

BEWithout(cache, qs) == Kept(cache, {i \in DOMAIN cache : cache[i].query \notin qs})

\* get, of an entry that has not outlived its ttl: an old one stays where it is.
BEFound(q) == {i \in DOMAIN beCache : beCache[i].query = q}

\* Mutant of BEFull: compares after the new entry's place was taken.
BEFullLate == Len(beCache) > BEMaxSize

BEFull == Len(beCache) >= BEMaxSize

\* put: a full cache first drops its oldest entry, also when it holds the query, and takes
\* it from the lists of all its tables; the new one is listed under each of its own.
BEPut(q, data, error) ==
  LET oldest == IF BEFull THEN {Head(beCache).query} ELSE {}
      entry  == [query |-> q, seen |-> [t \in BEReads[q] |-> data[t]], error |-> error]
  IN  /\ beCache' = Append(BEWithout(beCache, oldest \cup {q}), entry)
      /\ beIndex' = [t \in BETables |-> (beIndex[t] \ {o \in oldest : t \in BEReads[o]})
                                         \cup {r \in {q} : t \in BEReads[r]}]

\* Mutant of BEDropped: only the table's oldest result is dropped.
BEDroppedOne(t) ==
  {q \in beIndex[t] : \A i \in BEFound(q) : \A j \in 1..(i - 1) : beCache[j].query \notin beIndex[t]}

\* invalidate: what the index lists under the table, and may be gone from the cache.  The
\* lists of the other tables that it reads keep it.
BEDropped(t) == beIndex[t]

BEInvalidate(t) ==
  /\ beCache' = BEWithout(beCache, BEDropped(t))
  /\ beIndex' = [beIndex EXCEPT ![t] = {}]

-----------------------------------------------------------------------------
(* One command of a batch: _execute_single_command. *)

BEErrors == {i \in DOMAIN beResults : beResults[i].status = "ERROR"}

\* Mutant of BEGoesOn: rollback_all is treated as continue.
BEGoesOnMore == beMode \in {"continue", "rollback_all"} \/ BEErrors = {}

\* _execute_stop_on_error and _execute_rollback_all break at the first ERROR.
BEGoesOn == beMode = "continue" \/ BEErrors = {}

BEMore == beMode # "" /\ Len(beResults) < BEMaxLen /\ BEGoesOn

BEStatus(error) == IF error THEN "ERROR" ELSE "OK"

BEReports(status, error) ==
  beResults' = Append(beResults, [status |-> status, error |-> error])

\* A cached response is reported as OK, whatever it says.
BESelectHit(q) ==
  /\ BEMore
  /\ \E i \in BEFound(q) : BEReports("OK", beCache[i].error)
  /\ UNCHANGED <<beData, beCache, beIndex, beMode, beReturned>>

\* The response is cached, also if it is an error.  store is FALSE for NOCACHE and
\* for a registry that raises.
BESelectMiss(q, error, store) ==
  /\ BEMore
  /\ IF store THEN BEPut(q, beData, error)
              ELSE UNCHANGED <<beCache, beIndex>>
  /\ BEReports(BEStatus(error), error)
  /\ UNCHANGED <<beData, beMode, beReturned>>

BEChange(t) == beData' = [beData EXCEPT ![t] = @ + 1]

\* WARM CACHE FOR a text: executed, whatever it is, and put, whatever the registry says;
\* reported as OK.  If it raises, nothing is put (BERefused, BEOther).
BEWarm(q, error) ==
  /\ BEMore
  /\ q \in BEStatements => error
  /\ BEPut(q, beData, error)
  /\ BEReports("OK", FALSE)
  /\ UNCHANGED <<beData, beMode, beReturned>>

\* The text changes a table, and nothing is invalidated.
BEWarmChange(s) ==
  /\ BEMore
  /\ beData[BETarget[s]] < BEMaxWrites /\ BEChange(BETarget[s])
  /\ BEPut(s, beData', FALSE)
  /\ BEReports("OK", FALSE)
  /\ UNCHANGED <<beMode, beReturned>>

\* INSERT, UPDATE, DELETE, TRUNCATE.  The cache is invalidated after the statement,
\* successful or not.
BEDml(t, error) ==
  /\ BEMore
  /\ IF error THEN UNCHANGED <<beData, beReturned>>
     ELSE /\ beData[t] < BEMaxWrites /\ BEChange(t)
          /\ beReturned' = [beReturned EXCEPT ![t] = beData[t] + 1]
  /\ BEInvalidate(t)
  /\ BEReports(BEStatus(error), error)
  /\ UNCHANGED beMode

\* A statement that raises, maybe half way; and DDL, ROLLBACK or USE, which change
\* what a query sees as well.  None of them invalidates the cache.
BEOther(t, error) ==
  /\ BEMore
  /\ beData[t] < BEMaxWrites /\ BEChange(t)
  /\ BEReports(BEStatus(error), error)
  /\ UNCHANGED <<beCache, beIndex, beMode, beReturned>>

\* A parse error, or a permission that is missing.
BERefused ==
  /\ BEMore
  /\ BEReports("ERROR", TRUE)
  /\ UNCHANGED <<beData, beCache, beIndex, beMode, beReturned>>

-----------------------------------------------------------------------------
(* execute_batch. *)

BEStart(mode) ==
  /\ beMode = ""
  /\ beMode' = mode /\ beResults' = <<>>
  /\ UNCHANGED <<beData, beCache, beIndex, beReturned>>

\* The end of the list, or of what the mode lets run.  rollback_all sets
\* was_rolled_back and leaves the data as it is.
BEEnd ==
  /\ beMode # ""
  /\ beMode' = "" /\ beResults' = <<>>
  /\ UNCHANGED <<beData, beCache, beIndex, beReturned>>

BENext ==
  \/ \E mode \in {"continue", "stop_on_error", "rollback_all"} : BEStart(mode)
  \/ \E q \in BEQueries :
       \/ BESelectHit(q)
       \/ \E error, store \in BOOLEAN : BESelectMiss(q, error, store)
  \/ \E q \in BETexts, error \in BOOLEAN : BEWarm(q, error)
  \/ \E s \in BEStatements : BEWarmChange(s)
  \/ \E t \in BETables, error \in BOOLEAN : BEDml(t, error) \/ BEOther(t, error)
  \/ BERefused \/ BEEnd

BESpec == BEInit /\ [][BENext]_beVars

-----------------------------------------------------------------------------
(* Properties. *)

\* Every variable has its type; the cache keeps its limit and one result per query.
BETypeOK ==
  /\ beData \in [BETables -> 0..BEMaxWrites]
  /\ beReturned \in [BETables -> 0..BEMaxWrites]
  /\ beCache \in Seq([query : BETexts, seen : UNION {[S -> 0..BEMaxWrites] : S \in SUBSET BETables}, error : BOOLEAN])
  /\ Len(beCache) <= BEMaxSize
  /\ \A i, j \in DOMAIN beCache : beCache[i].query = beCache[j].query => i = j
  /\ beIndex \in [BETables -> SUBSET BETexts]
  /\ beMode \in {"", "continue", "stop_on_error", "rollback_all"}
  /\ beResults \in Seq([status : {"OK", "ERROR"}, error : BOOLEAN])

\* "Auto-invalidation on DML" (batch_query_cache.py:8): no cached result is older than a DML
\* command of a batch that returned, on any of the tables the result is of, after any
\* evictions and replacements; the cache's list and its index by table are kept apart.  The
\* statements given to WARM CACHE FOR are not such commands.
BEFresh ==
  \A i \in DOMAIN beCache :
    \A t \in BEReads[beCache[i].query] : beCache[i].seen[t] >= beReturned[t]

\* A batch that stops on errors has done nothing after a command reported ERROR.
BEStopped ==
  beMode \in {"stop_on_error", "rollback_all"} => BEErrors \subseteq {Len(beResults)}
=============================================================================
