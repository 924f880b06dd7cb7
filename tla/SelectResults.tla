--------------------------- MODULE SelectResults ----------------------------
(***************************************************************************)
(* The rows a SELECT finds (database.py), a cursor over the rows of one    *)
(* (streaming_results.py), and the engine that sorts them (sort_engine.py).*)
(***************************************************************************)
EXTENDS Naturals, Sequences, FiniteSets, SequencesExt

(***************************************************************************)
(* How SELECT of database.py finds its rows: by the primary key, by the    *)
(* entries of an index, by the aggregated index older versions kept, or by *)
(* a scan; and the statements whose effects the paths depend on.  One      *)
(* table, outside of transactions.  Values are the strings 1.. in their    *)
(* order, and 0 a column the row lacks; so are the keys rows are kept at.  *)
(***************************************************************************)

CONSTANTS SLCols, SLNoCol, SLSchemas, SLOldTables, SLMax, SLAlters

VARIABLES
  slSchema,    \* the columns that are primary key and indexes
  slRows,      \* key |-> row: column |-> value
  slEntries,   \* <<column, value, key>> with an entry _idx:
  slLegacy,    \* the same of the aggregated index, which nothing writes
  slNextId,    \* the schema's next_id
  slAlters,    \* ALTER TABLE statements so far, up to SLAlters
  slKnown,     \* history: keys whose row was written in full since the schema last changed, or is in the aggregated index
  slPlain      \* history: the schema is as created, no row replaced another, and no index of an older version is out of date

slVars == <<slSchema, slRows, slEntries, slLegacy, slNextId, slAlters, slKnown, slPlain>>

SLKeys == 1..SLMax

\* The table is new, or of an older version with rows in its aggregated index only.
SLInit ==
  /\ slSchema \in SLSchemas
  /\ slRows \in SLOldTables
  /\ slLegacy = {<<c, slRows[k][c], k>> : c \in slSchema.indexes, k \in DOMAIN slRows}
  /\ slEntries = {} /\ slPlain = TRUE /\ slAlters = 0
  /\ slNextId = IF slRows = <<>> THEN 1 ELSE SLMax + 1
  /\ slKnown = DOMAIN slRows

-----------------------------------------------------------------------------
(* The paths.  A WHERE is a sequence of <<column, value>>. *)

SLMatches(k, where) == \A i \in DOMAIN where : slRows[k][where[i][1]] = where[i][2]

SLInKeyOrder(keys) == SetToSortSeq(keys, <)

\* The rows of the table that match, in key order.
SLScan(where) == SLInKeyOrder({k \in DOMAIN slRows : SLMatches(k, where)})

\* The places of the WHERE an index can serve: _can_use_index.
SLIndexed(where) == {i \in DOMAIN where : where[i][1] = slSchema.pk \/ where[i][1] \in slSchema.indexes}

\* Mutant of SLLive: the row of an entry is not checked again.
SLLiveAny(keys, where) == {k \in keys : k \in DOMAIN slRows}

\* Of the keys an index gives, those whose row is there and still matches.
SLLive(keys, where) == {k \in keys : k \in DOMAIN slRows /\ SLMatches(k, where)}

SLKeysAt(index, c, v) == {k \in SLKeys : <<c, v, k>> \in index}

\* The keys of the value, from the entries if it has any.
SLLookedUp(c, v) == IF SLKeysAt(slEntries, c, v) # {} THEN SLKeysAt(slEntries, c, v) ELSE SLKeysAt(slLegacy, c, v)

\* _select_with_where_index, by the first column that can.
SLByIndex(where) ==
  LET first == where[Min(SLIndexed(where))]
  IN  SLInKeyOrder(SLLive(IF first[1] = slSchema.pk THEN {first[2]} ELSE SLLookedUp(first[1], first[2]), where))

\* Mutant of SLSortedBy: the rows in descending order come in the ascending one.
SLSortedByUp(keys, c, desc) == SetToSortSeq(keys, LAMBDA j, k :
  slRows[j][c] < slRows[k][c] \/ (slRows[j][c] = slRows[k][c] /\ j < k))

\* _sort_results, which keeps rows of one value in key order both ways.
SLSortedBy(keys, c, desc) == SetToSortSeq(keys, LAMBDA j, k :
  \/ (IF desc THEN slRows[j][c] > slRows[k][c] ELSE slRows[j][c] < slRows[k][c])
  \/ (slRows[j][c] = slRows[k][c] /\ j < k))

SLEntryBefore(d, e) == d[2] < e[2] \/ (d[2] = e[2] /\ d[3] < e[3])

\* The keys of the column's entries, in their order in the database or the reverse.
SLEntryKeys(c, desc) ==
  LET entries == SetToSortSeq({e \in slEntries : e[1] = c}, SLEntryBefore)
      keys == [i \in DOMAIN entries |-> entries[i][3]]
  IN  IF desc THEN Reverse(keys) ELSE keys

\* The keys of the aggregated index by value.
SLLegacyKeys(c, desc) ==
  LET before(d, e) == IF d[2] # e[2] THEN (IF desc THEN d[2] > e[2] ELSE d[2] < e[2]) ELSE d[3] < e[3]
      found == SetToSortSeq({e \in slLegacy : e[1] = c}, before)
  IN  [i \in DOMAIN found |-> found[i][3]]

\* _select_with_index: rows without the column have no entry.
SLByOrder(where, c, desc) ==
  LET listed == IF SLEntryKeys(c, desc) # <<>> THEN SLEntryKeys(c, desc) ELSE SLLegacyKeys(c, desc)
  IN  IF listed # <<>> THEN SelectSeq(listed, LAMBDA k : k \in DOMAIN slRows /\ SLMatches(k, where))
      ELSE SLSortedBy(ToSet(SLScan(where)), c, desc)

SLPage(found, limit, offset) == SubSeq(found, offset + 1, Min({offset + limit, Len(found)}))

\* select: an index for the WHERE goes before the order.
SLSelect(where, order, desc, limit, offset) ==
  LET found == IF SLIndexed(where) # {} THEN SLByIndex(where)
               ELSE IF order # SLNoCol THEN SLByOrder(where, order, desc)
               ELSE SLScan(where)
  IN  SLPage(found, limit, offset)

-----------------------------------------------------------------------------
(* Statements. *)

\* Mutant of SLEntriesOf: a column the row lacks is entered.
SLEntriesOfAll(row, k) == {<<c, row[c], k>> : c \in slSchema.indexes}

SLEntriesOf(row, k) == {<<c, row[c], k>> : c \in {d \in slSchema.indexes : row[d] # 0}}

\* In a table of an older version, the first entries hide what its aggregated index has.
SLHidden(entries) == slLegacy # {} /\ slEntries = {} /\ entries # {}

\* _insert_row: at the primary key, if the row has it, or at the next id.
SLInsertRow(row) ==
  LET keyed == slSchema.pk # SLNoCol /\ row[slSchema.pk] # 0
      key == IF keyed THEN row[slSchema.pk] ELSE slNextId
      entries == SLEntriesOf(row, key)
  IN  /\ keyed => key \notin DOMAIN slRows
      /\ key \in SLKeys
      /\ slRows' = [k \in DOMAIN slRows \cup {key} |-> IF k = key THEN row ELSE slRows[k]]
      /\ slEntries' = slEntries \cup entries
      /\ slNextId' = IF keyed THEN slNextId ELSE slNextId + 1
      /\ slKnown' = (IF SLHidden(entries) THEN {} ELSE slKnown) \cup {key}
      /\ slPlain' = (slPlain /\ key \notin DOMAIN slRows /\ slLegacy = {})
      /\ UNCHANGED <<slSchema, slLegacy, slAlters>>

SLInsert == \E row \in [SLCols -> 0..SLMax] : SLInsertRow(row)

\* Mutant of SLTouches: the primary key is not an index.
SLTouchesIndexes(clause) == DOMAIN clause \cap slSchema.indexes # {}

\* touches_index: the entries are written again.
SLTouches(clause) == DOMAIN clause \cap (slSchema.indexes \cup {slSchema.pk}) # {}

\* Of the rows that match, those written before a primary key is taken.
SLWritten(keys, clause) ==
  IF slSchema.pk \notin DOMAIN clause THEN keys
  ELSE LET v == clause[slSchema.pk] IN
       IF v \in DOMAIN slRows THEN {k \in keys : \A j \in keys : j <= k => j = v} ELSE {Min(keys)}

SLKeyAfter(k, clause) == IF slSchema.pk \in DOMAIN clause THEN clause[slSchema.pk] ELSE k

\* update: clause gives the columns their new values.
SLUpdateRows(clause, where) ==
  LET keys == {k \in DOMAIN slRows : SLMatches(k, where)}
      done == SLWritten(keys, clause)
      came == {SLKeyAfter(k, clause) : k \in done}
      from(j) == CHOOSE k \in done : SLKeyAfter(k, clause) = j
      row(k) == [c \in SLCols |-> IF c \in DOMAIN clause THEN clause[c] ELSE slRows[k][c]]
      entries == UNION {SLEntriesOf(row(k), SLKeyAfter(k, clause)) : k \in done}
      touches == SLTouches(clause)
  IN  /\ keys # {}
      /\ slRows' = [j \in (DOMAIN slRows \ done) \cup came |-> IF j \in came THEN row(from(j)) ELSE slRows[j]]
      /\ slEntries' = IF touches THEN (slEntries \ UNION {SLEntriesOf(slRows[k], k) : k \in done}) \cup entries
                      ELSE slEntries
      /\ slKnown' = IF touches /\ SLHidden(entries) THEN {}
                    ELSE (slKnown \ done) \cup {SLKeyAfter(k, clause) : k \in done \cap slKnown}
      /\ slPlain' = (slPlain /\ (touches => slLegacy = {}))
      /\ UNCHANGED <<slSchema, slLegacy, slNextId, slAlters>>

SLWheres == {<<>>} \cup {<<<<c, v>>>> : c \in SLCols, v \in SLKeys}

SLUpdate == \E c \in SLCols, v \in SLKeys, where \in SLWheres : SLUpdateRows([d \in {c} |-> v], where)

\* delete: the entries go by the schema of now.
SLDelete ==
  \E where \in SLWheres :
    LET keys == {k \in DOMAIN slRows : SLMatches(k, where)} IN
    /\ keys # {}
    /\ slRows' = [k \in DOMAIN slRows \ keys |-> slRows[k]]
    /\ slEntries' = slEntries \ UNION {SLEntriesOf(slRows[k], k) : k \in keys}
    /\ slKnown' = slKnown \ keys
    /\ UNCHANGED <<slSchema, slLegacy, slNextId, slAlters, slPlain>>

\* UpsertCommand with all columns: it finds the row as SELECT does.
SLUpsert ==
  \E row \in [SLCols -> SLKeys] :
    LET pk == slSchema.pk
        where == <<<<pk, row[pk]>>>>
    IN  /\ pk # SLNoCol
        /\ IF SLSelect(where, SLNoCol, FALSE, SLMax, 0) # <<>>
           THEN SLUpdateRows([c \in SLCols \ {pk} |-> row[c]], where)
           ELSE SLInsertRow(row)

\* AlterTableCommand writes the schema, and no entry or row.
SLAltered(schema) == slSchema' = schema /\ slKnown' = {}

SLAlter ==
  \E c \in SLCols :
    /\ \/ slSchema.pk # c /\ SLAltered([slSchema EXCEPT !.pk = c])
       \/ c \notin slSchema.indexes /\ SLAltered([slSchema EXCEPT !.indexes = @ \cup {c}])
       \/ /\ c = slSchema.pk \/ c \in slSchema.indexes
          /\ SLAltered([pk |-> IF slSchema.pk = c THEN SLNoCol ELSE slSchema.pk, indexes |-> slSchema.indexes \ {c}])
    /\ slAlters < SLAlters /\ slAlters' = slAlters + 1
    /\ slPlain' = FALSE
    /\ UNCHANGED <<slRows, slEntries, slLegacy, slNextId>>

SLNext == SLInsert \/ SLUpdate \/ SLDelete \/ SLUpsert \/ SLAlter

-----------------------------------------------------------------------------
(* Properties. *)

SLIndexSets == SUBSET (SLCols \X SLKeys \X SLKeys)

\* The variables have their types, and an older version's index what its rows had.
SLTypeOK ==
  /\ slSchema.pk \in SLCols \cup {SLNoCol} /\ slSchema.indexes \subseteq SLCols
  /\ DOMAIN slRows \subseteq SLKeys /\ \A k \in DOMAIN slRows : slRows[k] \in [SLCols -> 0..SLMax]
  /\ slEntries \in SLIndexSets /\ slLegacy \in SLIndexSets
  /\ slNextId \in 1..(SLMax + 1) /\ slAlters \in 0..SLAlters /\ slKnown \subseteq DOMAIN slRows /\ slPlain \in BOOLEAN

SLAsked == SLWheres \cup {<<<<c, v>>, <<d, w>>>> : c \in SLCols, d \in SLCols, v \in SLKeys, w \in SLKeys}

\* No path of SELECT gives a row that does not match, or one twice, whatever entries ALTER TABLE and older
\* versions left behind; and in a table nobody altered no two rows have the same primary key.
SLTruthful ==
  /\ slRows # <<>> => \A where \in SLAsked :
       LET found == SLSelect(where, SLNoCol, FALSE, SLMax, 0)
       IN  IsInjective(found) /\ ToSet(found) \subseteq ToSet(SLScan(where))
  /\ slPlain /\ slSchema.pk # SLNoCol =>
       \A k \in DOMAIN slRows : slRows[k][slSchema.pk] \in {0, k}

\* The index gives every row that was written since the column was given it, as a scan would.
SLFindsKnown ==
  slKnown # {} => \A where \in SLAsked :
    ToSet(SLScan(where)) \cap slKnown \subseteq ToSet(SLSelect(where, SLNoCol, FALSE, SLMax, 0))

\* In a table nobody altered the pages of an ORDER BY, put together, are in order and have every row
\* with the column once.
SLInOrder ==
  slPlain /\ slRows # <<>> =>
    \A c \in SLCols, desc \in BOOLEAN :
      LET total == Len(SLSelect(<<>>, c, desc, SLMax, 0))
          pages == [i \in 1..total |-> SLSelect(<<>>, c, desc, 1, i - 1)]
          keys == FlattenSeq(pages)
      IN  /\ IsInjective(keys)
          /\ {k \in DOMAIN slRows : slRows[k][c] # 0} \subseteq ToSet(keys)
          /\ \A i \in 1..(Len(keys) - 1) :
               IF desc THEN slRows[keys[i]][c] >= slRows[keys[i + 1]][c] ELSE slRows[keys[i]][c] <= slRows[keys[i + 1]][c]

-----------------------------------------------------------------------------
(***************************************************************************)
(* A cursor over a source of rows: ResultCursor of streaming_results.py.   *)
(* The buffer holds the last batch read; a call takes from it, or skips in *)
(* it, and reads the next batch when it is used up.  Each turn of a call's *)
(* loop is an action.                                                      *)
(***************************************************************************)

CONSTANTS
  RWRows,       \* bound: rows of the source
  RWChunkSize,
  RWAsk         \* bound: rows asked for in a call

ASSUME RWAssumption == RWRows \in Nat /\ RWChunkSize \in Nat \ {0} /\ RWAsk \in Nat \ {0}

VARIABLES
  rwTotal,      \* the rows of the source
  rwRead,       \* how many of them were taken from it
  rwPosition,
  rwStart,      \* buffer_start
  rwBuffer,
  rwExhausted,
  rwCall,       \* the call that runs: its kind, the rows still wanted, what it has
  rwGiven,      \* history: the rows the calls returned
  rwSkipped     \* history: the sum of what skip() returned

rwVars == <<rwTotal, rwRead, rwPosition, rwStart, rwBuffer, rwExhausted, rwCall, rwGiven, rwSkipped>>

RWMin(m, n) == IF m < n THEN m ELSE n

RWIdle == [kind |-> "none", wanted |-> 0, rows |-> <<>>]

RWInit ==
  /\ rwTotal \in 0..RWRows
  /\ rwRead = 0 /\ rwPosition = 0 /\ rwStart = 0 /\ rwBuffer = <<>>
  /\ rwExhausted = FALSE /\ rwCall = RWIdle /\ rwGiven = <<>> /\ rwSkipped = 0

RWBegin(kind, n) ==
  /\ rwCall.kind = "none"
  /\ rwCall' = [kind |-> kind, wanted |-> n, rows |-> <<>>]
  /\ UNCHANGED <<rwTotal, rwRead, rwPosition, rwStart, rwBuffer, rwExhausted, rwGiven, rwSkipped>>

RWGoesOn == rwCall.kind # "none" /\ rwCall.wanted > 0 /\ ~rwExhausted

RWAt == rwPosition - rwStart

\* From the buffer.
RWTake ==
  LET n == RWMin(rwCall.wanted, Len(rwBuffer) - RWAt)
      rows == SubSeq(rwBuffer, RWAt + 1, RWAt + n)
  IN  /\ RWGoesOn /\ RWAt < Len(rwBuffer)
      /\ rwPosition' = rwPosition + n
      /\ rwCall' = [rwCall EXCEPT !.wanted = @ - n, !.rows = @ \o rows]
      /\ UNCHANGED <<rwTotal, rwRead, rwStart, rwBuffer, rwExhausted, rwGiven, rwSkipped>>

\* Mutant of RWBufferStart: where the batch lies in the source is not recorded.
RWBufferStartOld == rwStart

RWBufferStart == rwPosition

\* Mutant of RWAtEnd: a batch that is not full ends the source.
RWAtEndShort(last) == last < rwRead + RWChunkSize

RWAtEnd(last) == last = rwRead

\* _fetch_batch: the end is found with an empty batch, one read later than the last row.
RWFetch ==
  LET last == RWMin(rwTotal, rwRead + RWChunkSize)
  IN  /\ RWGoesOn /\ RWAt >= Len(rwBuffer)
      /\ rwRead' = last
      /\ IF RWAtEnd(last)
         THEN rwExhausted' = TRUE /\ UNCHANGED <<rwBuffer, rwStart>>
         ELSE /\ rwBuffer' = [n \in 1..(last - rwRead) |-> rwRead + n]
              /\ rwStart' = RWBufferStart /\ UNCHANGED rwExhausted
      /\ UNCHANGED <<rwTotal, rwPosition, rwCall, rwGiven, rwSkipped>>

\* fetch_next returns its rows, skip their number.
RWReturn ==
  /\ rwCall.kind # "none" /\ ~RWGoesOn
  /\ rwCall' = RWIdle
  /\ IF rwCall.kind = "fetch"
     THEN rwGiven' = rwGiven \o rwCall.rows /\ UNCHANGED rwSkipped
     ELSE rwSkipped' = rwSkipped + Len(rwCall.rows) /\ UNCHANGED rwGiven
  /\ UNCHANGED <<rwTotal, rwRead, rwPosition, rwStart, rwBuffer, rwExhausted>>

\* fetch_many is fetch_next of the chunk size, and fetch_all calls it until the end.
RWNext ==
  \/ \E kind \in {"fetch", "skip"}, n \in 1..RWAsk : RWBegin(kind, n)
  \/ RWTake \/ RWFetch \/ RWReturn

-----------------------------------------------------------------------------
(* Properties. *)

\* Every variable has its type, and the position lies inside the buffer or at its end.
RWTypeOK ==
  /\ rwTotal \in 0..RWRows /\ rwRead \in 0..rwTotal /\ rwPosition \in 0..rwRead
  /\ rwBuffer \in Seq(1..RWRows) /\ RWAt \in 0..Len(rwBuffer) /\ rwExhausted \in BOOLEAN
  /\ rwCall.wanted \in 0..RWAsk /\ rwGiven \in Seq(1..RWRows) /\ rwSkipped \in 0..rwTotal

\* Calls of both kinds in any mixture go through the source once: between them they return
\* as many rows as the position says, each fetch returns the rows after that position in
\* order, none is given twice, and the cursor is exhausted only at the very end.
RWOnePass ==
  /\ rwCall.kind = "none" => Len(rwGiven) + rwSkipped = rwPosition
  /\ \A n \in 1..Len(rwCall.rows) : rwCall.rows[n] = rwPosition - Len(rwCall.rows) + n
  /\ \A i, j \in 1..Len(rwGiven) : i < j => rwGiven[i] < rwGiven[j]
  /\ rwExhausted => rwPosition = rwTotal

-----------------------------------------------------------------------------
(***************************************************************************)
(* The sort engine of sort_engine.py, which Database sorts with, over the  *)
(* backends of sort_backends: Python's own sort, and two libraries that    *)
(* may be installed or not, and may raise.  A list is the sequence of its  *)
(* elements' keys, and a result the sequence of their places in it.        *)
(***************************************************************************)

CONSTANTS
  SOKeys,     \* numbers
  SOLength,   \* bound: elements of a list
  SOTops      \* values of topk

ASSUME SOAssumption == SOKeys \subseteq Nat /\ SOLength \in Nat /\ SOTops \subseteq Nat

VARIABLES
  soInstalled, \* the libraries that are
  soNative,    \* madsort_rust has sort_with_key
  soEngine,    \* the engine: its backend, "none" before there is one or when making it raised, and whether it is strict
  soCall       \* the last call of sort, and what came of it

soVars == <<soInstalled, soNative, soEngine, soCall>>

SOBackends == <<"madsort_rust", "madsort_py", "builtin">>

SONoTop == 99

SOInit ==
  /\ soInstalled \in SUBSET {"madsort_rust", "madsort_py"} /\ soNative \in BOOLEAN
  /\ soEngine = [backend |-> "none", strict |-> FALSE]
  /\ soCall = [keys |-> <<>>, reverse |-> FALSE, top |-> SONoTop, result |-> <<>>, by |-> "none"]

-----------------------------------------------------------------------------
(* Making an engine. *)

\* Mutant of SOLoads: a library that is not installed will do.
SOLoadsAny(name) == name \in ToSet(SOBackends)

SOLoads(name) == name = "builtin" \/ name \in soInstalled

\* SortEngine(backend, strict): auto takes the first that loads; a name that does not load, or is unknown, raises.
SOMake(backend, strict) ==
  /\ soEngine.backend = "none"
  /\ soEngine' = [strict  |-> strict,
                  backend |-> IF backend = "auto" THEN SelectSeq(SOBackends, SOLoads)[1]
                              ELSE IF SOLoads(backend) THEN backend ELSE "none"]
  /\ UNCHANGED <<soInstalled, soNative, soCall>>

SONames == {"auto", "unknown"} \cup ToSet(SOBackends)

\* get_sort_engine: the environment, else the configuration, else auto; never strict.
SOGet(env, config) == SOMake(IF env # "" THEN env ELSE IF config # "" THEN config ELSE "auto", FALSE)

-----------------------------------------------------------------------------
(* The backends. *)

\* Elements with equal keys stay in the order of the list.
SOUp(keys) == SetToSortSeq(DOMAIN keys, LAMBDA i, j : keys[i] < keys[j] \/ (keys[i] = keys[j] /\ i < j))

SODown(keys) == SetToSortSeq(DOMAIN keys, LAMBDA i, j : keys[i] > keys[j] \/ (keys[i] = keys[j] /\ i < j))

SOStable(keys, reverse) == IF reverse THEN SODown(keys) ELSE SOUp(keys)

\* builtin: topk only counts for lists more than twice as long.
SOBuiltin(keys, reverse, top) ==
  IF Len(keys) > top * 2 THEN SubSeq(SOStable(keys, reverse), 1, top) ELSE SOStable(keys, reverse)

SOCut(sorted, top) == IF top = 0 \/ top > Len(sorted) THEN sorted ELSE SubSeq(sorted, 1, top)

\* Mutant of SODecorated: the list is cut before it is reversed.
SODecoratedEarly(keys, reverse, top) == IF reverse THEN Reverse(SOCut(SOUp(keys), top)) ELSE SOCut(SOUp(keys), top)

\* Decorated, sorted, reversed, and then cut: madsort_py, and madsort_rust without sort_with_key.
SODecorated(keys, reverse, top) == SOCut(IF reverse THEN Reverse(SOUp(keys)) ELSE SOUp(keys), top)

\* Mutant of SOBy: the order of equal elements is not madsort_py's concern.
SOByUnstable(backend, keys, reverse, top) ==
  IF backend = "madsort_py" THEN SOCut(IF reverse THEN SODown(keys) ELSE Reverse(SODown(keys)), top)
  ELSE SOBuiltin(keys, reverse, top)

SOBy(backend, keys, reverse, top) ==
  CASE backend = "builtin" -> SOBuiltin(keys, reverse, top)
    [] backend = "madsort_rust" /\ soNative -> SOCut(SOStable(keys, reverse), top)
    [] OTHER -> SODecorated(keys, reverse, top)

\* Mutant of SOFallsBack: a strict engine falls back.
SOFallsBackAlways == TRUE

SOFallsBack == ~soEngine.strict

\* sort: a library that raises is replaced by builtin for this call, unless the engine is strict.
\* A call leaves nothing behind but a count: one is enough.  sort_in_place, of the engine and of every
\* backend, is sort without a topk, whose result replaces the list.
SOSort(keys, reverse, top) ==
  /\ soEngine.backend # "none" /\ soCall.by = "none"
  /\ \/ soCall' = [keys |-> keys, reverse |-> reverse, top |-> top, by |-> soEngine.backend,
                   result |-> SOBy(soEngine.backend, keys, reverse, top)]
     \/ /\ soEngine.backend # "builtin" /\ SOFallsBack
        /\ soCall' = [keys |-> keys, reverse |-> reverse, top |-> top, by |-> "builtin",
                      result |-> SOBuiltin(keys, reverse, top)]
     \/ /\ soEngine.backend # "builtin" /\ ~SOFallsBack
        /\ soCall' = [keys |-> keys, reverse |-> reverse, top |-> top, by |-> "raised", result |-> <<>>]
  /\ UNCHANGED <<soInstalled, soNative, soEngine>>

SOLists == UNION {[1..n -> SOKeys] : n \in 0..SOLength}

SONext ==
  \/ \E backend \in SONames, strict \in BOOLEAN : SOMake(backend, strict)
  \/ \E env \in SONames \cup {""}, config \in SONames \cup {""} : SOGet(env, config)
  \/ \E keys \in SOLists, reverse \in BOOLEAN, top \in SOTops \cup {SONoTop} : SOSort(keys, reverse, top)

-----------------------------------------------------------------------------
(* Properties. *)

\* Every variable has its type, and the engine has a backend that is installed.
SOTypeOK ==
  /\ soEngine.backend \in soInstalled \cup {"builtin", "none"} /\ soEngine.strict \in BOOLEAN
  /\ soCall.result \in Seq(1..SOLength) /\ soCall.by \in ToSet(SOBackends) \cup {"none", "raised"}
  /\ soNative \in BOOLEAN

\* A strict engine never answers with another backend than its own.
SOStrictly == [][soEngine.strict /\ soCall' # soCall => soCall'.by \in {soEngine.backend, "raised"}]_soVars

\* What sort returns is in order, and begins with the topk first elements of the whole list: it has
\* as many, or all, which is what builtin returns of a short list.
SOFirst ==
  soCall.by \notin {"none", "raised"} =>
    LET r == soCall.result
        key(n) == soCall.keys[r[n]]
        all == SOStable(soCall.keys, soCall.reverse)
    IN  /\ IsInjective(r) /\ Len(r) \in {soCall.top, Len(soCall.keys)}
        /\ \A n \in DOMAIN r : key(n) = soCall.keys[all[n]]

\* Whichever backend sorts, equal elements stay as they were when the order is ascending; when it is
\* descending a backend that reverses has them the other way, and no other way.
SOTies ==
  soCall.by \notin {"none", "raised"} =>
    LET r == soCall.result
        whole == IF soCall.reverse THEN {SODown(soCall.keys), Reverse(SOUp(soCall.keys))} ELSE {SOUp(soCall.keys)}
    IN  \E w \in whole : r = SubSeq(w, 1, Len(r))

-----------------------------------------------------------------------------
(***************************************************************************)
(* ConfigManager of sort_config.py, which keeps for a while the settings   *)
(* it merges from the environment and a file, both of which change while   *)
(* it runs.  A setting is absent, has a value, or one that does not parse. *)
(***************************************************************************)

CONSTANTS
  SGBackends,   \* names of backends
  SGLarge,      \* large_dataset_threshold, which stays at its default
  SGEnvs,       \* what the environment may have
  SGFiles,      \* what the file may have
  SGTtl         \* _cache_ttl

ASSUME SGAssumption == "auto" \in SGBackends /\ SGLarge \in Nat /\ SGLarge > 2 /\ SGTtl \in Nat \ {0}

VARIABLES
  sgEnv,     \* the variables of the environment: backend, small, medium
  sgFile,    \* the configuration file: the settings it has, or that there is none that can be read
  sgNamed,   \* config_file: whether the manager has one
  sgCache,   \* _cached_config, and its age; no settings, if it is none
  sgAnswer,  \* what a call just returned: settings, SGRaised, or SGNone if the last step was none
  sgBehind   \* history: the time since the sources last merged to what is cached

sgVars == <<sgEnv, sgFile, sgNamed, sgCache, sgAnswer, sgBehind>>

SGDefaults == [backend |-> "auto", small |-> 1, medium |-> 2]

SGAbsent == [backend |-> "absent", small |-> 99, medium |-> 99]

SGNone == [backend |-> "none", small |-> 0, medium |-> 0]

SGRaised == [SGNone EXCEPT !.backend = "raised"]

-----------------------------------------------------------------------------
(* The sources. *)

\* from_env: the numbers are converted in this order, and one that does not parse, 98, ends it.
SGFromEnv ==
  [backend |-> IF sgEnv.backend = "absent" THEN SGDefaults.backend ELSE sgEnv.backend,
   small   |-> IF sgEnv.small >= 98 THEN SGDefaults.small ELSE sgEnv.small,
   medium  |-> IF sgEnv.small = 98 \/ sgEnv.medium >= 98 THEN SGDefaults.medium ELSE sgEnv.medium]

\* from_file: a file that is not there or does not parse is one without settings.
SGFromFile ==
  IF ~sgFile.there THEN SGDefaults ELSE
  [backend |-> IF sgFile.of.backend = "absent" THEN SGDefaults.backend ELSE sgFile.of.backend,
   small   |-> IF sgFile.of.small = 99 THEN SGDefaults.small ELSE sgFile.of.small,
   medium  |-> IF sgFile.of.medium = 99 THEN SGDefaults.medium ELSE sgFile.of.medium]

\* Mutant of SGMerge: a default is not taken.
SGMergeKeeps(base, override) == [f \in DOMAIN base |-> IF override[f] # SGDefaults[f] THEN override[f] ELSE base[f]]

\* _merge_config: a setting of the second that differs from the first's is taken, a default also.
SGMerge(base, override) == [f \in DOMAIN base |-> IF override[f] # base[f] THEN override[f] ELSE base[f]]

\* _load_config, before it is validated.
SGLoaded ==
  LET env == SGMerge(SGDefaults, SGFromEnv)
  IN  IF sgNamed THEN SGMerge(env, SGFromFile) ELSE env

\* Mutant of SGValid: medium and large thresholds may be the same.
SGValidLoose(c) == c.backend \in SGBackends /\ c.small < c.medium /\ c.medium <= SGLarge

\* validate.
SGValid(c) == c.backend \in SGBackends /\ c.small < c.medium /\ c.medium < SGLarge

SGInit ==
  /\ sgEnv = SGAbsent /\ sgFile = [there |-> FALSE, of |-> SGAbsent] /\ sgNamed \in BOOLEAN
  /\ sgCache = [of |-> SGNone, age |-> 0] /\ sgAnswer = SGNone /\ sgBehind = 0

SGNoted(time) ==
  sgBehind' = IF SGLoaded' = sgCache'.of THEN 0
              ELSE IF sgBehind < SGTtl THEN sgBehind + time ELSE sgBehind

-----------------------------------------------------------------------------
(* Others change the sources, and time passes. *)

SGSetEnv ==
  /\ sgEnv' \in SGEnvs
  /\ sgAnswer' = SGNone /\ UNCHANGED <<sgFile, sgNamed, sgCache>> /\ SGNoted(0)

SGWriteFile ==
  /\ sgFile' \in [there : {TRUE}, of : SGFiles] \cup {[there |-> FALSE, of |-> SGAbsent]}
  /\ sgAnswer' = SGNone /\ UNCHANGED <<sgEnv, sgNamed, sgCache>> /\ SGNoted(0)

SGTick ==
  /\ sgCache' = [sgCache EXCEPT !.age = IF @ < SGTtl THEN @ + 1 ELSE @]
  /\ sgAnswer' = SGNone /\ UNCHANGED <<sgEnv, sgFile, sgNamed>> /\ SGNoted(1)

-----------------------------------------------------------------------------
(* The manager. *)

\* Mutant of SGFresh: the time is not looked at.
SGFreshAlways(cache) == cache.of # SGNone

SGFresh(cache) == cache.of # SGNone /\ cache.age < SGTtl

\* get_config with this cache: settings that are not valid raise and are not kept, and the cache stays.
SGGetFrom(cache) ==
  /\ IF SGFresh(cache) THEN sgAnswer' = cache.of /\ sgCache' = cache
     ELSE IF SGValid(SGLoaded') THEN sgAnswer' = SGLoaded' /\ sgCache' = [of |-> SGLoaded', age |-> 0]
     ELSE sgAnswer' = SGRaised /\ sgCache' = cache
  /\ SGNoted(0)

SGGet == UNCHANGED <<sgEnv, sgFile, sgNamed>> /\ SGGetFrom(sgCache)

\* reload.
SGReload == UNCHANGED <<sgEnv, sgFile, sgNamed>> /\ SGGetFrom([sgCache EXCEPT !.of = SGNone])

\* set_config_file reloads too.
SGName == sgNamed' = TRUE /\ UNCHANGED <<sgEnv, sgFile>> /\ SGGetFrom([sgCache EXCEPT !.of = SGNone])

SGNext == SGSetEnv \/ SGWriteFile \/ SGTick \/ SGGet \/ SGReload \/ SGName

-----------------------------------------------------------------------------
(* Properties. *)

\* Every variable has its type, and settings that are cached are valid.
SGTypeOK ==
  /\ sgEnv \in SGEnvs \cup {SGAbsent} /\ sgFile.of \in SGFiles \cup {SGAbsent} /\ sgNamed \in BOOLEAN
  /\ sgCache.age \in 0..SGTtl /\ sgBehind \in 0..SGTtl
  /\ sgCache.of # SGNone =>
       sgCache.of.backend \in SGBackends /\ sgCache.of.small < sgCache.of.medium /\ sgCache.of.medium < SGLarge

\* The settings a call returns are those the sources had less than the cache's time ago, whatever
\* became of them since; and it raises only if those of now are not valid.
SGRecent ==
  /\ sgAnswer \notin {SGNone, SGRaised} => sgAnswer = sgCache.of /\ sgBehind < SGTtl
  /\ sgAnswer = SGRaised => ~SGValid(SGLoaded)

\* Once the manager has a file, what is not in it has its default, also if the environment sets it
\* and if the file is not there: returned up to date, the settings are those of the file alone.
SGFileDecides ==
  sgNamed /\ sgAnswer \notin {SGNone, SGRaised} /\ sgAnswer = SGLoaded => sgAnswer = SGFromFile
=============================================================================
