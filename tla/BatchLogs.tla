----------------------------- MODULE BatchLogs ------------------------------
(***************************************************************************)
(* Batches in the logs: the consumers that put the events of batches       *)
(* together again (cdc_batch.py), and the binary log of batches            *)
(* (binlog_batch.py).                                                      *)
(***************************************************************************)
EXTENDS Naturals, Sequences, FiniteSets, SequencesExt

(***************************************************************************)
(* Change data capture of batches (cdc_batch.py): the emitter marks the    *)
(* start and the end of a batch in the log, and a consumer that groups     *)
(* hands its batch callback all of a batch at its end.  Appending waits    *)
(* for a token of the rate limiter and drops the event, also a marker,     *)
(* when none came in a second.                                             *)
(*                                                                         *)
(* A consumer may filter by operation, markers included: it gets of a      *)
(* batch what it asked for.                                                *)
(*                                                                         *)
(* An event is its place in the log.  The polling is that of ChangeCapture *)
(* with one thread at a time.  Events outside of a batch, a consumer that  *)
(* does not group, and producing to Kafka are left out.                    *)
(***************************************************************************)

CONSTANTS
  BCBatches,
  BCTables,
  BCFilters,  \* the sets of operations consumers filter by; {}: all of them
  BCCommands, \* of each batch, the operations of its commands
  BCBurst,    \* burst_size
  BCMaxFaults \* bound: dropped events and callbacks that raise, together

\* Operations of events: the markers of a batch, and two of those of its commands.
BCMarkers == {"start", "end"}
BCKinds   == BCMarkers \cup {"insert", "delete"}

ASSUME BCAssumption ==
  /\ BCCommands \in [BCBatches -> Seq(BCKinds \ BCMarkers)] /\ BCFilters \subseteq SUBSET BCKinds
  /\ BCBurst \in Nat \ {0} /\ BCMaxFaults \in Nat

VARIABLES
  bcLog,       \* _events: [kind, batch, table], kind being the operation
  bcTokens,    \* whole tokens of the rate limiter
  bcDrops,     \* how many events were dropped
  bcEmitted,   \* of each batch: 0, or 1 + the commands emitted, or BCEnded after the end
  bcConsumer,  \* [tables, operations, pos, alive]: alive while the polling thread is
  bcBuffer,    \* _batch_buffer: batches that are open at the consumer, and their events
  bcGot,       \* history: what the batch callback took: [batch, events]
  bcDeaths,    \* history: how many callbacks raised
  bcClean      \* history: the batches no callback has raised on an event of

bcVars ==
  <<bcLog, bcTokens, bcDrops, bcEmitted, bcConsumer, bcBuffer, bcGot, bcDeaths, bcClean>>

\* A consumer made while the log is empty.
BCInit ==
  /\ bcLog = <<>> /\ bcTokens = BCBurst /\ bcDrops = 0
  /\ bcEmitted = [b \in BCBatches |-> 0]
  /\ bcConsumer \in [tables : {{}} \cup {{t} : t \in BCTables}, operations : BCFilters,
                     pos : {0}, alive : {TRUE}]
  /\ bcBuffer = <<>> /\ bcGot = <<>> /\ bcDeaths = 0 /\ bcClean = BCBatches

-----------------------------------------------------------------------------
(* RateLimiter and BatchCDCLog. *)

\* Mutant of BCFilled: the tokens of a long pause pile up.
BCFilledOver == bcTokens + 1

BCFilled == IF bcTokens < BCBurst THEN bcTokens + 1 ELSE BCBurst

\* Time passes: acquire adds what the elapsed time is worth, up to the burst.
BCRefill ==
  /\ bcTokens' = BCFilled
  /\ UNCHANGED <<bcLog, bcDrops, bcEmitted, bcConsumer, bcBuffer, bcGot, bcDeaths, bcClean>>

\* append: an event takes a token, or is dropped and reported as -1.
BCAppend(kind, b, table) ==
  \/ /\ bcTokens > 0
     /\ bcTokens' = bcTokens - 1
     /\ bcLog' = Append(bcLog, [kind |-> kind, batch |-> b, table |-> table])
     /\ UNCHANGED bcDrops
  \/ /\ bcTokens = 0 /\ bcDrops + bcDeaths < BCMaxFaults
     /\ bcDrops' = bcDrops + 1
     /\ UNCHANGED <<bcLog, bcTokens>>

\* bcEmitted of a batch whose end was emitted.
BCEnded(b) == Len(BCCommands[b]) + 2

\* The caller of emit_batch_start, emit_batch_command and emit_batch_end, in that
\* order; a marker has no table.
BCEmit(b) ==
  /\ bcEmitted[b] < BCEnded(b)
  /\ \/ /\ bcEmitted[b] = 0
        /\ BCAppend("start", b, "")
        /\ bcEmitted' = [bcEmitted EXCEPT ![b] = 1]
     \/ /\ bcEmitted[b] \in DOMAIN BCCommands[b]
        /\ \E table \in BCTables : BCAppend(BCCommands[b][bcEmitted[b]], b, table)
        /\ bcEmitted' = [bcEmitted EXCEPT ![b] = @ + 1]
     \/ /\ bcEmitted[b] > 0
        /\ BCAppend("end", b, "")
        /\ bcEmitted' = [bcEmitted EXCEPT ![b] = BCEnded(b)]
  /\ UNCHANGED <<bcConsumer, bcBuffer, bcGot, bcDeaths, bcClean>>

\* _active_batches, which append keeps: started and not ended, as far as the log knows.
BCActive ==
  {b \in BCBatches : /\ \E n \in DOMAIN bcLog : bcLog[n].kind = "start" /\ bcLog[n].batch = b
                     /\ \A n \in DOMAIN bcLog : bcLog[n].kind = "end" => bcLog[n].batch # b}

-----------------------------------------------------------------------------
(* BatchCDCConsumer. *)

\* _should_consume: both filters; an empty one lets everything pass.
BCWanted(e) ==
  /\ bcConsumer.tables = {} \/ e.table \in bcConsumer.tables
  /\ bcConsumer.operations = {} \/ e.kind \in bcConsumer.operations

\* The end of a batch: pop, and the batch callback gets the list, empty when the
\* batch was never opened.
BCFlushed(b) == IF b \in DOMAIN bcBuffer THEN bcBuffer[b] ELSE <<>>

\* Mutant of BCClosed: the end of a batch empties the buffer of every batch.
BCClosedAll(b) == <<>>

\* Mutant of BCClosed: the end of a batch clears the lists of the others.
BCClosedClear(b) == [c \in DOMAIN bcBuffer \ {b} |-> <<>>]

BCClosed(b) == [c \in DOMAIN bcBuffer \ {b} |-> bcBuffer[c]]

\* Mutant of BCOpened: a start that is delivered again keeps what the batch has.
BCOpenedKeep(b) == [c \in DOMAIN bcBuffer \cup {b} |-> BCFlushed(c)]

BCOpened(b) == [c \in DOMAIN bcBuffer \cup {b} |-> IF c = b THEN <<>> ELSE bcBuffer[c]]

BCAdded(b, n) == IF b \in DOMAIN bcBuffer THEN [bcBuffer EXCEPT ![b] = Append(@, n)] ELSE bcBuffer

\* _process_batch_event changes the buffer before any callback runs.
BCGroup(e, n) ==
  bcBuffer' = CASE e.kind = "start" -> BCOpened(e.batch)
                [] e.kind = "end"   -> BCClosed(e.batch)
                [] OTHER            -> BCAdded(e.batch, n)

\* The next event passes.  At an end the batch callback comes before the callback.
BCDeliver ==
  LET n == bcConsumer.pos + 1
      e == bcLog[n]
  IN  /\ bcConsumer.alive /\ n \in DOMAIN bcLog
      /\ bcConsumer' = [bcConsumer EXCEPT !.pos = n]
      /\ IF BCWanted(e)
         THEN /\ BCGroup(e, n)
              /\ bcGot' = IF e.kind = "end"
                          THEN Append(bcGot, [batch |-> e.batch, events |-> BCFlushed(e.batch)])
                          ELSE bcGot
         ELSE UNCHANGED <<bcBuffer, bcGot>>
      /\ UNCHANGED <<bcLog, bcTokens, bcDrops, bcEmitted, bcDeaths, bcClean>>

\* A callback raises: the thread ends and the position stays, but the buffer has
\* changed.  took: it was the callback for single events, after the batch callback.
BCRaise(took) ==
  LET n == bcConsumer.pos + 1
      e == bcLog[n]
  IN  /\ bcDrops + bcDeaths < BCMaxFaults
      /\ bcConsumer.alive /\ n \in DOMAIN bcLog /\ BCWanted(e)
      /\ bcConsumer' = [bcConsumer EXCEPT !.alive = FALSE]
      /\ BCGroup(e, n)
      /\ took => e.kind = "end"
      /\ bcGot' = IF took THEN Append(bcGot, [batch |-> e.batch, events |-> BCFlushed(e.batch)])
                          ELSE bcGot
      /\ bcClean' = bcClean \ {e.batch}
      /\ bcDeaths' = bcDeaths + 1
      /\ UNCHANGED <<bcLog, bcTokens, bcDrops, bcEmitted>>

\* start again, after a stop or a death.
BCRestart ==
  /\ ~bcConsumer.alive
  /\ bcConsumer' = [bcConsumer EXCEPT !.alive = TRUE]
  /\ UNCHANGED <<bcLog, bcTokens, bcDrops, bcEmitted, bcBuffer, bcGot, bcDeaths, bcClean>>

BCNext ==
  \/ BCRefill
  \/ \E b \in BCBatches : BCEmit(b)
  \/ BCDeliver
  \/ \E took \in BOOLEAN : BCRaise(took)
  \/ BCRestart

BCSpec == BCInit /\ [][BCNext]_bcVars

-----------------------------------------------------------------------------
(* Properties. *)

\* Every variable has its type; the buffer holds batches that are still open in the log.
BCTypeOK ==
  /\ bcLog \in Seq([kind : BCKinds, batch : BCBatches, table : BCTables \cup {""}])
  /\ bcTokens \in 0..BCBurst /\ bcDrops \in 0..BCMaxFaults /\ bcDeaths \in 0..BCMaxFaults
  /\ bcEmitted \in [BCBatches -> Nat] /\ \A b \in BCBatches : bcEmitted[b] <= BCEnded(b)
  /\ bcClean \subseteq BCBatches
  /\ bcConsumer \in [tables : SUBSET BCTables, operations : BCFilters, pos : 0..Len(bcLog), alive : BOOLEAN]
  /\ DOMAIN bcBuffer \subseteq BCBatches
  /\ \A b \in DOMAIN bcBuffer : bcBuffer[b] \in Seq(DOMAIN bcLog)
  /\ bcGot \in Seq([batch : BCBatches, events : Seq(DOMAIN bcLog)])

\* The rows of a batch that the consumer asked for, in the order of the log.
BCRowsOf(b) ==
  SelectSeq([n \in DOMAIN bcLog |-> n],
            LAMBDA n : bcLog[n].batch = b /\ bcLog[n].kind \notin BCMarkers /\ BCWanted(bcLog[n]))

\* A batch that reaches the batch callback is empty or complete: with rows of other
\* batches, a start or end that was lost or filtered out, and callbacks that raise on any
\* event, a list never has some of the rows the consumer asked for and lacks others.  A
\* filter for operations may well ask for part of a batch.
BCAllOrNothing ==
  \A i \in DOMAIN bcGot : LET g == bcGot[i] IN
    g.events # <<>> => {g.events[j] : j \in DOMAIN g.events} = {BCRowsOf(g.batch)[j] : j \in DOMAIN BCRowsOf(g.batch)}

\* A batch whose start is in the log and asked for, and none of whose events made a callback
\* raise, arrives once, with the rows the consumer asked for, in order and without repeats.
BCExactly ==
  \A i \in DOMAIN bcGot : LET g == bcGot[i] IN
    /\ g.batch \in bcClean
    /\ \E n \in DOMAIN bcLog : bcLog[n].kind = "start" /\ bcLog[n].batch = g.batch /\ BCWanted(bcLog[n])
    => g.events = BCRowsOf(g.batch) /\ \A j \in DOMAIN bcGot : bcGot[j].batch = g.batch => j = i

-----------------------------------------------------------------------------
(***************************************************************************)
(* The binary log for batches: BatchBinlog of binlog_batch.py, written by  *)
(* several threads, each with a batch of its own, and read by a replica.   *)
(* A write takes its position under the lock; the entry, the saved         *)
(* position and the batch's list follow without it.                        *)
(***************************************************************************)

CONSTANTS
  BBWriters,
  BBCommands,  \* commands of a batch
  BBLimit,     \* entries the replica asks for
  BBOpens,     \* bound: starts of the server
  BBPositions  \* bound: the last position

ASSUME BBAssumption == {BBCommands, BBLimit, BBOpens, BBPositions} \subseteq Nat /\ BBLimit # 0

VARIABLES
  bbCurrent,   \* _current_position
  bbSaved,     \* _meta:position
  bbLog,       \* the entries, by position
  bbTracked,   \* _batch_positions, of each writer's batch
  bbWriter,    \* of each writer: the writes of its batch that are done, the step of the one
               \* under way, its position and the position it is about to save
  bbReader,    \* the replica: its position, and the positions it has read
  bbOpened,    \* starts so far
  bbLost,      \* history: positions beyond the one that was saved when the server crashed
  bbLate       \* history: positions whose entry came after a later one

bbVars == <<bbCurrent, bbSaved, bbLog, bbTracked, bbWriter, bbReader, bbOpened, bbLost, bbLate>>

BBFresh == [w \in BBWriters |-> [done |-> 0, at |-> "idle", position |-> 0, saving |-> 0]]

BBInit ==
  /\ bbCurrent = 0 /\ bbSaved = 0 /\ bbLog = <<>>
  /\ bbTracked = [w \in BBWriters |-> <<>>] /\ bbWriter = BBFresh
  /\ bbReader = [position |-> 0, read |-> {}]
  /\ bbOpened = 1 /\ bbLost = {} /\ bbLate = {}

\* The writes of a batch: the start, its commands, and the end.
BBMarker(n) == IF n = 0 THEN "start" ELSE IF n <= BBCommands THEN "command" ELSE "end"

-----------------------------------------------------------------------------
(* write_entry. *)

\* Mutant of BBNextPosition: what was saved last.
BBNextPositionSaved == bbSaved + 1

BBNextPosition == bbCurrent + 1

BBAllocate(w) ==
  /\ bbWriter[w].at = "idle" /\ bbWriter[w].done < BBCommands + 2 /\ bbCurrent < BBPositions
  /\ bbCurrent' = BBNextPosition
  /\ bbWriter' = [bbWriter EXCEPT ![w].at = "put", ![w].position = bbCurrent']
  /\ UNCHANGED <<bbSaved, bbLog, bbTracked, bbReader, bbOpened, bbLost, bbLate>>

BBPut(w) ==
  LET p == bbWriter[w].position
  IN  /\ bbWriter[w].at = "put"
      /\ bbLog' = [q \in DOMAIN bbLog \cup {p} |->
                     IF q = p THEN [batch |-> w, marker |-> BBMarker(bbWriter[w].done), life |-> bbOpened] ELSE bbLog[q]]
      /\ bbLate' = IF \E q \in DOMAIN bbLog : q > p THEN bbLate \cup {p} ELSE bbLate
      /\ bbWriter' = [bbWriter EXCEPT ![w].at = "reading"]
      /\ UNCHANGED <<bbCurrent, bbSaved, bbTracked, bbReader, bbOpened, bbLost>>

\* _save_position reads the current position, which may be another writer's ...
BBSaveReads(w) ==
  /\ bbWriter[w].at = "reading"
  /\ bbWriter' = [bbWriter EXCEPT ![w].at = "saving", ![w].saving = bbCurrent]
  /\ UNCHANGED <<bbCurrent, bbSaved, bbLog, bbTracked, bbReader, bbOpened, bbLost, bbLate>>

\* Mutant of BBTracks: the position the log is at by now.
BBTracksCurrent(w) == Append(bbTracked[w], bbCurrent)

BBTracks(w) == Append(bbTracked[w], bbWriter[w].position)

\* ... and stores it, perhaps over a later one; the batch's list takes the position.
BBSave(w) ==
  /\ bbWriter[w].at = "saving"
  /\ bbSaved' = bbWriter[w].saving
  /\ bbTracked' = [bbTracked EXCEPT ![w] = BBTracks(w)]
  /\ bbWriter' = [bbWriter EXCEPT ![w].at = "idle", ![w].done = @ + 1]
  /\ UNCHANGED <<bbCurrent, bbLog, bbReader, bbOpened, bbLost, bbLate>>

-----------------------------------------------------------------------------
(* The replica, the log's rotation, and restarts. *)

BBFrom(p) == SetToSortSeq({q \in DOMAIN bbLog : q > p}, <)

\* Mutant of BBReadTo: the replica goes to the latest position.
BBReadToLatest(entries) == bbCurrent

BBReadTo(entries) == Last(entries)

\* get_entries.
BBRead ==
  LET all     == BBFrom(bbReader.position)
      entries == SubSeq(all, 1, IF Len(all) < BBLimit THEN Len(all) ELSE BBLimit)
  IN  /\ entries # <<>>
      /\ bbReader' = [position |-> BBReadTo(entries), read |-> bbReader.read \cup ToSet(entries)]
      /\ UNCHANGED <<bbCurrent, bbSaved, bbLog, bbTracked, bbWriter, bbOpened, bbLost, bbLate>>

\* truncate_before, of what the replica has.
BBTruncate ==
  /\ \E q \in DOMAIN bbLog : q < bbReader.position
  /\ bbLog' = [q \in {p \in DOMAIN bbLog : p >= bbReader.position} |-> bbLog[q]]
  /\ UNCHANGED <<bbCurrent, bbSaved, bbTracked, bbWriter, bbReader, bbOpened, bbLost, bbLate>>

\* The server is started again, with the position that was saved; the batches' lists and the
\* writers are gone.
BBOpen(saved) ==
  /\ bbOpened < BBOpens /\ bbOpened' = bbOpened + 1
  /\ bbSaved' = saved /\ bbCurrent' = saved
  /\ bbTracked' = [w \in BBWriters |-> <<>>] /\ bbWriter' = BBFresh
  /\ UNCHANGED <<bbLog, bbReader, bbLate>>

\* Mutant of BBClosing: close saves nothing.
BBClosingNot == bbSaved

BBClosing == bbCurrent

BBClose ==
  /\ \A w \in BBWriters : bbWriter[w].at = "idle"
  /\ BBOpen(BBClosing) /\ UNCHANGED bbLost

BBCrash == BBOpen(bbSaved) /\ bbLost' = bbLost \cup {p \in DOMAIN bbLog : p > bbSaved}

BBNext ==
  \/ \E w \in BBWriters : BBAllocate(w) \/ BBPut(w) \/ BBSaveReads(w) \/ BBSave(w)
  \/ BBRead \/ BBTruncate \/ BBClose \/ BBCrash

-----------------------------------------------------------------------------
(* The answers, and properties. *)

\* get_batch_entries: the batch's entries that are still in the log.
BBEntries(w) == SelectSeq(bbTracked[w], LAMBDA p : p \in DOMAIN bbLog)

\* Every variable has its type; without a crash no entry lies beyond the position.
BBTypeOK ==
  /\ bbCurrent \in Nat /\ bbSaved \in 0..bbCurrent /\ bbOpened \in 1..BBOpens
  /\ \A w \in BBWriters : bbWriter[w].at \in {"idle", "put", "reading", "saving"}
  /\ bbTracked \in [BBWriters -> Seq(1..bbCurrent)]
  /\ \A p \in DOMAIN bbLog : p <= bbCurrent \/ p \in bbLost

\* An entry is overwritten only if it lay beyond the saved position when the server crashed,
\* by whichever writers at once and through any number of stops and starts.
BBKept ==
  [][\A p \in (DOMAIN bbLog \cap DOMAIN bbLog') \ bbLost : bbLog'[p] = bbLog[p]]_bbVars

\* The status of a batch is its own: its entries that are there are those of this batch, in the
\* order start, commands, end, and the end is the newest, though others write in between.
BBStatus ==
  \A w \in BBWriters :
    /\ \A i \in DOMAIN bbTracked[w] :
         bbTracked[w][i] \in DOMAIN bbLog =>
           bbLog[bbTracked[w][i]] = [batch |-> w, marker |-> BBMarker(i - 1), life |-> bbOpened]
    /\ \A i, j \in DOMAIN bbTracked[w] : i < j => bbTracked[w][i] < bbTracked[w][j]

\* A replica misses no entry but one that was put after an entry with a later position, or one
\* whose position was given twice after a crash.
BBFollows ==
  \A p \in DOMAIN bbLog : p <= bbReader.position => p \in bbReader.read \cup bbLate \cup bbLost
=============================================================================
