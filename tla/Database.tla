------------------------------ MODULE Database ------------------------------
(***************************************************************************)
(* The storage engine every connection of a KosDB server shares            *)
(* (database.py, class Database) with the binary log behind it (binlog.py, *)
(* class Binlog): autocommit statements, the one transaction overlay, the  *)
(* queue a background worker drains into the binlog, close(), and the ways *)
(* the process may end and be started again.                               *)
(*                                                                         *)
(* A statement is three steps of its thread: read the row, put it, log it. *)
(* Statements of Writers run under the server lock (server.py); those of   *)
(* BatchWriters are BATCH UPDATE commands, which the lock does not cover.  *)
(* A row maps columns to values.  The statement's entry in the binlog is   *)
(* the statement itself, numbered by the order in which statements wrote.  *)
(***************************************************************************)
EXTENDS Naturals, Sequences

CONSTANTS
  Keys,          \* primary keys of the one table
  Cols, Vals,    \* its columns and their values
  NoRow,         \* the value LevelDB returns for a key it does not hold
  Untouched,     \* a key the transaction overlay does not mention
  None,          \* no thread, no entry
  Stop,          \* the sentinel close() puts in the queue
  Writers,       \* threads whose commands take the server lock
  BatchWriters,  \* threads running BATCH UPDATE, which take no lock
  TxnOps,        \* the statements a run issues while a transaction is open
  MaxStmts,      \* bound: statements that write
  MaxFails,      \* bound: LevelDB writes that raise
  MaxTimeouts,   \* bound: close() gives up waiting for the worker
  MaxRestarts    \* bound: the process ends and is started again

Threads == Writers \cup BatchWriters
Rows    == [Cols -> Vals]

LockedOps == {"INSERT", "UPDATE", "DELETE"}
Ops       == LockedOps \cup {"BATCH_UPDATE"}

ASSUME ConstAssumption ==
  /\ Writers \cap BatchWriters = {}
  /\ TxnOps \subseteq Ops
  /\ None \notin Threads
  /\ {NoRow, Untouched} \cap Rows = {} /\ NoRow # Untouched
  /\ {MaxStmts, MaxFails, MaxTimeouts, MaxRestarts} \subseteq Nat

Statements ==
       [op : {"INSERT"}, key : Keys, arg : Rows]
  \cup [op : {"DELETE"}, key : Keys, arg : {NoRow}]
  \cup [op : {"UPDATE", "BATCH_UPDATE"}, key : Keys, arg : Cols \X Vals]

Entries == [id : Nat, stmt : Statements]

ASSUME SentinelAssumption == {None, Stop} \cap Entries = {} /\ None # Stop

VARIABLES
  store,     \* the selected LevelDB: Keys -> row or NoRow (survives the process)
  active,    \* _transaction_active
  changes,   \* _transaction_changes
  txnlog,    \* _transaction_binlog
  queue,     \* _binlog_queue
  held,      \* the entry the worker took from the queue and has not yet written
  worker,    \* the worker thread: "running" or "stopped"
  entries,   \* the binlog's LevelDB: position -> entry (survives the process)
  meta,      \* its key _meta:position (survives the process)
  position,  \* _current_position
  lock,      \* holder of the server lock
  pc,        \* per thread: "idle", "write", "log" or "publish"
  stmt,      \* per thread: the statement it is executing
  row,       \* per thread: the row it read
  pending,   \* entries of a committed transaction not yet queued
  proc,      \* the process: "up", close() in three stages, or "down"
  exit,      \* how it last ended: "none", "crash", "stop", "close"
  seq,       \* history: statements that have written, in any overlay
  durable,   \* history: numbers of the statements whose write is in store
  fails, timeouts, restarts

data   == <<store, active, changes, txnlog, durable, seq>>
log    == <<entries, meta, position>>
conn   == <<lock, pc, stmt, row, pending>>
bounds == <<fails, timeouts, restarts>>
vars   == <<data, queue, held, worker, log, conn, proc, exit, bounds>>

NoChanges == [k \in Keys |-> Untouched]

Init ==
  /\ store = [k \in Keys |-> NoRow]
  /\ active = FALSE /\ changes = NoChanges /\ txnlog = <<>>
  /\ queue = <<>> /\ held = None /\ worker = "running"
  /\ entries = <<>> /\ meta = 0 /\ position = 0
  /\ lock = None
  /\ pc = [t \in Threads |-> "idle"]
  /\ stmt = [t \in Threads |-> None]
  /\ row = [t \in Threads |-> NoRow]
  /\ pending = <<>>
  /\ proc = "up" /\ exit = "none"
  /\ seq = 0 /\ durable = {}
  /\ fails = 0 /\ timeouts = 0 /\ restarts = 0

-----------------------------------------------------------------------------
(* What a statement does to a row, and the overlay it reads through. *)

After(r, s) ==
  IF s.op \in {"INSERT", "DELETE"}
  THEN s.arg
  ELSE [r EXCEPT ![s.arg[1]] = s.arg[2]]

\* _get_current: pending changes first, then LevelDB.
Current(k) == IF active /\ changes[k] # Untouched THEN changes[k] ELSE store[k]

\* The row a statement needs before it writes: INSERT asks _get_current for
\* the key and refuses a duplicate; the others scan LevelDB itself, never the
\* overlay, and write nothing when they find no row.
Applies(s) == IF s.op = "INSERT" THEN Current(s.key) = NoRow
                                 ELSE store[s.key] # NoRow

Ids(s) == {s[i].id : i \in DOMAIN s}

-----------------------------------------------------------------------------
(* Statements. *)

\* Mutant of TakeLock: no command takes the server lock.
TakeNoLock(t) == UNCHANGED lock

\* server.py, handle_command: the lock of the write commands it lists.
TakeLock(t) == IF t \in Writers THEN lock = None /\ lock' = t
                                ELSE UNCHANGED lock

\* The thread takes the server lock (a BATCH UPDATE does not) and reads.
Read(t, s) ==
  /\ proc = "up" /\ pc[t] = "idle" /\ seq < MaxStmts
  /\ active => s.op \in TxnOps
  /\ TakeLock(t)
  /\ s.op \in IF t \in Writers THEN LockedOps ELSE {"BATCH_UPDATE"}
  /\ Applies(s)
  /\ pc' = [pc EXCEPT ![t] = "write"]
  /\ stmt' = [stmt EXCEPT ![t] = s]
  /\ row' = [row EXCEPT ![t] = store[s.key]]
  /\ UNCHANGED <<data, queue, held, worker, log, pending, proc, exit, bounds>>

\* _transaction_put / _transaction_delete: into the overlay while a
\* transaction is open, into LevelDB otherwise.
TransactionPut(k, r) ==
  IF active
  THEN changes' = [changes EXCEPT ![k] = r] /\ UNCHANGED <<store, durable>>
  ELSE /\ store' = [store EXCEPT ![k] = r]
       /\ durable' = durable \cup {seq + 1}
       /\ UNCHANGED changes

Write(t) ==
  /\ proc = "up" /\ pc[t] = "write" /\ t \in Writers
  /\ TransactionPut(stmt[t].key, After(row[t], stmt[t]))
  /\ seq' = seq + 1
  /\ pc' = [pc EXCEPT ![t] = "log"]
  /\ stmt' = [stmt EXCEPT ![t] = [id |-> seq + 1, stmt |-> @]]
  /\ UNCHANGED <<active, txnlog, queue, held, worker, log, lock, row, pending,
                 proc, exit, bounds>>

\* BATCH UPDATE writes its own LevelDB batch, whatever the overlay says.
BatchWrite(t) ==
  /\ proc = "up" /\ pc[t] = "write" /\ t \in BatchWriters
  /\ store' = [store EXCEPT ![stmt[t].key] = After(row[t], stmt[t])]
  /\ seq' = seq + 1 /\ durable' = durable \cup {seq + 1}
  /\ pc' = [pc EXCEPT ![t] = "log"]
  /\ stmt' = [stmt EXCEPT ![t] = [id |-> seq + 1, stmt |-> @]]
  /\ UNCHANGED <<active, changes, txnlog, queue, held, worker, log, lock, row,
                 pending, proc, exit, bounds>>

\* Mutant of Put: the queue hands out its newest entry first.
PutFirst(e) == queue' = <<e>> \o queue

Put(e) == queue' = Append(queue, e)

\* Mutant of Enqueue: nothing is held back until the transaction commits.
EnqueueAlways(e) == Put(e) /\ UNCHANGED txnlog

\* _log_binlog_async: buffered while a transaction is open, queued otherwise.
Enqueue(e) == IF active THEN txnlog' = Append(txnlog, e) /\ UNCHANGED queue
                        ELSE Put(e) /\ UNCHANGED txnlog

Log(t) ==
  /\ proc = "up" /\ pc[t] = "log"
  /\ Enqueue(stmt[t])
  /\ pc' = [pc EXCEPT ![t] = "idle"]
  /\ stmt' = [stmt EXCEPT ![t] = None]
  /\ row' = [row EXCEPT ![t] = NoRow]
  /\ lock' = IF t \in Writers THEN None ELSE lock
  /\ UNCHANGED <<store, active, changes, durable, seq, held, worker, log,
                 pending, proc, exit, bounds>>

-----------------------------------------------------------------------------
(* Transactions: one per Database, its callers serialised as statements are. *)

BeginTransaction ==
  /\ proc = "up" /\ lock = None /\ TxnOps # {} /\ seq < MaxStmts
  /\ ~active
  /\ active' = TRUE /\ changes' = NoChanges /\ txnlog' = <<>>
  /\ UNCHANGED <<store, durable, seq, queue, held, worker, log, conn, proc,
                 exit, bounds>>

\* The write batch is atomic; its entries are queued one by one after it.
CommitTransaction(t) ==
  /\ proc = "up" /\ lock = None /\ pc[t] = "idle" /\ t \in Writers
  /\ active
  /\ store' = [k \in Keys |->
                 IF changes[k] = Untouched THEN store[k] ELSE changes[k]]
  /\ durable' = durable \cup Ids(txnlog)
  /\ active' = FALSE /\ changes' = NoChanges /\ txnlog' = <<>>
  /\ pending' = txnlog
  /\ lock' = t /\ pc' = [pc EXCEPT ![t] = "publish"]
  /\ UNCHANGED <<seq, queue, held, worker, log, stmt, row, proc, exit, bounds>>

Publish(t) ==
  /\ proc = "up" /\ pc[t] = "publish"
  /\ IF pending # <<>>
     THEN /\ Put(Head(pending))
          /\ pending' = Tail(pending)
          /\ UNCHANGED <<lock, pc>>
     ELSE /\ lock' = None
          /\ pc' = [pc EXCEPT ![t] = "idle"]
          /\ UNCHANGED <<queue, pending>>
  /\ UNCHANGED <<data, held, worker, log, stmt, row, proc, exit, bounds>>

Discard == active' = FALSE /\ changes' = NoChanges /\ txnlog' = <<>>

RollbackTransaction ==
  /\ proc = "up" /\ lock = None
  /\ active
  /\ Discard
  /\ UNCHANGED <<store, durable, seq, queue, held, worker, log, conn, proc,
                 exit, bounds>>

\* The write batch raises: commit_transaction rolls back instead.
CommitFails ==
  /\ proc = "up" /\ lock = None /\ fails < MaxFails
  /\ active
  /\ Discard
  /\ fails' = fails + 1
  /\ UNCHANGED <<store, durable, seq, queue, held, worker, log, conn, proc,
                 exit, timeouts, restarts>>

-----------------------------------------------------------------------------
(* The binlog and its worker. *)

\* Binlog.write_entry: entry and position in one LevelDB batch.
WriteEntry(e) ==
  /\ position' = position + 1
  /\ entries' = [p \in DOMAIN entries \cup {position + 1} |->
                   IF p = position + 1 THEN e ELSE entries[p]]
  /\ meta' = position + 1

\* The batch raises: the counter has moved, the caller prints and goes on.
WriteEntryFails ==
  /\ fails < MaxFails /\ fails' = fails + 1
  /\ position' = position + 1
  /\ UNCHANGED <<entries, meta>>

\* Mutant of WorkerRuns: the worker stops reading once shutdown has begun.
RunsWhileUp == proc = "up" /\ worker = "running" /\ held = None

\* At the top of its loop, whose exit needs shutdown and an empty queue.
WorkerRuns == proc # "down" /\ worker = "running" /\ held = None

\* Mutant of Taken: the queue is read, and its first entry stays.
NotTaken == UNCHANGED queue

\* Queue.get: the first entry leaves the queue.
Taken == queue' = Tail(queue)

WorkerGet ==
  /\ WorkerRuns /\ queue # <<>>
  /\ Taken
  /\ IF Head(queue) = Stop
     THEN worker' = "stopped" /\ UNCHANGED held
     ELSE held' = Head(queue) /\ UNCHANGED worker
  /\ UNCHANGED <<data, log, conn, proc, exit, bounds>>

WorkerWrite ==
  /\ proc # "down" /\ held # None
  /\ \/ WriteEntry(held) /\ UNCHANGED fails
     \/ WriteEntryFails
  /\ held' = None
  /\ UNCHANGED <<data, queue, worker, conn, proc, exit, timeouts, restarts>>

\* Mutant of Shutdown: an empty queue ends the worker at any time.
AlwaysShutdown == proc # "down"

Shutdown == proc \in {"closing", "joining", "draining"}

\* The queue stayed empty for a second and shutdown has begun.
WorkerQuit ==
  /\ Shutdown /\ WorkerRuns /\ queue = <<>>
  /\ worker' = "stopped"
  /\ UNCHANGED <<data, queue, held, log, conn, proc, exit, bounds>>

-----------------------------------------------------------------------------
(* close(), the other ways a process ends, and opening the files again. *)

Quiet == lock = None /\ \A t \in Threads : pc[t] = "idle"

\* _binlog_shutdown = True: the worker may notice before it sees the sentinel.
CloseBegin ==
  /\ proc = "up" /\ Quiet
  /\ proc' = "closing"
  /\ UNCHANGED <<data, queue, held, worker, log, conn, exit, bounds>>

CloseSignal ==
  /\ proc = "closing"
  /\ proc' = "joining"
  /\ Put(Stop)
  /\ UNCHANGED <<data, held, worker, log, conn, exit, bounds>>

\* Mutant of Joined: close() does not wait for the worker.
NotJoined == UNCHANGED timeouts

Joined == worker = "stopped" /\ UNCHANGED timeouts

\* join(timeout=5) returns because the worker ended, or because time is up.
CloseJoin ==
  /\ proc = "joining"
  /\ \/ Joined
     \/ /\ worker = "running" /\ timeouts < MaxTimeouts
        /\ timeouts' = timeouts + 1
  /\ proc' = "draining"
  /\ UNCHANGED <<data, queue, held, worker, log, conn, exit, fails, restarts>>

CloseDrain ==
  /\ proc = "draining" /\ queue # <<>>
  /\ Taken
  /\ IF Head(queue) = Stop
     THEN UNCHANGED <<log, fails>>
     ELSE \/ WriteEntry(Head(queue)) /\ UNCHANGED fails
          \/ WriteEntryFails
  /\ UNCHANGED <<data, held, worker, conn, proc, exit, timeouts, restarts>>

\* Everything a process holds in memory is gone.
Gone(how) ==
  /\ proc' = "down" /\ exit' = how
  /\ Discard
  /\ queue' = <<>> /\ held' = None /\ worker' = "stopped"
  /\ lock' = None /\ pending' = <<>>
  /\ pc' = [t \in Threads |-> "idle"]
  /\ stmt' = [t \in Threads |-> None]
  /\ row' = [t \in Threads |-> NoRow]

\* Roll back an open transaction, save the position, close the files.  A
\* worker still holding an entry will find the binlog closed.
CloseEnd ==
  /\ proc = "draining" /\ queue = <<>>
  /\ Gone("close")
  /\ meta' = position
  /\ UNCHANGED <<store, durable, seq, entries, position, bounds>>

\* The process is killed, in the middle of a command or not; or it is idle,
\* SocketServer.stop returns and the interpreter exits: stop() closes the
\* listening socket only, and the worker is a daemon thread.
Die ==
  /\ \/ proc # "down" /\ Gone("crash")
     \/ proc = "up" /\ Quiet /\ Gone("stop")
  /\ UNCHANGED <<store, durable, seq, log, bounds>>

\* Mutant of SavedPosition: the counter starts again at zero.
NoSavedPosition == 0

\* Binlog.__init__ reads _meta:position.
SavedPosition == meta

Open ==
  /\ proc = "down" /\ restarts < MaxRestarts
  /\ restarts' = restarts + 1
  /\ proc' = "up" /\ exit' = "none"
  /\ position' = SavedPosition
  /\ worker' = "running"
  /\ UNCHANGED <<data, queue, held, entries, meta, conn, fails, timeouts>>

-----------------------------------------------------------------------------
Next ==
  \/ \E t \in Threads :
       \/ \E s \in Statements : Read(t, s)
       \/ Write(t) \/ BatchWrite(t) \/ Log(t)
       \/ CommitTransaction(t) \/ Publish(t)
  \/ BeginTransaction \/ RollbackTransaction \/ CommitFails
  \/ WorkerGet \/ WorkerWrite \/ WorkerQuit
  \/ CloseBegin \/ CloseSignal \/ CloseJoin \/ CloseDrain \/ CloseEnd
  \/ Die \/ Open

Spec == Init /\ [][Next]_vars

\* The worker thread keeps running and a thread inside a command finishes it;
\* nobody has to issue a command, close the engine or restart the process.
Fairness ==
  /\ WF_vars(WorkerGet) /\ WF_vars(WorkerWrite) /\ WF_vars(WorkerQuit)
  /\ WF_vars(CloseSignal) /\ WF_vars(CloseJoin)
  /\ WF_vars(CloseDrain) /\ WF_vars(CloseEnd)
  /\ \A t \in Threads : /\ WF_vars(Write(t)) /\ WF_vars(BatchWrite(t))
                        /\ WF_vars(Log(t)) /\ WF_vars(Publish(t))

FairSpec == Spec /\ Fairness

-----------------------------------------------------------------------------
(* Properties. *)

EngineType ==
  /\ store \in [Keys -> Rows \cup {NoRow}]
  /\ active \in BOOLEAN
  /\ changes \in [Keys -> Rows \cup {NoRow, Untouched}]
  /\ txnlog \in Seq(Entries)
  /\ seq \in Nat /\ durable \subseteq Nat

QueueType ==
  /\ queue \in Seq(Entries \cup {Stop}) /\ pending \in Seq(Entries)
  /\ held \in Entries \cup {None}
  /\ worker \in {"running", "stopped"}

BinlogType ==
  /\ position \in Nat /\ meta \in 0 .. position
  /\ DOMAIN entries \subseteq 1 .. meta
  /\ \A p \in DOMAIN entries : entries[p] \in Entries

\* A thread about to write has found the row its statement needs.
ThreadType ==
  /\ lock \in Writers \cup {None}
  /\ pc \in [Threads -> {"idle", "write", "log", "publish"}]
  /\ row \in [Threads -> Rows \cup {NoRow}]
  /\ stmt \in [Threads -> Statements \cup Entries \cup {None}]
  /\ \A t \in Threads :
       /\ pc[t] = "write" => /\ stmt[t] \in Statements
                             /\ stmt[t].op # "INSERT" => row[t] # NoRow
       /\ pc[t] = "log" => stmt[t] \in Entries

ProcessType ==
  /\ proc \in {"up", "closing", "joining", "draining", "down"}
  /\ exit \in {"none", "crash", "stop", "close"}
  /\ fails \in Nat /\ timeouts \in Nat /\ restarts \in Nat

\* Every variable has its type; the saved position of the binlog is never
\* ahead of the counter in memory nor behind an entry (binlog.py), and a
\* statement writes a row of the table's columns.
TypeOK == EngineType /\ QueueType /\ BinlogType /\ ThreadType /\ ProcessType

BinlogIds == {entries[p].id : p \in DOMAIN entries}

Stream == INSTANCE BinlogStream
            WITH binlog <- [p \in DOMAIN entries |-> entries[p].id]

\* The engine implements the log a replica relies on: whatever threads, the
\* worker, close(), failed writes and restarts do, no statement is listed
\* twice, before it is durable, or at a position that had another one
\* (binlog.py, write_entry; database.py, _binlog_worker).
ImplementsStream == Stream!Spec

\* Replicas never see an operation that is not in the store: what is in the
\* binlog or on its way there comes from a statement whose write is durable,
\* so never from an open or a rolled-back transaction (_log_binlog_async).
OnlyDurableLogged ==
  /\ BinlogIds \cup Ids(pending) \subseteq durable
  /\ held # None => held.id \in durable
  /\ \A i \in DOMAIN queue : queue[i] # Stop => queue[i].id \in durable

\* The binlog lists statements in the order in which they wrote.  It needs
\* the server lock around write and log, so BATCH UPDATE is excluded, and a
\* close() that does not give up on a slow worker and overtake it.
BinlogInOrder ==
  BatchWriters = {} /\ timeouts = 0 =>
    \A p, q \in DOMAIN entries : p < q => entries[p].id < entries[q].id

\* A position, once written, keeps its entry: no crash, failed write or
\* reopening makes write_entry reuse it (binlog.py, write_entry).
PositionsStable ==
  [][\A p \in DOMAIN entries :
       p \in DOMAIN entries' /\ entries'[p] = entries[p]]_entries

Undisturbed == fails = 0 /\ timeouts = 0 /\ restarts = 0

\* close() leaves no durable statement out of the binlog: it stops the worker,
\* writes what is left in the queue, and only then closes the files.
CloseFlushes ==
  Undisturbed /\ BatchWriters = {} /\ exit = "close" => durable = BinlogIds

\* Replaying a sequence of entries, or the binlog up to a position.
Redo(st, e) ==
  [st EXCEPT ![e.stmt.key] = IF e.stmt.op = "INSERT" \/ @ # NoRow
                             THEN After(@, e.stmt) ELSE @]

ReplaySeq(base, s) ==
  LET f[i \in 0 .. Len(s)] ==
        IF i = 0 THEN base
        ELSE IF s[i] = Stop THEN f[i - 1] ELSE Redo(f[i - 1], s[i])
  IN  f[Len(s)]

ReplayBinlog ==
  LET f[p \in 0 .. position] ==
        IF p = 0 THEN [k \in Keys |-> NoRow]
        ELSE IF p \in DOMAIN entries THEN Redo(f[p - 1], entries[p]) ELSE f[p - 1]
  IN  f[position]

InFlight == (IF held = None THEN <<>> ELSE <<held>>) \o queue \o pending

\* A replica that applies the binlog reaches the rows of this server: while no
\* statement is half done and no transaction is open, replaying the binlog and
\* what is on its way to it gives exactly the store.
ReplayMatches ==
  Undisturbed /\ Quiet /\ ~active /\ exit \notin {"crash", "stop"}
    => ReplaySeq(ReplayBinlog, InFlight) = store

\* A statement that wrote is in the binlog some day, unless the process ends.
EventuallyLogged ==
  \A i \in 1 .. MaxStmts :
    i \in durable ~> (i \in BinlogIds \/ proc = "down")

\* close() ends, whatever was queued when it began.
CloseTerminates == proc = "closing" ~> proc = "down"
=============================================================================
