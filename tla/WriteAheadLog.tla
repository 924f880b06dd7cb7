--------------------------- MODULE WriteAheadLog ---------------------------
(***************************************************************************)
(* The write-ahead log and its recovery (write_ahead_log.py): LSNs and     *)
(* transaction ids, log files, the transaction manager's list of active    *)
(* transactions, checkpoints, and the analysis, redo and undo of a         *)
(* restart.                                                                *)
(*                                                                         *)
(* The caller is external.  As the module's docstring asks of it, it logs  *)
(* a write before it applies it; it holds a key until its transaction      *)
(* ends, and takes its writes back before it logs an abort.  The store is  *)
(* LevelDB: a crash is the end of the process, which loses nothing         *)
(* applied.                                                                *)
(***************************************************************************)
EXTENDS Naturals, Sequences

CONSTANTS
  Keys, Vals,
  NoRow,           \* the value of a key that was never written
  Free,            \* no transaction holds the key
  FileRecords,     \* records that fit into a log file (max_log_size)
  MaxTxns,         \* bound: transactions, in all lives of the process
  MaxWrites,       \* bound: writes
  MaxCheckpoints,  \* bound: checkpoints
  MaxCrashes       \* bound: crashes

ASSUME WALAssumption ==
  /\ FileRecords \in Nat \ {0} /\ Free \notin Nat /\ NoRow \in Vals
  /\ {MaxTxns, MaxWrites, MaxCheckpoints, MaxCrashes} \subseteq Nat

VARIABLES
  log,      \* the records of all files, in the order read_log yields them
  file,     \* index of the first record of the latest file
  lsn,      \* current_lsn
  txnid,    \* current_txn_id
  active,   \* keys of TransactionManager._active_transactions
  status,   \* per transaction of this life: where its caller is
  write,    \* per transaction: {the write it has logged and not applied}, or {}
  holder,   \* per key: the transaction that holds it
  snapshot, \* a checkpoint between its two steps: {the active list}, or {}
  proc,     \* "up", "down" or "recovering"
  toRedo,   \* recovery: indices of the records still to redo
  toUndo,   \* recovery: indices of the records still to undo
  store,    \* the database
  truth,    \* history: the values committed transactions have left
  stale,    \* history: a checkpoint has listed a transaction that had ended
  reused,   \* history: a transaction has taken an id the log already has
  begins, writes, checkpoints, crashes

memory  == <<lsn, txnid, active, status, write, holder, snapshot>>
history == <<truth, stale, reused>>
bounds  == <<begins, writes, checkpoints, crashes>>
plan    == <<toRedo, toUndo>>
vars    == <<log, file, memory, proc, plan, store, history, bounds>>

Ids == 1 .. MaxTxns

Forgotten ==
  /\ txnid' = 0 /\ active' = {} /\ snapshot' = {}
  /\ status' = [t \in Ids |-> "none"]
  /\ write' = [t \in Ids |-> {}]
  /\ holder' = [k \in Keys |-> Free]

Init ==
  /\ log = <<>> /\ file = 1 /\ lsn = 0 /\ txnid = 0 /\ active = {}
  /\ status = [t \in Ids |-> "none"]
  /\ write = [t \in Ids |-> {}]
  /\ holder = [k \in Keys |-> Free]
  /\ snapshot = {} /\ proc = "up" /\ toRedo = {} /\ toUndo = {}
  /\ store = [k \in Keys |-> NoRow] /\ truth = store
  /\ stale = FALSE /\ reused = FALSE
  /\ begins = 0 /\ writes = 0 /\ checkpoints = 0 /\ crashes = 0

-----------------------------------------------------------------------------
(* Log records. *)

Mark(kind, t)        == [kind |-> kind, txn |-> t]
Change(t, k, old, v) == [kind |-> "WRITE", txn |-> t, key |-> k, old |-> old,
                         new |-> v]
Checkpoint(list)     == [kind |-> "CHECKPOINT", txn |-> 0, list |-> list]

\* Mutant of WriteRecord: current_lsn is not moved on.
WriteKeepsLsn(r) ==
  /\ log' = Append(log, [lsn |-> lsn + 1, rec |-> r])
  /\ file' = IF Len(log) + 1 - file = FileRecords THEN Len(log) + 1 ELSE file
  /\ UNCHANGED lsn

\* _write_record, synced before it returns; a record a crash cuts short is
\* dropped by read_log, as if it had not been written.
WriteRecord(r) ==
  /\ log' = Append(log, [lsn |-> lsn + 1, rec |-> r])
  /\ lsn' = lsn + 1
  /\ file' = IF Len(log) + 1 - file = FileRecords THEN Len(log) + 1 ELSE file

-----------------------------------------------------------------------------
(* Transactions. *)

\* TransactionManager.begin: the log's lock, then the manager's.
Begin ==
  /\ proc = "up" /\ begins < MaxTxns
  /\ begins' = begins + 1
  /\ txnid' = txnid + 1
  /\ WriteRecord(Mark("BEGIN", txnid + 1))
  /\ status' = [status EXCEPT ![txnid + 1] = "begun"]
  /\ reused' = (reused \/ \E i \in DOMAIN log : log[i].rec.txn = txnid + 1)
  /\ UNCHANGED <<active, write, holder, snapshot, proc, plan, store, truth,
                 stale, writes, checkpoints, crashes>>

Register(t) ==
  /\ proc = "up" /\ status[t] = "begun"
  /\ active' = active \cup {t}
  /\ status' = [status EXCEPT ![t] = "running"]
  /\ UNCHANGED <<log, file, lsn, txnid, write, holder, snapshot, proc, plan,
                 store, history, bounds>>

Running(t) == proc = "up" /\ status[t] = "running" /\ write[t] = {}

\* log_insert, log_update, log_delete.
LogWrite(t, k, v) ==
  /\ Running(t) /\ writes < MaxWrites
  /\ holder[k] \in {Free, t} /\ v # store[k]
  /\ holder' = [holder EXCEPT ![k] = t]
  /\ WriteRecord(Change(t, k, store[k], v))
  /\ write' = [write EXCEPT ![t] = {<<k, v>>}]
  /\ writes' = writes + 1
  /\ UNCHANGED <<txnid, active, status, snapshot, proc, plan, store, history,
                 begins, checkpoints, crashes>>

Apply(t) ==
  /\ proc = "up"
  /\ \E w \in write[t] : store' = [store EXCEPT ![w[1]] = w[2]]
  /\ write' = [write EXCEPT ![t] = {}]
  /\ UNCHANGED <<log, file, lsn, txnid, active, status, holder, snapshot, proc,
                 plan, history, bounds>>

\* commit: the record, then the manager's list.
Commit(t) ==
  /\ Running(t)
  /\ WriteRecord(Mark("COMMIT", t))
  /\ truth' = [k \in Keys |-> IF holder[k] = t THEN store[k] ELSE truth[k]]
  /\ status' = [status EXCEPT ![t] = "ended"]
  /\ UNCHANGED <<txnid, active, write, holder, snapshot, proc, plan, store,
                 stale, reused, bounds>>

RollBack(t) ==
  /\ Running(t)
  /\ store' = [k \in Keys |-> IF holder[k] = t THEN truth[k] ELSE store[k]]
  /\ status' = [status EXCEPT ![t] = "rolled"]
  /\ UNCHANGED <<log, file, lsn, txnid, active, write, holder, snapshot, proc,
                 plan, history, bounds>>

Abort(t) ==
  /\ proc = "up" /\ status[t] = "rolled"
  /\ WriteRecord(Mark("ABORT", t))
  /\ status' = [status EXCEPT ![t] = "ended"]
  /\ UNCHANGED <<txnid, active, write, holder, snapshot, proc, plan, store,
                 history, bounds>>

\* The end of commit and of abort, and the caller lets its keys go.
Unregister(t) ==
  /\ proc = "up" /\ status[t] = "ended"
  /\ active' = active \ {t}
  /\ holder' = [k \in Keys |-> IF holder[k] = t THEN Free ELSE holder[k]]
  /\ status' = [status EXCEPT ![t] = "gone"]
  /\ UNCHANGED <<log, file, lsn, txnid, write, snapshot, proc, plan, store,
                 history, bounds>>

\* TransactionManager.checkpoint: the list under the manager's lock, the record
\* under the log's; transactions go on between the two.
ReadActive ==
  /\ proc = "up" /\ snapshot = {} /\ checkpoints < MaxCheckpoints
  /\ checkpoints' = checkpoints + 1
  /\ snapshot' = {active}
  /\ UNCHANGED <<log, file, lsn, txnid, active, status, write, holder, proc,
                 plan, store, history, begins, writes, crashes>>

Ended(t) == status[t] \in {"ended", "gone"}

LogCheckpoint ==
  /\ proc = "up"
  /\ \E list \in snapshot :
       /\ WriteRecord(Checkpoint(list))
       /\ stale' = (stale \/ \E t \in list : Ended(t))
  /\ snapshot' = {}
  /\ UNCHANGED <<txnid, active, status, write, holder, proc, plan, store,
                 truth, reused, bounds>>

-----------------------------------------------------------------------------
(* Crash, restart and recovery. *)

Crash ==
  /\ proc # "down" /\ crashes < MaxCrashes
  /\ crashes' = crashes + 1
  /\ proc' = "down" /\ toRedo' = {} /\ toUndo' = {} /\ lsn' = 0
  /\ Forgotten
  /\ UNCHANGED <<log, file, store, history, begins, writes, checkpoints>>

\* _recover_lsn looks for a length behind each record, where there is none: it
\* finds nothing, or by chance, in the length of the next one, an earlier one.
RecoveredLsn == {0} \cup {log[i].lsn : i \in file .. Len(log) - 1}

\* analyze: transactions that have begun, or are listed by a checkpoint, and
\* have not ended since; those that committed; the last checkpoint.
Records(kinds) == {i \in DOMAIN log : log[i].rec.kind \in kinds}
Of(t) == {i \in DOMAIN log : log[i].rec.txn = t}
Listing(t) == {i \in Records({"CHECKPOINT"}) : t \in log[i].rec.list}

Losers ==
  {t \in Ids : \E i \in (Records({"BEGIN"}) \cap Of(t)) \cup Listing(t) :
                 \A j \in Records({"COMMIT", "ABORT"}) \cap Of(t) : j < i}

Winners == {t \in Ids : Records({"COMMIT"}) \cap Of(t) # {}}

RedoFrom ==
  LET all == Records({"CHECKPOINT"})
  IN  IF all = {} THEN 0
      ELSE log[CHOOSE i \in all : \A j \in all : j <= i].lsn

\* Mutant of Redone: whoever wrote a record since the checkpoint, it is redone.
RedoneAll(i) == log[i].rec.kind = "WRITE" /\ log[i].lsn >= RedoFrom

Redone(i) ==
  log[i].rec.kind = "WRITE" /\ log[i].lsn >= RedoFrom /\ log[i].rec.txn \in Winners

Undone(i) == log[i].rec.kind = "WRITE" /\ log[i].rec.txn \in Losers

\* A life opens a file of its own, the last in the order of the names: the name is the second
\* and the LSN, and a process is assumed to start in a later second than the one before.
Restart ==
  /\ proc = "down"
  /\ proc' = "recovering"
  /\ lsn' \in RecoveredLsn
  /\ file' = Len(log) + 1
  /\ toRedo' = {i \in DOMAIN log : Redone(i)}
  /\ toUndo' = {i \in DOMAIN log : Undone(i)}
  /\ UNCHANGED <<log, txnid, active, status, write, holder, snapshot, store,
                 history, bounds>>

\* redo: one callback, in the order of the log; the process may crash between
\* two, and begins again.
Redo ==
  /\ proc = "recovering"
  /\ \E i \in toRedo :
       /\ \A j \in toRedo : i <= j
       /\ store' = [store EXCEPT ![log[i].rec.key] = log[i].rec.new]
       /\ toRedo' = toRedo \ {i}
  /\ UNCHANGED <<log, file, memory, proc, toUndo, history, bounds>>

\* undo collects the records per transaction: the one met first comes first.
MetBefore(t, u) == \E m \in Of(t) : \A n \in Of(u) : m < n

\* undo, after redo: each transaction backwards.
Undo ==
  /\ proc = "recovering" /\ toRedo = {}
  /\ \E i \in toUndo :
       /\ \A j \in toUndo : \/ log[j].rec.txn = log[i].rec.txn /\ j <= i
                            \/ MetBefore(log[i].rec.txn, log[j].rec.txn)
       /\ store' = [store EXCEPT ![log[i].rec.key] = log[i].rec.old]
       /\ toUndo' = toUndo \ {i}
  /\ UNCHANGED <<log, file, memory, proc, toRedo, history, bounds>>

Recovered ==
  /\ proc = "recovering" /\ toRedo = {} /\ toUndo = {}
  /\ proc' = "up"
  /\ UNCHANGED <<log, file, memory, plan, store, history, bounds>>

-----------------------------------------------------------------------------
Next ==
  \/ Begin
  \/ \E t \in Ids :
       \/ Register(t) \/ Apply(t) \/ Commit(t) \/ RollBack(t) \/ Abort(t)
       \/ Unregister(t)
       \/ \E k \in Keys, v \in Vals : LogWrite(t, k, v)
  \/ ReadActive \/ LogCheckpoint
  \/ Crash \/ Restart \/ Redo \/ Undo \/ Recovered

Spec == Init /\ [][Next]_vars

-----------------------------------------------------------------------------
(* Properties. *)

\* Every variable has its type; LSNs within the latest file ascend to
\* current_lsn, and whoever runs is on the manager's list (begin, commit).
TypeOK ==
  /\ store \in [Keys -> Vals] /\ truth \in [Keys -> Vals]
  /\ holder \in [Keys -> Ids \cup {Free}]
  /\ proc \in {"up", "down", "recovering"}
  /\ stale \in BOOLEAN /\ reused \in BOOLEAN
  /\ proc # "down" => \A i \in file .. Len(log) : log[i].lsn <= lsn
  /\ \A i, j \in file .. Len(log) : i < j => log[i].lsn < log[j].lsn
  /\ active \subseteq 1 .. txnid
  /\ \A t \in Ids : status[t] \in {"running", "rolled"} => t \in active

\* A key nobody holds has the value the last committed transaction left there.
Consistent ==
  proc = "up" => \A k \in Keys : holder[k] = Free => store[k] = truth[k]

\* Committed transactions survive and the others leave nothing, wherever the
\* process dies, in the middle of a transaction, of a checkpoint or of a
\* recovery, and however often; as long as no checkpoint lists a transaction
\* that has ended meanwhile, and none takes an id the log already has.
CrashSafe == ~stale /\ ~reused => Consistent

\* What the docstring of the module promises without a condition: "Ensures data
\* durability by writing changes to log before applying to database."
Durable == Consistent
=============================================================================
