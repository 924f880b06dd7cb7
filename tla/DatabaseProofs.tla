--------------------------- MODULE DatabaseProofs ---------------------------
(***************************************************************************)
(* Proofs about Database, for every value of its constants: its types, and *)
(* what a reader of the binlog may rely on.  Database implements           *)
(* BinlogStream, and replaying the binlog gives the rows of the store.     *)
(***************************************************************************)
EXTENDS Database, Inductions, TLAPS

USE DEF vars, data, log, conn, bounds, TakeLock, Put, Enqueue, WorkerRuns,
        Shutdown, Joined, SavedPosition, Taken

-----------------------------------------------------------------------------
(* Types.  Each action is shown to preserve the parts of TypeOK it disturbs. *)

LEMMA NoChangesType == NoChanges \in [Keys -> Rows \cup {NoRow, Untouched}]
  BY DEF NoChanges

\* The row a statement leaves behind is a row, or no row.
LEMMA AfterType ==
  ASSUME NEW r \in Rows \cup {NoRow}, NEW s \in Statements,
         s.op # "INSERT" => r # NoRow
  PROVE  After(r, s) \in Rows \cup {NoRow}
<1>1. CASE s.op \in {"INSERT", "DELETE"}
  BY <1>1 DEF After, Statements
<1>2. CASE s.op \notin {"INSERT", "DELETE"}
  <2>1. s.arg \in Cols \X Vals /\ r \in Rows
    BY <1>2 DEF Statements
  <2>2. [r EXCEPT ![s.arg[1]] = s.arg[2]] \in Rows
    BY <2>1 DEF Rows
  <2>3. QED BY <1>2, <2>2 DEF After
<1>3. QED BY <1>1, <1>2

LEMMA StatementKey == \A s \in Statements : s.key \in Keys
  BY DEF Statements

LEMMA KeepTypes ==
  ASSUME TypeOK
  PROVE  /\ UNCHANGED data => EngineType'
         /\ UNCHANGED <<queue, pending, held, worker>> => QueueType'
         /\ UNCHANGED log => BinlogType'
         /\ UNCHANGED <<lock, pc, stmt, row>> => ThreadType'
         /\ UNCHANGED <<proc, exit, bounds>> => ProcessType'
  BY DEF TypeOK, EngineType, QueueType, BinlogType, ThreadType, ProcessType

LEMMA WriteEntryType ==
  ASSUME BinlogType, NEW e \in Entries, WriteEntry(e)
  PROVE  BinlogType'
  BY DEF BinlogType, WriteEntry

LEMMA WriteEntryFailsType ==
  ASSUME BinlogType, ProcessType, WriteEntryFails
  PROVE  BinlogType' /\ fails' \in Nat
  BY DEF BinlogType, ProcessType, WriteEntryFails

LEMMA InitTypeOK == Init => TypeOK
<1> SUFFICES ASSUME Init PROVE TypeOK
  OBVIOUS
<1>1. EngineType
  <2>1. changes \in [Keys -> Rows \cup {NoRow, Untouched}]
    BY NoChangesType DEF Init
  <2>2. active \in BOOLEAN
    BY DEF Init
  <2>3. QED BY <2>1, <2>2 DEF Init, EngineType
<1>2. QueueType
  BY DEF Init, QueueType
<1>3. BinlogType
  BY DEF Init, BinlogType
<1>4. ThreadType
  BY DEF Init, ThreadType
<1>5. ProcessType
  BY DEF Init, ProcessType
<1>6. QED BY <1>1, <1>2, <1>3, <1>4, <1>5 DEF TypeOK

LEMMA DiscardType ==
  ASSUME EngineType, Discard, UNCHANGED <<store, durable, seq>>
  PROVE  EngineType'
<1>1. changes' \in [Keys -> Rows \cup {NoRow, Untouched}]
  BY NoChangesType DEF Discard
<1>2. active' \in BOOLEAN
  BY DEF Discard
<1>3. txnlog' \in Seq(Entries)
  BY DEF Discard
<1>4. QED BY <1>1, <1>2, <1>3 DEF EngineType

\* A step of a process that ends clears what the process held.
LEMMA GoneType ==
  ASSUME TypeOK, NEW how \in {"crash", "stop", "close"}, Gone(how),
         UNCHANGED <<store, durable, seq, bounds>>
  PROVE  EngineType' /\ QueueType' /\ ThreadType' /\ ProcessType'
<1>1. EngineType'
  BY DiscardType DEF TypeOK, Gone
<1>2. QueueType'
  BY DEF Gone, QueueType
<1>3. ThreadType'
  BY DEF Gone, ThreadType
<1>4. ProcessType'
  BY DEF Gone, TypeOK, ProcessType
<1>5. QED BY <1>1, <1>2, <1>3, <1>4

LEMMA StepTypeOK == TypeOK /\ [Next]_vars => TypeOK'
<1> SUFFICES ASSUME TypeOK, [Next]_vars PROVE TypeOK'
  OBVIOUS
<1>0. EngineType /\ QueueType /\ BinlogType /\ ThreadType /\ ProcessType
  BY DEF TypeOK
<1>1. ASSUME NEW t \in Threads, NEW s \in Statements, Read(t, s)
      PROVE  TypeOK'
  <2>1. store[s.key] \in Rows \cup {NoRow} /\ (s.op # "INSERT" => store[s.key] # NoRow)
    BY <1>0, <1>1, StatementKey DEF EngineType, Read, Applies
  <2>2. ThreadType'
    BY <1>0, <1>1, <2>1 DEF ThreadType, Read
  <2>3. QED BY <1>1, <2>2, KeepTypes DEF Read, TypeOK
<1>2. ASSUME NEW t \in Threads, Write(t) PROVE TypeOK'
  <2>1. stmt[t] \in Statements /\ stmt[t].key \in Keys
    BY <1>0, <1>2, StatementKey DEF Write, ThreadType
  <2>2. After(row[t], stmt[t]) \in Rows \cup {NoRow}
    BY <1>0, <1>2, <2>1, AfterType DEF Write, ThreadType
  <2>3. [id |-> seq + 1, stmt |-> stmt[t]] \in Entries
    BY <1>0, <2>1 DEF Entries, EngineType
  <2>4. EngineType'
    BY <1>0, <1>2, <2>1, <2>2 DEF Write, TransactionPut, EngineType
  <2>5. ThreadType'
    BY <1>0, <1>2, <2>3 DEF Write, ThreadType
  <2>6. QED BY <1>2, <2>4, <2>5, KeepTypes DEF Write, TypeOK
<1>3. ASSUME NEW t \in Threads, BatchWrite(t) PROVE TypeOK'
  <2>1. stmt[t] \in Statements /\ stmt[t].key \in Keys
    BY <1>0, <1>3, StatementKey DEF BatchWrite, ThreadType
  <2>2. After(row[t], stmt[t]) \in Rows \cup {NoRow}
    BY <1>0, <1>3, <2>1, AfterType DEF BatchWrite, ThreadType
  <2>3. [id |-> seq + 1, stmt |-> stmt[t]] \in Entries
    BY <1>0, <2>1 DEF Entries, EngineType
  <2>4. EngineType'
    BY <1>0, <1>3, <2>1, <2>2 DEF BatchWrite, EngineType
  <2>5. ThreadType'
    BY <1>0, <1>3, <2>3 DEF BatchWrite, ThreadType
  <2>6. QED BY <1>3, <2>4, <2>5, KeepTypes DEF BatchWrite, TypeOK
<1>4. ASSUME NEW t \in Threads, Log(t) PROVE TypeOK'
  <2>1. stmt[t] \in Entries
    BY <1>0, <1>4 DEF Log, ThreadType
  <2>2. EngineType'
    <3>1. txnlog' \in Seq(Entries)
      <4>1. txnlog \in Seq(Entries)
        BY <1>0 DEF EngineType
      <4>2. Append(txnlog, stmt[t]) \in Seq(Entries)
        BY <2>1, <4>1
      <4>3. txnlog' = Append(txnlog, stmt[t]) \/ UNCHANGED txnlog
        BY <1>4 DEF Log
      <4>4. QED BY <4>1, <4>2, <4>3
    <3>2. UNCHANGED <<store, active, changes, durable, seq>>
      BY <1>4 DEF Log
    <3>3. QED BY <1>0, <3>1, <3>2 DEF EngineType
  <2>3. QueueType'
    <3>1. queue' \in Seq(Entries \cup {Stop})
      <4>1. queue \in Seq(Entries \cup {Stop})
        BY <1>0 DEF QueueType
      <4>2. Append(queue, stmt[t]) \in Seq(Entries \cup {Stop})
        BY <2>1, <4>1
      <4>3. queue' = Append(queue, stmt[t]) \/ UNCHANGED queue
        BY <1>4 DEF Log
      <4>4. QED BY <4>1, <4>2, <4>3
    <3>2. UNCHANGED <<pending, held, worker>>
      BY <1>4 DEF Log
    <3>3. QED BY <1>0, <3>1, <3>2 DEF QueueType
  <2>4. ThreadType'
    BY <1>0, <1>4 DEF Log, ThreadType
  <2>5. QED BY <1>4, <2>2, <2>3, <2>4, KeepTypes DEF Log, TypeOK
<1>5. ASSUME NEW t \in Threads, CommitTransaction(t) PROVE TypeOK'
  <2>1. \A i \in DOMAIN txnlog : txnlog[i] \in Entries
    BY <1>0 DEF EngineType
  <2>2. store' \in [Keys -> Rows \cup {NoRow}]
    BY <1>0, <1>5 DEF CommitTransaction, EngineType
  <2>3. durable' \subseteq Nat
    BY <1>0, <1>5, <2>1 DEF CommitTransaction, EngineType, Ids, Entries
  <2>4. changes' \in [Keys -> Rows \cup {NoRow, Untouched}]
    BY <1>5, NoChangesType DEF CommitTransaction
  <2>5. active' \in BOOLEAN
    BY <1>5 DEF CommitTransaction
  <2>6. EngineType'
    BY <1>0, <1>5, <2>2, <2>3, <2>4, <2>5 DEF CommitTransaction, EngineType
  <2>7. QueueType'
    BY <1>0, <1>5 DEF CommitTransaction, QueueType, EngineType
  <2>8. ThreadType'
    BY <1>0, <1>5 DEF CommitTransaction, ThreadType
  <2>9. QED BY <1>5, <2>6, <2>7, <2>8, KeepTypes DEF CommitTransaction, TypeOK
<1>6. ASSUME NEW t \in Threads, Publish(t) PROVE TypeOK'
  <2>1. QueueType'
    <3>1. CASE pending = <<>>
      BY <1>0, <1>6, <3>1 DEF Publish, QueueType
    <3>2. CASE pending # <<>>
      <4>1. Head(pending) \in Entries /\ Tail(pending) \in Seq(Entries)
        BY <1>0, <3>2 DEF QueueType
      <4>2. Append(queue, Head(pending)) \in Seq(Entries \cup {Stop})
        BY <1>0, <4>1 DEF QueueType
      <4>3. /\ queue' = Append(queue, Head(pending)) /\ pending' = Tail(pending)
            /\ UNCHANGED <<held, worker>>
        BY <1>6, <3>2 DEF Publish
      <4>4. QED BY <1>0, <4>1, <4>2, <4>3 DEF QueueType
    <3>3. QED BY <3>1, <3>2
  <2>2. ThreadType'
    BY <1>0, <1>6 DEF Publish, ThreadType
  <2>3. QED BY <1>6, <2>1, <2>2, KeepTypes DEF Publish, TypeOK
<1>7. CASE BeginTransaction
  <2>1. changes' \in [Keys -> Rows \cup {NoRow, Untouched}]
    BY <1>7, NoChangesType DEF BeginTransaction
  <2>2. active' \in BOOLEAN
    BY <1>7 DEF BeginTransaction
  <2>3. EngineType'
    BY <1>0, <1>7, <2>1, <2>2 DEF BeginTransaction, EngineType
  <2>4. QED BY <1>7, <2>3, KeepTypes DEF BeginTransaction, TypeOK
<1>8. CASE RollbackTransaction
  BY <1>0, <1>8, DiscardType, KeepTypes DEF RollbackTransaction, TypeOK
<1>9. CASE CommitFails
  <2>1. ProcessType'
    BY <1>0, <1>9 DEF CommitFails, ProcessType
  <2>2. EngineType'
    BY <1>0, <1>9, DiscardType DEF CommitFails
  <2>3. QED BY <1>9, <2>1, <2>2, KeepTypes DEF CommitFails, TypeOK
<1>10. CASE WorkerGet
  <2>1. QueueType'
    BY <1>0, <1>10 DEF WorkerGet, QueueType
  <2>2. QED BY <1>10, <2>1, KeepTypes DEF WorkerGet, TypeOK
<1>11. CASE WorkerWrite
  <2>1. QueueType'
    BY <1>0, <1>11 DEF WorkerWrite, QueueType
  <2>2. held \in Entries
    BY <1>0, <1>11 DEF WorkerWrite, QueueType
  <2>3. BinlogType' /\ fails' \in Nat
    BY <1>0, <1>11, <2>2, WriteEntryType, WriteEntryFailsType
    DEF WorkerWrite, ProcessType
  <2>4. ProcessType'
    BY <1>0, <1>11, <2>3 DEF WorkerWrite, ProcessType
  <2>5. QED BY <1>11, <2>1, <2>3, <2>4, KeepTypes DEF WorkerWrite, TypeOK
<1>12. CASE WorkerQuit
  <2>1. QueueType'
    BY <1>0, <1>12 DEF WorkerQuit, QueueType
  <2>2. QED BY <1>12, <2>1, KeepTypes DEF WorkerQuit, TypeOK
<1>13. CASE CloseBegin
  <2>1. ProcessType'
    BY <1>0, <1>13 DEF CloseBegin, ProcessType
  <2>2. QED BY <1>13, <2>1, KeepTypes DEF CloseBegin, TypeOK
<1>21. CASE CloseSignal
  <2>1. QueueType' /\ ProcessType'
    BY <1>0, <1>21 DEF CloseSignal, QueueType, ProcessType
  <2>2. QED BY <1>21, <2>1, KeepTypes DEF CloseSignal, TypeOK
<1>14. CASE CloseJoin
  <2>1. ProcessType'
    BY <1>0, <1>14 DEF CloseJoin, ProcessType
  <2>2. QED BY <1>14, <2>1, KeepTypes DEF CloseJoin, TypeOK
<1>15. CASE CloseDrain
  <2>1. Head(queue) \in Entries \cup {Stop} /\ QueueType'
    BY <1>0, <1>15 DEF CloseDrain, QueueType
  <2>2. BinlogType' /\ fails' \in Nat
    <3>1. CASE Head(queue) = Stop
      BY <1>0, <1>15, <3>1, KeepTypes DEF CloseDrain, ProcessType
    <3>2. CASE Head(queue) # Stop
      BY <1>0, <1>15, <2>1, <3>2, WriteEntryType, WriteEntryFailsType
      DEF CloseDrain, ProcessType
    <3>3. QED BY <3>1, <3>2
  <2>3. ProcessType'
    BY <1>0, <1>15, <2>2 DEF CloseDrain, ProcessType
  <2>4. QED BY <1>15, <2>1, <2>2, <2>3, KeepTypes DEF CloseDrain, TypeOK
<1>16. CASE CloseEnd
  <2>1. BinlogType'
    BY <1>0, <1>16 DEF CloseEnd, BinlogType
  <2>2. QED BY <1>16, <2>1, GoneType DEF CloseEnd, TypeOK
<1>17. CASE Die
  BY <1>17, GoneType, KeepTypes DEF Die, TypeOK
<1>18. CASE Open
  <2>1. BinlogType'
    BY <1>0, <1>18 DEF Open, BinlogType
  <2>2. QueueType' /\ ProcessType'
    BY <1>0, <1>18 DEF Open, QueueType, ProcessType
  <2>3. QED BY <1>18, <2>1, <2>2, KeepTypes DEF Open, TypeOK
<1>19. CASE UNCHANGED vars
  BY <1>19, KeepTypes DEF TypeOK
<1>20. QED
  BY <1>1, <1>2, <1>3, <1>4, <1>5, <1>6, <1>7, <1>8, <1>9, <1>10, <1>11,
     <1>12, <1>13, <1>14, <1>15, <1>16, <1>17, <1>18, <1>19, <1>21 DEF Next

\* Every variable keeps its type, and the saved position of the binlog stays
\* between its last entry and the counter in memory.
THEOREM TypeCorrect == Spec => []TypeOK
<1>1. Init => TypeOK
  BY InitTypeOK
<1>2. TypeOK /\ [Next]_vars => TypeOK'
  BY StepTypeOK
<1>3. QED BY <1>1, <1>2, PTL DEF Spec

-----------------------------------------------------------------------------
(* A position keeps its entry. *)

LEMMA WriteEntryStable ==
  ASSUME BinlogType, NEW e, WriteEntry(e)
  PROVE  \A p \in DOMAIN entries : p \in DOMAIN entries' /\ entries'[p] = entries[p]
  BY DEF BinlogType, WriteEntry

\* write_entry numbers from a counter that no crash, failed write or reopening
\* puts back below a position already used, so nothing is overwritten.
THEOREM PositionsNeverReused == Spec => PositionsStable
<1> DEFINE Stable ==
      \A p \in DOMAIN entries : p \in DOMAIN entries' /\ entries'[p] = entries[p]
<1>1. ASSUME TypeOK, [Next]_vars PROVE [Stable]_entries
  <2>0. BinlogType
    BY <1>1 DEF TypeOK
  <2>1. CASE WorkerWrite
    BY <2>0, <2>1, WriteEntryStable DEF WorkerWrite, WriteEntryFails
  <2>2. CASE CloseDrain
    BY <2>0, <2>2, WriteEntryStable DEF CloseDrain, WriteEntryFails
  <2>3. CASE UNCHANGED entries
    BY <2>3
  <2>4. QED
    BY <1>1, <2>1, <2>2, <2>3
    DEF Next, Read, Write, BatchWrite, Log, CommitTransaction, Publish,
        BeginTransaction, RollbackTransaction, CommitFails, WorkerGet,
        WorkerQuit, CloseBegin, CloseSignal, CloseJoin, CloseEnd, Die, Open
<1>2. QED BY <1>1, TypeCorrect, PTL DEF Spec, PositionsStable

-----------------------------------------------------------------------------
(* What is logged is durable.  The lock makes it so: a writer that has written *)
(* outside a transaction keeps the lock until it logs, and no transaction     *)
(* begins or ends meanwhile.                                                  *)

LockHeld ==
  \A t \in Threads : /\ t \in Writers /\ pc[t] # "idle" => lock = t
                     /\ pc[t] = "publish" => t \in Writers

WrittenDurable ==
  \A t \in Threads :
    pc[t] = "log" /\ (t \in BatchWriters \/ ~active) => stmt[t].id \in durable

DurableInv == TypeOK /\ LockHeld /\ WrittenDurable /\ OnlyDurableLogged

LEMMA InitDurableInv == Init => DurableInv
<1> SUFFICES ASSUME Init PROVE DurableInv
  OBVIOUS
<1>1. LockHeld /\ WrittenDurable
  BY DEF Init, LockHeld, WrittenDurable
<1>2. OnlyDurableLogged
  BY DEF Init, OnlyDurableLogged, BinlogIds, Ids
<1>3. QED BY <1>1, <1>2, InitTypeOK DEF DurableInv

LEMMA StepLockHeld == TypeOK /\ LockHeld /\ [Next]_vars => LockHeld'
<1> SUFFICES ASSUME TypeOK, LockHeld, [Next]_vars PROVE LockHeld'
  OBVIOUS
<1>0. ThreadType
  BY DEF TypeOK
<1>1. ASSUME NEW t \in Threads, NEW s \in Statements, Read(t, s)
      PROVE  LockHeld'
  BY <1>0, <1>1, ConstAssumption DEF Read, LockHeld, ThreadType, Threads
<1>2. ASSUME NEW t \in Threads, Write(t) \/ BatchWrite(t) PROVE LockHeld'
  BY <1>0, <1>2 DEF Write, BatchWrite, LockHeld, ThreadType
<1>3. ASSUME NEW t \in Threads, Log(t) PROVE LockHeld'
  BY <1>0, <1>3, ConstAssumption DEF Log, LockHeld, ThreadType, Threads
<1>4. ASSUME NEW t \in Threads, CommitTransaction(t) PROVE LockHeld'
  BY <1>0, <1>4, ConstAssumption DEF CommitTransaction, LockHeld, ThreadType, Threads
<1>5. ASSUME NEW t \in Threads, Publish(t) PROVE LockHeld'
  BY <1>0, <1>5, ConstAssumption DEF Publish, LockHeld, ThreadType, Threads
<1>6. CASE CloseEnd \/ Die
  BY <1>6 DEF CloseEnd, Die, Gone, LockHeld
<1>7. CASE UNCHANGED <<lock, pc>>
  BY <1>7 DEF LockHeld
<1>8. QED
  BY <1>1, <1>2, <1>3, <1>4, <1>5, <1>6, <1>7
  DEF Next, BeginTransaction, RollbackTransaction, CommitFails, WorkerGet,
      WorkerWrite, WorkerQuit, CloseBegin, CloseSignal, CloseJoin, CloseDrain, Open

LEMMA StepWrittenDurable ==
  TypeOK /\ LockHeld /\ WrittenDurable /\ [Next]_vars => WrittenDurable'
<1> SUFFICES ASSUME TypeOK, LockHeld, WrittenDurable, [Next]_vars
             PROVE  WrittenDurable'
  OBVIOUS
<1>0. ThreadType
  BY DEF TypeOK
<1>1. ASSUME NEW t \in Threads, NEW s \in Statements, Read(t, s)
      PROVE  WrittenDurable'
  BY <1>0, <1>1 DEF Read, WrittenDurable, ThreadType
<1>2. ASSUME NEW t \in Threads, Write(t) PROVE WrittenDurable'
  BY <1>0, <1>2, ConstAssumption
  DEF Write, TransactionPut, WrittenDurable, ThreadType
<1>3. ASSUME NEW t \in Threads, BatchWrite(t) PROVE WrittenDurable'
  BY <1>0, <1>3 DEF BatchWrite, WrittenDurable, ThreadType
<1>4. ASSUME NEW t \in Threads, Log(t) PROVE WrittenDurable'
  BY <1>0, <1>4 DEF Log, WrittenDurable, ThreadType
<1>5. ASSUME NEW t \in Threads, CommitTransaction(t) PROVE WrittenDurable'
  BY <1>0, <1>5, ConstAssumption
  DEF CommitTransaction, WrittenDurable, ThreadType, LockHeld, Threads
<1>6. CASE RollbackTransaction \/ CommitFails
  BY <1>0, <1>6, ConstAssumption
  DEF RollbackTransaction, CommitFails, Discard, WrittenDurable, LockHeld, Threads
<1>7. CASE BeginTransaction
  BY <1>7 DEF BeginTransaction, WrittenDurable
<1>8. CASE CloseEnd \/ Die
  BY <1>8 DEF CloseEnd, Die, Gone, WrittenDurable
<1>9. ASSUME NEW t \in Threads, Publish(t) PROVE WrittenDurable'
  BY <1>0, <1>9 DEF Publish, WrittenDurable, ThreadType
<1>10. CASE UNCHANGED <<pc, stmt, active, durable>>
  BY <1>10 DEF WrittenDurable
<1>11. QED
  BY <1>1, <1>2, <1>3, <1>4, <1>5, <1>6, <1>7, <1>8, <1>9, <1>10
  DEF Next, WorkerGet, WorkerWrite, WorkerQuit, CloseBegin, CloseSignal, CloseJoin,
      CloseDrain, Open

\* Growing durable, or dropping what is in memory, keeps the invariant.
LEMMA KeepOnlyDurable ==
  ASSUME OnlyDurableLogged, durable \subseteq durable',
         UNCHANGED <<entries, pending, held, queue>>
  PROVE  OnlyDurableLogged'
  BY DEF OnlyDurableLogged, BinlogIds, Ids

LEMMA WriteEntryIds ==
  ASSUME TypeOK, NEW e, WriteEntry(e)
  PROVE  BinlogIds' = BinlogIds \cup {e.id}
<1>1. position + 1 \notin DOMAIN entries
  BY DEF TypeOK, BinlogType
<1>2. DOMAIN entries' = DOMAIN entries \cup {position + 1}
  BY DEF WriteEntry
<1>3. entries'[position + 1] = e
  BY DEF WriteEntry
<1>4. \A p \in DOMAIN entries : entries'[p] = entries[p]
  BY <1>1 DEF WriteEntry
<1>5. QED BY <1>2, <1>3, <1>4 DEF BinlogIds

LEMMA StepOnlyDurable ==
  TypeOK /\ LockHeld /\ WrittenDurable /\ OnlyDurableLogged /\ [Next]_vars
    => OnlyDurableLogged'
<1> SUFFICES ASSUME TypeOK, LockHeld, WrittenDurable, OnlyDurableLogged,
                    [Next]_vars
             PROVE  OnlyDurableLogged'
  OBVIOUS
<1>0. ThreadType /\ QueueType /\ EngineType
  BY DEF TypeOK
<1>1. ASSUME NEW t \in Threads, Write(t) \/ BatchWrite(t) PROVE OnlyDurableLogged'
  BY <1>1, KeepOnlyDurable DEF Write, BatchWrite, TransactionPut
<1>2. ASSUME NEW t \in Threads, Log(t) PROVE OnlyDurableLogged'
  <2>1. CASE active
    BY <1>2, <2>1, KeepOnlyDurable DEF Log
  <2>2. CASE ~active
    <3>1. stmt[t].id \in durable
      BY <1>2, <2>2 DEF Log, WrittenDurable
    <3>2. queue' = Append(queue, stmt[t])
      BY <1>2, <2>2 DEF Log
    <3>3. \A i \in DOMAIN queue' : queue'[i] # Stop => queue'[i].id \in durable
      BY <1>0, <3>1, <3>2 DEF OnlyDurableLogged, QueueType
    <3>4. UNCHANGED <<entries, pending, held, durable>>
      BY <1>2 DEF Log
    <3>5. QED BY <3>3, <3>4 DEF OnlyDurableLogged, BinlogIds, Ids
  <2>3. QED BY <2>1, <2>2
<1>3. ASSUME NEW t \in Threads, CommitTransaction(t) PROVE OnlyDurableLogged'
  BY <1>3 DEF CommitTransaction, OnlyDurableLogged, BinlogIds, Ids
<1>4. ASSUME NEW t \in Threads, Publish(t) PROVE OnlyDurableLogged'
  <2>1. CASE pending = <<>>
    BY <1>4, <2>1, KeepOnlyDurable DEF Publish
  <2>2. CASE pending # <<>>
    <3>1. /\ Head(pending).id \in durable
          /\ \A i \in DOMAIN Tail(pending) : Tail(pending)[i].id \in durable
      BY <1>0, <2>2 DEF QueueType, OnlyDurableLogged, Ids
    <3>2. /\ queue' = Append(queue, Head(pending)) /\ pending' = Tail(pending)
          /\ UNCHANGED <<entries, held, durable>>
      BY <1>4, <2>2 DEF Publish
    <3>3. \A i \in DOMAIN queue' : queue'[i] # Stop => queue'[i].id \in durable
      BY <1>0, <3>1, <3>2 DEF OnlyDurableLogged, QueueType
    <3>4. QED BY <3>1, <3>2, <3>3 DEF OnlyDurableLogged, BinlogIds, Ids
  <2>3. QED BY <2>1, <2>2
<1>5. CASE WorkerGet
  <2>1. /\ Head(queue) # Stop => Head(queue).id \in durable
        /\ \A i \in DOMAIN Tail(queue) :
             Tail(queue)[i] # Stop => Tail(queue)[i].id \in durable
    BY <1>0, <1>5 DEF WorkerGet, QueueType, OnlyDurableLogged
  <2>2. QED BY <1>5, <2>1 DEF WorkerGet, OnlyDurableLogged, BinlogIds
<1>6. CASE WorkerWrite
  <2>1. held' = None /\ UNCHANGED <<pending, queue, durable>>
    BY <1>6 DEF WorkerWrite
  <2>2. CASE WriteEntry(held)
    <3>1. BinlogIds' = BinlogIds \cup {held.id}
      BY <2>2, WriteEntryIds
    <3>2. held.id \in durable
      BY <1>6 DEF WorkerWrite, OnlyDurableLogged
    <3>3. QED BY <2>1, <3>1, <3>2 DEF OnlyDurableLogged, Ids
  <2>3. CASE WriteEntryFails
    BY <2>1, <2>3 DEF WriteEntryFails, OnlyDurableLogged, BinlogIds, Ids
  <2>4. QED BY <1>6, <2>2, <2>3 DEF WorkerWrite
<1>7. CASE CloseSignal
  <2>1. \A i \in DOMAIN queue' : queue'[i] # Stop => queue'[i].id \in durable
    BY <1>0, <1>7 DEF CloseSignal, OnlyDurableLogged, QueueType
  <2>2. QED BY <1>7, <2>1 DEF CloseSignal, OnlyDurableLogged, BinlogIds, Ids
<1>8. CASE CloseDrain
  <2>1. /\ Head(queue) # Stop => Head(queue).id \in durable
        /\ \A i \in DOMAIN Tail(queue) :
             Tail(queue)[i] # Stop => Tail(queue)[i].id \in durable
    BY <1>0, <1>8 DEF CloseDrain, QueueType, OnlyDurableLogged
  <2>2. queue' = Tail(queue) /\ UNCHANGED <<pending, held, durable>>
    BY <1>8 DEF CloseDrain
  <2>3. BinlogIds' \subseteq durable
    <3>1. CASE Head(queue) # Stop /\ WriteEntry(Head(queue))
      BY <2>1, <3>1, WriteEntryIds DEF OnlyDurableLogged
    <3>2. CASE UNCHANGED entries
      BY <3>2 DEF OnlyDurableLogged, BinlogIds
    <3>3. QED BY <1>8, <3>1, <3>2 DEF CloseDrain, WriteEntryFails
  <2>4. QED BY <2>1, <2>2, <2>3 DEF OnlyDurableLogged, Ids
<1>9. CASE CloseEnd \/ Die
  BY <1>9 DEF CloseEnd, Die, Gone, OnlyDurableLogged, BinlogIds, Ids
<1>10. CASE UNCHANGED <<durable, entries, pending, held, queue>>
  BY <1>10, KeepOnlyDurable
<1>11. QED
  BY <1>1, <1>2, <1>3, <1>4, <1>5, <1>6, <1>7, <1>8, <1>9, <1>10
  DEF Next, Read, BeginTransaction, RollbackTransaction, CommitFails,
      WorkerQuit, CloseBegin, CloseJoin, Open, Discard

\* Whatever the statements, the failures and the restarts, the binlog and what
\* is on its way there hold only statements whose write reached LevelDB.
THEOREM NothingUndoneIsLogged == Spec => []OnlyDurableLogged
<1>1. Init => DurableInv
  BY InitDurableInv
<1>2. DurableInv /\ [Next]_vars => DurableInv'
  BY StepTypeOK, StepLockHeld, StepWrittenDurable, StepOnlyDurable DEF DurableInv
<1>3. DurableInv => OnlyDurableLogged
  BY DEF DurableInv
<1>4. QED BY <1>1, <1>2, <1>3, PTL DEF Spec
-----------------------------------------------------------------------------
(* The way of a statement: it is written, logged into the overlay's list or   *)
(* into the queue, published by a commit, taken by the worker or by close(),  *)
(* and put into the binlog.  On this way no statement overtakes another, and  *)
(* without failures none is lost.                                             *)

EntryIds(s) == {s[i].id : i \in {j \in DOMAIN s : s[j] # Stop}}
HeldIds     == IF held = None THEN {} ELSE {held.id}
LoggingIds  == {stmt[t].id : t \in {u \in Threads : pc[u] = "log"}}

Below(A, B) == \A m \in A, n \in B : m < n

Ascending(s) ==
  \A i, j \in DOMAIN s : i < j /\ s[i] # Stop /\ s[j] # Stop => s[i].id < s[j].id

\* Binlog, held, queue, published, overlay and about to be logged, up to n.
Chain(B, H, Q, P, T, L, n) ==
  /\ Below(B, H \cup Q \cup P \cup T \cup L) /\ Below(H, Q \cup P \cup T \cup L)
  /\ Below(Q, P \cup T \cup L) /\ Below(T, L)
  /\ \A m \in B \cup H \cup Q \cup P \cup T \cup L : m \in Nat /\ m <= n

BinlogAscending == \A p, q \in DOMAIN entries : p < q => entries[p].id < entries[q].id

InOrder ==
  /\ BinlogAscending
  /\ Ascending(queue) /\ Ascending(pending) /\ Ascending(txnlog)
  /\ Chain(BinlogIds, HeldIds, EntryIds(queue), EntryIds(pending), EntryIds(txnlog),
           LoggingIds, seq)

\* Who may be where: the overlay's list is empty outside of a transaction, a
\* commit publishes under the lock with no transaction open, close() begins
\* when nobody is inside, and a worker that holds an entry runs.
Stages ==
  /\ ~active => txnlog = <<>>
  /\ pending # <<>> => \E t \in Threads : pc[t] = "publish"
  /\ \A t \in Threads : pc[t] = "publish" => ~active
  /\ proc # "up" => \A t \in Threads : pc[t] = "idle"
  /\ held # None => worker = "running"
  /\ proc = "draining" /\ timeouts = 0 => worker = "stopped"
  /\ proc = "down" => queue = <<>> /\ held = None
  /\ exit # "none" => proc = "down"

NoneForgotten ==
  durable = BinlogIds \cup HeldIds \cup EntryIds(queue) \cup EntryIds(pending)
              \cup (IF active THEN {} ELSE LoggingIds)

FlowInv ==
  /\ TypeOK /\ LockHeld /\ Stages
  /\ BatchWriters = {} /\ timeouts = 0 => InOrder
  /\ Undisturbed /\ BatchWriters = {} /\ exit \notin {"crash", "stop"} => NoneForgotten

LEMMA StepStages == TypeOK /\ LockHeld /\ Stages /\ [Next]_vars => Stages'
<1> SUFFICES ASSUME TypeOK, LockHeld, Stages, [Next]_vars PROVE Stages'
  OBVIOUS
<1>0. ThreadType /\ EngineType /\ ProcessType /\ QueueType
  BY DEF TypeOK
<1>1. ASSUME NEW t \in Threads, NEW s \in Statements, Read(t, s) PROVE Stages'
  BY <1>0, <1>1 DEF Read, Stages, ThreadType
<1>2. ASSUME NEW t \in Threads, Write(t) \/ BatchWrite(t) PROVE Stages'
  BY <1>0, <1>2 DEF Write, BatchWrite, TransactionPut, Stages, ThreadType
<1>3. ASSUME NEW t \in Threads, Log(t) PROVE Stages'
  BY <1>0, <1>3 DEF Log, Stages, ThreadType
<1>4. ASSUME NEW t \in Threads, CommitTransaction(t) PROVE Stages'
  BY <1>0, <1>4 DEF CommitTransaction, Stages, ThreadType
<1>5. ASSUME NEW t \in Threads, Publish(t) PROVE Stages'
  <2>1. CASE pending = <<>>
    BY <1>0, <1>5, <2>1 DEF Publish, Stages, ThreadType
  <2>2. CASE pending # <<>>
    BY <1>0, <1>5, <2>2 DEF Publish, Stages, ThreadType
  <2>3. QED BY <2>1, <2>2
<1>6. CASE BeginTransaction
  <2>1. \A t \in Threads : pc[t] # "publish"
    BY <1>0, <1>6, ConstAssumption DEF BeginTransaction, LockHeld, Threads
  <2>2. QED BY <1>6, <2>1 DEF BeginTransaction, Stages
<1>7. CASE RollbackTransaction \/ CommitFails
  BY <1>7 DEF RollbackTransaction, CommitFails, Discard, Stages
<1>8. CASE WorkerGet \/ WorkerWrite \/ WorkerQuit
  BY <1>0, <1>8 DEF WorkerGet, WorkerWrite, WorkerQuit, WriteEntry, WriteEntryFails, Stages
<1>9. CASE CloseBegin \/ CloseSignal \/ CloseDrain
  BY <1>0, <1>9 DEF CloseBegin, CloseSignal, CloseDrain, Quiet, Stages
<1>10. CASE CloseJoin
  BY <1>0, <1>10 DEF CloseJoin, Stages, ProcessType
<1>11. CASE CloseEnd \/ Die
  BY <1>11 DEF CloseEnd, Die, Gone, Discard, Stages
<1>12. CASE Open
  BY <1>0, <1>12 DEF Open, Stages
<1>13. CASE UNCHANGED vars
  BY <1>13 DEF Stages
<1>14. QED
  BY <1>1, <1>2, <1>3, <1>4, <1>5, <1>6, <1>7, <1>8, <1>9, <1>10, <1>11, <1>12, <1>13 DEF Next

LEMMA EntryIdsAppend ==
  ASSUME NEW S, NEW s \in Seq(S), NEW e \in S
  PROVE  EntryIds(Append(s, e)) = EntryIds(s) \cup (IF e = Stop THEN {} ELSE {e.id})
<1>1. DOMAIN Append(s, e) = DOMAIN s \cup {Len(s) + 1} /\ Len(s) + 1 \notin DOMAIN s
  OBVIOUS
<1>2. Append(s, e)[Len(s) + 1] = e /\ \A i \in DOMAIN s : Append(s, e)[i] = s[i]
  OBVIOUS
<1>3. QED BY <1>1, <1>2 DEF EntryIds

LEMMA AscendingAppend ==
  ASSUME NEW S, NEW s \in Seq(S), NEW e \in S, Ascending(s),
         e # Stop => Below(EntryIds(s), {e.id})
  PROVE  Ascending(Append(s, e))
<1>1. DOMAIN Append(s, e) = 1 .. Len(s) + 1 /\ DOMAIN s = 1 .. Len(s) /\ Len(s) \in Nat
  OBVIOUS
<1>2. Append(s, e)[Len(s) + 1] = e /\ \A i \in DOMAIN s : Append(s, e)[i] = s[i]
  OBVIOUS
<1>3. \A i \in DOMAIN s : s[i] # Stop /\ e # Stop => s[i].id < e.id
  BY DEF Below, EntryIds
<1>4. QED BY <1>1, <1>2, <1>3 DEF Ascending

LEMMA EntryIdsTail ==
  ASSUME NEW S, NEW s \in Seq(S), s # <<>>
  PROVE  EntryIds(s) = (IF Head(s) = Stop THEN {} ELSE {Head(s).id}) \cup EntryIds(Tail(s))
<1>1. DOMAIN s = 1 .. Len(s) /\ Len(s) \in Nat \ {0} /\ Head(s) = s[1]
  OBVIOUS
<1>2. DOMAIN Tail(s) = 1 .. Len(s) - 1 /\ \A i \in 1 .. Len(s) - 1 : Tail(s)[i] = s[i + 1]
  OBVIOUS
<1>3. \A i \in DOMAIN s : i = 1 \/ (i - 1 \in DOMAIN Tail(s) /\ Tail(s)[i - 1] = s[i])
  BY <1>1, <1>2
<1>4. \A i \in DOMAIN Tail(s) : i + 1 \in DOMAIN s /\ Tail(s)[i] = s[i + 1]
  BY <1>1, <1>2
<1>5. ASSUME NEW x \in EntryIds(s)
      PROVE  x \in (IF Head(s) = Stop THEN {} ELSE {Head(s).id}) \cup EntryIds(Tail(s))
  <2>1. PICK i \in DOMAIN s : s[i] # Stop /\ x = s[i].id
    BY <1>5 DEF EntryIds
  <2>2. CASE i = 1
    BY <1>1, <2>1, <2>2
  <2>3. CASE i # 1
    BY <1>3, <2>1, <2>3 DEF EntryIds
  <2>4. QED BY <2>2, <2>3
<1>6. ASSUME NEW x \in (IF Head(s) = Stop THEN {} ELSE {Head(s).id}) \cup EntryIds(Tail(s))
      PROVE  x \in EntryIds(s)
  <2>1. CASE x \in EntryIds(Tail(s))
    <3>1. PICK i \in DOMAIN Tail(s) : Tail(s)[i] # Stop /\ x = Tail(s)[i].id
      BY <2>1 DEF EntryIds
    <3>2. QED BY <1>4, <3>1 DEF EntryIds
  <2>2. CASE x \notin EntryIds(Tail(s))
    <3>1. Head(s) # Stop /\ x = Head(s).id /\ 1 \in DOMAIN s
      BY <1>1, <1>6, <2>2
    <3>2. QED BY <1>1, <3>1 DEF EntryIds
  <2>3. QED BY <2>1, <2>2
<1>7. QED BY <1>5, <1>6

LEMMA AscendingTail ==
  ASSUME NEW S, NEW s \in Seq(S), s # <<>>, Ascending(s)
  PROVE  /\ Ascending(Tail(s))
         /\ Head(s) # Stop => Below({Head(s).id}, EntryIds(Tail(s)))
<1>1. DOMAIN s = 1 .. Len(s) /\ Len(s) \in Nat \ {0} /\ Head(s) = s[1]
  OBVIOUS
<1>2. DOMAIN Tail(s) = 1 .. Len(s) - 1 /\ \A i \in 1 .. Len(s) - 1 : Tail(s)[i] = s[i + 1]
  OBVIOUS
<1>3. \A i \in DOMAIN Tail(s) : i + 1 \in DOMAIN s /\ i + 1 > 1 /\ Tail(s)[i] = s[i + 1]
  BY <1>1, <1>2
<1>4. Ascending(Tail(s))
  BY <1>1, <1>2, <1>3 DEF Ascending
<1>5. ASSUME Head(s) # Stop, NEW i \in DOMAIN Tail(s), Tail(s)[i] # Stop
      PROVE  Head(s).id < Tail(s)[i].id
  BY <1>1, <1>3, <1>5 DEF Ascending
<1>6. QED BY <1>4, <1>5 DEF Below, EntryIds

LEMMA EmptyIds == EntryIds(<<>>) = {} /\ Ascending(<<>>)
  BY DEF EntryIds, Ascending

\* The sets of the next state, by what its sequences are.
LEMMA NextIds ==
  \A s : /\ queue' = s => EntryIds(queue)' = EntryIds(s) /\ (Ascending(queue)' <=> Ascending(s))
         /\ pending' = s => EntryIds(pending)' = EntryIds(s) /\ (Ascending(pending)' <=> Ascending(s))
         /\ txnlog' = s => EntryIds(txnlog)' = EntryIds(s) /\ (Ascending(txnlog)' <=> Ascending(s))
  BY DEF EntryIds, Ascending

LEMMA NextSame ==
  /\ held' = held => HeldIds' = HeldIds
  /\ held' = None => HeldIds' = {}
  /\ UNCHANGED <<pc, stmt>> => LoggingIds' = LoggingIds
  /\ UNCHANGED entries => BinlogIds' = BinlogIds /\ (BinlogAscending' <=> BinlogAscending)
  BY DEF HeldIds, LoggingIds, BinlogIds, BinlogAscending

\* Lists of entries hold no sentinel.
LEMMA EntriesIds ==
  ASSUME NEW s \in Seq(Entries)
  PROVE  EntryIds(s) = Ids(s)
  BY SentinelAssumption DEF EntryIds, Ids

\* One more entry at the end of the binlog.
LEMMA WriteEntryOrder ==
  ASSUME TypeOK, BinlogAscending, NEW e \in Entries, Below(BinlogIds, {e.id}), WriteEntry(e)
  PROVE  BinlogAscending' /\ BinlogIds' = BinlogIds \cup {e.id}
<1>0. BinlogType /\ \A p \in DOMAIN entries : p \in Nat /\ p <= position
  BY DEF TypeOK, BinlogType
<1>1. DOMAIN entries' = DOMAIN entries \cup {position + 1}
  BY DEF WriteEntry
<1>2. entries'[position + 1] = e /\ \A p \in DOMAIN entries : entries'[p] = entries[p]
  BY <1>0 DEF WriteEntry, BinlogType
<1>3. \A p \in DOMAIN entries : entries[p].id < e.id
  BY DEF Below, BinlogIds
<1>4. BinlogAscending'
  BY <1>0, <1>1, <1>2, <1>3 DEF BinlogAscending, BinlogType
<1>5. QED BY <1>4, WriteEntryIds

\* A thread about to log has written last; nobody else is inside.
LEMMA OneInside ==
  ASSUME TypeOK, LockHeld, BatchWriters = {}, NEW t \in Threads, pc[t] # "idle"
  PROVE  /\ t \in Writers /\ lock = t
         /\ \A u \in Threads : u # t => pc[u] = "idle"
  BY ConstAssumption DEF LockHeld, Threads

LEMMA NobodyInside ==
  ASSUME TypeOK, LockHeld, BatchWriters = {}, lock = None
  PROVE  \A u \in Threads : pc[u] = "idle"
  BY ConstAssumption DEF LockHeld, Threads

LEMMA NobodyLogs ==
  ASSUME \A u \in Threads : pc[u] # "log"
  PROVE  LoggingIds = {}
  BY DEF LoggingIds

LEMMA QuietPending ==
  ASSUME Stages, \A u \in Threads : pc[u] = "idle"
  PROVE  pending = <<>> /\ LoggingIds = {}
  BY DEF Stages, LoggingIds

LEMMA StepInOrder ==
  ASSUME TypeOK, LockHeld, Stages, InOrder, BatchWriters = {}, timeouts = 0,
         timeouts' = 0, [Next]_vars
  PROVE  InOrder'
<1> USE EmptyIds
<1>0. /\ ThreadType /\ EngineType /\ ProcessType /\ QueueType /\ BinlogType
      /\ queue \in Seq(Entries \cup {Stop}) /\ pending \in Seq(Entries)
      /\ txnlog \in Seq(Entries) /\ Stop \notin Entries
  BY SentinelAssumption DEF TypeOK, QueueType, EngineType
<1>00. pending \in Seq(Entries \cup {Stop}) /\ txnlog \in Seq(Entries \cup {Stop})
  BY <1>0
<1>1. ASSUME NEW t \in Threads, NEW s \in Statements, Read(t, s) PROVE InOrder'
  <2>1. LoggingIds' \subseteq LoggingIds
    BY <1>0, <1>1 DEF Read, LoggingIds, ThreadType
  <2>2. UNCHANGED <<entries, held, queue, pending, txnlog, seq>>
    BY <1>1 DEF Read
  <2>3. QED BY <2>1, <2>2, NextIds, NextSame DEF InOrder, Chain, Below
<1>2. ASSUME NEW t \in Threads, Write(t) \/ BatchWrite(t) PROVE InOrder'
  <2>1. \A u \in Threads : u # t => pc[u] = "idle"
    BY <1>2, OneInside DEF Write, BatchWrite
  <2>2. pending = <<>> /\ LoggingIds' \subseteq {seq + 1}
    BY <1>0, <1>2, <2>1 DEF Write, BatchWrite, LoggingIds, ThreadType, Stages
  <2>3. UNCHANGED <<entries, held, queue, pending, txnlog>> /\ seq' = seq + 1 /\ seq \in Nat
    BY <1>0, <1>2 DEF Write, BatchWrite, TransactionPut, EngineType
  <2>4. QED BY <2>2, <2>3, NextIds, NextSame DEF InOrder, Chain, Below
<1>3. ASSUME NEW t \in Threads, Log(t) PROVE InOrder'
  <2>1. \A u \in Threads : u # t => pc[u] = "idle"
    BY <1>3, OneInside DEF Log
  <2>2. pending = <<>> /\ LoggingIds' = {} /\ stmt[t].id \in LoggingIds
    BY <1>0, <1>3, <2>1 DEF Log, LoggingIds, ThreadType, Stages
  <2>3. UNCHANGED <<entries, held, pending, seq>> /\ stmt[t] \in Entries
    BY <1>0, <1>3 DEF Log, ThreadType
  <2>4. CASE active
    <3>1. txnlog' = Append(txnlog, stmt[t]) /\ UNCHANGED queue
      BY <1>3, <2>4 DEF Log
    <3>2. Below(EntryIds(txnlog), {stmt[t].id})
      BY <2>2 DEF InOrder, Chain, Below
    <3>3. /\ EntryIds(txnlog)' = EntryIds(txnlog) \cup {stmt[t].id}
          /\ Ascending(txnlog)'
      <4>1. EntryIds(Append(txnlog, stmt[t])) = EntryIds(txnlog) \cup {stmt[t].id}
        BY <1>0, <2>3, EntryIdsAppend
      <4>2. Ascending(Append(txnlog, stmt[t]))
        BY <1>0, <2>3, <3>2, AscendingAppend DEF InOrder
      <4>3. QED BY <3>1, <4>1, <4>2, NextIds
    <3>4. QED BY <2>2, <2>3, <3>1, <3>3, NextIds, NextSame DEF InOrder, Chain, Below
  <2>5. CASE ~active
    <3>1. queue' = Append(queue, stmt[t]) /\ UNCHANGED txnlog /\ txnlog = <<>>
      BY <1>3, <2>5 DEF Log, Stages
    <3>2. Below(EntryIds(queue), {stmt[t].id})
      BY <2>2 DEF InOrder, Chain, Below
    <3>3. /\ EntryIds(queue)' = EntryIds(queue) \cup {stmt[t].id}
          /\ Ascending(queue)'
      BY <1>0, <2>3, <3>1, <3>2, EntryIdsAppend, AscendingAppend, NextIds DEF InOrder
    <3>4. QED BY <2>2, <2>3, <3>1, <3>3, NextIds, NextSame DEF InOrder, Chain, Below
  <2>6. QED BY <2>4, <2>5
<1>4. ASSUME NEW t \in Threads, CommitTransaction(t) PROVE InOrder'
  <2>1. pending = <<>> /\ LoggingIds = {} /\ LoggingIds' = {}
    <3>1. \A u \in Threads : pc[u] = "idle"
      BY <1>4, NobodyInside DEF CommitTransaction
    <3>2. \A u \in Threads : pc'[u] # "log"
      BY <1>0, <1>4, <3>1 DEF CommitTransaction, ThreadType
    <3>3. QED BY <3>1, <3>2, QuietPending DEF LoggingIds
  <2>2. UNCHANGED <<entries, held, queue, seq>> /\ txnlog' = <<>> /\ pending' = txnlog
    BY <1>4 DEF CommitTransaction
  <2>3. QED BY <2>1, <2>2, NextIds, NextSame DEF InOrder, Chain, Below
<1>5. ASSUME NEW t \in Threads, Publish(t) PROVE InOrder'
  <2>1. ~active /\ txnlog = <<>> /\ LoggingIds = {} /\ LoggingIds' = {}
    BY <1>0, <1>5, OneInside DEF Publish, Stages, LoggingIds, ThreadType
  <2>2. CASE pending = <<>>
    <3>1. UNCHANGED <<entries, held, queue, pending, txnlog, seq>>
      BY <1>5, <2>2 DEF Publish
    <3>2. QED BY <2>1, <3>1, NextIds, NextSame DEF InOrder, Chain, Below
  <2>3. CASE pending # <<>>
    <3>1. /\ queue' = Append(queue, Head(pending)) /\ pending' = Tail(pending)
          /\ UNCHANGED <<entries, held, txnlog, seq>>
      BY <1>5, <2>3 DEF Publish
    <3>2. Head(pending) \in Entries /\ Head(pending) # Stop
      BY <1>0, <2>3
    <3>3. EntryIds(pending) = {Head(pending).id} \cup EntryIds(Tail(pending))
      BY <1>0, <2>3, <3>2, EntryIdsTail
    <3>4. Ascending(Tail(pending)) /\ Below({Head(pending).id}, EntryIds(Tail(pending)))
      BY <1>0, <2>3, <3>2, AscendingTail DEF InOrder
    <3>5. Below(EntryIds(queue), {Head(pending).id})
      BY <3>3 DEF InOrder, Chain, Below
    <3>6. /\ EntryIds(queue)' = EntryIds(queue) \cup {Head(pending).id}
          /\ Ascending(queue)'
      <4>1. EntryIds(Append(queue, Head(pending))) = EntryIds(queue) \cup {Head(pending).id}
        BY <1>0, <3>2, EntryIdsAppend
      <4>2. Ascending(Append(queue, Head(pending)))
        BY <1>0, <3>2, <3>5, AscendingAppend DEF InOrder
      <4>3. QED BY <3>1, <4>1, <4>2, NextIds
    <3>7. EntryIds(pending)' = EntryIds(Tail(pending)) /\ Ascending(pending)'
      BY <3>1, <3>4, NextIds
    <3>8. QED BY <2>1, <3>1, <3>3, <3>4, <3>6, <3>7, NextIds, NextSame DEF InOrder, Chain, Below
  <2>4. QED BY <2>2, <2>3
<1>6. CASE BeginTransaction \/ RollbackTransaction \/ CommitFails
  <2>1. UNCHANGED <<entries, held, queue, pending, pc, stmt, seq>> /\ txnlog' = <<>>
    BY <1>6 DEF BeginTransaction, RollbackTransaction, CommitFails, Discard
  <2>2. QED BY <2>1, NextIds, NextSame DEF InOrder, Chain, Below
<1>7. CASE WorkerGet
  <2>1. /\ queue # <<>> /\ queue' = Tail(queue) /\ held = None /\ HeldIds = {}
        /\ UNCHANGED <<entries, pending, txnlog, pc, stmt, seq>>
    BY <1>7 DEF WorkerGet, HeldIds
  <2>2. Ascending(queue)' /\ EntryIds(queue)' = EntryIds(Tail(queue))
    BY <1>0, <2>1, AscendingTail, NextIds DEF InOrder
  <2>3. CASE Head(queue) = Stop
    <3>1. HeldIds' = {} /\ EntryIds(queue) = EntryIds(Tail(queue))
      BY <1>0, <1>7, <2>1, <2>3, EntryIdsTail, NextSame DEF WorkerGet
    <3>2. QED BY <2>1, <2>2, <3>1, NextIds, NextSame DEF InOrder, Chain, Below
  <2>4. CASE Head(queue) # Stop
    <3>1. held' = Head(queue)
      BY <1>7, <2>4 DEF WorkerGet
    <3>2. Head(queue) \in Entries /\ Head(queue) # None
      BY <1>0, <2>1, <2>4, SentinelAssumption
    <3>3. HeldIds' = {Head(queue).id}
      BY <3>1, <3>2 DEF HeldIds
    <3>4. EntryIds(queue) = {Head(queue).id} \cup EntryIds(Tail(queue))
      BY <1>0, <2>1, <2>4, EntryIdsTail
    <3>5. Below({Head(queue).id}, EntryIds(Tail(queue)))
      BY <1>0, <2>1, <2>4, AscendingTail DEF InOrder
    <3>6. QED BY <2>1, <2>2, <3>3, <3>4, <3>5, NextIds, NextSame DEF InOrder, Chain, Below
  <2>5. QED BY <2>3, <2>4
<1>8. CASE WorkerWrite
  <2>1. /\ held # None /\ held' = None /\ HeldIds' = {} /\ HeldIds = {held.id} /\ held \in Entries
        /\ UNCHANGED <<queue, pending, txnlog, pc, stmt, seq>>
    BY <1>0, <1>8, NextSame DEF WorkerWrite, HeldIds, QueueType
  <2>2. CASE WriteEntry(held)
    <3>1. Below(BinlogIds, {held.id})
      BY <2>1 DEF InOrder, Chain, Below
    <3>2. BinlogAscending' /\ BinlogIds' = BinlogIds \cup {held.id}
      BY <2>1, <2>2, <3>1, WriteEntryOrder DEF InOrder
    <3>3. QED BY <2>1, <3>2, NextIds, NextSame DEF InOrder, Chain, Below
  <2>3. CASE WriteEntryFails
    BY <2>1, <2>3, NextIds, NextSame DEF InOrder, Chain, Below, WriteEntryFails
  <2>4. QED BY <1>8, <2>2, <2>3 DEF WorkerWrite
<1>9. CASE CloseSignal
  <2>1. queue' = Append(queue, Stop) /\ UNCHANGED <<entries, held, pending, txnlog, pc, stmt, seq>>
    BY <1>9 DEF CloseSignal
  <2>2. EntryIds(queue)' = EntryIds(queue) /\ Ascending(queue)'
    <3>1. EntryIds(Append(queue, Stop)) = EntryIds(queue)
      <4>1. Stop \in Entries \cup {Stop}
        OBVIOUS
      <4>2. QED BY <1>0, <4>1, EntryIdsAppend
    <3>2. Ascending(Append(queue, Stop))
      BY <1>0, AscendingAppend DEF InOrder
    <3>3. QED BY <2>1, <3>1, <3>2, NextIds
  <2>3. QED BY <2>1, <2>2, NextIds, NextSame DEF InOrder, Chain, Below
<1>10. CASE CloseDrain
  <2>1. /\ queue # <<>> /\ queue' = Tail(queue) /\ held = None /\ HeldIds = {}
        /\ UNCHANGED <<held, pending, txnlog, pc, stmt, seq>>
    BY <1>0, <1>10 DEF CloseDrain, HeldIds, Stages
  <2>2. Ascending(queue)' /\ EntryIds(queue)' = EntryIds(Tail(queue))
    BY <1>0, <2>1, AscendingTail, NextIds DEF InOrder
  <2>3. EntryIds(queue) = (IF Head(queue) = Stop THEN {} ELSE {Head(queue).id}) \cup EntryIds(Tail(queue))
    BY <1>0, <2>1, EntryIdsTail
  <2>4. CASE Head(queue) # Stop /\ WriteEntry(Head(queue))
    <3>1. Head(queue) \in Entries /\ Below(BinlogIds, {Head(queue).id})
      BY <1>0, <2>1, <2>3, <2>4 DEF InOrder, Chain, Below
    <3>2. BinlogAscending' /\ BinlogIds' = BinlogIds \cup {Head(queue).id}
      BY <2>4, <3>1, WriteEntryOrder DEF InOrder
    <3>3. Below({Head(queue).id}, EntryIds(Tail(queue)))
      BY <1>0, <2>1, <2>4, AscendingTail DEF InOrder
    <3>4. QED BY <2>1, <2>2, <2>3, <2>4, <3>2, <3>3, NextIds, NextSame DEF InOrder, Chain, Below
  <2>5. CASE UNCHANGED entries
    BY <2>1, <2>2, <2>3, <2>5, NextIds, NextSame DEF InOrder, Chain, Below
  <2>6. QED BY <1>10, <2>4, <2>5 DEF CloseDrain, WriteEntryFails
<1>11. CASE CloseEnd \/ Die
  <2>1. /\ held' = None /\ queue' = <<>> /\ pending' = <<>> /\ txnlog' = <<>>
        /\ UNCHANGED <<entries, seq>> /\ \A t \in Threads : pc'[t] = "idle"
    BY <1>11 DEF CloseEnd, Die, Gone, Discard
  <2>2. LoggingIds' = {}
    BY <2>1 DEF LoggingIds
  <2>3. QED BY <2>1, <2>2, NextIds, NextSame DEF InOrder, Chain, Below
<1>12. CASE UNCHANGED <<entries, held, queue, pending, txnlog, pc, stmt, seq>>
  BY <1>12, NextIds, NextSame DEF InOrder, Chain, Below
<1>13. QED
  BY <1>1, <1>2, <1>3, <1>4, <1>5, <1>6, <1>7, <1>8, <1>9, <1>10, <1>11, <1>12
  DEF Next, WorkerQuit, CloseBegin, CloseJoin, Open

LEMMA StepNoneForgotten ==
  ASSUME TypeOK, LockHeld, Stages, NoneForgotten, BatchWriters = {}, Undisturbed,
         Undisturbed', exit' \notin {"crash", "stop"}, [Next]_vars
  PROVE  NoneForgotten'
<1> USE EmptyIds
<1>0. /\ ThreadType /\ EngineType /\ ProcessType /\ QueueType /\ BinlogType
      /\ queue \in Seq(Entries \cup {Stop}) /\ pending \in Seq(Entries \cup {Stop})
      /\ pending \in Seq(Entries) /\ txnlog \in Seq(Entries)
      /\ Stop \notin Entries /\ None \notin Entries /\ timeouts = 0 /\ fails \in Nat
  BY SentinelAssumption DEF TypeOK, QueueType, EngineType, ProcessType, Undisturbed
<1>1. ASSUME NEW t \in Threads, NEW s \in Statements, Read(t, s) PROVE NoneForgotten'
  <2>1. LoggingIds' = LoggingIds
    BY <1>0, <1>1 DEF Read, LoggingIds, ThreadType
  <2>2. UNCHANGED <<entries, held, queue, pending, durable, active>>
    BY <1>1 DEF Read
  <2>3. QED BY <2>1, <2>2, NextIds, NextSame DEF NoneForgotten
<1>2. ASSUME NEW t \in Threads, Write(t) \/ BatchWrite(t) PROVE NoneForgotten'
  <2>1. Write(t) /\ t \in Writers /\ (\A u \in Threads : u # t => pc[u] = "idle")
    BY <1>2, OneInside DEF Write, BatchWrite
  <2>2. LoggingIds = {} /\ LoggingIds' = {seq + 1}
    BY <1>0, <2>1 DEF Write, LoggingIds, ThreadType
  <2>3. UNCHANGED <<entries, held, queue, pending, active>>
    BY <2>1 DEF Write
  <2>4. durable' = IF active THEN durable ELSE durable \cup {seq + 1}
    BY <2>1 DEF Write, TransactionPut
  <2>5. QED BY <2>2, <2>3, <2>4, NextIds, NextSame DEF NoneForgotten
<1>3. ASSUME NEW t \in Threads, Log(t) PROVE NoneForgotten'
  <2>1. \A u \in Threads : u # t => pc[u] = "idle"
    BY <1>3, OneInside DEF Log
  <2>2. LoggingIds' = {} /\ LoggingIds = {stmt[t].id}
    BY <1>0, <1>3, <2>1 DEF Log, LoggingIds, ThreadType
  <2>3. UNCHANGED <<entries, held, pending, durable, active>> /\ stmt[t] \in Entries
    BY <1>0, <1>3 DEF Log, ThreadType
  <2>4. CASE active
    <3>1. UNCHANGED queue
      BY <1>3, <2>4 DEF Log
    <3>2. QED BY <2>3, <2>4, <3>1, NextIds, NextSame DEF NoneForgotten
  <2>5. CASE ~active
    <3>1. queue' = Append(queue, stmt[t])
      BY <1>3, <2>5 DEF Log
    <3>2. EntryIds(Append(queue, stmt[t])) = EntryIds(queue) \cup {stmt[t].id}
      BY <1>0, <2>3, EntryIdsAppend
    <3>3. QED BY <2>2, <2>3, <2>5, <3>1, <3>2, NextIds, NextSame DEF NoneForgotten
  <2>6. QED BY <2>4, <2>5
<1>4. ASSUME NEW t \in Threads, CommitTransaction(t) PROVE NoneForgotten'
  <2>1. pending = <<>> /\ LoggingIds' = {}
    <3>1. \A u \in Threads : pc[u] = "idle"
      BY <1>4, NobodyInside DEF CommitTransaction
    <3>2. \A u \in Threads : pc'[u] # "log"
      BY <1>0, <1>4, <3>1 DEF CommitTransaction, ThreadType
    <3>3. QED BY <3>1, <3>2, QuietPending DEF LoggingIds
  <2>2. /\ UNCHANGED <<entries, held, queue>> /\ pending' = txnlog /\ active /\ ~active'
        /\ durable' = durable \cup Ids(txnlog)
    BY <1>4 DEF CommitTransaction
  <2>3. EntryIds(txnlog) = Ids(txnlog)
    BY <1>0, EntriesIds
  <2>4. QED BY <2>1, <2>2, <2>3, NextIds, NextSame DEF NoneForgotten
<1>5. ASSUME NEW t \in Threads, Publish(t) PROVE NoneForgotten'
  <2>1. ~active /\ LoggingIds = {} /\ LoggingIds' = {}
    <3>1. \A u \in Threads : u # t => pc[u] = "idle"
      BY <1>5, OneInside DEF Publish
    <3>2. QED BY <1>0, <1>5, <3>1 DEF Publish, Stages, LoggingIds, ThreadType
  <2>2. CASE pending = <<>>
    <3>1. UNCHANGED <<entries, held, queue, pending, durable, active>>
      BY <1>5, <2>2 DEF Publish
    <3>2. QED BY <2>1, <3>1, NextIds, NextSame DEF NoneForgotten
  <2>3. CASE pending # <<>>
    <3>1. /\ queue' = Append(queue, Head(pending)) /\ pending' = Tail(pending)
          /\ UNCHANGED <<entries, held, durable, active>>
      BY <1>5, <2>3 DEF Publish
    <3>2. Head(pending) \in Entries /\ Head(pending) # Stop
      BY <1>0, <2>3
    <3>3. EntryIds(pending) = {Head(pending).id} \cup EntryIds(Tail(pending))
      BY <1>0, <2>3, <3>2, EntryIdsTail
    <3>4. EntryIds(Append(queue, Head(pending))) = EntryIds(queue) \cup {Head(pending).id}
      BY <1>0, <3>2, EntryIdsAppend
    <3>5. QED BY <2>1, <3>1, <3>3, <3>4, NextIds, NextSame DEF NoneForgotten
  <2>4. QED BY <2>2, <2>3
<1>6. CASE BeginTransaction \/ RollbackTransaction \/ CommitFails
  <2>1. UNCHANGED <<entries, held, queue, pending, pc, stmt, durable>>
    BY <1>6 DEF BeginTransaction, RollbackTransaction, CommitFails, Discard
  <2>2. LoggingIds = {}
    BY <1>6, NobodyInside
    DEF BeginTransaction, RollbackTransaction, CommitFails, LoggingIds
  <2>3. QED BY <2>1, <2>2, NextIds, NextSame DEF NoneForgotten
<1>7. CASE WorkerGet
  <2>1. /\ queue # <<>> /\ queue' = Tail(queue) /\ HeldIds = {}
        /\ UNCHANGED <<entries, pending, pc, stmt, durable, active>>
    BY <1>7 DEF WorkerGet, HeldIds
  <2>2. EntryIds(queue) = (IF Head(queue) = Stop THEN {} ELSE {Head(queue).id}) \cup EntryIds(Tail(queue))
    BY <1>0, <2>1, EntryIdsTail
  <2>3. HeldIds' = IF Head(queue) = Stop THEN {} ELSE {Head(queue).id}
    <3>1. CASE Head(queue) = Stop
      BY <1>7, <2>1, <3>1, NextSame DEF WorkerGet
    <3>2. CASE Head(queue) # Stop
      <4>1. Head(queue) # None /\ held' = Head(queue)
        BY <1>0, <1>7, <2>1, <3>2, SentinelAssumption DEF WorkerGet
      <4>2. QED BY <3>2, <4>1 DEF HeldIds
    <3>3. QED BY <3>1, <3>2
  <2>4. QED BY <2>1, <2>2, <2>3, NextIds, NextSame DEF NoneForgotten
<1>8. CASE WorkerWrite
  <2>1. /\ held # None /\ HeldIds' = {} /\ HeldIds = {held.id}
        /\ UNCHANGED <<queue, pending, pc, stmt, durable, active>>
    BY <1>8, NextSame DEF WorkerWrite, HeldIds
  <2>2. WriteEntry(held)
    BY <1>8, <1>0 DEF WorkerWrite, WriteEntryFails, Undisturbed
  <2>3. BinlogIds' = BinlogIds \cup {held.id}
    BY <2>2, WriteEntryIds
  <2>4. QED BY <2>1, <2>3, NextIds, NextSame DEF NoneForgotten
<1>9. CASE CloseSignal
  <2>1. queue' = Append(queue, Stop) /\ UNCHANGED <<entries, held, pending, pc, stmt, durable, active>>
    BY <1>9 DEF CloseSignal
  <2>2. EntryIds(Append(queue, Stop)) = EntryIds(queue)
    <3>1. Stop \in Entries \cup {Stop}
      OBVIOUS
    <3>2. QED BY <1>0, <3>1, EntryIdsAppend
  <2>3. QED BY <2>1, <2>2, NextIds, NextSame DEF NoneForgotten
<1>10. CASE CloseDrain
  <2>1. /\ queue # <<>> /\ queue' = Tail(queue)
        /\ UNCHANGED <<held, pending, pc, stmt, durable, active>>
    BY <1>10 DEF CloseDrain
  <2>2. EntryIds(queue) = (IF Head(queue) = Stop THEN {} ELSE {Head(queue).id}) \cup EntryIds(Tail(queue))
    BY <1>0, <2>1, EntryIdsTail
  <2>3. BinlogIds' = BinlogIds \cup (IF Head(queue) = Stop THEN {} ELSE {Head(queue).id})
    <3>1. CASE Head(queue) = Stop
      BY <1>10, <3>1, NextSame DEF CloseDrain
    <3>2. CASE Head(queue) # Stop
      <4>1. WriteEntry(Head(queue))
        BY <1>0, <1>10, <3>2 DEF CloseDrain, WriteEntryFails, Undisturbed
      <4>2. QED BY <3>2, <4>1, WriteEntryIds
    <3>3. QED BY <3>1, <3>2
  <2>4. QED BY <2>1, <2>2, <2>3, NextIds, NextSame DEF NoneForgotten
<1>11. CASE CloseEnd
  <2>1. /\ held' = None /\ queue' = <<>> /\ pending' = <<>> /\ queue = <<>>
        /\ UNCHANGED <<entries, durable>> /\ \A t \in Threads : pc'[t] = "idle"
    BY <1>11 DEF CloseEnd, Gone
  <2>2. held = None /\ pending = <<>> /\ LoggingIds = {}
    BY <1>0, <1>11, QuietPending DEF CloseEnd, Stages
  <2>3. LoggingIds' = {} /\ HeldIds = {}
    BY <2>1, <2>2 DEF LoggingIds, HeldIds
  <2>4. QED BY <2>1, <2>2, <2>3, NextIds, NextSame DEF NoneForgotten
<1>12. CASE Die
  BY <1>12 DEF Die, Gone
<1>13. CASE Open
  BY <1>0, <1>13 DEF Open, Undisturbed
<1>14. CASE UNCHANGED <<entries, held, queue, pending, pc, stmt, durable, active>>
  BY <1>14, NextIds, NextSame DEF NoneForgotten
<1>15. QED
  BY <1>1, <1>2, <1>3, <1>4, <1>5, <1>6, <1>7, <1>8, <1>9, <1>10, <1>11, <1>12, <1>13, <1>14
  DEF Next, WorkerQuit, CloseBegin, CloseJoin

\* Failures, crashes and reopenings are counted and never forgotten.
LEMMA CountsGrow ==
  ASSUME TypeOK, Stages, [Next]_vars
  PROVE  /\ timeouts' = 0 => timeouts = 0
         /\ Undisturbed' /\ exit' \notin {"crash", "stop"}
              => Undisturbed /\ exit \notin {"crash", "stop"}
<1>0. fails \in Nat /\ timeouts \in Nat /\ restarts \in Nat
  BY DEF TypeOK, ProcessType
<1>1. (timeouts' = 0 => timeouts = 0) /\ (fails' = 0 => fails = 0) /\ (restarts' = 0 => restarts = 0)
  BY <1>0
  DEF Next, Read, Write, BatchWrite, TransactionPut, Log, CommitTransaction, Publish,
      BeginTransaction, RollbackTransaction, CommitFails, Discard, WorkerGet, WorkerWrite,
      WriteEntry, WriteEntryFails, WorkerQuit, CloseBegin, CloseSignal, CloseJoin,
      CloseDrain, CloseEnd, Gone, Die, Open
<1>2. exit' # exit => restarts' = restarts + 1 \/ (exit = "none" \/ proc # "down")
  BY DEF Next, Read, Write, BatchWrite, TransactionPut, Log, CommitTransaction, Publish,
      BeginTransaction, RollbackTransaction, CommitFails, Discard, WorkerGet, WorkerWrite,
      WriteEntry, WriteEntryFails, WorkerQuit, CloseBegin, CloseSignal, CloseJoin,
      CloseDrain, CloseEnd, Gone, Die, Open
<1>3. QED BY <1>0, <1>1, <1>2 DEF Undisturbed, Stages

LEMMA InitFlowInv == Init => FlowInv
<1> SUFFICES ASSUME Init PROVE FlowInv
  OBVIOUS
<1>1. LockHeld
  BY DEF Init, LockHeld
<1>2. Stages
  BY DEF Init, Stages
<1>3. BinlogIds = {} /\ HeldIds = {} /\ LoggingIds = {} /\ EntryIds(queue) = {}
      /\ EntryIds(pending) = {} /\ EntryIds(txnlog) = {} /\ durable = {}
  BY EmptyIds DEF Init, BinlogIds, HeldIds, LoggingIds
<1>4. InOrder
  BY <1>3, EmptyIds DEF Init, InOrder, Chain, Below, BinlogAscending
<1>5. NoneForgotten
  BY <1>3 DEF NoneForgotten
<1>6. QED BY <1>1, <1>2, <1>4, <1>5, InitTypeOK DEF FlowInv

LEMMA StepFlowInv == FlowInv /\ [Next]_vars => FlowInv'
<1> SUFFICES ASSUME FlowInv, [Next]_vars PROVE FlowInv'
  OBVIOUS
<1>1. TypeOK' /\ LockHeld' /\ Stages'
  BY StepTypeOK, StepLockHeld, StepStages DEF FlowInv
<1>2. ASSUME BatchWriters = {}, timeouts' = 0 PROVE InOrder'
  BY <1>2, CountsGrow, StepInOrder DEF FlowInv
<1>3. ASSUME Undisturbed', BatchWriters = {}, exit' \notin {"crash", "stop"}
      PROVE  NoneForgotten'
  BY <1>3, CountsGrow, StepNoneForgotten DEF FlowInv
<1>4. QED BY <1>1, <1>2, <1>3 DEF FlowInv

LEMMA FlowCorrect == Spec => []FlowInv
<1>1. Init => FlowInv
  BY InitFlowInv
<1>2. FlowInv /\ [Next]_vars => FlowInv'
  BY StepFlowInv
<1>3. QED BY <1>1, <1>2, PTL DEF Spec

\* The server lock makes the order of the binlog the order of the writes, unless a
\* BATCH UPDATE does without it or close() overtakes a slow worker.
THEOREM WrittenInOrder == Spec => []BinlogInOrder
<1>1. FlowInv => BinlogInOrder
  BY DEF FlowInv, InOrder, BinlogAscending, BinlogInOrder
<1>2. QED BY <1>1, FlowCorrect, PTL

\* Without failures, close() has put every durable statement into the binlog when
\* it closes the files.
THEOREM CloseLosesNothing == Spec => []CloseFlushes
<1>1. FlowInv => CloseFlushes
  <2> SUFFICES ASSUME FlowInv, Undisturbed, BatchWriters = {}, exit = "close"
               PROVE  durable = BinlogIds
    BY DEF CloseFlushes
  <2>1. NoneForgotten /\ Stages
    BY DEF FlowInv
  <2>2. proc = "down" /\ queue = <<>> /\ held = None
    BY <2>1 DEF Stages
  <2>3. pending = <<>> /\ LoggingIds = {}
    BY <2>1, <2>2, QuietPending DEF Stages
  <2>4. QED BY <2>1, <2>2, <2>3, EmptyIds DEF NoneForgotten, HeldIds
<1>2. QED BY <1>1, FlowCorrect, PTL

-----------------------------------------------------------------------------
(* Entries of a queue are of different statements; its sentinels do not count. *)

Distinct(s) ==
  \A i, j \in DOMAIN s :
    s[i] # Stop /\ s[j] # Stop /\ s[i].id = s[j].id => i = j

Items == Entries \cup {Stop}

LEMMA EmptyDistinct == EntryIds(<<>>) = {} /\ Distinct(<<>>)
  BY DEF EntryIds, Distinct

LEMMA AppendStop ==
  ASSUME NEW s \in Seq(Items), Distinct(s)
  PROVE  Distinct(Append(s, Stop)) /\ EntryIds(Append(s, Stop)) = EntryIds(s)
<1>1. \A i \in DOMAIN Append(s, Stop) : Append(s, Stop)[i] # Stop
        => i \in DOMAIN s /\ Append(s, Stop)[i] = s[i]
  BY DEF Items
<1>2. \A i \in DOMAIN s : i \in DOMAIN Append(s, Stop) /\ Append(s, Stop)[i] = s[i]
  BY DEF Items
<1>3. QED BY <1>1, <1>2 DEF Distinct, EntryIds

LEMMA AppendEntry ==
  ASSUME NEW s \in Seq(Items), Distinct(s), NEW e \in Entries, e.id \notin EntryIds(s)
  PROVE  Distinct(Append(s, e)) /\ EntryIds(Append(s, e)) = EntryIds(s) \cup {e.id}
<1>0. e # Stop /\ Append(s, e) \in Seq(Items)
  BY SentinelAssumption DEF Items
<1>1. /\ DOMAIN Append(s, e) = DOMAIN s \cup {Len(s) + 1}
      /\ Append(s, e)[Len(s) + 1] = e
      /\ \A i \in DOMAIN s : i # Len(s) + 1 /\ Append(s, e)[i] = s[i]
  BY <1>0 DEF Items
<1>2. QED BY <1>0, <1>1 DEF Distinct, EntryIds

LEMMA TailIds ==
  ASSUME NEW s \in Seq(Items), Distinct(s), s # <<>>
  PROVE  /\ Distinct(Tail(s)) /\ EntryIds(Tail(s)) \subseteq EntryIds(s)
         /\ Head(s) # Stop => /\ Head(s).id \in EntryIds(s)
                              /\ Head(s).id \notin EntryIds(Tail(s))
<1>1. 1 \in DOMAIN s /\ Head(s) = s[1]
  OBVIOUS
<1>2. \A i \in DOMAIN Tail(s) :
        i + 1 \in DOMAIN s /\ i + 1 # 1 /\ Tail(s)[i] = s[i + 1] /\ i \in Nat
  OBVIOUS
<1>3. Distinct(Tail(s))
  BY <1>2 DEF Distinct
<1>4. EntryIds(Tail(s)) \subseteq EntryIds(s)
  BY <1>2 DEF EntryIds
<1>5. Head(s) # Stop => Head(s).id \in EntryIds(s)
  BY <1>1 DEF EntryIds
<1>6. Head(s) # Stop => Head(s).id \notin EntryIds(Tail(s))
  BY <1>1, <1>2 DEF EntryIds, Distinct
<1>7. QED BY <1>3, <1>4, <1>5, <1>6

-----------------------------------------------------------------------------
(* A statement that has written is in one place at a time on its way to the  *)
(* binlog: its thread, the transaction's log, the entries a commit is        *)
(* publishing, the queue, the worker's hand, the binlog.                     *)

ThreadsDistinct ==
  \A t, u \in Threads :
    pc[t] = "log" /\ pc[u] = "log" /\ stmt[t].id = stmt[u].id => t = u

\* Six sets of numbers, none above n, no two of which meet.
Apart(a, b, c, d, e, f, n) ==
  /\ a \cap (b \cup c \cup d \cup e \cup f) = {}
  /\ b \cap (c \cup d \cup e \cup f) = {}
  /\ c \cap (d \cup e \cup f) = {}
  /\ d \cap (e \cup f) = {}
  /\ e \cap f = {}
  /\ \A x \in a \cup b \cup c \cup d \cup e \cup f : x <= n

OnePlace ==
  Apart(BinlogIds, HeldIds, EntryIds(queue), EntryIds(pending), EntryIds(txnlog),
        LoggingIds, seq)

Once ==
  /\ Distinct(queue) /\ Distinct(pending) /\ Distinct(txnlog)
  /\ ThreadsDistinct /\ OnePlace

LEMMA SeqTypes ==
  ASSUME TypeOK
  PROVE  queue \in Seq(Items) /\ pending \in Seq(Items) /\ txnlog \in Seq(Items)
<1>1. queue \in Seq(Items) /\ pending \in Seq(Entries) /\ txnlog \in Seq(Entries)
  BY DEF TypeOK, QueueType, EngineType, Items
<1>2. QED BY <1>1 DEF Items

LEMMA InitOnce == Init => Once
<1> SUFFICES ASSUME Init PROVE Once
  OBVIOUS
<1>1. Distinct(queue) /\ Distinct(pending) /\ Distinct(txnlog)
  BY EmptyDistinct DEF Init
<1>2. BinlogIds = {} /\ HeldIds = {} /\ LoggingIds = {}
  BY DEF Init, BinlogIds, HeldIds, LoggingIds
<1>3. EntryIds(queue) = {} /\ EntryIds(pending) = {} /\ EntryIds(txnlog) = {}
  BY EmptyDistinct DEF Init
<1>4. OnePlace
  BY <1>2, <1>3 DEF OnePlace, Apart
<1>5. QED BY <1>1, <1>4 DEF Once, ThreadsDistinct, Init

\* What each variable alone decides, when it does not change.
LEMMA KeepIds ==
  /\ UNCHANGED entries => BinlogIds' = BinlogIds
  /\ UNCHANGED held => HeldIds' = HeldIds
  /\ UNCHANGED queue => EntryIds(queue)' = EntryIds(queue) /\ (Distinct(queue) => Distinct(queue)')
  /\ UNCHANGED pending => EntryIds(pending)' = EntryIds(pending) /\ (Distinct(pending) => Distinct(pending)')
  /\ UNCHANGED txnlog => EntryIds(txnlog)' = EntryIds(txnlog) /\ (Distinct(txnlog) => Distinct(txnlog)')
  /\ UNCHANGED <<pc, stmt>> => LoggingIds' = LoggingIds /\ (ThreadsDistinct => ThreadsDistinct')
  BY DEF BinlogIds, HeldIds, EntryIds, Distinct, LoggingIds, ThreadsDistinct

LEMMA Becomes ==
  /\ \A s : queue' = s => EntryIds(queue)' = EntryIds(s) /\ (Distinct(s) => Distinct(queue)')
  /\ \A s : pending' = s => EntryIds(pending)' = EntryIds(s) /\ (Distinct(s) => Distinct(pending)')
  /\ \A s : txnlog' = s => EntryIds(txnlog)' = EntryIds(s) /\ (Distinct(s) => Distinct(txnlog)')
  BY DEF EntryIds, Distinct

LEMMA ListedNat ==
  ASSUME TypeOK
  PROVE  \A x \in BinlogIds \cup HeldIds \cup EntryIds(queue) \cup EntryIds(pending)
               \cup EntryIds(txnlog) \cup LoggingIds : x \in Nat
<1>1. \A e \in Entries : e.id \in Nat
  BY DEF Entries
<1>2. BinlogIds \subseteq Nat
  BY <1>1 DEF TypeOK, BinlogType, BinlogIds
<1>3. HeldIds \subseteq Nat
  BY <1>1 DEF TypeOK, QueueType, HeldIds
<1>4. EntryIds(queue) \subseteq Nat /\ EntryIds(pending) \subseteq Nat /\ EntryIds(txnlog) \subseteq Nat
  BY <1>1, SeqTypes DEF Items, EntryIds
<1>5. LoggingIds \subseteq Nat
  BY <1>1 DEF TypeOK, ThreadType, LoggingIds
<1>6. QED BY <1>2, <1>3, <1>4, <1>5

OthersStay(t) ==
  \A u \in Threads \ {t} :
    /\ pc'[u] = "log" <=> pc[u] = "log"
    /\ pc[u] = "log" => stmt'[u] = stmt[u]

LEMMA ThreadStays ==
  ASSUME NEW t \in Threads, OthersStay(t), pc[t] # "log", pc'[t] # "log",
         ThreadsDistinct
  PROVE  LoggingIds' = LoggingIds /\ ThreadsDistinct'
  BY DEF OthersStay, LoggingIds, ThreadsDistinct

LEMMA ThreadWrites ==
  ASSUME NEW t \in Threads, OthersStay(t), pc[t] # "log", pc'[t] = "log",
         stmt'[t].id \notin LoggingIds, ThreadsDistinct
  PROVE  LoggingIds' = LoggingIds \cup {stmt'[t].id} /\ ThreadsDistinct'
  BY DEF OthersStay, LoggingIds, ThreadsDistinct

LEMMA ThreadLogs ==
  ASSUME NEW t \in Threads, OthersStay(t), pc[t] = "log", pc'[t] # "log",
         ThreadsDistinct
  PROVE  /\ stmt[t].id \in LoggingIds /\ LoggingIds' = LoggingIds \ {stmt[t].id}
         /\ ThreadsDistinct'
  BY DEF OthersStay, LoggingIds, ThreadsDistinct

\* A statement writes and takes the next number.
LEMMA OnceWrites ==
  ASSUME TypeOK, Once, NEW t \in Threads, OthersStay(t), pc[t] # "log",
         pc'[t] = "log", stmt'[t].id = seq + 1, seq' = seq + 1,
         UNCHANGED <<entries, held, queue, pending, txnlog>>
  PROVE  Once'
<1>1. seq \in Nat
  BY DEF TypeOK, EngineType
<1>2. \A x \in BinlogIds \cup HeldIds \cup EntryIds(queue) \cup EntryIds(pending)
               \cup EntryIds(txnlog) \cup LoggingIds : x <= seq /\ x # seq + 1
  BY <1>1 DEF Once, OnePlace, Apart
<1>3. LoggingIds' = LoggingIds \cup {seq + 1} /\ ThreadsDistinct'
  BY <1>2, ThreadWrites DEF Once
<1>4. OnePlace'
  <2>1. \A x \in BinlogIds \cup HeldIds \cup EntryIds(queue) \cup EntryIds(pending)
               \cup EntryIds(txnlog) \cup LoggingIds' : x <= seq + 1
    <3>1. \A x \in BinlogIds \cup HeldIds \cup EntryIds(queue) \cup EntryIds(pending)
               \cup EntryIds(txnlog) \cup LoggingIds : x \in Nat
      BY ListedNat
    <3>2. QED BY <1>1, <1>2, <1>3, <3>1
  <2>2. QED BY <1>2, <1>3, <2>1, KeepIds DEF Once, OnePlace, Apart
<1>5. QED BY <1>3, <1>4, KeepIds DEF Once

\* A thread hands its entry to the queue or to the transaction's log.
LEMMA OnceLogs ==
  ASSUME TypeOK, Once, NEW t \in Threads, Log(t)
  PROVE  Once'
<1>0. ThreadType /\ stmt[t] \in Entries
  BY DEF TypeOK, ThreadType, Log
<1>1. OthersStay(t) /\ pc[t] = "log" /\ pc'[t] # "log"
  BY <1>0 DEF Log, ThreadType, OthersStay
<1>2. /\ stmt[t].id \in LoggingIds /\ LoggingIds' = LoggingIds \ {stmt[t].id}
      /\ ThreadsDistinct'
  BY <1>1, ThreadLogs DEF Once
<1>3. stmt[t].id \notin EntryIds(queue) /\ stmt[t].id \notin EntryIds(txnlog)
  BY <1>2 DEF Once, OnePlace, Apart
<1>4. UNCHANGED <<entries, held, pending, seq>>
  BY DEF Log
<1>5. CASE active
  <2>1. txnlog' = Append(txnlog, stmt[t]) /\ UNCHANGED queue
    BY <1>5 DEF Log
  <2>2. Distinct(txnlog)' /\ EntryIds(txnlog)' = EntryIds(txnlog) \cup {stmt[t].id}
    <3>1. /\ Distinct(Append(txnlog, stmt[t]))
          /\ EntryIds(Append(txnlog, stmt[t])) = EntryIds(txnlog) \cup {stmt[t].id}
      BY <1>0, <1>3, SeqTypes, AppendEntry DEF Once
    <3>2. QED BY <2>1, <3>1, Becomes
  <2>3. OnePlace'
    BY <1>2, <1>4, <2>1, <2>2, KeepIds DEF Once, OnePlace, Apart
  <2>4. QED BY <1>2, <1>4, <2>1, <2>2, <2>3, KeepIds DEF Once
<1>6. CASE ~active
  <2>1. queue' = Append(queue, stmt[t]) /\ UNCHANGED txnlog
    BY <1>6 DEF Log
  <2>2. Distinct(queue)' /\ EntryIds(queue)' = EntryIds(queue) \cup {stmt[t].id}
    <3>1. /\ Distinct(Append(queue, stmt[t]))
          /\ EntryIds(Append(queue, stmt[t])) = EntryIds(queue) \cup {stmt[t].id}
      BY <1>0, <1>3, SeqTypes, AppendEntry DEF Once
    <3>2. QED BY <2>1, <3>1, Becomes
  <2>3. OnePlace'
    BY <1>2, <1>4, <2>1, <2>2, KeepIds DEF Once, OnePlace, Apart
  <2>4. QED BY <1>2, <1>4, <2>1, <2>2, <2>3, KeepIds DEF Once
<1>7. QED BY <1>5, <1>6

\* Commit passes the transaction's log on to be published.
LEMMA OnceCommits ==
  ASSUME TypeOK, Once, NEW t \in Threads, CommitTransaction(t)
  PROVE  Once'
<1>1. OthersStay(t) /\ pc[t] # "log" /\ pc'[t] # "log"
  BY DEF TypeOK, CommitTransaction, ThreadType, OthersStay
<1>2. LoggingIds' = LoggingIds /\ ThreadsDistinct'
  BY <1>1, ThreadStays DEF Once
<1>3. pending' = txnlog /\ txnlog' = <<>> /\ UNCHANGED <<entries, held, queue, seq>>
  BY DEF CommitTransaction
<1>4. /\ EntryIds(pending)' = EntryIds(txnlog) /\ Distinct(pending)'
      /\ EntryIds(txnlog)' = {} /\ Distinct(txnlog)'
  BY <1>3, EmptyDistinct, Becomes DEF Once
<1>5. OnePlace'
  BY <1>2, <1>3, <1>4, KeepIds DEF Once, OnePlace, Apart
<1>6. QED BY <1>2, <1>3, <1>4, <1>5, KeepIds DEF Once

LEMMA OncePublishes ==
  ASSUME TypeOK, Once, NEW t \in Threads, Publish(t)
  PROVE  Once'
<1>0. UNCHANGED <<entries, held, txnlog, seq, stmt>>
  BY DEF Publish
<1>1. OthersStay(t) /\ pc[t] # "log" /\ pc'[t] # "log"
  BY DEF TypeOK, Publish, ThreadType, OthersStay
<1>2. LoggingIds' = LoggingIds /\ ThreadsDistinct'
  BY <1>1, ThreadStays DEF Once
<1>3. CASE pending = <<>>
  <2>1. UNCHANGED <<queue, pending>>
    BY <1>3 DEF Publish
  <2>2. QED BY <1>0, <1>2, <2>1, KeepIds DEF Once, OnePlace, Apart
<1>4. CASE pending # <<>>
  <2>1. queue' = Append(queue, Head(pending)) /\ pending' = Tail(pending)
    BY <1>4 DEF Publish
  <2>2. Head(pending) \in Entries /\ Head(pending) # Stop
    BY <1>4, SentinelAssumption DEF TypeOK, QueueType
  <2>3. /\ Distinct(Tail(pending)) /\ EntryIds(Tail(pending)) \subseteq EntryIds(pending)
        /\ Head(pending).id \in EntryIds(pending)
        /\ Head(pending).id \notin EntryIds(Tail(pending))
    BY <1>4, <2>2, SeqTypes, TailIds DEF Once
  <2>4. Head(pending).id \notin EntryIds(queue)
    BY <2>3 DEF Once, OnePlace, Apart
  <2>5. /\ Distinct(Append(queue, Head(pending)))
        /\ EntryIds(Append(queue, Head(pending))) = EntryIds(queue) \cup {Head(pending).id}
    BY <2>2, <2>4, SeqTypes, AppendEntry DEF Once
  <2>6. /\ Distinct(queue)' /\ EntryIds(queue)' = EntryIds(queue) \cup {Head(pending).id}
        /\ Distinct(pending)' /\ EntryIds(pending)' = EntryIds(Tail(pending))
    BY <2>1, <2>3, <2>5, Becomes
  <2>7. OnePlace'
    BY <1>0, <1>2, <2>3, <2>6, KeepIds DEF Once, OnePlace, Apart
  <2>8. QED BY <1>0, <1>2, <2>6, <2>7, KeepIds DEF Once
<1>5. QED BY <1>3, <1>4

\* The worker, or close(), takes the first item of the queue.
LEMMA TakenIds ==
  ASSUME TypeOK, Once, queue # <<>>, Taken
  PROVE  /\ Distinct(queue)' /\ EntryIds(queue)' \subseteq EntryIds(queue)
         /\ Head(queue) # Stop => /\ Head(queue) \in Entries
                                  /\ Head(queue).id \in EntryIds(queue)
                                  /\ Head(queue).id \notin EntryIds(queue)'
<1>1. /\ Distinct(Tail(queue)) /\ EntryIds(Tail(queue)) \subseteq EntryIds(queue)
      /\ Head(queue) # Stop => /\ Head(queue).id \in EntryIds(queue)
                               /\ Head(queue).id \notin EntryIds(Tail(queue))
  BY SeqTypes, TailIds DEF Once
<1>2. Head(queue) # Stop => Head(queue) \in Entries
  BY DEF TypeOK, QueueType
<1>3. QED BY <1>1, <1>2, Becomes

LEMMA OnceGets ==
  ASSUME TypeOK, Once, WorkerGet
  PROVE  Once'
<1>1. /\ held = None /\ queue # <<>> /\ Taken
      /\ UNCHANGED <<entries, pending, txnlog, pc, stmt, seq>>
  BY DEF WorkerGet
<1>2. HeldIds = {}
  BY <1>1 DEF HeldIds
<1>3. CASE Head(queue) = Stop
  <2>1. UNCHANGED held
    BY <1>3 DEF WorkerGet
  <2>2. QED BY <1>1, <2>1, TakenIds, KeepIds DEF Once, OnePlace, Apart
<1>4. CASE Head(queue) # Stop
  <2>1. held' = Head(queue) /\ held' \in Entries
    BY <1>1, <1>4, TakenIds DEF WorkerGet
  <2>2. HeldIds' = {Head(queue).id}
    BY <2>1, SentinelAssumption DEF HeldIds
  <2>3. OnePlace'
    BY <1>1, <1>4, <2>2, TakenIds, KeepIds DEF Once, OnePlace, Apart
  <2>4. QED BY <1>1, <2>3, TakenIds, KeepIds DEF Once
<1>5. QED BY <1>3, <1>4

\* An entry reaches the binlog, or its write fails.
LEMMA OnceListed ==
  ASSUME TypeOK, NEW e, \/ WriteEntry(e) \/ WriteEntryFails
  PROVE  BinlogIds' \subseteq BinlogIds \cup {e.id}
  BY WriteEntryIds, KeepIds DEF WriteEntryFails

LEMMA OnceWorkerWrites ==
  ASSUME TypeOK, Once, WorkerWrite
  PROVE  Once'
<1>1. /\ held # None /\ held' = None
      /\ UNCHANGED <<queue, pending, txnlog, pc, stmt, seq>>
  BY DEF WorkerWrite
<1>2. HeldIds = {held.id} /\ HeldIds' = {}
  BY <1>1 DEF HeldIds
<1>3. BinlogIds' \subseteq BinlogIds \cup {held.id}
  BY OnceListed DEF WorkerWrite
<1>4. OnePlace'
  BY <1>1, <1>2, <1>3, KeepIds DEF Once, OnePlace, Apart
<1>5. QED BY <1>1, <1>4, KeepIds DEF Once

LEMMA OnceDrains ==
  ASSUME TypeOK, Once, CloseDrain
  PROVE  Once'
<1>1. /\ queue # <<>> /\ Taken
      /\ UNCHANGED <<held, pending, txnlog, pc, stmt, seq>>
  BY DEF CloseDrain
<1>2. CASE Head(queue) = Stop
  <2>1. UNCHANGED entries
    BY <1>2 DEF CloseDrain
  <2>2. QED BY <1>1, <2>1, TakenIds, KeepIds DEF Once, OnePlace, Apart
<1>3. CASE Head(queue) # Stop
  <2>1. BinlogIds' \subseteq BinlogIds \cup {Head(queue).id}
    BY <1>3, OnceListed DEF CloseDrain
  <2>2. OnePlace'
    BY <1>1, <1>3, <2>1, TakenIds, KeepIds DEF Once, OnePlace, Apart
  <2>3. QED BY <1>1, <2>2, TakenIds, KeepIds DEF Once
<1>4. QED BY <1>2, <1>3

\* A transaction's log is emptied, at its start or its end.
LEMMA OnceDiscards ==
  ASSUME TypeOK, Once, txnlog' = <<>>,
         UNCHANGED <<entries, held, queue, pending, pc, stmt, seq>>
  PROVE  Once'
<1>1. EntryIds(txnlog)' = {} /\ Distinct(txnlog)'
  BY EmptyDistinct, Becomes
<1>2. OnePlace'
  BY <1>1, KeepIds DEF Once, OnePlace, Apart
<1>3. QED BY <1>1, <1>2, KeepIds DEF Once

LEMMA OnceEnds ==
  ASSUME TypeOK, Once, NEW how, Gone(how), UNCHANGED <<entries, seq>>
  PROVE  Once'
<1>1. /\ txnlog' = <<>> /\ queue' = <<>> /\ pending' = <<>> /\ held' = None
      /\ \A t \in Threads : pc'[t] # "log"
  BY DEF Gone, Discard
<1>2. /\ EntryIds(txnlog)' = {} /\ Distinct(txnlog)'
      /\ EntryIds(queue)' = {} /\ Distinct(queue)'
      /\ EntryIds(pending)' = {} /\ Distinct(pending)'
  BY <1>1, EmptyDistinct, Becomes
<1>3. HeldIds' = {} /\ LoggingIds' = {} /\ ThreadsDistinct'
  BY <1>1 DEF HeldIds, LoggingIds, ThreadsDistinct
<1>4. OnePlace'
  BY <1>2, <1>3, KeepIds DEF Once, OnePlace, Apart
<1>5. QED BY <1>2, <1>3, <1>4 DEF Once

LEMMA StepOnce == TypeOK /\ Once /\ [Next]_vars => Once'
<1> SUFFICES ASSUME TypeOK, Once, [Next]_vars PROVE Once'
  OBVIOUS
<1>0. ThreadType
  BY DEF TypeOK
<1>1. ASSUME NEW t \in Threads, NEW s \in Statements, Read(t, s) PROVE Once'
  <2>1. OthersStay(t) /\ pc[t] # "log" /\ pc'[t] # "log"
    BY <1>0, <1>1 DEF Read, ThreadType, OthersStay
  <2>2. UNCHANGED <<entries, held, queue, pending, txnlog, seq>>
    BY <1>1 DEF Read
  <2>3. LoggingIds' = LoggingIds /\ ThreadsDistinct'
    BY <2>1, ThreadStays DEF Once
  <2>4. QED BY <2>2, <2>3, KeepIds DEF Once, OnePlace, Apart
<1>2. ASSUME NEW t \in Threads, Write(t) \/ BatchWrite(t) PROVE Once'
  <2>1. /\ OthersStay(t) /\ pc[t] # "log" /\ pc'[t] = "log"
        /\ stmt'[t].id = seq + 1
    BY <1>0, <1>2 DEF Write, BatchWrite, ThreadType, OthersStay
  <2>2. seq' = seq + 1 /\ UNCHANGED <<entries, held, queue, pending, txnlog>>
    BY <1>2 DEF Write, BatchWrite
  <2>3. QED BY <2>1, <2>2, OnceWrites
<1>3. ASSUME NEW t \in Threads,
             Log(t) \/ CommitTransaction(t) \/ Publish(t)
      PROVE  Once'
  BY <1>3, OnceLogs, OnceCommits, OncePublishes
<1>4. CASE BeginTransaction \/ RollbackTransaction \/ CommitFails
  BY <1>4, OnceDiscards
  DEF BeginTransaction, RollbackTransaction, CommitFails, Discard
<1>5. CASE WorkerGet \/ WorkerWrite \/ CloseDrain
  BY <1>5, OnceGets, OnceWorkerWrites, OnceDrains
<1>6. CASE CloseSignal
  <2>1. /\ queue' = Append(queue, Stop)
        /\ UNCHANGED <<entries, held, pending, txnlog, pc, stmt, seq>>
    BY <1>6 DEF CloseSignal
  <2>2. /\ Distinct(Append(queue, Stop))
        /\ EntryIds(Append(queue, Stop)) = EntryIds(queue)
    BY SeqTypes, AppendStop DEF Once
  <2>3. Distinct(queue)' /\ EntryIds(queue)' = EntryIds(queue)
    BY <2>1, <2>2, Becomes
  <2>4. QED BY <2>1, <2>3, KeepIds DEF Once, OnePlace, Apart
<1>7. CASE CloseEnd \/ Die
  BY <1>7, OnceEnds DEF CloseEnd, Die
<1>8. CASE UNCHANGED <<entries, held, queue, pending, txnlog, pc, stmt, seq>>
  BY <1>8, KeepIds DEF Once, OnePlace, Apart
<1>9. QED
  BY <1>1, <1>2, <1>3, <1>4, <1>5, <1>6, <1>7, <1>8
  DEF Next, WorkerQuit, CloseBegin, CloseJoin, Open

-----------------------------------------------------------------------------
(* The refinement. *)

Listed == [p \in DOMAIN entries |-> entries[p].id]

LEMMA StreamInit == Init => Stream!Init
<1> SUFFICES ASSUME Init PROVE Stream!Init
  OBVIOUS
<1>1. Listed = <<>>
  BY DEF Init, Listed
<1>2. QED BY <1>1 DEF Init, Listed, Stream!Init

\* write_entry of a durable statement that is on its way lists it.
LEMMA ListsEntry ==
  ASSUME TypeOK, NEW e, WriteEntry(e), UNCHANGED durable,
         e.id \in durable, e.id \notin BinlogIds
  PROVE  Stream!Next
<1>1. Listed' = [p \in DOMAIN Listed \cup {position + 1} |->
                   IF p = position + 1 THEN e.id ELSE Listed[p]]
  BY DEF Listed, WriteEntry
<1>2. e.id \notin Stream!Logged
  BY DEF Stream!Logged, BinlogIds
<1>3. Stream!List(e.id)
  BY <1>1 DEF Stream!List, Listed, WriteEntry
<1>4. QED BY <1>2, <1>3 DEF Stream!Next

LEMMA SkipsEntry ==
  ASSUME WriteEntryFails, UNCHANGED durable
  PROVE  Stream!Next
  BY DEF WriteEntryFails, Stream!Next, Stream!Skip

LEMMA StoresStatements ==
  ASSUME durable \subseteq durable', UNCHANGED <<entries, position>>
  PROVE  Stream!Next
  BY DEF Stream!Next, Stream!Store

LEMMA StreamStep ==
  TypeOK /\ OnlyDurableLogged /\ Once /\ [Next]_vars => [Stream!Next]_Stream!vars
<1> SUFFICES ASSUME TypeOK, OnlyDurableLogged, Once, [Next]_vars
             PROVE  [Stream!Next]_Stream!vars
  OBVIOUS
<1>1. CASE WorkerWrite
  <2>1. held # None /\ UNCHANGED durable /\ (WriteEntry(held) \/ WriteEntryFails)
    BY <1>1 DEF WorkerWrite
  <2>2. held.id \in durable
    BY <2>1 DEF OnlyDurableLogged
  <2>3. held.id \notin BinlogIds
    BY <2>1 DEF Once, OnePlace, Apart, HeldIds
  <2>4. QED BY <2>1, <2>2, <2>3, ListsEntry, SkipsEntry
<1>2. CASE CloseDrain
  <2>1. CASE Head(queue) = Stop
    BY <1>2, <2>1 DEF CloseDrain, Stream!vars
  <2>2. CASE Head(queue) # Stop
    <3>1. /\ UNCHANGED durable
          /\ WriteEntry(Head(queue)) \/ WriteEntryFails
      BY <1>2, <2>2 DEF CloseDrain
    <3>2. Head(queue).id \in EntryIds(queue)
      BY <1>2, <2>2, TakenIds DEF CloseDrain
    <3>3. Head(queue).id \in durable
      BY <3>2 DEF EntryIds, OnlyDurableLogged
    <3>4. Head(queue).id \notin BinlogIds
      BY <3>2 DEF Once, OnePlace, Apart
    <3>5. QED BY <3>1, <3>3, <3>4, ListsEntry, SkipsEntry
  <2>3. QED BY <2>1, <2>2
<1>3. CASE Open
  <2>1. position' \in 0 .. position /\ \A p \in DOMAIN entries : p <= position'
    BY <1>3 DEF Open, TypeOK, BinlogType
  <2>2. UNCHANGED <<durable, entries>>
    BY <1>3 DEF Open
  <2>3. Stream!Reopen
    BY <2>1, <2>2 DEF Stream!Reopen
  <2>4. QED BY <2>3 DEF Stream!Next
<1>4. CASE durable \subseteq durable' /\ UNCHANGED <<entries, position>>
  BY <1>4, StoresStatements
<1>5. QED
  BY <1>1, <1>2, <1>3, <1>4
  DEF Next, Read, Write, TransactionPut, BatchWrite, Log, CommitTransaction,
      Publish, BeginTransaction, RollbackTransaction, CommitFails, WorkerGet,
      WorkerQuit, CloseBegin, CloseSignal, CloseJoin, CloseEnd, Die

\* The engine implements the log a replica relies on: no statement is listed
\* twice, before it is durable, or at a position that had another one.
THEOREM StreamImplemented == Spec => ImplementsStream
<1>1. Init => Stream!Init /\ Once
  BY StreamInit, InitOnce
<1>2. TypeOK /\ Once /\ [Next]_vars => Once'
  BY StepOnce
<1>3. TypeOK /\ OnlyDurableLogged /\ Once /\ [Next]_vars
        => [Stream!Next]_Stream!vars
  BY StreamStep
<1>4. QED
  BY <1>1, <1>2, <1>3, TypeCorrect, NothingUndoneIsLogged, PTL
  DEF Spec, ImplementsStream, Stream!Spec

-----------------------------------------------------------------------------
(* Replaying a sequence of entries: ReplaySeq is defined by recursion, and *)
(* what it gives is shown by induction over the sequence.                  *)

States == [Keys -> Rows \cup {NoRow}]

\* What an item of a queue does to the rows.
Apply(st, e) == IF e = Stop THEN st ELSE Redo(st, e)

LEMMA ApplyType ==
  ASSUME NEW st \in States, NEW e \in Items
  PROVE  Apply(st, e) \in States
<1>1. CASE e = Stop
  BY <1>1 DEF Apply
<1>2. CASE e # Stop
  <2>1. e.stmt \in Statements /\ e.stmt.key \in Keys
    BY <1>2, StatementKey DEF Items, Entries
  <2>2. st[e.stmt.key] \in Rows \cup {NoRow}
    BY <2>1 DEF States
  <2>3. CASE e.stmt.op = "INSERT" \/ st[e.stmt.key] # NoRow
    <3>1. After(st[e.stmt.key], e.stmt) \in Rows \cup {NoRow}
      BY <2>1, <2>2, <2>3, AfterType
    <3>2. Redo(st, e) = [st EXCEPT ![e.stmt.key] = After(st[e.stmt.key], e.stmt)]
      BY <2>3 DEF Redo
    <3>3. QED BY <1>2, <3>1, <3>2 DEF Apply, States
  <2>4. CASE ~ (e.stmt.op = "INSERT" \/ st[e.stmt.key] # NoRow)
    <3>1. Redo(st, e) = [st EXCEPT ![e.stmt.key] = st[e.stmt.key]]
      BY <2>4 DEF Redo
    <3>2. QED BY <1>2, <2>2, <3>1 DEF Apply, States
  <2>5. QED BY <2>3, <2>4
<1>3. QED BY <1>1, <1>2

\* The states a replay of s from base goes through.
Replays(base, s, f) ==
  /\ f \in [0 .. Len(s) -> States]
  /\ f[0] = base
  /\ \A i \in 1 .. Len(s) : f[i] = Apply(f[i - 1], s[i])

ReplayDef(base, s, f) ==
  f = [i \in 0 .. Len(s) |->
         IF i = 0 THEN base
         ELSE IF s[i] = Stop THEN f[i - 1] ELSE Redo(f[i - 1], s[i])]

LEMMA ReplaySeqChosen ==
  ASSUME NEW base, NEW s
  PROVE  ReplaySeq(base, s) = (CHOOSE f : ReplayDef(base, s, f))[Len(s)]
  BY Zenon DEF ReplaySeq, ReplayDef

LEMMA ReplayDefIs ==
  ASSUME NEW base \in States, NEW s \in Seq(Items), NEW f
  PROVE  ReplayDef(base, s, f) => Replays(base, s, f)
<1> SUFFICES ASSUME ReplayDef(base, s, f) PROVE Replays(base, s, f)
  OBVIOUS
<1>0. Len(s) \in Nat
  OBVIOUS
<1>1. \A i \in 0 .. Len(s) : f[i] = IF i = 0 THEN base ELSE Apply(f[i - 1], s[i])
  BY Zenon DEF ReplayDef, Apply
<1> DEFINE S == {k \in Nat : k <= Len(s) => f[k] \in States}
<1>2. 0 \in S
  <2>1. 0 \in 0 .. Len(s)
    OBVIOUS
  <2>2. QED BY <1>1, <2>1
<1>3. ASSUME NEW k \in Nat, k \in S PROVE k + 1 \in S
  <2>1. SUFFICES ASSUME k + 1 <= Len(s) PROVE f[k + 1] \in States
    OBVIOUS
  <2>2. k + 1 \in 0 .. Len(s) /\ k + 1 # 0 /\ (k + 1) - 1 = k /\ k + 1 \in DOMAIN s
    BY <2>1
  <2>3. f[k] \in States /\ s[k + 1] \in Items
    BY <1>3, <2>1, <2>2
  <2>4. QED BY <1>1, <2>2, <2>3, ApplyType
<1>4. \A k \in Nat : k \in S
  <2> HIDE DEF S
  <2>1. QED BY <1>2, <1>3, SetInduction
<1>5. \A k \in 0 .. Len(s) : f[k] \in States
  BY <1>4
<1>6. f \in [0 .. Len(s) -> States]
  <2>1. f = [i \in 0 .. Len(s) |-> f[i]]
    BY Zenon DEF ReplayDef
  <2>2. QED BY <1>5, <2>1
<1>7. f[0] = base
  BY <1>1
<1>8. \A i \in 1 .. Len(s) : f[i] = Apply(f[i - 1], s[i])
  BY <1>1
<1>9. QED BY <1>6, <1>7, <1>8 DEF Replays

LEMMA ReplayIsDef ==
  ASSUME NEW base \in States, NEW s \in Seq(Items), NEW f, Replays(base, s, f)
  PROVE  ReplayDef(base, s, f)
<1>1. f = [i \in 0 .. Len(s) |-> f[i]]
  BY DEF Replays
<1>2. \A i \in 0 .. Len(s) :
        f[i] = IF i = 0 THEN base
               ELSE IF s[i] = Stop THEN f[i - 1] ELSE Redo(f[i - 1], s[i])
  BY DEF Replays, Apply
<1>3. QED BY <1>1, <1>2, Zenon DEF ReplayDef

\* Every replay has an end, ...
LEMMA ReplayExists ==
  ASSUME NEW base \in States, NEW s \in Seq(Items)
  PROVE  \E f : Replays(base, s, f)
<1> DEFINE F == [p \in (1 .. Len(s)) \X States |-> Apply(p[2], s[p[1]])]
<1>0. Len(s) \in Nat
  OBVIOUS
<1>1. PICK f : RunsOf(F, base, Len(s), f)
  <2> HIDE DEF F
  <2>1. QED BY <1>0, RunExists
<1>2. f = [i \in 0 .. Len(s) |-> IF i = 0 THEN base ELSE F[<<i, f[i - 1]>>]]
  BY <1>1, Zenon DEF RunsOf
<1>3. \A i \in 0 .. Len(s) : f[i] = IF i = 0 THEN base ELSE F[<<i, f[i - 1]>>]
  BY <1>2, Zenon
<1>4. \A i \in 1 .. Len(s), st \in States : F[<<i, st>>] = Apply(st, s[i])
  OBVIOUS
<1> HIDE DEF F
<1> DEFINE S == {k \in Nat : k <= Len(s) => f[k] \in States}
<1>5. 0 \in S
  <2>1. 0 \in 0 .. Len(s)
    OBVIOUS
  <2>2. QED BY <1>3, <2>1
<1>6. ASSUME NEW k \in Nat, k \in S PROVE k + 1 \in S
  <2>1. SUFFICES ASSUME k + 1 <= Len(s) PROVE f[k + 1] \in States
    OBVIOUS
  <2>2. k + 1 \in 1 .. Len(s) /\ k + 1 \in 0 .. Len(s) /\ k + 1 # 0 /\ (k + 1) - 1 = k
    BY <2>1
  <2>3. f[k] \in States /\ s[k + 1] \in Items
    BY <1>6, <2>1, <2>2
  <2>4. f[k + 1] = Apply(f[k], s[k + 1])
    BY <1>3, <1>4, <2>2, <2>3
  <2>5. QED BY <2>3, <2>4, ApplyType
<1>7. \A k \in Nat : k \in S
  <2> HIDE DEF S
  <2>1. QED BY <1>5, <1>6, SetInduction
<1>8. \A k \in 0 .. Len(s) : f[k] \in States
  BY <1>7
<1>9. f \in [0 .. Len(s) -> States]
  <2>1. f = [i \in 0 .. Len(s) |-> f[i]]
    BY <1>2, Zenon
  <2>2. QED BY <1>8, <2>1
<1>10. f[0] = base
  <2>1. 0 \in 0 .. Len(s)
    BY <1>0
  <2>2. QED BY <1>3, <2>1
<1>11. ASSUME NEW i \in 1 .. Len(s) PROVE f[i] = Apply(f[i - 1], s[i])
  <2>1. i \in 0 .. Len(s) /\ i # 0 /\ i - 1 \in 0 .. Len(s)
    OBVIOUS
  <2>2. QED BY <1>3, <1>4, <1>8, <2>1
<1>12. QED BY <1>9, <1>10, <1>11 DEF Replays

\* ... and all of them the same.
LEMMA ReplaySeqIs ==
  ASSUME NEW base \in States, NEW s \in Seq(Items), NEW f, Replays(base, s, f)
  PROVE  ReplaySeq(base, s) = f[Len(s)]
<1> DEFINE g == CHOOSE h : ReplayDef(base, s, h)
<1>1. ReplayDef(base, s, g)
  BY ReplayIsDef
<1>2. Replays(base, s, g)
  <2> HIDE DEF g
  <2>1. QED BY <1>1, ReplayDefIs
<1>3. ReplaySeq(base, s) = g[Len(s)]
  BY ReplaySeqChosen
<1> HIDE DEF g
<1> DEFINE S == {k \in Nat : k <= Len(s) => f[k] = g[k]}
<1>4. 0 \in S
  BY <1>2 DEF Replays
<1>5. ASSUME NEW k \in Nat, k \in S PROVE k + 1 \in S
  <2>1. SUFFICES ASSUME k + 1 <= Len(s) PROVE f[k + 1] = g[k + 1]
    OBVIOUS
  <2>2. k + 1 \in 1 .. Len(s) /\ (k + 1) - 1 = k
    BY <2>1
  <2>3. f[k + 1] = Apply(f[k], s[k + 1]) /\ g[k + 1] = Apply(g[k], s[k + 1])
    BY <1>2, <2>2 DEF Replays
  <2>4. QED BY <1>5, <2>1, <2>3
<1>6. \A k \in Nat : k \in S
  <2> HIDE DEF S
  <2>1. QED BY <1>4, <1>5, SetInduction
<1>7. Len(s) \in Nat
  OBVIOUS
<1>8. QED BY <1>3, <1>6, <1>7

LEMMA ReplaySeqType ==
  ASSUME NEW base \in States, NEW s \in Seq(Items)
  PROVE  ReplaySeq(base, s) \in States
<1>1. PICK f : Replays(base, s, f)
  BY ReplayExists
<1>2. f[Len(s)] \in States
  BY <1>1 DEF Replays
<1>3. QED BY <1>1, <1>2, ReplaySeqIs

LEMMA ReplayEmpty ==
  ASSUME NEW base \in States
  PROVE  ReplaySeq(base, <<>>) = base
<1>0. <<>> \in Seq(Items)
  OBVIOUS
<1>1. PICK f : Replays(base, <<>>, f)
  BY <1>0, ReplayExists
<1>2. ReplaySeq(base, <<>>) = f[Len(<<>>)]
  BY <1>0, <1>1, ReplaySeqIs
<1>3. QED BY <1>1, <1>2 DEF Replays

LEMMA ReplayAppend ==
  ASSUME NEW base \in States, NEW s \in Seq(Items), NEW e \in Items
  PROVE  ReplaySeq(base, Append(s, e)) = Apply(ReplaySeq(base, s), e)
<1> DEFINE n == Len(s)
<1>0. n \in Nat /\ Append(s, e) \in Seq(Items) /\ Len(Append(s, e)) = n + 1
  OBVIOUS
<1>1. PICK f : Replays(base, s, f)
  BY ReplayExists
<1> DEFINE g == [i \in 0 .. n + 1 |-> IF i = n + 1 THEN Apply(f[n], e) ELSE f[i]]
<1>2. \A i \in 0 .. n : f[i] \in States
  BY <1>1 DEF Replays
<1>3. Apply(f[n], e) \in States
  <2>1. f[n] \in States
    BY <1>0, <1>2
  <2>2. QED BY <2>1, ApplyType
<1>4. g \in [0 .. n + 1 -> States]
  BY <1>0, <1>2, <1>3
<1>5. g[0] = base
  BY <1>0, <1>1 DEF Replays
<1>6. ASSUME NEW i \in 1 .. n + 1 PROVE g[i] = Apply(g[i - 1], Append(s, e)[i])
  <2>1. CASE i = n + 1
    <3>1. Append(s, e)[n + 1] = e /\ i - 1 = n /\ n \in 0 .. n + 1 /\ n # n + 1
      BY <1>0, <2>1
    <3>2. g[n] = f[n] /\ g[n + 1] = Apply(f[n], e)
      BY <1>0, <3>1
    <3>3. QED BY <2>1, <3>1, <3>2
  <2>2. CASE i # n + 1
    <3>1. i \in 1 .. n /\ i - 1 \in 0 .. n + 1 /\ i - 1 # n + 1 /\ i \in 0 .. n + 1
      BY <1>0, <2>2
    <3>2. Append(s, e)[i] = s[i]
      BY <1>0, <3>1
    <3>3. f[i] = Apply(f[i - 1], s[i])
      BY <1>1, <3>1 DEF Replays
    <3>4. QED BY <2>2, <3>1, <3>2, <3>3
  <2>3. QED BY <2>1, <2>2
<1>7. g[n + 1] = Apply(f[n], e)
  BY <1>0
<1> HIDE DEF g
<1>8. Replays(base, Append(s, e), g)
  BY <1>0, <1>4, <1>5, <1>6 DEF Replays
<1>9. ReplaySeq(base, Append(s, e)) = g[n + 1] /\ ReplaySeq(base, s) = f[n]
  BY <1>0, <1>1, <1>8, ReplaySeqIs
<1>10. QED BY <1>7, <1>9

\* A replay of one sequence and then another is a replay of both.
LEMMA ReplayConcat ==
  ASSUME NEW base \in States, NEW s \in Seq(Items), NEW t \in Seq(Items)
  PROVE  ReplaySeq(base, s \o t) = ReplaySeq(ReplaySeq(base, s), t)
<1> DEFINE n == Len(s)
           m == Len(t)
<1>0. n \in Nat /\ m \in Nat /\ s \o t \in Seq(Items) /\ Len(s \o t) = n + m
  OBVIOUS
<1>1. /\ \A i \in 1 .. n : (s \o t)[i] = s[i]
      /\ \A i \in 1 .. m : (s \o t)[n + i] = t[i]
  OBVIOUS
<1>2. PICK f : Replays(base, s \o t, f)
  BY <1>0, ReplayExists
<1>3. /\ f \in [0 .. n + m -> States] /\ f[0] = base
      /\ \A i \in 1 .. n + m : f[i] = Apply(f[i - 1], (s \o t)[i])
  BY <1>0, <1>2 DEF Replays
<1> DEFINE g == [i \in 0 .. n |-> f[i]]
           h == [i \in 0 .. m |-> f[n + i]]
<1> HIDE DEF n, m
<1>4. Replays(base, s, g)
  <2>1. g \in [0 .. n -> States] /\ g[0] = base
    BY <1>0, <1>3
  <2>2. ASSUME NEW i \in 1 .. n PROVE g[i] = Apply(g[i - 1], s[i])
    <3>1. i \in 1 .. n + m /\ i - 1 \in 0 .. n /\ i \in 0 .. n
      BY <1>0
    <3>2. f[i] = Apply(f[i - 1], s[i])
      BY <1>1, <1>3, <3>1
    <3>3. QED BY <3>1, <3>2
  <2>3. QED BY <2>1, <2>2 DEF Replays, n
<1>5. g[n] = f[n] /\ f[n] \in States
  BY <1>0, <1>3
<1>6. Replays(f[n], t, h)
  <2>1. h \in [0 .. m -> States] /\ h[0] = f[n]
    BY <1>0, <1>3
  <2>2. ASSUME NEW i \in 1 .. m PROVE h[i] = Apply(h[i - 1], t[i])
    <3>1. n + i \in 1 .. n + m /\ (n + i) - 1 = n + (i - 1) /\ i - 1 \in 0 .. m /\ i \in 0 .. m
      BY <1>0
    <3>2. f[n + i] = Apply(f[n + (i - 1)], t[i])
      BY <1>1, <1>3, <3>1
    <3>3. QED BY <3>1, <3>2
  <2>3. QED BY <2>1, <2>2 DEF Replays, m
<1>7. h[m] = f[n + m]
  BY <1>0
<1> HIDE DEF g, h
<1>8. /\ ReplaySeq(base, s \o t) = f[n + m]
      /\ ReplaySeq(base, s) = g[n]
      /\ ReplaySeq(f[n], t) = h[m]
  <2>1. ReplaySeq(base, s \o t) = f[n + m]
    BY <1>0, <1>2, ReplaySeqIs
  <2>2. ReplaySeq(base, s) = g[n]
    BY <1>4, ReplaySeqIs DEF n
  <2>3. ReplaySeq(f[n], t) = h[m]
    BY <1>5, <1>6, ReplaySeqIs DEF m
  <2>4. QED BY <2>1, <2>2, <2>3
<1>9. QED BY <1>5, <1>7, <1>8

LEMMA ReplayOne ==
  ASSUME NEW base \in States, NEW e \in Items
  PROVE  ReplaySeq(base, <<e>>) = Apply(base, e)
<1>1. <<>> \in Seq(Items) /\ Append(<<>>, e) = <<e>>
  OBVIOUS
<1>2. QED BY <1>1, ReplayAppend, ReplayEmpty

LEMMA ReplayHead ==
  ASSUME NEW base \in States, NEW s \in Seq(Items), s # <<>>
  PROVE  /\ Head(s) \in Items /\ Tail(s) \in Seq(Items)
         /\ ReplaySeq(base, s) = ReplaySeq(Apply(base, Head(s)), Tail(s))
<1>1. Head(s) \in Items /\ Tail(s) \in Seq(Items) /\ <<Head(s)>> \in Seq(Items)
  OBVIOUS
<1>2. s = <<Head(s)>> \o Tail(s)
  OBVIOUS
<1>3. ReplaySeq(base, <<Head(s)>> \o Tail(s)) = ReplaySeq(ReplaySeq(base, <<Head(s)>>), Tail(s))
  BY <1>1, ReplayConcat
<1>4. QED BY <1>1, <1>2, <1>3, ReplayOne

-----------------------------------------------------------------------------
(* The binlog as a sequence: a position without an entry does nothing. *)

NoRows == [k \in Keys |-> NoRow]

Kept(E, P) == P \in Nat /\ DOMAIN E \subseteq 1 .. P /\ \A p \in DOMAIN E : E[p] \in Entries

Listing(E, P) == [p \in 1 .. P |-> IF p \in DOMAIN E THEN E[p] ELSE Stop]

BinlogDef(E, P, f) ==
  f = [p \in 0 .. P |-> IF p = 0 THEN [k \in Keys |-> NoRow]
                        ELSE IF p \in DOMAIN E THEN Redo(f[p - 1], E[p]) ELSE f[p - 1]]

\* The rows that the first P positions of a binlog E give.
ReplayOf(E, P) == (CHOOSE f : BinlogDef(E, P, f))[P]

LEMMA ReplayBinlogIs == ReplayBinlog = ReplayOf(entries, position)
  BY Zenon DEF ReplayBinlog, ReplayOf, BinlogDef

LEMMA ListingType ==
  ASSUME NEW E, NEW P, Kept(E, P)
  PROVE  Listing(E, P) \in Seq(Items) /\ Len(Listing(E, P)) = P
<1>1. \A p \in 1 .. P : Listing(E, P)[p] \in Items
  BY DEF Kept, Listing, Items
<1>2. QED BY <1>1 DEF Kept, Listing

LEMMA SameDef ==
  ASSUME NEW E, NEW P, Kept(E, P), NEW f
  PROVE  BinlogDef(E, P, f) <=> ReplayDef(NoRows, Listing(E, P), f)
<1>1. Len(Listing(E, P)) = P /\ P \in Nat
  BY ListingType DEF Kept
<1>2. ASSUME NEW i \in 0 .. P
      PROVE  (IF i = 0 THEN NoRows
              ELSE IF i \in DOMAIN E THEN Redo(f[i - 1], E[i]) ELSE f[i - 1])
             = (IF i = 0 THEN NoRows
                ELSE IF Listing(E, P)[i] = Stop THEN f[i - 1]
                ELSE Redo(f[i - 1], Listing(E, P)[i]))
  <2>1. CASE i = 0
    BY <2>1
  <2>2. CASE i # 0 /\ i \in DOMAIN E
    <3>1. Listing(E, P)[i] = E[i] /\ E[i] # Stop
      BY <2>2, SentinelAssumption DEF Listing, Kept
    <3>2. QED BY <2>2, <3>1
  <2>3. CASE i # 0 /\ i \notin DOMAIN E
    <3>1. Listing(E, P)[i] = Stop
      BY <1>1, <2>3 DEF Listing
    <3>2. QED BY <2>3, <3>1
  <2>4. QED BY <2>1, <2>2, <2>3
<1>3. [i \in 0 .. P |-> IF i = 0 THEN NoRows
                        ELSE IF i \in DOMAIN E THEN Redo(f[i - 1], E[i]) ELSE f[i - 1]]
      = [i \in 0 .. P |-> IF i = 0 THEN NoRows
                          ELSE IF Listing(E, P)[i] = Stop THEN f[i - 1]
                          ELSE Redo(f[i - 1], Listing(E, P)[i])]
  BY <1>2, Zenon
<1>4. QED BY <1>1, <1>3, Zenon DEF BinlogDef, ReplayDef, NoRows

LEMMA AppendIs ==
  ASSUME NEW s \in Seq(Items), NEW e \in Items
  PROVE  Append(s, e) = [p \in 1 .. Len(s) + 1 |-> IF p = Len(s) + 1 THEN e ELSE s[p]]
<1> DEFINE a == Append(s, e)
<1>1. /\ a \in Seq(Items) /\ Len(a) = Len(s) + 1
      /\ \A p \in 1 .. Len(s) + 1 : a[p] = (IF p = Len(s) + 1 THEN e ELSE s[p])
  OBVIOUS
<1> HIDE DEF a
<1>2. a = [p \in 1 .. Len(s) + 1 |-> a[p]]
  BY <1>1
<1>3. a = [p \in 1 .. Len(s) + 1 |-> IF p = Len(s) + 1 THEN e ELSE s[p]]
  BY <1>1, <1>2, Zenon
<1>4. QED BY <1>3 DEF a

LEMMA NoRowsType == NoRows \in States
  BY DEF NoRows, States

LEMMA ReplayOfIs ==
  ASSUME NEW E, NEW P, Kept(E, P)
  PROVE  ReplayOf(E, P) = ReplaySeq(NoRows, Listing(E, P))
<1> DEFINE s == Listing(E, P)
           g == CHOOSE f : BinlogDef(E, P, f)
<1>0. s \in Seq(Items) /\ Len(s) = P /\ NoRows \in States
  BY ListingType, NoRowsType
<1> HIDE DEF s
<1>1. PICK f : Replays(NoRows, s, f)
  BY <1>0, ReplayExists
<1>2. BinlogDef(E, P, f)
  BY <1>0, <1>1, ReplayIsDef, SameDef DEF s
<1>3. BinlogDef(E, P, g)
  BY <1>2
<1> HIDE DEF g
<1>4. Replays(NoRows, s, g)
  BY <1>0, <1>3, ReplayDefIs, SameDef DEF s
<1>5. ReplaySeq(NoRows, s) = g[P]
  BY <1>0, <1>4, ReplaySeqIs
<1>6. QED BY <1>5 DEF ReplayOf, g, s

\* An entry written at the next position.
LEMMA ReplayOfNext ==
  ASSUME NEW E, NEW P, Kept(E, P), NEW e \in Entries, NEW EE,
         EE = [p \in DOMAIN E \cup {P + 1} |-> IF p = P + 1 THEN e ELSE E[p]]
  PROVE  Kept(EE, P + 1) /\ ReplayOf(EE, P + 1) = Apply(ReplayOf(E, P), e)
<1>0. P \in Nat /\ e \in Items
  BY DEF Kept, Items
<1>1. Kept(EE, P + 1)
  BY DEF Kept
<1>2. Listing(EE, P + 1) = Append(Listing(E, P), e)
  <2>1. Listing(E, P) \in Seq(Items) /\ Len(Listing(E, P)) = P
    BY ListingType
  <2>2. Append(Listing(E, P), e) = [p \in 1 .. P + 1 |-> IF p = P + 1 THEN e ELSE Listing(E, P)[p]]
    BY <1>0, <2>1, AppendIs
  <2>3. ASSUME NEW p \in 1 .. P + 1
        PROVE  Listing(EE, P + 1)[p] = (IF p = P + 1 THEN e ELSE Listing(E, P)[p])
    BY <1>0 DEF Listing, Kept
  <2>4. Listing(EE, P + 1) = [p \in 1 .. P + 1 |-> Listing(EE, P + 1)[p]]
    BY DEF Listing
  <2>5. QED BY <2>2, <2>3, <2>4, Zenon
<1>3. ReplaySeq(NoRows, Append(Listing(E, P), e)) = Apply(ReplaySeq(NoRows, Listing(E, P)), e)
  BY <1>0, ListingType, NoRowsType, ReplayAppend
<1>4. QED BY <1>1, <1>2, <1>3, ReplayOfIs

LEMMA ReplayOfType ==
  ASSUME NEW E, NEW P, Kept(E, P)
  PROVE  ReplayOf(E, P) \in States
  BY ReplayOfIs, ListingType, NoRowsType, ReplaySeqType

-----------------------------------------------------------------------------
(* The rows that the binlog and what is on its way to it give. *)

HeldSeq(h) == IF h = None THEN <<>> ELSE <<h>>

Reach(E, P, h, q, p) == ReplaySeq(ReplaySeq(ReplaySeq(ReplayOf(E, P), HeldSeq(h)), q), p)

OnTheWay(E, P, h, q, p) ==
  Kept(E, P) /\ h \in Entries \cup {None} /\ q \in Seq(Items) /\ p \in Seq(Items)

\* With h written or with h held.
Before(E, P, h) == ReplaySeq(ReplayOf(E, P), HeldSeq(h))

LEMMA BeforeType ==
  ASSUME NEW E, NEW P, Kept(E, P), NEW h \in Entries \cup {None}
  PROVE  /\ Before(E, P, h) \in States
         /\ Before(E, P, None) = ReplayOf(E, P)
         /\ h # None => Before(E, P, h) = Apply(ReplayOf(E, P), h)
<1>1. ReplayOf(E, P) \in States
  BY ReplayOfType
<1>2. Before(E, P, None) = ReplayOf(E, P)
  BY <1>1, ReplayEmpty DEF Before, HeldSeq
<1>3. ASSUME h # None PROVE Before(E, P, h) = Apply(ReplayOf(E, P), h) /\ h \in Items
  <2>1. h \in Items
    BY <1>3 DEF Items
  <2>2. QED BY <1>1, <1>3, <2>1, ReplayOne DEF Before, HeldSeq
<1>4. Before(E, P, h) \in States
  BY <1>1, <1>2, <1>3, ApplyType
<1>5. QED BY <1>2, <1>3, <1>4

LEMMA ReachType ==
  ASSUME NEW E, NEW P, NEW h, NEW q, NEW p, OnTheWay(E, P, h, q, p)
  PROVE  /\ ReplaySeq(Before(E, P, h), q) \in States
         /\ Reach(E, P, h, q, p) \in States
  BY BeforeType, ReplaySeqType DEF Reach, OnTheWay, Before

LEMMA ReachInFlight ==
  ASSUME TypeOK
  PROVE  /\ OnTheWay(entries, position, held, queue, pending)
         /\ ReplaySeq(ReplayBinlog, InFlight) = Reach(entries, position, held, queue, pending)
<1>1. OnTheWay(entries, position, held, queue, pending)
  BY DEF TypeOK, BinlogType, QueueType, OnTheWay, Kept, Items
<1>2. ReplayOf(entries, position) \in States
  BY <1>1, ReplayOfType DEF OnTheWay
<1>3. /\ HeldSeq(held) \in Seq(Items) /\ queue \in Seq(Items)
      /\ HeldSeq(held) \o queue \in Seq(Items) /\ pending \in Seq(Items)
  <2>1. queue \in Seq(Items) /\ pending \in Seq(Items)
    BY <1>1 DEF OnTheWay
  <2>2. HeldSeq(held) \in Seq(Items)
    <3>1. CASE held = None
      BY <3>1 DEF HeldSeq
    <3>2. CASE held # None
      <4>1. held \in Items
        BY <1>1, <3>2 DEF OnTheWay, Items
      <4>2. QED BY <3>2, <4>1 DEF HeldSeq
    <3>3. QED BY <3>1, <3>2
  <2>3. QED BY <2>1, <2>2
<1>4. InFlight = (HeldSeq(held) \o queue) \o pending
  BY DEF InFlight, HeldSeq
<1>5. ReplaySeq(ReplayOf(entries, position), HeldSeq(held) \o queue)
      = ReplaySeq(ReplaySeq(ReplayOf(entries, position), HeldSeq(held)), queue)
  BY <1>2, <1>3, ReplayConcat
<1>6. ReplaySeq(ReplayOf(entries, position), (HeldSeq(held) \o queue) \o pending)
      = ReplaySeq(ReplaySeq(ReplayOf(entries, position), HeldSeq(held) \o queue), pending)
  BY <1>2, <1>3, ReplayConcat
<1>7. QED BY <1>1, <1>4, <1>5, <1>6, ReplayBinlogIs DEF Reach

\* A statement joins the queue.
LEMMA ReachPut ==
  ASSUME NEW E, NEW P, NEW h, NEW q, OnTheWay(E, P, h, q, <<>>), NEW e \in Entries
  PROVE  Reach(E, P, h, Append(q, e), <<>>) = Apply(Reach(E, P, h, q, <<>>), e)
<1> DEFINE b == Before(E, P, h)
<1>1. b \in States /\ e \in Items /\ q \in Seq(Items)
  BY BeforeType DEF OnTheWay, Items
<1> HIDE DEF b
<1>2. ReplaySeq(b, Append(q, e)) = Apply(ReplaySeq(b, q), e)
  BY <1>1, ReplayAppend
<1>3. ReplaySeq(b, q) \in States /\ ReplaySeq(b, Append(q, e)) \in States
  BY <1>1, <1>2, ReplaySeqType, ApplyType
<1>4. /\ Reach(E, P, h, Append(q, e), <<>>) = ReplaySeq(b, Append(q, e))
      /\ Reach(E, P, h, q, <<>>) = ReplaySeq(b, q)
  BY <1>3, ReplayEmpty DEF Reach, b, Before
<1>5. QED BY <1>2, <1>4

\* The sentinel joins the queue, and does nothing.
LEMMA ReachStop ==
  ASSUME NEW E, NEW P, NEW h, NEW q, NEW p, OnTheWay(E, P, h, q, p)
  PROVE  Reach(E, P, h, Append(q, Stop), p) = Reach(E, P, h, q, p)
<1> DEFINE b == Before(E, P, h)
<1>1. b \in States /\ Stop \in Items /\ q \in Seq(Items)
  BY BeforeType DEF OnTheWay, Items
<1> HIDE DEF b
<1>2. ReplaySeq(b, Append(q, Stop)) = ReplaySeq(b, q)
  BY <1>1, ReplayAppend DEF Apply
<1>3. QED BY <1>2 DEF Reach, b, Before

\* A commit hands over the overlay's list; publishing passes it on item by item.
LEMMA ReachCommit ==
  ASSUME NEW E, NEW P, NEW h, NEW q, NEW p, OnTheWay(E, P, h, q, p)
  PROVE  Reach(E, P, h, q, p) = ReplaySeq(Reach(E, P, h, q, <<>>), p)
<1>1. ReplaySeq(Before(E, P, h), q) \in States
  BY ReachType
<1>2. QED BY <1>1, ReplayEmpty DEF Reach, Before

LEMMA ReachPublish ==
  ASSUME NEW E, NEW P, NEW h, NEW q, NEW p, OnTheWay(E, P, h, q, p), p # <<>>
  PROVE  Reach(E, P, h, Append(q, Head(p)), Tail(p)) = Reach(E, P, h, q, p)
<1> DEFINE b == Before(E, P, h)
<1>1. b \in States /\ q \in Seq(Items) /\ p \in Seq(Items) /\ Head(p) \in Items
  BY BeforeType DEF OnTheWay
<1> HIDE DEF b
<1>2. ReplaySeq(b, Append(q, Head(p))) = Apply(ReplaySeq(b, q), Head(p))
  BY <1>1, ReplayAppend
<1>3. ReplaySeq(b, q) \in States
  BY <1>1, ReplaySeqType
<1>4. ReplaySeq(ReplaySeq(b, q), p) = ReplaySeq(Apply(ReplaySeq(b, q), Head(p)), Tail(p))
  BY <1>1, <1>3, ReplayHead
<1>5. QED BY <1>2, <1>4 DEF Reach, b, Before

\* The worker takes the first item; then the entry it holds is written.
LEMMA ReachGet ==
  ASSUME NEW E, NEW P, NEW q, NEW p, OnTheWay(E, P, None, q, p), q # <<>>
  PROVE  /\ Head(q) = Stop => Reach(E, P, None, Tail(q), p) = Reach(E, P, None, q, p)
         /\ Head(q) # Stop => /\ Head(q) \in Entries
                              /\ Reach(E, P, Head(q), Tail(q), p) = Reach(E, P, None, q, p)
<1> DEFINE b == ReplayOf(E, P)
<1>0. Kept(E, P) /\ q \in Seq(Items) /\ None \in Entries \cup {None}
  BY DEF OnTheWay
<1>1. b \in States
  BY <1>0, ReplayOfType
<1>2. Before(E, P, None) = b
  BY <1>0, BeforeType
<1> HIDE DEF b
<1>3. ReplaySeq(b, q) = ReplaySeq(Apply(b, Head(q)), Tail(q)) /\ Head(q) \in Items
  BY <1>0, <1>1, ReplayHead
<1>4. CASE Head(q) = Stop
  <2>1. Apply(b, Head(q)) = b
    BY <1>4 DEF Apply
  <2>2. QED BY <1>2, <1>3, <1>4, <2>1 DEF Reach, Before
<1>5. CASE Head(q) # Stop
  <2>1. Head(q) \in Entries /\ Head(q) # None /\ Head(q) \in Entries \cup {None}
    BY <1>3, <1>5, SentinelAssumption DEF Items
  <2>2. Before(E, P, Head(q)) = Apply(b, Head(q))
    BY <1>0, <2>1, BeforeType DEF b
  <2>3. QED BY <1>2, <1>3, <1>5, <2>1, <2>2 DEF Reach, Before
<1>6. QED BY <1>4, <1>5

LEMMA ReachWrite ==
  ASSUME NEW E, NEW P, NEW e \in Entries, NEW q, NEW p, OnTheWay(E, P, None, q, p), NEW EE,
         EE = [i \in DOMAIN E \cup {P + 1} |-> IF i = P + 1 THEN e ELSE E[i]]
  PROVE  Reach(EE, P + 1, None, q, p) = Reach(E, P, e, q, p)
<1>0. Kept(E, P) /\ None \in Entries \cup {None} /\ e \in Entries \cup {None} /\ e # None
  BY SentinelAssumption DEF OnTheWay
<1>1. Kept(EE, P + 1) /\ ReplayOf(EE, P + 1) = Apply(ReplayOf(E, P), e)
  BY <1>0, ReplayOfNext
<1>2. Before(EE, P + 1, None) = ReplayOf(EE, P + 1)
  BY <1>0, <1>1, BeforeType
<1>3. Before(E, P, e) = Apply(ReplayOf(E, P), e)
  BY <1>0, BeforeType
<1>4. QED BY <1>1, <1>2, <1>3 DEF Reach, Before

-----------------------------------------------------------------------------
(* The rows of the store, of the overlay, and of what is about to be logged. *)

ReachNow == Reach(entries, position, held, queue, pending)

Overlaid == [k \in Keys |-> IF changes[k] = Untouched THEN store[k] ELSE changes[k]]

\* The entry a thread is about to log, if any, leads from st to goal.
LeadsTo(c, s, st, goal) ==
  /\ \A t \in Threads : c[t] = "log" => Apply(st, s[t]) = goal
  /\ (\A t \in Threads : c[t] # "log") => st = goal

\* The row a thread has read is still that of the store.
RowRead ==
  \A t \in Threads :
    pc[t] = "write" => /\ row[t] = store[stmt[t].key]
                       /\ active => stmt[t].op \in TxnOps

StoreReached ==
  /\ ~active => LeadsTo(pc, stmt, ReachNow, store)
  /\ active => ReachNow = store /\ LeadsTo(pc, stmt, ReplaySeq(store, txnlog), Overlaid)

Steady == Undisturbed /\ exit \notin {"crash", "stop"}

ReplayInv == RowRead /\ (Steady => StoreReached)

SafeOps == BatchWriters = {} /\ TxnOps \subseteq {"INSERT", "DELETE"}

LEMMA NoBatch ==
  ASSUME BatchWriters = {}
  PROVE  Threads = Writers
  BY DEF Threads

LEMMA StepRowRead ==
  ASSUME SafeOps, FlowInv, RowRead, [Next]_vars
  PROVE  RowRead'
<1>0. /\ Threads = Writers /\ TypeOK /\ LockHeld /\ Stages /\ ThreadType
      /\ pc \in [Threads -> {"idle", "write", "log", "publish"}]
      /\ \A t \in Threads : pc[t] = "write" => stmt[t] \in Statements
  BY NoBatch DEF SafeOps, FlowInv, TypeOK, ThreadType
<1>1. ASSUME NEW t \in Threads, NEW s \in Statements, Read(t, s) PROVE RowRead'
  <2>1. /\ row'[t] = store[s.key] /\ stmt'[t] = s /\ UNCHANGED <<store, active>>
        /\ active => s.op \in TxnOps
    BY <1>0, <1>1 DEF Read, ThreadType
  <2>2. \A u \in Threads : u # t => pc'[u] = pc[u] /\ row'[u] = row[u] /\ stmt'[u] = stmt[u]
    BY <1>0, <1>1 DEF Read, ThreadType
  <2>3. QED BY <2>1, <2>2 DEF RowRead
<1>2. ASSUME NEW t \in Threads, Write(t) PROVE RowRead'
  <2>1. \A u \in Threads : u # t => pc[u] = "idle" /\ pc'[u] = "idle"
    BY <1>0, <1>2 DEF Write, LockHeld
  <2>2. pc'[t] = "log"
    BY <1>0, <1>2 DEF Write
  <2>3. QED BY <2>1, <2>2 DEF RowRead
<1>3. ASSUME NEW t \in Threads, BatchWrite(t) PROVE RowRead'
  BY <1>0, <1>3 DEF BatchWrite, SafeOps
<1>4. ASSUME NEW t \in Threads, Log(t) PROVE RowRead'
  BY <1>0, <1>4 DEF Log, RowRead, ThreadType
<1>5. ASSUME NEW t \in Threads, CommitTransaction(t) PROVE RowRead'
  <2>1. \A u \in Threads : pc'[u] # "write"
    BY <1>0, <1>5, SentinelAssumption, ConstAssumption DEF CommitTransaction, LockHeld
  <2>2. QED BY <2>1 DEF RowRead
<1>6. ASSUME NEW t \in Threads, Publish(t) PROVE RowRead'
  <2>1. /\ UNCHANGED <<store, active, stmt, row>>
        /\ \A u \in Threads : pc'[u] = "write" => pc[u] = "write"
    BY <1>0, <1>6 DEF Publish, ThreadType
  <2>2. QED BY <2>1 DEF RowRead
<1>7. CASE BeginTransaction
  <2>1. \A u \in Threads : pc[u] # "write"
    BY <1>0, <1>7, ConstAssumption DEF BeginTransaction, LockHeld
  <2>2. QED BY <1>7, <2>1 DEF BeginTransaction, RowRead
<1>8. CASE RollbackTransaction \/ CommitFails
  BY <1>8 DEF RollbackTransaction, CommitFails, RowRead, Discard
<1>9. CASE CloseEnd \/ Die
  <2>1. \A u \in Threads : pc'[u] = "idle"
    BY <1>9 DEF CloseEnd, Die, Gone
  <2>2. QED BY <2>1 DEF RowRead
<1>10. CASE UNCHANGED <<store, active, pc, stmt, row>>
  BY <1>10 DEF RowRead
<1>11. QED
  BY <1>1, <1>2, <1>3, <1>4, <1>5, <1>6, <1>7, <1>8, <1>9, <1>10
  DEF Next, WorkerGet, WorkerWrite, WorkerQuit, CloseBegin, CloseSignal, CloseJoin,
      CloseDrain, Open

\* An entry's effect on a row that the statement has just been run on.
LEMMA ApplyStatement ==
  ASSUME NEW s \in Statements, NEW n \in Nat, NEW st \in States,
         s.op # "INSERT" => st[s.key] # NoRow
  PROVE  Apply(st, [id |-> n, stmt |-> s]) = [st EXCEPT ![s.key] = After(st[s.key], s)]
<1> DEFINE e == [id |-> n, stmt |-> s]
<1>1. e \in Entries /\ e # Stop /\ e.stmt = s
  BY SentinelAssumption DEF Entries
<1> HIDE DEF e
<1>2. Apply(st, e) = [st EXCEPT ![s.key] = IF s.op = "INSERT" \/ @ # NoRow THEN After(@, s) ELSE @]
  BY <1>1 DEF Apply, Redo
<1>3. QED BY <1>2 DEF e

\* An INSERT or a DELETE sets the row whatever it was.
LEMMA ApplySets ==
  ASSUME NEW s \in Statements, NEW n \in Nat, NEW st \in States,
         s.op \in {"INSERT", "DELETE"}
  PROVE  Apply(st, [id |-> n, stmt |-> s]) = [st EXCEPT ![s.key] = s.arg]
<1> DEFINE e == [id |-> n, stmt |-> s]
<1>1. e \in Entries /\ e # Stop /\ e.stmt = s
  BY SentinelAssumption DEF Entries
<1> HIDE DEF e
<1>2. Apply(st, e) = [st EXCEPT ![s.key] = IF s.op = "INSERT" \/ @ # NoRow THEN After(@, s) ELSE @]
  BY <1>1 DEF Apply, Redo
<1>3. s.op # "INSERT" => s.arg = NoRow
  BY DEF Statements
<1>4. (IF s.op = "INSERT" \/ st[s.key] # NoRow THEN After(st[s.key], s) ELSE st[s.key]) = s.arg
  BY <1>3 DEF After
<1>5. QED BY <1>2, <1>4 DEF e

LEMMA KeepReached ==
  ASSUME StoreReached, UNCHANGED <<store, active, changes, txnlog, pc, stmt>>,
         ReachNow' = ReachNow
  PROVE  StoreReached'
  BY DEF StoreReached, LeadsTo, Overlaid

\* Who neither logs before the step nor after it changes nothing here.
LEMMA KeepLeads ==
  ASSUME NEW c, NEW s, NEW cc, NEW ss, NEW st, NEW goal, LeadsTo(c, s, st, goal),
         \A t \in Threads : (cc[t] = "log" <=> c[t] = "log") /\ (c[t] = "log" => ss[t] = s[t])
  PROVE  LeadsTo(cc, ss, st, goal)
  BY DEF LeadsTo

LEMMA WriteReached ==
  ASSUME SafeOps, FlowInv, RowRead, StoreReached, NEW t \in Threads, Write(t)
  PROVE  StoreReached'
<1>0. /\ TypeOK /\ LockHeld /\ Stages /\ EngineType /\ ThreadType /\ BatchWriters = {}
      /\ pc \in [Threads -> {"idle", "write", "log", "publish"}]
      /\ store \in States /\ seq \in Nat /\ txnlog \in Seq(Items)
      /\ stmt \in [Threads -> Statements \cup Entries \cup {None}]
  BY DEF SafeOps, FlowInv, TypeOK, ThreadType, EngineType, States, Items
<1>1. pc[t] = "write" /\ pc' = [pc EXCEPT ![t] = "log"]
  BY DEF Write
<1>2. \A u \in Threads : u # t => pc[u] = "idle" /\ pc'[u] = "idle"
  BY <1>0, <1>1, OneInside
<1>3. (\A u \in Threads : pc[u] # "log") /\ pc'[t] = "log"
  BY <1>0, <1>1, <1>2
<1> DEFINE s == stmt[t]
           e == [id |-> seq + 1, stmt |-> s]
<1>4. /\ s \in Statements /\ row[t] = store[s.key] /\ stmt'[t] = e /\ s.key \in Keys
      /\ s.op # "INSERT" => row[t] # NoRow
      /\ active => s.op \in TxnOps
  BY <1>0, <1>1, StatementKey DEF Write, ThreadType, RowRead
<1>5. UNCHANGED <<entries, position, held, queue, pending, active, txnlog>>
  BY DEF Write
<1>6. ReachNow' = ReachNow
  BY <1>5 DEF ReachNow
<1>7. seq + 1 \in Nat
  BY <1>0
<1> HIDE DEF s
<1>8. CASE ~active
  <2>1. ReachNow = store
    BY <1>3, <1>8 DEF StoreReached, LeadsTo
  <2>2. store' = [store EXCEPT ![s.key] = After(row[t], s)]
    BY <1>8 DEF Write, TransactionPut, s
  <2>3. Apply(store, e) = [store EXCEPT ![s.key] = After(store[s.key], s)]
    BY <1>0, <1>4, <1>7, ApplyStatement
  <2>4. Apply(ReachNow', stmt'[t]) = store'
    BY <1>4, <1>6, <2>1, <2>2, <2>3
  <2>5. QED BY <1>2, <1>3, <1>5, <1>8, <2>4 DEF StoreReached, LeadsTo
<1>9. CASE active
  <2>1. ReachNow = store /\ ReplaySeq(store, txnlog) = Overlaid
    BY <1>3, <1>9 DEF StoreReached, LeadsTo
  <2>2. changes' = [changes EXCEPT ![s.key] = After(row[t], s)] /\ UNCHANGED store
    BY <1>9 DEF Write, TransactionPut, s
  <2>3. s.op \in {"INSERT", "DELETE"} /\ After(row[t], s) = s.arg
    BY <1>4, <1>9 DEF SafeOps, After
  <2>4. s.arg # Untouched /\ changes \in [Keys -> Rows \cup {NoRow, Untouched}]
    BY <1>0, <1>4, <2>3, ConstAssumption DEF Statements, EngineType
  <2>5. Overlaid \in States
    BY <1>0, <2>1, ReplaySeqType
  <2>6. Overlaid' = [Overlaid EXCEPT ![s.key] = s.arg]
    BY <1>4, <2>2, <2>3, <2>4 DEF Overlaid
  <2>7. Apply(Overlaid, e) = [Overlaid EXCEPT ![s.key] = s.arg]
    BY <1>4, <1>7, <2>3, <2>5, ApplySets
  <2>8. Apply(ReplaySeq(store, txnlog)', stmt'[t]) = Overlaid'
    BY <1>4, <1>5, <2>1, <2>2, <2>6, <2>7
  <2>9. QED BY <1>2, <1>3, <1>5, <1>6, <1>9, <2>1, <2>2, <2>8 DEF StoreReached, LeadsTo
<1>10. QED BY <1>8, <1>9

LEMMA LogReached ==
  ASSUME SafeOps, FlowInv, StoreReached, NEW t \in Threads, Log(t)
  PROVE  StoreReached'
<1>0. /\ TypeOK /\ LockHeld /\ Stages /\ EngineType /\ ThreadType /\ BatchWriters = {}
      /\ pc \in [Threads -> {"idle", "write", "log", "publish"}]
      /\ store \in States /\ txnlog \in Seq(Items)
  BY DEF SafeOps, FlowInv, TypeOK, ThreadType, EngineType, States, Items
<1>1. pc[t] = "log" /\ pc' = [pc EXCEPT ![t] = "idle"] /\ stmt[t] \in Entries /\ stmt[t] \in Items
  BY <1>0 DEF Log, ThreadType, Items
<1>2. \A u \in Threads : u # t => pc[u] = "idle"
  BY <1>0, <1>1, OneInside
<1>3. \A u \in Threads : pc'[u] # "log"
  BY <1>0, <1>1, <1>2
<1>4. UNCHANGED <<store, active, changes, entries, position, held, pending>>
  BY DEF Log
<1>5. pending = <<>>
  BY <1>0, <1>1, <1>2 DEF Stages
<1>6. OnTheWay(entries, position, held, queue, pending)
  BY <1>0, ReachInFlight
<1>7. CASE ~active
  <2>1. queue' = Append(queue, stmt[t])
    BY <1>7 DEF Log
  <2>2. ReachNow' = Apply(ReachNow, stmt[t])
    BY <1>1, <1>4, <1>5, <1>6, <2>1, ReachPut DEF ReachNow
  <2>3. Apply(ReachNow, stmt[t]) = store
    BY <1>1, <1>7 DEF StoreReached, LeadsTo
  <2>4. QED BY <1>3, <1>4, <1>7, <2>2, <2>3 DEF StoreReached, LeadsTo
<1>8. CASE active
  <2>1. txnlog' = Append(txnlog, stmt[t]) /\ UNCHANGED queue
    BY <1>8 DEF Log
  <2>2. ReachNow' = ReachNow /\ ReachNow = store
    BY <1>4, <1>8, <2>1 DEF ReachNow, StoreReached
  <2>3. ReplaySeq(store, txnlog)' = Apply(ReplaySeq(store, txnlog), stmt[t])
    <3>1. ReplaySeq(store, Append(txnlog, stmt[t])) = Apply(ReplaySeq(store, txnlog), stmt[t])
      BY <1>0, <1>1, ReplayAppend
    <3>2. QED BY <1>4, <2>1, <3>1
  <2>4. Apply(ReplaySeq(store, txnlog), stmt[t]) = Overlaid /\ Overlaid' = Overlaid
    BY <1>1, <1>4, <1>8 DEF StoreReached, LeadsTo, Overlaid
  <2>5. QED BY <1>3, <1>4, <1>8, <2>2, <2>3, <2>4 DEF StoreReached, LeadsTo
<1>9. QED BY <1>7, <1>8

\* With nobody inside, the store is reached, and so is the overlay's.
LEMMA NobodyReached ==
  ASSUME StoreReached, \A u \in Threads : pc[u] = "idle"
  PROVE  /\ ReachNow = store
         /\ active => ReplaySeq(store, txnlog) = Overlaid
  BY DEF StoreReached, LeadsTo

LEMMA CommitReached ==
  ASSUME SafeOps, FlowInv, StoreReached, NEW t \in Threads, CommitTransaction(t)
  PROVE  StoreReached'
<1>0. TypeOK /\ LockHeld /\ Stages /\ BatchWriters = {} /\ lock = None /\ active
  BY DEF SafeOps, FlowInv, CommitTransaction
<1>1. \A u \in Threads : pc[u] = "idle"
  BY <1>0, NobodyInside
<1>2. ReachNow = store /\ ReplaySeq(store, txnlog) = Overlaid /\ pending = <<>>
  BY <1>0, <1>1, NobodyReached, QuietPending
<1>3. /\ pending' = txnlog /\ ~active' /\ store' = Overlaid
      /\ UNCHANGED <<entries, position, held, queue>>
      /\ \A u \in Threads : pc'[u] # "log"
  BY <1>0, <1>1 DEF CommitTransaction, Overlaid, TypeOK, ThreadType
<1>4. OnTheWay(entries, position, held, queue, txnlog)
  <2>1. OnTheWay(entries, position, held, queue, pending) /\ txnlog \in Seq(Items)
    BY <1>0, ReachInFlight DEF TypeOK, EngineType, Items
  <2>2. QED BY <2>1 DEF OnTheWay
<1>5. Reach(entries, position, held, queue, txnlog)
      = ReplaySeq(Reach(entries, position, held, queue, <<>>), txnlog)
  BY <1>4, ReachCommit
<1>6. ReachNow' = ReplaySeq(store, txnlog)
  BY <1>2, <1>3, <1>5 DEF ReachNow
<1>7. QED BY <1>2, <1>3, <1>6 DEF StoreReached, LeadsTo

\* An open transaction begins, or is given up.
LEMMA DiscardReached ==
  ASSUME SafeOps, FlowInv, StoreReached, lock = None,
         changes' = NoChanges, txnlog' = <<>>,
         UNCHANGED <<store, queue, held, entries, position, conn>>
  PROVE  StoreReached'
<1>0. TypeOK /\ LockHeld /\ Stages /\ BatchWriters = {} /\ store \in States
  BY DEF SafeOps, FlowInv, TypeOK, EngineType, States
<1>1. \A u \in Threads : pc[u] = "idle" /\ pc'[u] = "idle"
  BY <1>0, NobodyInside
<1>2. ReachNow = store /\ ReachNow' = ReachNow
  BY <1>1, NobodyReached DEF ReachNow
<1>3. Overlaid' = store'
  BY <1>0 DEF Overlaid, NoChanges, States
<1>4. ReplaySeq(store, txnlog)' = store'
  BY <1>0, ReplayEmpty
<1>5. QED BY <1>1, <1>2, <1>3, <1>4 DEF StoreReached, LeadsTo

LEMMA PublishReached ==
  ASSUME SafeOps, FlowInv, StoreReached, NEW t \in Threads, Publish(t)
  PROVE  StoreReached'
<1>0. TypeOK /\ LockHeld /\ BatchWriters = {} /\ pc \in [Threads -> {"idle", "write", "log", "publish"}]
  BY DEF SafeOps, FlowInv, TypeOK, ThreadType
<1>1. OnTheWay(entries, position, held, queue, pending)
  BY <1>0, ReachInFlight
<1>2. UNCHANGED <<store, active, changes, txnlog, entries, position, held, stmt>>
  BY DEF Publish
<1>3. ReachNow' = ReachNow
  <2>1. CASE pending = <<>>
    BY <1>2, <2>1 DEF Publish, ReachNow
  <2>2. CASE pending # <<>>
    <3>1. queue' = Append(queue, Head(pending)) /\ pending' = Tail(pending)
      BY <2>2 DEF Publish
    <3>2. QED BY <1>1, <1>2, <2>2, <3>1, ReachPublish DEF ReachNow
  <2>3. QED BY <2>1, <2>2
<1>4. \A u \in Threads : pc'[u] = "log" <=> pc[u] = "log"
  BY <1>0 DEF Publish
<1>5. QED BY <1>2, <1>3, <1>4 DEF StoreReached, LeadsTo, Overlaid

LEMMA GetReached ==
  ASSUME FlowInv, StoreReached, WorkerGet
  PROVE  StoreReached'
<1>1. OnTheWay(entries, position, None, queue, pending) /\ held = None
  BY ReachInFlight DEF FlowInv, WorkerGet
<1>2. /\ UNCHANGED <<store, active, changes, txnlog, pc, stmt, entries, position, pending>>
      /\ queue # <<>> /\ queue' = Tail(queue)
      /\ held' = IF Head(queue) = Stop THEN held ELSE Head(queue)
  BY DEF WorkerGet
<1>3. ReachNow' = ReachNow
  BY <1>1, <1>2, ReachGet DEF ReachNow
<1>4. QED BY <1>2, <1>3, KeepReached

LEMMA WorkerReached ==
  ASSUME FlowInv, StoreReached, WorkerWrite, UNCHANGED fails
  PROVE  StoreReached'
<1>1. fails \in Nat /\ held \in Entries /\ OnTheWay(entries, position, None, queue, pending)
  <2>1. TypeOK /\ held # None
    BY DEF FlowInv, WorkerWrite
  <2>2. QED BY <2>1, ReachInFlight DEF TypeOK, ProcessType, QueueType, OnTheWay
<1>2. /\ UNCHANGED <<store, active, changes, txnlog, pc, stmt, queue, pending>>
      /\ held' = None /\ WriteEntry(held)
  BY <1>1 DEF WorkerWrite, WriteEntryFails
<1>3. ReachNow' = ReachNow
  BY <1>1, <1>2, ReachWrite DEF ReachNow, WriteEntry
<1>4. QED BY <1>2, <1>3, KeepReached

LEMMA DrainReached ==
  ASSUME FlowInv, StoreReached, CloseDrain, UNCHANGED fails, timeouts = 0
  PROVE  StoreReached'
<1>0. TypeOK /\ Stages /\ fails \in Nat
  BY DEF FlowInv, TypeOK, ProcessType
<1>1. held = None /\ OnTheWay(entries, position, None, queue, pending)
  <2>1. held = None
    BY <1>0 DEF Stages, CloseDrain
  <2>2. QED BY <1>0, <2>1, ReachInFlight
<1>2. /\ UNCHANGED <<store, active, changes, txnlog, pc, stmt, held, pending>>
      /\ queue # <<>> /\ queue' = Tail(queue)
  BY DEF CloseDrain
<1>3. CASE Head(queue) = Stop
  <2>1. UNCHANGED <<entries, position>>
    BY <1>3 DEF CloseDrain
  <2>2. ReachNow' = ReachNow
    BY <1>1, <1>2, <1>3, <2>1, ReachGet DEF ReachNow
  <2>3. QED BY <1>2, <2>2, KeepReached
<1>4. CASE Head(queue) # Stop
  <2>1. WriteEntry(Head(queue))
    BY <1>0, <1>4 DEF CloseDrain, WriteEntryFails
  <2>2. Head(queue) \in Entries /\ Reach(entries, position, Head(queue), Tail(queue), pending)
          = Reach(entries, position, None, queue, pending)
    BY <1>1, <1>2, <1>4, ReachGet
  <2>3. OnTheWay(entries, position, None, Tail(queue), pending)
    BY <1>1, <1>2 DEF OnTheWay
  <2>4. Reach(entries', position + 1, None, Tail(queue), pending)
          = Reach(entries, position, Head(queue), Tail(queue), pending)
    BY <2>1, <2>2, <2>3, ReachWrite DEF WriteEntry
  <2>5. ReachNow' = ReachNow
    BY <1>1, <1>2, <2>1, <2>2, <2>4 DEF ReachNow, WriteEntry
  <2>6. QED BY <1>2, <2>5, KeepReached
<1>5. QED BY <1>3, <1>4

LEMMA EndReached ==
  ASSUME FlowInv, StoreReached, CloseEnd, timeouts = 0
  PROVE  StoreReached'
<1>1. /\ TypeOK /\ Stages /\ \A u \in Threads : pc[u] = "idle" /\ pc'[u] = "idle"
  BY DEF FlowInv, Stages, CloseEnd, Gone
<1>2. /\ held = None /\ queue = <<>> /\ pending = <<>>
      /\ held' = None /\ queue' = <<>> /\ pending' = <<>>
  BY <1>1, QuietPending DEF Stages, CloseEnd, Gone
<1>3. UNCHANGED <<store, entries, position>> /\ ~active'
  BY DEF CloseEnd, Gone, Discard
<1>4. ReachNow' = ReachNow /\ ReachNow = store
  BY <1>1, <1>2, <1>3, NobodyReached DEF ReachNow
<1>5. QED BY <1>1, <1>3, <1>4 DEF StoreReached, LeadsTo

LEMMA StepReplayInv ==
  ASSUME SafeOps, FlowInv, ReplayInv, [Next]_vars
  PROVE  ReplayInv'
<1>1. RowRead'
  BY StepRowRead DEF ReplayInv
<1>2. ASSUME Steady' PROVE StoreReached'
  <2>0. /\ TypeOK /\ Stages /\ RowRead /\ Steady /\ StoreReached /\ Steady'
        /\ UNCHANGED <<fails, timeouts, restarts>>
        /\ timeouts = 0 /\ fails \in Nat /\ restarts \in Nat
    <3>1. Steady /\ TypeOK /\ Stages
      BY <1>2, CountsGrow DEF Steady, FlowInv
    <3>2. UNCHANGED <<fails, timeouts, restarts>> /\ timeouts = 0
      BY <1>2, <3>1 DEF Steady, Undisturbed
    <3>3. QED BY <1>2, <3>1, <3>2 DEF ReplayInv, TypeOK, ProcessType
  <2>1. ASSUME NEW t \in Threads, NEW s \in Statements, Read(t, s) PROVE StoreReached'
    <3>1. /\ UNCHANGED <<store, active, changes, txnlog, entries, position, held, queue, pending>>
          /\ ReachNow' = ReachNow
      BY <2>1 DEF Read, ReachNow
    <3>2. \A u \in Threads : (pc'[u] = "log" <=> pc[u] = "log") /\ (pc[u] = "log" => stmt'[u] = stmt[u])
      BY <2>0, <2>1 DEF Read, TypeOK, ThreadType
    <3>3. QED BY <2>0, <3>1, <3>2 DEF StoreReached, LeadsTo, Overlaid
  <2>2. ASSUME NEW t \in Threads, Write(t) PROVE StoreReached'
    BY <2>0, <2>2, WriteReached
  <2>3. ASSUME NEW t \in Threads, BatchWrite(t) PROVE StoreReached'
    BY <2>3 DEF BatchWrite, SafeOps
  <2>4. ASSUME NEW t \in Threads, Log(t) \/ CommitTransaction(t) \/ Publish(t)
        PROVE  StoreReached'
    BY <2>0, <2>4, LogReached, CommitReached, PublishReached
  <2>5. CASE BeginTransaction \/ RollbackTransaction \/ CommitFails
    BY <2>0, <2>5, DiscardReached
    DEF BeginTransaction, RollbackTransaction, CommitFails, Discard
  <2>6. CASE WorkerGet \/ WorkerWrite \/ CloseDrain \/ CloseEnd
    BY <2>0, <2>6, GetReached, WorkerReached, DrainReached, EndReached
  <2>7. CASE CloseSignal
    <3>1. /\ UNCHANGED <<store, active, changes, txnlog, pc, stmt, entries, position, held, pending>>
          /\ queue' = Append(queue, Stop)
      BY <2>7 DEF CloseSignal
    <3>2. ReachNow' = ReachNow
      BY <2>0, <3>1, ReachInFlight, ReachStop DEF ReachNow
    <3>3. QED BY <2>0, <3>1, <3>2, KeepReached
  <2>8. CASE Die
    BY <2>0, <2>8 DEF Die, Gone, Steady
  <2>9. CASE Open
    BY <2>0, <2>9 DEF Open
  <2>10. CASE UNCHANGED <<store, active, changes, txnlog, pc, stmt, entries, position, held, queue, pending>>
    BY <2>0, <2>10, KeepReached DEF ReachNow
  <2>11. QED
    BY <2>1, <2>2, <2>3, <2>4, <2>5, <2>6, <2>7, <2>8, <2>9, <2>10
    DEF Next, WorkerQuit, CloseBegin, CloseJoin
<1>3. QED BY <1>1, <1>2 DEF ReplayInv

LEMMA InitReplayInv ==
  ASSUME Init
  PROVE  ReplayInv
<1>1. TypeOK /\ (\A u \in Threads : pc[u] = "idle") /\ ~active
  BY InitTypeOK DEF Init
<1>2. ReachNow = NoRows
  <2>1. entries = <<>> /\ position = 0 /\ held = None /\ queue = <<>> /\ pending = <<>>
    BY DEF Init
  <2>2. Kept(entries, position)
    BY <1>1, ReachInFlight DEF OnTheWay
  <2>3. Listing(entries, position) = <<>>
    BY <2>1 DEF Listing
  <2>4. ReplayOf(entries, position) = NoRows
    BY <2>2, <2>3, ReplayOfIs, ReplayEmpty, NoRowsType
  <2>5. QED BY <2>1, <2>4, NoRowsType, ReplayEmpty DEF ReachNow, Reach, HeldSeq
<1>3. store = NoRows
  BY DEF Init, NoRows
<1>4. QED BY <1>1, <1>2, <1>3 DEF ReplayInv, RowRead, StoreReached, LeadsTo

\* A replica that applies the binlog reaches the rows of this server, whatever
\* threads, worker and close() do, where no BATCH UPDATE runs beside the server lock
\* and no UPDATE in a transaction.
THEOREM ReplayReachesStore ==
  ASSUME SafeOps
  PROVE  Spec => []ReplayMatches
<1>1. FlowInv /\ ReplayInv => ReplayMatches
  <2> SUFFICES ASSUME FlowInv, ReplayInv, Steady, Quiet, ~active
               PROVE  ReplaySeq(ReplayBinlog, InFlight) = store
    BY DEF ReplayMatches, Steady
  <2>1. ReachNow = store
    BY NobodyReached DEF ReplayInv, Quiet
  <2>2. QED BY <2>1, ReachInFlight DEF FlowInv, ReachNow
<1>2. Init => ReplayInv
  BY InitReplayInv
<1>3. FlowInv /\ ReplayInv /\ [Next]_vars => ReplayInv'
  BY StepReplayInv
<1>4. QED BY <1>1, <1>2, <1>3, FlowCorrect, PTL DEF Spec
=============================================================================
