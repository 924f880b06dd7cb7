----------------------------- MODULE WALProofs -----------------------------
(***************************************************************************)
(* Proofs about WriteAheadLog, for every set of keys and values, every     *)
(* size of the log's files, and all bounds.                                *)
(***************************************************************************)
EXTENDS WriteAheadLog, Inductions, TLAPS

USE DEF vars, memory, plan, history, bounds

-----------------------------------------------------------------------------
(* Types. *)

Phases == {"none", "begun", "running", "rolled", "ended", "gone"}

Marks       == [kind : {"BEGIN", "COMMIT", "ABORT"}, txn : Ids]
Changes     == [kind : {"WRITE"}, txn : Ids, key : Keys, old : Vals, new : Vals]
Checkpoints == [kind : {"CHECKPOINT"}, txn : {0}, list : SUBSET Nat]
Contents    == Marks \cup Changes \cup Checkpoints

Items == [lsn : Nat, rec : Contents]

LogTypes == log \in Seq(Items) /\ file \in Nat \ {0} /\ lsn \in Nat /\ txnid \in Nat

ManagerTypes ==
  /\ active \subseteq 1 .. txnid /\ snapshot \subseteq SUBSET Nat
  /\ status \in [Ids -> Phases] /\ write \in [Ids -> SUBSET (Keys \X Vals)]
  /\ holder \in [Keys -> Ids \cup {Free}]
  /\ proc \in {"up", "down", "recovering"}

StoreTypes ==
  /\ store \in [Keys -> Vals] /\ truth \in [Keys -> Vals]
  /\ stale \in BOOLEAN /\ reused \in BOOLEAN

CountTypes ==
  /\ {begins, writes, checkpoints, crashes} \subseteq Nat
  /\ txnid <= begins /\ begins <= MaxTxns

Types == LogTypes /\ ManagerTypes /\ StoreTypes /\ CountTypes

LEMMA RecordFields ==
  ASSUME NEW r \in Contents
  PROVE  /\ r.kind \in {"BEGIN", "COMMIT", "ABORT", "WRITE", "CHECKPOINT"}
         /\ r.kind \in {"BEGIN", "COMMIT", "ABORT", "WRITE"} => r.txn \in Ids
         /\ r.kind = "WRITE" => r.key \in Keys /\ r.old \in Vals /\ r.new \in Vals
         /\ r.kind = "CHECKPOINT" => r.txn = 0 /\ r.list \in SUBSET Nat
BY DEF Contents, Marks, Changes, Checkpoints

LEMMA ItemFields ==
  ASSUME NEW g \in Seq(Items), NEW i \in DOMAIN g
  PROVE  g[i] \in Items /\ g[i].lsn \in Nat /\ g[i].rec \in Contents /\ i \in Nat
<1>1. g[i] \in Items /\ i \in Nat
  OBVIOUS
<1>2. QED BY <1>1 DEF Items

LEMMA Recorded ==
  /\ \A t \in Ids, kind \in {"BEGIN", "COMMIT", "ABORT"} : Mark(kind, t) \in Contents
  /\ \A t \in Ids, k \in Keys, old \in Vals, new \in Vals :
       Change(t, k, old, new) \in Contents
  /\ \A list \in SUBSET Nat : Checkpoint(list) \in Contents
BY DEF Contents, Marks, Changes, Checkpoints, Mark, Change, Checkpoint

\* One record more.
LEMMA Written ==
  ASSUME LogTypes, NEW r \in Contents, WriteRecord(r)
  PROVE  /\ log' = Append(log, [lsn |-> lsn + 1, rec |-> r])
         /\ [lsn |-> lsn + 1, rec |-> r] \in Items
         /\ log' \in Seq(Items) /\ lsn' = lsn + 1 /\ lsn' \in Nat
         /\ file' \in Nat \ {0} /\ file' \in {file, Len(log) + 1}
<1>1. [lsn |-> lsn + 1, rec |-> r] \in Items
  BY DEF LogTypes, Items
<1>2. Append(log, [lsn |-> lsn + 1, rec |-> r]) \in Seq(Items) /\ Len(log) \in Nat
  BY <1>1 DEF LogTypes
<1>3. QED BY <1>1, <1>2 DEF LogTypes, WriteRecord

LEMMA Appended ==
  ASSUME NEW S, NEW g \in Seq(S), NEW x \in S
  PROVE  /\ DOMAIN Append(g, x) = DOMAIN g \cup {Len(g) + 1} /\ Len(g) \in Nat
         /\ Len(Append(g, x)) = Len(g) + 1
         /\ Append(g, x)[Len(g) + 1] = x /\ DOMAIN g = 1 .. Len(g)
         /\ \A i \in DOMAIN g : Append(g, x)[i] = g[i] /\ i < Len(g) + 1 /\ i \in Nat
OBVIOUS

-----------------------------------------------------------------------------
(* What is true of transactions and of the manager's list, however ids are *)
(* taken again.                                                            *)

Idle ==
  /\ proc # "up" => txnid = 0
  /\ \A t \in Ids : status[t] # "none" => t <= txnid
  /\ \A list \in snapshot : list \subseteq 1 .. txnid
  /\ \A k \in Keys : holder[k] # Free =>
                       status[holder[k]] \in {"running", "rolled", "ended"}
  /\ \A t \in Ids : \A w \in write[t] : status[t] = "running" /\ holder[w[1]] = t
  /\ \A t \in Ids : \A w, x \in write[t] : w = x
  /\ \A t \in Ids : status[t] \in {"running", "rolled"} => t \in active

\* The LSNs of a file ascend.
Ascending ==
  /\ proc # "down" => \A i \in file .. Len(log) : log[i].lsn <= lsn
  /\ \A i, j \in file .. Len(log) : i < j => log[i].lsn < log[j].lsn

\* Ids begin at 1 in every life of the process.
FirstIsOne ==
  /\ txnid > 0 => \E i \in DOMAIN log : log[i].rec.txn = 1
  /\ (\E i \in DOMAIN log : log[i].rec.txn # 0) => \E i \in DOMAIN log : log[i].rec.txn = 1

Basic == Types /\ Idle /\ Ascending /\ FirstIsOne

LEMMA IdsAreNot == Free \notin Ids /\ 0 \notin Ids /\ Ids \subseteq Nat
BY WALAssumption DEF WALAssumption, Ids

LEMMA InitBasic == Init => Basic
<1> SUFFICES ASSUME Init PROVE Basic
  OBVIOUS
<1>1. <<>> \in Seq(Items) /\ Len(<<>>) = 0 /\ DOMAIN <<>> = {}
  OBVIOUS
<1>2. NoRow \in Vals /\ MaxTxns \in Nat
  BY WALAssumption DEF WALAssumption
<1>3. Types
  <2>1. LogTypes /\ CountTypes
    BY <1>1, <1>2 DEF Init, LogTypes, CountTypes
  <2>2. ManagerTypes
    BY DEF Init, ManagerTypes, Phases
  <2>3. StoreTypes
    BY <1>2 DEF Init, StoreTypes
  <2>4. QED BY <2>1, <2>2, <2>3 DEF Types
<1>4. Idle /\ Ascending /\ FirstIsOne
  BY <1>1 DEF Init, Idle, Ascending, FirstIsOne
<1>5. QED BY <1>3, <1>4 DEF Basic

\* The parts that speak of the log, when it does not change.
LEMMA LogStays ==
  ASSUME Basic, UNCHANGED <<log, file, lsn, txnid, proc>>
  PROVE  LogTypes' /\ Ascending' /\ FirstIsOne'
BY DEF Basic, Types, LogTypes, Ascending, FirstIsOne

\* And when it has one record more, of transaction 1 or with that one there.
LEMMA LogGrows ==
  ASSUME Basic, NEW r \in Contents, WriteRecord(r), proc = "up", proc' = "up",
         txnid' \in Nat, txnid' > 0 \/ r.txn # 0 => txnid > 0 \/ r.txn = 1
  PROVE  LogTypes' /\ Ascending' /\ FirstIsOne'
<1> DEFINE x == [lsn |-> lsn + 1, rec |-> r]
           n == Len(log) + 1
<1>1. /\ log \in Seq(Items) /\ file \in Nat \ {0} /\ lsn \in Nat /\ x \in Items
      /\ log' = Append(log, x) /\ log' \in Seq(Items) /\ lsn' = lsn + 1
      /\ file' \in Nat \ {0} /\ file' \in {file, n}
  BY Written DEF Basic, Types, LogTypes
<1>2. x.lsn = lsn + 1 /\ x.rec = r
  OBVIOUS
<1> HIDE DEF x
<1>3. /\ DOMAIN log' = DOMAIN log \cup {n} /\ Len(log) \in Nat /\ Len(log') = n
      /\ log'[n] = x /\ DOMAIN log = 1 .. Len(log)
      /\ \A i \in DOMAIN log : log'[i] = log[i]
  BY <1>1, Appended
<1> HIDE DEF n
<1>4. n = Len(log) + 1
  BY DEF n
<1>5. LogTypes'
  BY <1>1 DEF LogTypes
<1>6. ASSUME NEW i \in file' .. Len(log')
      PROVE  i = n \/ (i \in DOMAIN log /\ i \in file .. Len(log) /\ log'[i] = log[i] /\ i < n)
  BY <1>1, <1>3, <1>4
<1>7. \A i \in file .. Len(log) : i \in DOMAIN log
  BY <1>1, <1>3
<1>8. \A i \in DOMAIN log : log[i].lsn \in Nat
  BY <1>1, ItemFields
<1>9. Ascending'
  <2>1. \A i \in file' .. Len(log') : log'[i].lsn <= lsn'
    BY <1>1, <1>2, <1>3, <1>6, <1>7, <1>8 DEF Basic, Ascending
  <2>2. ASSUME NEW i \in file' .. Len(log'), NEW j \in file' .. Len(log'), i < j
        PROVE  log'[i].lsn < log'[j].lsn
    <3>1. i \in file .. Len(log) /\ log'[i] = log[i] /\ i \in DOMAIN log
      BY <1>3, <1>4, <1>6, <2>2
    <3>2. CASE j = n
      <4>1. log[i].lsn <= lsn /\ log[i].lsn \in Nat
        BY <1>8, <3>1 DEF Basic, Ascending
      <4>2. QED BY <1>1, <1>2, <1>3, <3>1, <3>2, <4>1
    <3>3. CASE j # n
      <4>1. j \in file .. Len(log) /\ log'[j] = log[j]
        BY <1>6, <3>3
      <4>2. QED BY <2>2, <3>1, <4>1 DEF Basic, Ascending
    <3>4. QED BY <3>2, <3>3
  <2>3. QED BY <2>1, <2>2 DEF Ascending
<1>10. FirstIsOne'
  <2>1. ASSUME NEW i \in DOMAIN log, log[i].rec.txn = 1 PROVE FirstIsOne'
    BY <1>3, <2>1 DEF FirstIsOne
  <2>2. CASE r.txn = 1
    <3>1. n \in DOMAIN log' /\ log'[n].rec.txn = 1
      BY <1>2, <1>3, <2>2
    <3>2. QED BY <3>1 DEF FirstIsOne
  <2>3. CASE txnid > 0
    BY <2>1, <2>3 DEF Basic, FirstIsOne
  <2>4. CASE ~(txnid > 0) /\ r.txn # 1 /\ ~(\E i \in DOMAIN log : log[i].rec.txn # 0)
    <3>1. ~(txnid' > 0) /\ r.txn = 0
      BY <2>4
    <3>2. \A i \in DOMAIN log' : log'[i].rec.txn = 0
      BY <1>2, <1>3, <2>4, <3>1
    <3>3. QED BY <3>1, <3>2 DEF FirstIsOne
  <2>5. QED BY <2>1, <2>2, <2>3, <2>4 DEF Basic, FirstIsOne
<1>11. QED BY <1>5, <1>9, <1>10

LEMMA BeginBasic == Basic /\ Begin => Basic'
<1> SUFFICES ASSUME Basic, Begin PROVE Basic'
  OBVIOUS
<1>1. /\ txnid \in Nat /\ begins \in Nat /\ txnid <= begins /\ begins < MaxTxns /\ MaxTxns \in Nat
      /\ txnid' = txnid + 1 /\ begins' = begins + 1 /\ proc = "up"
      /\ status' = [status EXCEPT ![txnid + 1] = "begun"]
      /\ WriteRecord(Mark("BEGIN", txnid + 1))
      /\ reused' \in BOOLEAN
      /\ UNCHANGED <<active, write, holder, snapshot, proc, plan, store, truth, stale,
                     writes, checkpoints, crashes>>
  BY WALAssumption DEF WALAssumption, Begin, Basic, Types, LogTypes, CountTypes
<1>2. txnid + 1 \in Ids
  BY <1>1 DEF Ids
<1>3. Mark("BEGIN", txnid + 1) \in Contents /\ Mark("BEGIN", txnid + 1).txn = txnid + 1
  BY <1>2, Recorded DEF Mark
<1>4. LogTypes' /\ Ascending' /\ FirstIsOne'
  BY <1>1, <1>3, LogGrows
<1>5. active' \subseteq 1 .. txnid' /\ \A list \in snapshot' : list \subseteq 1 .. txnid'
  BY <1>1 DEF Basic, Types, ManagerTypes, Idle
<1>6. /\ status' \in [Ids -> Phases] /\ status'[txnid + 1] = "begun"
      /\ \A t \in Ids \ {txnid + 1} : status'[t] = status[t]
  BY <1>1, <1>2 DEF Basic, Types, ManagerTypes, Phases
<1>7. Types'
  BY <1>1, <1>4, <1>5, <1>6 DEF Basic, Types, ManagerTypes, StoreTypes, CountTypes
<1>8. status[txnid + 1] = "none"
  BY <1>1, <1>2 DEF Basic, Idle
<1>9. \A t \in Ids : status[t] # "none" => status'[t] = status[t] /\ t # txnid + 1
  BY <1>6, <1>8
<1>10. Idle'
  <2>1. \A t \in Ids : status'[t] # "none" => t <= txnid'
    <3>1. \A t \in Ids : t \in Nat /\ (status[t] # "none" => t <= txnid)
      BY IdsAreNot DEF Basic, Idle
    <3>2. QED BY <1>1, <1>6, <3>1
  <2>2. \A k \in Keys : holder'[k] # Free =>
          holder'[k] \in Ids /\ status'[holder'[k]] \in {"running", "rolled", "ended"}
    <3>1. \A k \in Keys : holder[k] \in Ids \cup {Free}
      BY DEF Basic, Types, ManagerTypes
    <3>2. QED BY <1>1, <1>9, <3>1 DEF Basic, Idle
  <2>3. /\ \A t \in Ids : \A w \in write'[t] : status'[t] = "running" /\ holder'[w[1]] = t
        /\ \A t \in Ids : \A w, x \in write'[t] : w = x
    BY <1>1, <1>9 DEF Basic, Idle
  <2>4. \A t \in Ids : status'[t] \in {"running", "rolled"} => t \in active'
    BY <1>1, <1>6 DEF Basic, Idle
  <2>5. QED BY <1>1, <1>5, <2>1, <2>2, <2>3, <2>4 DEF Idle
<1>11. QED BY <1>4, <1>7, <1>10 DEF Basic

LEMMA RegisterBasic == ASSUME NEW t \in Ids PROVE Basic /\ Register(t) => Basic'
<1> SUFFICES ASSUME Basic, Register(t) PROVE Basic'
  OBVIOUS
<1>1. /\ status' = [status EXCEPT ![t] = "running"] /\ active' = active \cup {t}
      /\ status[t] = "begun"
      /\ UNCHANGED <<log, file, lsn, txnid, write, holder, snapshot, proc, plan, store,
                     history, bounds>>
  BY DEF Register
<1>2. LogTypes' /\ Ascending' /\ FirstIsOne'
  BY <1>1, LogStays
<1>3. t \in Nat /\ 1 <= t /\ t <= txnid /\ txnid \in Nat
  BY <1>1 DEF Basic, Idle, Types, LogTypes, Ids
<1>4. /\ status' \in [Ids -> Phases] /\ status'[t] = "running"
      /\ \A u \in Ids \ {t} : status'[u] = status[u]
  BY <1>1 DEF Basic, Types, ManagerTypes, Phases
<1>5. Types'
  BY <1>1, <1>2, <1>3, <1>4 DEF Basic, Types, ManagerTypes, StoreTypes, CountTypes
<1>6. Idle'
  BY <1>1, <1>3, <1>4 DEF Basic, Types, ManagerTypes, Idle
<1>7. QED BY <1>2, <1>5, <1>6 DEF Basic

LEMMA LogWriteBasic ==
  ASSUME NEW t \in Ids, NEW k \in Keys, NEW v \in Vals
  PROVE  Basic /\ LogWrite(t, k, v) => Basic'
<1> SUFFICES ASSUME Basic, LogWrite(t, k, v) PROVE Basic'
  OBVIOUS
<1>1. /\ holder' = [holder EXCEPT ![k] = t] /\ write' = [write EXCEPT ![t] = {<<k, v>>}]
      /\ holder[k] \in {Free, t} /\ proc = "up" /\ status[t] = "running" /\ write[t] = {}
      /\ WriteRecord(Change(t, k, store[k], v)) /\ writes' = writes + 1
      /\ UNCHANGED <<txnid, active, status, snapshot, proc, plan, store, history, begins,
                     checkpoints, crashes>>
  BY DEF LogWrite, Running
<1>2. store[k] \in Vals
  BY DEF Basic, Types, StoreTypes
<1>3. /\ Change(t, k, store[k], v) \in Contents /\ Change(t, k, store[k], v).txn = t
      /\ t # 0
  BY <1>2, Recorded, IdsAreNot DEF Change
<1>4. txnid > 0 /\ txnid' \in Nat
  BY <1>1 DEF Basic, Idle, Types, LogTypes, Ids
<1>5. LogTypes' /\ Ascending' /\ FirstIsOne'
  BY <1>1, <1>3, <1>4, LogGrows
<1>6. /\ write' \in [Ids -> SUBSET (Keys \X Vals)] /\ write'[t] = {<<k, v>>}
      /\ \A u \in Ids \ {t} : write'[u] = write[u]
  BY <1>1 DEF Basic, Types, ManagerTypes
<1>7. /\ holder' \in [Keys -> Ids \cup {Free}] /\ holder'[k] = t
      /\ \A j \in Keys \ {k} : holder'[j] = holder[j]
  BY <1>1 DEF Basic, Types, ManagerTypes
<1>8. Types'
  BY <1>1, <1>5, <1>6, <1>7 DEF Basic, Types, ManagerTypes, StoreTypes, CountTypes
<1>9. Idle'
  <2>1. \A u \in Ids : \A w \in write'[u] : status'[u] = "running" /\ holder'[w[1]] = u
    <3>1. \A w \in write'[t] : w[1] = k
      BY <1>6
    <3>2. ASSUME NEW u \in Ids \ {t}, NEW w \in write'[u]
          PROVE  status'[u] = "running" /\ holder'[w[1]] = u
      <4>1. w \in write[u] /\ w[1] \in Keys
        BY <1>6 DEF Basic, Types, ManagerTypes
      <4>2. status[u] = "running" /\ holder[w[1]] = u
        BY <4>1 DEF Basic, Idle
      <4>3. w[1] # k
        BY <1>1, <4>2, IdsAreNot
      <4>4. QED BY <1>1, <1>7, <4>1, <4>2, <4>3
    <3>3. QED BY <1>1, <1>7, <3>1, <3>2
  <2>2. \A u \in Ids : \A w, x \in write'[u] : w = x
    BY <1>6 DEF Basic, Idle
  <2>3. \A j \in Keys : holder'[j] # Free => status'[holder'[j]] \in {"running", "rolled", "ended"}
    BY <1>1, <1>7 DEF Basic, Idle
  <2>4. QED BY <1>1, <2>1, <2>2, <2>3 DEF Basic, Idle
<1>10. QED BY <1>5, <1>8, <1>9 DEF Basic

LEMMA ApplyBasic == ASSUME NEW t \in Ids PROVE Basic /\ Apply(t) => Basic'
<1> SUFFICES ASSUME Basic, Apply(t) PROVE Basic'
  OBVIOUS
<1>1. PICK w \in write[t] : store' = [store EXCEPT ![w[1]] = w[2]]
  BY DEF Apply
<1>2. /\ write' = [write EXCEPT ![t] = {}]
      /\ UNCHANGED <<log, file, lsn, txnid, active, status, holder, snapshot, proc, plan,
                     history, bounds>>
  BY DEF Apply
<1>3. w[1] \in Keys /\ w[2] \in Vals
  BY DEF Basic, Types, ManagerTypes
<1>4. store' \in [Keys -> Vals]
  BY <1>1, <1>3 DEF Basic, Types, StoreTypes
<1>5. /\ write' \in [Ids -> SUBSET (Keys \X Vals)] /\ write'[t] = {}
      /\ \A u \in Ids \ {t} : write'[u] = write[u]
  BY <1>2 DEF Basic, Types, ManagerTypes
<1>6. LogTypes' /\ Ascending' /\ FirstIsOne'
  BY <1>2, LogStays
<1>7. Types'
  BY <1>2, <1>4, <1>5, <1>6 DEF Basic, Types, ManagerTypes, StoreTypes, CountTypes
<1>8. Idle'
  BY <1>2, <1>5 DEF Basic, Idle
<1>9. QED BY <1>6, <1>7, <1>8 DEF Basic

\* Commit, RollBack and Abort move a transaction on that has nothing to apply.
LEMMA MovedOn ==
  ASSUME Basic, NEW t \in Ids, NEW phase \in {"rolled", "ended"},
         status[t] \in {"running", "rolled"}, write[t] = {},
         status' = [status EXCEPT ![t] = phase],
         UNCHANGED <<txnid, active, write, holder, snapshot, proc, bounds>>
  PROVE  ManagerTypes' /\ CountTypes' /\ Idle'
<1>1. /\ status' \in [Ids -> Phases] /\ status'[t] = phase
      /\ \A u \in Ids \ {t} : status'[u] = status[u]
  BY DEF Basic, Types, ManagerTypes, Phases
<1>2. ManagerTypes' /\ CountTypes'
  BY <1>1 DEF Basic, Types, ManagerTypes, CountTypes
<1>3. \A u \in Ids : \A w \in write'[u] : status'[u] = "running" /\ holder'[w[1]] = u
  BY <1>1 DEF Basic, Idle
<1>4. \A k \in Keys : holder'[k] # Free => status'[holder'[k]] \in {"running", "rolled", "ended"}
  <2>1. \A k \in Keys : holder[k] # Free => holder[k] \in Ids
    BY DEF Basic, Types, ManagerTypes
  <2>2. QED BY <1>1, <2>1 DEF Basic, Idle
<1>5. QED BY <1>1, <1>2, <1>3, <1>4 DEF Basic, Idle

LEMMA EndBasic ==
  ASSUME NEW t \in Ids
  PROVE  Basic /\ (Commit(t) \/ RollBack(t) \/ Abort(t)) => Basic'
<1> SUFFICES ASSUME Basic, Commit(t) \/ RollBack(t) \/ Abort(t) PROVE Basic'
  OBVIOUS
<1>0. txnid > 0 <=> txnid # 0
  BY DEF Basic, Types, LogTypes
<1>1. CASE RollBack(t)
  <2>1. LogTypes' /\ Ascending' /\ FirstIsOne'
    BY <1>1, LogStays DEF RollBack
  <2>2. ManagerTypes' /\ CountTypes' /\ Idle'
    BY <1>1, MovedOn DEF RollBack, Running
  <2>3. store' \in [Keys -> Vals]
    BY <1>1 DEF Basic, Types, StoreTypes, RollBack
  <2>4. StoreTypes'
    BY <1>1, <2>3 DEF Basic, Types, StoreTypes, RollBack
  <2>5. QED BY <2>1, <2>2, <2>4 DEF Basic, Types
<1>2. ASSUME NEW kind \in {"COMMIT", "ABORT"}, WriteRecord(Mark(kind, t)), proc = "up",
             status[t] \in {"running", "rolled"}, UNCHANGED <<txnid, proc>>
      PROVE  LogTypes' /\ Ascending' /\ FirstIsOne'
  <2>1. Mark(kind, t) \in Contents
    BY Recorded
  <2>2. txnid > 0 /\ txnid' \in Nat
    BY <1>2 DEF Basic, Idle, Types, LogTypes, Ids
  <2>3. QED BY <1>2, <2>1, <2>2, LogGrows
<1>3. CASE Commit(t)
  <2>1. LogTypes' /\ Ascending' /\ FirstIsOne'
    BY <1>2, <1>3 DEF Commit, Running
  <2>2. ManagerTypes' /\ CountTypes' /\ Idle'
    BY <1>3, MovedOn DEF Commit, Running
  <2>3. truth' \in [Keys -> Vals]
    BY <1>3 DEF Basic, Types, StoreTypes, Commit
  <2>4. StoreTypes'
    BY <1>3, <2>3 DEF Basic, Types, StoreTypes, Commit
  <2>5. QED BY <2>1, <2>2, <2>4 DEF Basic, Types
<1>4. CASE Abort(t)
  <2>1. LogTypes' /\ Ascending' /\ FirstIsOne'
    BY <1>2, <1>4 DEF Abort
  <2>2. write[t] = {}
    BY <1>4 DEF Abort, Basic, Idle
  <2>3. ManagerTypes' /\ CountTypes' /\ Idle'
    BY <1>4, <2>2, MovedOn DEF Abort
  <2>4. StoreTypes'
    BY <1>4 DEF Basic, Types, StoreTypes, Abort
  <2>5. QED BY <2>1, <2>3, <2>4 DEF Basic, Types
<1>5. QED BY <1>1, <1>3, <1>4

LEMMA UnregisterBasic == ASSUME NEW t \in Ids PROVE Basic /\ Unregister(t) => Basic'
<1> SUFFICES ASSUME Basic, Unregister(t) PROVE Basic'
  OBVIOUS
<1>1. /\ status' = [status EXCEPT ![t] = "gone"] /\ active' = active \ {t}
      /\ status[t] = "ended"
      /\ holder' = [k \in Keys |-> IF holder[k] = t THEN Free ELSE holder[k]]
      /\ UNCHANGED <<log, file, lsn, txnid, write, snapshot, proc, plan, store,
                     history, bounds>>
  BY DEF Unregister
<1>2. LogTypes' /\ Ascending' /\ FirstIsOne'
  BY <1>1, LogStays
<1>3. /\ status' \in [Ids -> Phases] /\ status'[t] = "gone"
      /\ \A u \in Ids \ {t} : status'[u] = status[u]
  BY <1>1 DEF Basic, Types, ManagerTypes, Phases
<1>4. /\ holder' \in [Keys -> Ids \cup {Free}]
      /\ \A k \in Keys : holder[k] # t => holder'[k] = holder[k]
      /\ \A k \in Keys : holder'[k] # t /\ (holder'[k] # Free => holder'[k] = holder[k])
  BY <1>1, IdsAreNot DEF Basic, Types, ManagerTypes
<1>5. Types'
  BY <1>1, <1>2, <1>3, <1>4 DEF Basic, Types, ManagerTypes, StoreTypes, CountTypes
<1>6. \A u \in Ids : \A w \in write'[u] : status'[u] = "running" /\ holder'[w[1]] = u
  <2>1. ASSUME NEW u \in Ids, NEW w \in write[u]
        PROVE  u # t /\ status[u] = "running" /\ holder[w[1]] = u /\ w[1] \in Keys
    BY <1>1 DEF Basic, Idle, Types, ManagerTypes
  <2>2. QED BY <1>1, <1>3, <1>4, <2>1
<1>7. \A k \in Keys : holder'[k] # Free => status'[holder'[k]] \in {"running", "rolled", "ended"}
  <2>1. \A k \in Keys : holder[k] # Free => holder[k] \in Ids
    BY DEF Basic, Types, ManagerTypes
  <2>2. QED BY <1>3, <1>4, <2>1 DEF Basic, Idle
<1>8. Idle'
  BY <1>1, <1>3, <1>6, <1>7 DEF Basic, Idle
<1>9. QED BY <1>2, <1>5, <1>8 DEF Basic

LEMMA CheckpointBasic == Basic /\ (ReadActive \/ LogCheckpoint) => Basic'
<1> SUFFICES ASSUME Basic, ReadActive \/ LogCheckpoint PROVE Basic'
  OBVIOUS
<1>1. CASE ReadActive
  <2>1. LogTypes' /\ Ascending' /\ FirstIsOne'
    BY <1>1, LogStays DEF ReadActive
  <2>2. active \in SUBSET Nat
    BY DEF Basic, Types, ManagerTypes
  <2>3. Types'
    BY <1>1, <2>1, <2>2 DEF ReadActive, Basic, Types, ManagerTypes, StoreTypes, CountTypes
  <2>4. Idle'
    BY <1>1 DEF ReadActive, Basic, Types, ManagerTypes, Idle
  <2>5. QED BY <2>1, <2>3, <2>4 DEF Basic
<1>2. CASE LogCheckpoint
  <2>1. PICK list \in snapshot : WriteRecord(Checkpoint(list)) /\ stale' \in BOOLEAN
    BY <1>2 DEF LogCheckpoint
  <2>2. Checkpoint(list) \in Contents /\ Checkpoint(list).txn = 0
    BY Recorded DEF Checkpoint, Basic, Types, ManagerTypes
  <2>3. /\ snapshot' = {} /\ proc = "up"
        /\ UNCHANGED <<txnid, active, status, write, holder, proc, plan, store, truth,
                       reused, bounds>>
    BY <1>2 DEF LogCheckpoint
  <2>4. LogTypes' /\ Ascending' /\ FirstIsOne'
    BY <2>1, <2>2, <2>3, LogGrows DEF Basic, Types, LogTypes
  <2>5. Types' /\ Idle'
    BY <2>1, <2>3, <2>4 DEF Basic, Types, ManagerTypes, StoreTypes, CountTypes, Idle
  <2>6. QED BY <2>4, <2>5 DEF Basic
<1>3. QED BY <1>1, <1>2

LEMMA CrashBasic == Basic /\ Crash => Basic'
<1> SUFFICES ASSUME Basic, Crash PROVE Basic'
  OBVIOUS
<1>1. /\ lsn' = 0 /\ proc' = "down" /\ txnid' = 0 /\ active' = {} /\ snapshot' = {}
      /\ status' = [t \in Ids |-> "none"] /\ write' = [t \in Ids |-> {}]
      /\ holder' = [k \in Keys |-> Free] /\ crashes' = crashes + 1
      /\ UNCHANGED <<log, file, store, history, begins, writes, checkpoints>>
  BY DEF Crash, Forgotten
<1>2. Types'
  BY <1>1 DEF Basic, Types, LogTypes, ManagerTypes, StoreTypes, CountTypes, Phases
<1>3. Idle'
  BY <1>1 DEF Idle
<1>4. Ascending' /\ FirstIsOne'
  BY <1>1 DEF Basic, Ascending, FirstIsOne
<1>5. QED BY <1>2, <1>3, <1>4 DEF Basic

LEMMA RestartBasic == Basic /\ Restart => Basic'
<1> SUFFICES ASSUME Basic, Restart PROVE Basic'
  OBVIOUS
<1>1. /\ lsn' \in RecoveredLsn /\ file' = Len(log) + 1 /\ proc' = "recovering"
      /\ proc = "down" /\ UNCHANGED <<log, txnid, active, status, write, holder,
                                      snapshot, store, history, bounds>>
  BY DEF Restart
<1>2. /\ log \in Seq(Items) /\ Len(log) \in Nat /\ file \in Nat \ {0}
      /\ \A i \in file .. Len(log) - 1 : i \in DOMAIN log
  BY DEF Basic, Types, LogTypes
<1>3. RecoveredLsn \subseteq Nat
  BY <1>2, ItemFields DEF RecoveredLsn
<1>4. LogTypes'
  BY <1>1, <1>2, <1>3 DEF Basic, Types, LogTypes
<1>5. Types' /\ Idle'
  BY <1>1, <1>4 DEF Basic, Types, ManagerTypes, StoreTypes, CountTypes, Idle
<1>6. Ascending' /\ FirstIsOne'
  BY <1>1, <1>2 DEF Basic, Ascending, FirstIsOne
<1>7. QED BY <1>5, <1>6 DEF Basic

\* The records that a restart has chosen.
Chosen ==
  /\ toRedo \subseteq {i \in DOMAIN log : log[i].rec.kind = "WRITE"}
  /\ toUndo \subseteq {i \in DOMAIN log : log[i].rec.kind = "WRITE"}

LEMMA ChosenRecords ==
  ASSUME Basic, Chosen
  PROVE  \A i \in toRedo \cup toUndo :
           log[i].rec.key \in Keys /\ log[i].rec.new \in Vals /\ log[i].rec.old \in Vals
<1>1. log \in Seq(Items)
  BY DEF Basic, Types, LogTypes
<1>2. QED BY <1>1, ItemFields, RecordFields DEF Chosen

LEMMA RecoverBasic == Basic /\ Chosen /\ (Redo \/ Undo \/ Recovered) => Basic'
<1> SUFFICES ASSUME Basic, Chosen, Redo \/ Undo \/ Recovered PROVE Basic'
  OBVIOUS
<1>1. proc # "up" /\ proc' # "down" /\ proc # "down" /\ proc' \in {"up", "recovering"}
      /\ UNCHANGED <<log, file, memory, history, bounds>>
  BY DEF Redo, Undo, Recovered
<1>2. store' \in [Keys -> Vals]
  <2>1. \A k \in Keys, v \in Vals : [store EXCEPT ![k] = v] \in [Keys -> Vals]
    BY DEF Basic, Types, StoreTypes
  <2>2. CASE Redo
    <3>1. PICK i \in toRedo : store' = [store EXCEPT ![log[i].rec.key] = log[i].rec.new]
      BY <2>2 DEF Redo
    <3>2. QED BY <2>1, <3>1, ChosenRecords
  <2>3. CASE Undo
    <3>1. PICK i \in toUndo : store' = [store EXCEPT ![log[i].rec.key] = log[i].rec.old]
      BY <2>3 DEF Undo
    <3>2. QED BY <2>1, <3>1, ChosenRecords
  <2>4. CASE Recovered
    BY <2>4 DEF Recovered, Basic, Types, StoreTypes
  <2>5. QED BY <2>2, <2>3, <2>4
<1>3. Types'
  BY <1>1, <1>2 DEF Basic, Types, LogTypes, ManagerTypes, StoreTypes, CountTypes
<1>4. Idle' /\ Ascending' /\ FirstIsOne'
  BY <1>1 DEF Basic, Idle, Ascending, FirstIsOne
<1>5. QED BY <1>3, <1>4 DEF Basic

\* The log only grows, and what was written stays.
LEMMA LogOnlyGrows ==
  ASSUME Basic, [Next]_vars
  PROVE  \A i \in DOMAIN log : i \in DOMAIN log' /\ log'[i] = log[i]
<1>1. log \in Seq(Items)
  BY DEF Basic, Types, LogTypes
<1>2. ASSUME NEW x, log' = Append(log, x)
      PROVE  \A i \in DOMAIN log : i \in DOMAIN log' /\ log'[i] = log[i]
  BY <1>1, <1>2
<1>3. log' = log \/ \E x : log' = Append(log, x)
  BY DEF Next, Begin, Register, LogWrite, Apply, Commit, RollBack, Abort, Unregister,
         ReadActive, LogCheckpoint, Crash, Restart, Redo, Undo, Recovered, WriteRecord
<1>4. QED BY <1>2, <1>3

LEMMA StepChosen == Basic /\ Chosen /\ [Next]_vars => Chosen'
<1> SUFFICES ASSUME Basic, Chosen, [Next]_vars PROVE Chosen'
  OBVIOUS
<1>1. CASE toRedo' \subseteq toRedo /\ toUndo' \subseteq toUndo
  BY <1>1, LogOnlyGrows DEF Chosen
<1>2. CASE Restart
  BY <1>2, LogOnlyGrows DEF Restart, Redone, Undone, Chosen
<1>3. CASE Crash
  BY <1>3 DEF Crash, Chosen
<1>4. QED
  BY <1>1, <1>2, <1>3
  DEF Next, Begin, Register, LogWrite, Apply, Commit, RollBack, Abort, Unregister,
      ReadActive, LogCheckpoint, Redo, Undo, Recovered

LEMMA StepBasic == Basic /\ Chosen /\ [Next]_vars => Basic'
<1> SUFFICES ASSUME Basic, Chosen, [Next]_vars PROVE Basic'
  OBVIOUS
<1>1. CASE UNCHANGED vars
  <2>1. LogTypes' /\ Ascending' /\ FirstIsOne'
    BY <1>1, LogStays
  <2>2. Types' /\ Idle'
    BY <1>1, <2>1 DEF Basic, Types, ManagerTypes, StoreTypes, CountTypes, Idle
  <2>3. QED BY <2>1, <2>2 DEF Basic
<1>2. ASSUME NEW t \in Ids,
             Register(t) \/ Apply(t) \/ Commit(t) \/ RollBack(t) \/ Abort(t)
             \/ Unregister(t) \/ \E k \in Keys, v \in Vals : LogWrite(t, k, v)
      PROVE  Basic'
  BY <1>2, RegisterBasic, ApplyBasic, EndBasic, UnregisterBasic, LogWriteBasic
<1>3. CASE Begin \/ ReadActive \/ LogCheckpoint \/ Crash \/ Restart \/ Redo \/ Undo \/ Recovered
  BY <1>3, BeginBasic, CheckpointBasic, CrashBasic, RestartBasic, RecoverBasic
<1>4. QED BY <1>1, <1>2, <1>3, Zenon DEF Next

LEMMA SpecBasic == Spec => [](Basic /\ Chosen)
<1>1. Init => Basic /\ Chosen
  BY InitBasic DEF Init, Chosen
<1>2. Basic /\ Chosen /\ [Next]_vars => (Basic /\ Chosen)'
  BY StepBasic, StepChosen
<1>3. QED BY <1>1, <1>2, PTL DEF Spec

\* Every variable keeps its type, LSNs ascend within a file, and whoever runs is on the
\* manager's list (_write_record, _recover_lsn, begin, commit).
THEOREM LogWellFormed == Spec => []TypeOK
<1>1. Basic => TypeOK
  BY DEF Basic, Types, LogTypes, ManagerTypes, StoreTypes, Idle, Ascending, TypeOK
<1>2. QED BY <1>1, SpecBasic, PTL

-----------------------------------------------------------------------------
(* What the records of a log g say.                                        *)

Writes(g)     == {i \in DOMAIN g : g[i].rec.kind = "WRITE"}
On(g, k)      == {i \in Writes(g) : g[i].rec.key = k}
Begins(g, t)  == {i \in DOMAIN g : g[i].rec.kind = "BEGIN" /\ g[i].rec.txn = t}
Commits(g, t) == {i \in DOMAIN g : g[i].rec.kind = "COMMIT" /\ g[i].rec.txn = t}
Ends(g, t)    == {i \in DOMAIN g : g[i].rec.kind \in {"COMMIT", "ABORT"} /\ g[i].rec.txn = t}
Lists(g, t)   == {i \in DOMAIN g : g[i].rec.kind = "CHECKPOINT" /\ t \in g[i].rec.list}

\* The writes on k of transactions that have not ended, and of those that committed.
LostOn(g, k) == {i \in On(g, k) : Ends(g, g[i].rec.txn) = {}}
WonOn(g, k)  == {i \in On(g, k) : Commits(g, g[i].rec.txn) # {}}

\* A record x more, at n.
Grown(g, x, h, n) ==
  /\ n \in Nat /\ \A i \in DOMAIN g : h[i] = g[i] /\ i < n /\ i \in Nat
  /\ h[n] = x /\ n \notin DOMAIN g
  /\ Writes(h) = Writes(g) \cup (IF x.rec.kind = "WRITE" THEN {n} ELSE {})
  /\ \A k : On(h, k) = On(g, k) \cup (IF x.rec.kind = "WRITE" /\ x.rec.key = k
                                      THEN {n} ELSE {})
  /\ \A t : /\ Begins(h, t) = Begins(g, t) \cup
                 (IF x.rec.kind = "BEGIN" /\ x.rec.txn = t THEN {n} ELSE {})
            /\ Commits(h, t) = Commits(g, t) \cup
                 (IF x.rec.kind = "COMMIT" /\ x.rec.txn = t THEN {n} ELSE {})
            /\ Ends(h, t) = Ends(g, t) \cup
                 (IF x.rec.kind \in {"COMMIT", "ABORT"} /\ x.rec.txn = t
                  THEN {n} ELSE {})
            /\ Lists(h, t) = Lists(g, t) \cup
                 (IF x.rec.kind = "CHECKPOINT" /\ t \in x.rec.list
                  THEN {n} ELSE {})

LEMMA Sets ==
  ASSUME NEW g \in Seq(Items), NEW x \in Items
  PROVE  Grown(g, x, Append(g, x), Len(g) + 1)
<1> DEFINE h == Append(g, x)
           n == Len(g) + 1
<1>1. /\ DOMAIN h = DOMAIN g \cup {n} /\ n \in Nat /\ h[n] = x /\ n \notin DOMAIN g
      /\ \A i \in DOMAIN g : h[i] = g[i] /\ i < n /\ i \in Nat
  BY Appended
<1>2. Writes(h) = Writes(g) \cup (IF x.rec.kind = "WRITE" THEN {n} ELSE {})
  BY <1>1 DEF Writes
<1>3. \A k : On(h, k) = On(g, k) \cup (IF x.rec.kind = "WRITE" /\ x.rec.key = k
                                       THEN {n} ELSE {})
  BY <1>1 DEF Writes, On
<1>4. ASSUME NEW t
      PROVE  /\ Begins(h, t) = Begins(g, t) \cup
                  (IF x.rec.kind = "BEGIN" /\ x.rec.txn = t THEN {n} ELSE {})
             /\ Commits(h, t) = Commits(g, t) \cup
                  (IF x.rec.kind = "COMMIT" /\ x.rec.txn = t THEN {n} ELSE {})
             /\ Ends(h, t) = Ends(g, t) \cup
                  (IF x.rec.kind \in {"COMMIT", "ABORT"} /\ x.rec.txn = t THEN {n} ELSE {})
             /\ Lists(h, t) = Lists(g, t) \cup
                  (IF x.rec.kind = "CHECKPOINT" /\ t \in x.rec.list THEN {n} ELSE {})
  BY <1>1 DEF Begins, Commits, Ends, Lists
<1>5. QED BY <1>1, <1>2, <1>3, <1>4 DEF Grown

LEMMA LogSets ==
  ASSUME NEW g \in Seq(Items)
  PROVE  /\ \A i \in Writes(g) : /\ i \in DOMAIN g /\ i \in Nat /\ g[i].lsn \in Nat
                                 /\ g[i].rec.txn \in Ids /\ g[i].rec.key \in Keys
         /\ \A k : On(g, k) \subseteq Writes(g) /\ LostOn(g, k) \subseteq On(g, k)
                   /\ WonOn(g, k) \subseteq On(g, k)
         /\ \A k : \A i \in On(g, k) : g[i].rec.key = k
         /\ \A t : Commits(g, t) \subseteq Ends(g, t)
<1>1. \A i \in Writes(g) : /\ i \in DOMAIN g /\ i \in Nat /\ g[i].lsn \in Nat
                           /\ g[i].rec.txn \in Ids /\ g[i].rec.key \in Keys
  BY ItemFields, RecordFields DEF Writes
<1>2. QED BY <1>1 DEF On, LostOn, WonOn, Commits, Ends

-----------------------------------------------------------------------------
(* What is true as long as no checkpoint has listed a transaction that had *)
(* ended, and no id was taken again.                                       *)

Calm == ~stale /\ ~reused

\* The transactions of this life, as the log knows them.
Life ==
  txnid > 0 =>
    /\ \A t \in Ids : Ended(t) <=> Ends(log, t) # {}
    /\ \A i \in Writes(log) : /\ status[log[i].rec.txn] \notin {"none", "begun"}
                              /\ ~Ended(log[i].rec.txn) => holder[log[i].rec.key] = log[i].rec.txn
                              /\ log[i].lsn <= lsn
    /\ \A t \in Ids : status[t] # "none" => Begins(log, t) # {}

\* No transaction begins or is listed after its end, and none writes without having begun.
Orders(g) ==
  /\ \A t \in Ids : \A i \in Lists(g, t) \cup Begins(g, t), j \in Ends(g, t) : i < j
  /\ \A i, j \in Writes(g) : i < j => g[i].lsn < g[j].lsn
  /\ \A i \in Writes(g) : Begins(g, g[i].rec.txn) # {}

\* One transaction at a time writes a key, and its first write found there what the last
\* committed transaction had left.
Olds(g, tr, k) ==
  /\ \A i, j \in LostOn(g, k) : g[i].rec.txn = g[j].rec.txn
  /\ \A i \in LostOn(g, k) : (\A j \in LostOn(g, k) : i <= j) => g[i].rec.old = tr[k]

\* The last committed write of a key left its value.
News(g, tr, k) ==
  \A i \in WonOn(g, k) : (\A j \in WonOn(g, k) : j <= i) => g[i].rec.new = tr[k]

\* A key whose transaction runs has the value of the last write, unless that is still to
\* be applied; any other has the last committed value.
Held(k) ==
  IF holder[k] # Free /\ status[holder[k]] = "running"
  THEN \E i \in On(log, k) :
         /\ log[i].rec.txn = holder[k] /\ \A j \in On(log, k) : j <= i
         /\ \/ <<k, log[i].rec.new>> \in write[holder[k]]
            \/ (\A w \in write[holder[k]] : w[1] # k) /\ store[k] = log[i].rec.new
  ELSE proc = "up" => store[k] = truth[k]

\* After a crash, redo and undo have every key to visit whose value is not right.
Down ==
  proc = "down" =>
    \A k \in Keys : store[k] = truth[k] \/ \E i \in On(log, k) : Redone(i) \/ i \in LostOn(log, k)

Lost(g) == {i \in Writes(g) : Ends(g, g[i].rec.txn) = {}}

Recovering ==
  proc = "recovering" =>
    /\ toUndo \subseteq Lost(log) /\ \A i \in toRedo : Redone(i)
    /\ \A i \in toUndo, j \in Lost(log) :
         j < i /\ log[j].rec.txn = log[i].rec.txn => j \in toUndo
    /\ \A i \in toRedo, j \in Writes(log) : i < j /\ Redone(j) => j \in toRedo
    /\ toRedo # {} => Lost(log) \subseteq toUndo
    /\ \A k \in Keys : store[k] = truth[k] \/ \E i \in On(log, k) : i \in toRedo \cup toUndo

InLog == \A k \in Keys : Olds(log, truth, k) /\ News(log, truth, k)

Inner == Life /\ Orders(log) /\ InLog /\ (\A k \in Keys : Held(k)) /\ Down /\ Recovering

\* The transactions that undo takes back are those without an end.
LEMMA LostIsUndone ==
  ASSUME Basic, Orders(log)
  PROVE  {i \in DOMAIN log : Undone(i)} = Lost(log)
<1>1. log \in Seq(Items)
  BY DEF Basic, Types, LogTypes
<1>2. \A t \in Ids : /\ Records({"BEGIN"}) \cap Of(t) = Begins(log, t)
                     /\ Records({"COMMIT", "ABORT"}) \cap Of(t) = Ends(log, t)
                     /\ Listing(t) = Lists(log, t)
  BY DEF Records, Of, Listing, Begins, Ends, Lists
<1>3. \A t \in Ids : Begins(log, t) \cup Lists(log, t) \cup Ends(log, t) \subseteq Nat
  BY <1>1 DEF Begins, Lists, Ends
<1>4. ASSUME NEW t \in Losers PROVE Ends(log, t) = {}
  <2>1. PICK i \in Begins(log, t) \cup Lists(log, t) : \A j \in Ends(log, t) : j < i
    BY <1>2 DEF Losers
  <2>2. t \in Ids
    BY DEF Losers
  <2>3. \A j \in Ends(log, t) : i < j
    BY <2>1, <2>2 DEF Orders
  <2>4. QED BY <1>3, <2>1, <2>2, <2>3
<1>5. ASSUME NEW t \in Ids, Begins(log, t) # {}, Ends(log, t) = {} PROVE t \in Losers
  BY <1>2, <1>5 DEF Losers
<1>6. \A i \in Writes(log) : Begins(log, log[i].rec.txn) # {} /\ log[i].rec.txn \in Ids
  BY <1>1, LogSets DEF Orders
<1>7. QED BY <1>4, <1>5, <1>6 DEF Undone, Lost, Writes

-----------------------------------------------------------------------------
(* The steps that write nothing to the log.                                *)

LEMMA LogUnread ==
  ASSUME Inner, UNCHANGED <<log, truth>>
  PROVE  Orders(log)' /\ InLog'
BY DEF Inner, Orders, InLog, Olds, News, On, Writes, LostOn, WonOn, Begins, Ends, Commits, Lists

LEMMA InnerInit == Init => Inner
<1> SUFFICES ASSUME Init PROVE Inner
  OBVIOUS
<1>1. log = <<>> /\ DOMAIN log = {} /\ proc = "up" /\ txnid = 0 /\ store = truth
  BY DEF Init
<1>2. Life /\ Down /\ Recovering
  BY <1>1 DEF Life, Down, Recovering
<1>3. Writes(log) = {}
  BY <1>1 DEF Writes
<1>4. Orders(log) /\ InLog
  BY <1>1, <1>3 DEF Orders, InLog, Olds, News, LostOn, WonOn, On, Begins, Lists
<1>5. \A k \in Keys : Held(k)
  BY <1>1 DEF Init, Held
<1>6. QED BY <1>2, <1>4, <1>5 DEF Inner

LEMMA RegisterInner ==
  ASSUME Basic, Inner, NEW t \in Ids, Register(t)
  PROVE  Inner'
<1>1. /\ status[t] = "begun" /\ proc = "up" /\ status' = [status EXCEPT ![t] = "running"]
      /\ UNCHANGED <<log, file, lsn, txnid, write, holder, snapshot, proc, store, history>>
  BY DEF Register
<1>2. status'[t] = "running" /\ \A u \in Ids \ {t} : status'[u] = status[u]
  BY <1>1 DEF Basic, Types, ManagerTypes
<1>3. log \in Seq(Items) /\ \A u \in Ids : Ended(u)' <=> Ended(u)
  BY <1>1, <1>2 DEF Basic, Types, LogTypes, Ended
<1>4. Life'
  <2>1. ASSUME txnid > 0 PROVE \A i \in Writes(log) : log[i].rec.txn # t
    BY <1>1, <2>1 DEF Inner, Life
  <2>2. ASSUME txnid > 0 PROVE Begins(log, t) # {}
    BY <1>1, <2>2 DEF Inner, Life
  <2>3. QED BY <1>1, <1>2, <1>3, <2>1, <2>2, LogSets DEF Inner, Life
<1>5. ASSUME NEW k \in Keys PROVE Held(k)'
  <2>1. holder[k] # t /\ holder[k] \in Ids \cup {Free}
    BY <1>1, IdsAreNot DEF Basic, Idle, Types, ManagerTypes
  <2>2. Held(k)
    BY DEF Inner
  <2>3. QED BY <1>1, <1>2, <2>1, <2>2 DEF Held
<1>6. Down' /\ Recovering'
  BY <1>1 DEF Down, Recovering
<1>7. QED BY <1>1, <1>4, <1>5, <1>6, LogUnread DEF Inner

LEMMA ApplyInner ==
  ASSUME Basic, Inner, NEW t \in Ids, Apply(t)
  PROVE  Inner'
<1>1. PICK w \in write[t] : store' = [store EXCEPT ![w[1]] = w[2]]
  BY DEF Apply
<1>2. /\ proc = "up" /\ write' = [write EXCEPT ![t] = {}]
      /\ UNCHANGED <<log, file, lsn, txnid, active, status, holder, snapshot, proc, history>>
  BY DEF Apply
<1>3. /\ write'[t] = {} /\ \A u \in Ids \ {t} : write'[u] = write[u]
      /\ w \in Keys \X Vals /\ w[1] \in Keys
      /\ store'[w[1]] = w[2] /\ \A k \in Keys : k # w[1] => store'[k] = store[k]
  BY <1>1, <1>2 DEF Basic, Types, ManagerTypes, StoreTypes
<1>4. \A x \in write[t] : x = w
  BY DEF Basic, Idle
<1>5. holder[w[1]] = t /\ status[t] = "running" /\ t # Free
  BY IdsAreNot DEF Basic, Idle
<1>6. ASSUME NEW k \in Keys PROVE Held(k)'
  <2>1. Held(k) /\ holder[k] \in Ids \cup {Free}
    BY DEF Inner, Basic, Types, ManagerTypes
  <2>2. CASE holder[k] = t
    <3>1. PICK i \in On(log, k) :
            /\ log[i].rec.txn = t /\ \A j \in On(log, k) : j <= i
            /\ \/ <<k, log[i].rec.new>> \in write[t]
               \/ (\A x \in write[t] : x[1] # k) /\ store[k] = log[i].rec.new
      BY <1>5, <2>1, <2>2 DEF Held
    <3>2. store'[k] = log[i].rec.new
      <4>1. CASE k = w[1]
        <5>1. <<k, log[i].rec.new>> = w
          BY <1>4, <3>1, <4>1
        <5>2. w[2] = log[i].rec.new
          BY <5>1
        <5>3. QED BY <1>3, <4>1, <5>2
      <4>2. CASE k # w[1]
        <5>1. <<k, log[i].rec.new>> # w
          BY <4>2
        <5>2. store[k] = log[i].rec.new
          BY <1>4, <3>1, <5>1
        <5>3. QED BY <1>3, <4>2, <5>2
      <4>3. QED BY <4>1, <4>2
    <3>3. QED BY <1>2, <1>3, <1>5, <2>2, <3>1, <3>2 DEF Held
  <2>3. CASE holder[k] # t
    <3>1. k # w[1]
      BY <1>5, <2>3
    <3>2. QED BY <1>2, <1>3, <2>1, <2>3, <3>1 DEF Held
  <2>4. QED BY <2>2, <2>3
<1>7. Life' /\ Down' /\ Recovering'
  BY <1>2 DEF Inner, Life, Down, Recovering, Ended
<1>8. QED BY <1>2, <1>6, <1>7, LogUnread DEF Inner

LEMMA RollBackInner ==
  ASSUME Basic, Inner, NEW t \in Ids, RollBack(t)
  PROVE  Inner'
<1>1. /\ status[t] = "running" /\ proc = "up" /\ status' = [status EXCEPT ![t] = "rolled"]
      /\ store' = [k \in Keys |-> IF holder[k] = t THEN truth[k] ELSE store[k]]
      /\ UNCHANGED <<log, file, lsn, txnid, write, holder, snapshot, proc, history>>
  BY DEF RollBack, Running
<1>2. status'[t] = "rolled" /\ \A u \in Ids \ {t} : status'[u] = status[u]
  BY <1>1 DEF Basic, Types, ManagerTypes
<1>3. log \in Seq(Items) /\ \A u \in Ids : Ended(u)' <=> Ended(u)
  BY <1>1, <1>2 DEF Basic, Types, LogTypes, Ended
<1>4. Life'
  <2>1. \A u \in Ids : (status'[u] = "none" <=> status[u] = "none")
                       /\ (status'[u] = "begun" <=> status[u] = "begun")
    BY <1>1, <1>2
  <2>2. QED BY <1>1, <1>3, <2>1, LogSets DEF Inner, Life
<1>5. ASSUME NEW k \in Keys PROVE Held(k)'
  <2>1. Held(k) /\ holder[k] \in Ids \cup {Free}
    BY DEF Inner, Basic, Types, ManagerTypes
  <2>2. QED BY <1>1, <1>2, <2>1, IdsAreNot DEF Held
<1>6. Down' /\ Recovering'
  BY <1>1 DEF Down, Recovering
<1>7. QED BY <1>1, <1>4, <1>5, <1>6, LogUnread DEF Inner

LEMMA UnregisterInner ==
  ASSUME Basic, Inner, NEW t \in Ids, Unregister(t)
  PROVE  Inner'
<1>1. /\ status[t] = "ended" /\ proc = "up" /\ status' = [status EXCEPT ![t] = "gone"]
      /\ holder' = [k \in Keys |-> IF holder[k] = t THEN Free ELSE holder[k]]
      /\ UNCHANGED <<log, file, lsn, txnid, write, snapshot, proc, store, history>>
  BY DEF Unregister
<1>2. /\ status'[t] = "gone" /\ \A u \in Ids \ {t} : status'[u] = status[u]
      /\ \A k \in Keys : holder'[k] = IF holder[k] = t THEN Free ELSE holder[k]
  BY <1>1 DEF Basic, Types, ManagerTypes
<1>3. log \in Seq(Items) /\ \A u \in Ids : Ended(u)' <=> Ended(u)
  BY <1>1, <1>2 DEF Basic, Types, LogTypes, Ended
<1>4. Life'
  <2>1. /\ Ended(t)
        /\ \A u \in Ids : (status'[u] = "none" <=> status[u] = "none")
                          /\ (status'[u] = "begun" <=> status[u] = "begun")
    BY <1>1, <1>2 DEF Ended
  <2>2. QED BY <1>1, <1>2, <1>3, <2>1, LogSets DEF Inner, Life
<1>5. ASSUME NEW k \in Keys PROVE Held(k)'
  <2>1. Held(k) /\ holder[k] \in Ids \cup {Free}
    BY DEF Inner, Basic, Types, ManagerTypes
  <2>2. QED BY <1>1, <1>2, <2>1, IdsAreNot DEF Held
<1>6. Down' /\ Recovering'
  BY <1>1 DEF Down, Recovering
<1>7. QED BY <1>1, <1>4, <1>5, <1>6, LogUnread DEF Inner

LEMMA ReadActiveInner == ASSUME Inner, ReadActive PROVE Inner'
BY LogUnread DEF ReadActive, Inner, Life, Ended, Held, Down, Recovering

-----------------------------------------------------------------------------
(* The steps that write a record x, at n.                                  *)

\* What a record that is no write leaves of the writes on a key.
Unwritten(g, h) ==
  /\ Writes(h) = Writes(g) /\ \A k : On(h, k) = On(g, k)
  /\ \A i \in Writes(g) : h[i] = g[i]

LEMMA NoWrite ==
  ASSUME NEW g \in Seq(Items), NEW x \in Items, x.rec.kind # "WRITE"
  PROVE  Unwritten(g, Append(g, x))
<1> DEFINE h == Append(g, x)
<1>1. \A i \in Writes(g) : i \in DOMAIN g
  BY DEF Writes
<1> DEFINE n == Len(g) + 1
<1>2. n = Len(g) + 1
  OBVIOUS
<1> HIDE DEF n
<1>3. /\ \A i \in DOMAIN g : h[i] = g[i]
      /\ Writes(h) = Writes(g) \cup (IF x.rec.kind = "WRITE" THEN {n} ELSE {})
      /\ \A k : On(h, k) = On(g, k) \cup (IF x.rec.kind = "WRITE" /\ x.rec.key = k
                                          THEN {n} ELSE {})
  BY <1>2, Sets DEF Grown
<1>4. Writes(h) = Writes(g) /\ \A k : On(h, k) = On(g, k)
  BY <1>3
<1>5. QED BY <1>1, <1>3, <1>4 DEF Unwritten

LEMMA BeginInner ==
  ASSUME Basic, Inner, Begin, ~reused'
  PROVE  Inner'
<1> DEFINE t == txnid + 1
           x == [lsn |-> lsn + 1, rec |-> Mark("BEGIN", t)]
<1>1. /\ txnid \in Nat /\ begins \in Nat /\ txnid <= begins /\ begins < MaxTxns /\ MaxTxns \in Nat
      /\ txnid' = t /\ proc = "up" /\ status' = [status EXCEPT ![t] = "begun"]
      /\ WriteRecord(Mark("BEGIN", t)) /\ \A i \in DOMAIN log : log[i].rec.txn # t
      /\ UNCHANGED <<active, write, holder, snapshot, proc, store, truth>>
  BY WALAssumption DEF WALAssumption, Begin, Basic, Types, LogTypes, CountTypes
<1>2. t \in Ids
  BY <1>1 DEF Ids
<1>3. status'[t] = "begun" /\ status[t] = "none" /\ \A u \in Ids \ {t} : status'[u] = status[u]
  BY <1>1, <1>2 DEF Basic, Types, ManagerTypes, Idle
<1> HIDE DEF t
<1>4. /\ log \in Seq(Items) /\ x \in Items /\ log' = Append(log, x) /\ lsn' = lsn + 1
      /\ lsn \in Nat
  BY <1>1, <1>2, Recorded, Written DEF Basic, Types, LogTypes
<1>5. x.rec.kind = "BEGIN" /\ x.rec.txn = t
  BY DEF Mark
<1> HIDE DEF x
<1>6. /\ Writes(log') = Writes(log) /\ \A k : On(log', k) = On(log, k)
      /\ \A i \in Writes(log) : log'[i] = log[i]
  BY <1>4, <1>5, NoWrite DEF Unwritten
<1>7. /\ \A u : Commits(log', u) = Commits(log, u) /\ Ends(log', u) = Ends(log, u)
                /\ Lists(log', u) = Lists(log, u)
      /\ \A u : u # t => Begins(log', u) = Begins(log, u)
      /\ Begins(log', t) # {} /\ Begins(log, t) \subseteq Begins(log', t)
  <2> DEFINE n == Len(log) + 1
  <2>1. n = Len(log) + 1
    OBVIOUS
  <2> HIDE DEF n
  <2>2. \A u : /\ Begins(log', u) = Begins(log, u) \cup
                     (IF x.rec.kind = "BEGIN" /\ x.rec.txn = u THEN {n} ELSE {})
                /\ Commits(log', u) = Commits(log, u) \cup
                     (IF x.rec.kind = "COMMIT" /\ x.rec.txn = u THEN {n} ELSE {})
                /\ Ends(log', u) = Ends(log, u) \cup
                     (IF x.rec.kind \in {"COMMIT", "ABORT"} /\ x.rec.txn = u THEN {n} ELSE {})
                /\ Lists(log', u) = Lists(log, u) \cup
                     (IF x.rec.kind = "CHECKPOINT" /\ u \in x.rec.list THEN {n} ELSE {})
    BY <1>4, <2>1, Sets DEF Grown
  <2>3. QED BY <1>5, <2>2
<1>8. Ends(log, t) = {}
  BY <1>1 DEF Ends
<1>9. ASSUME txnid = 0 PROVE Life'
  <2>1. t = 1
    BY <1>9 DEF t
  <2>2. \A i \in DOMAIN log : log[i].rec.txn = 0
    BY <1>1, <2>1 DEF Basic, FirstIsOne
  <2>3. Writes(log) = {} /\ \A u \in Ids : Ends(log, u) = {}
    <3>1. \A i \in Writes(log) : log[i].rec.txn \in Ids /\ i \in DOMAIN log
      BY <1>4, LogSets
    <3>2. QED BY <2>2, <3>1, IdsAreNot DEF Ends
  <2>4. \A u \in Ids \ {t} : status'[u] = "none"
    <3>1. \A u \in Ids : u \in Nat /\ u # 0 /\ (status[u] # "none" => u <= 0)
      BY <1>9, IdsAreNot DEF Basic, Idle
    <3>2. QED BY <1>3, <3>1
  <2>5. \A u \in Ids : ~Ended(u)'
    BY <1>3, <2>4 DEF Ended
  <2>6. Life'
    BY <1>3, <1>6, <1>7, <2>3, <2>4, <2>5 DEF Life
  <2>7. QED BY <2>6
<1>10. ASSUME txnid > 0 PROVE Life'
  <2>1. \A u \in Ids : Ended(u)' <=> Ended(u)
    BY <1>3 DEF Ended
  <2>2. \A i \in Writes(log) : log[i].rec.txn \in Ids \ {t} /\ log[i].lsn \in Nat
    BY <1>1, <1>4, LogSets
  <2>3. \A u \in Ids : (Ended(u)' <=> Ends(log', u) # {})
                       /\ (status'[u] # "none" => Begins(log', u) # {})
    BY <1>3, <1>7, <1>10, <2>1 DEF Inner, Life
  <2>4. ASSUME NEW i \in Writes(log')
        PROVE  (/\ status[log[i].rec.txn] \notin {"none", "begun"}
                /\ ~Ended(log[i].rec.txn) => holder[log[i].rec.key] = log[i].rec.txn
                /\ log[i].lsn <= lsn)'
    <3>1. i \in Writes(log) /\ log'[i] = log[i]
      BY <1>6
    <3>2. /\ status[log[i].rec.txn] \notin {"none", "begun"} /\ log[i].lsn <= lsn
          /\ ~Ended(log[i].rec.txn) => holder[log[i].rec.key] = log[i].rec.txn
      BY <1>10, <3>1 DEF Inner, Life
    <3>3. log[i].rec.txn \in Ids /\ log[i].rec.txn # t /\ log[i].lsn \in Nat
      BY <2>2, <3>1
    <3>4. QED BY <1>1, <1>3, <1>4, <3>1, <3>2, <3>3 DEF Ended
  <2>5. QED BY <2>3, <2>4 DEF Life
<1>11. Life'
  BY <1>1, <1>9, <1>10
<1>12. Orders(log')
  <2>1. \A u \in Ids : u # t => Begins(log', u) = Begins(log, u)
    BY <1>7
  <2>2. \A i, j \in Writes(log') : i < j => log'[i].lsn < log'[j].lsn
    BY <1>6 DEF Inner, Orders
  <2>3. \A i \in Writes(log') : Begins(log', log'[i].rec.txn) # {}
    BY <1>6, <1>7 DEF Inner, Orders
  <2>4. \A u \in Ids : \A i \in Lists(log', u) \cup Begins(log', u), j \in Ends(log', u) : i < j
    BY <1>7, <1>8 DEF Inner, Orders
  <2>5. QED BY <2>2, <2>3, <2>4 DEF Orders
<1>13. InLog'
  <2>1. ASSUME NEW k
        PROVE  LostOn(log', k) = LostOn(log, k) /\ WonOn(log', k) = WonOn(log, k)
    <3>1. On(log', k) = On(log, k) /\ \A i \in On(log, k) : log'[i] = log[i]
      BY <1>4, <1>6, LogSets
    <3>2. QED BY <1>7, <3>1 DEF LostOn, WonOn
  <2>2. \A k : \A i \in LostOn(log, k) \cup WonOn(log, k) : log'[i] = log[i]
    BY <1>4, <1>6, LogSets
  <2>3. QED BY <1>1, <2>1, <2>2 DEF Inner, InLog, Olds, News
<1>14. ASSUME NEW k \in Keys PROVE Held(k)'
  <2>1. Held(k) /\ holder[k] \in Ids \cup {Free}
    BY DEF Inner, Basic, Types, ManagerTypes
  <2>2. holder[k] # Free => holder[k] # t /\ status'[holder[k]] = status[holder[k]]
    BY <1>3, <2>1 DEF Basic, Idle
  <2>3. \A i \in On(log, k) : log'[i] = log[i]
    BY <1>4, <1>6, LogSets
  <2>4. On(log', k) = On(log, k)
    BY <1>6
  <2>5. CASE holder[k] # Free /\ status[holder[k]] = "running"
    <3>1. PICK i \in On(log, k) :
            /\ log[i].rec.txn = holder[k] /\ \A j \in On(log, k) : j <= i
            /\ \/ <<k, log[i].rec.new>> \in write[holder[k]]
               \/ (\A w \in write[holder[k]] : w[1] # k) /\ store[k] = log[i].rec.new
      BY <2>1, <2>5 DEF Held
    <3>2. holder'[k] # Free /\ status'[holder'[k]] = "running"
      BY <1>1, <2>2, <2>5
    <3>3. i \in On(log', k) /\ log'[i] = log[i]
      BY <2>3, <2>4
    <3>4. QED BY <1>1, <2>4, <3>1, <3>2, <3>3 DEF Held
  <2>6. CASE ~(holder[k] # Free /\ status[holder[k]] = "running")
    BY <1>1, <2>1, <2>2, <2>6 DEF Held
  <2>7. QED BY <2>5, <2>6
<1>15. Down' /\ Recovering'
  BY <1>1 DEF Down, Recovering
<1>16. QED BY <1>11, <1>12, <1>13, <1>14, <1>15 DEF Inner

LEMMA LogWriteInner ==
  ASSUME Basic, Inner, NEW t \in Ids, NEW k \in Keys, NEW v \in Vals, LogWrite(t, k, v)
  PROVE  Inner'
<1> DEFINE x == [lsn |-> lsn + 1, rec |-> Change(t, k, store[k], v)]
           n == Len(log) + 1
<1>1. /\ proc = "up" /\ status[t] = "running" /\ write[t] = {} /\ holder[k] \in {Free, t}
      /\ holder' = [holder EXCEPT ![k] = t] /\ write' = [write EXCEPT ![t] = {<<k, v>>}]
      /\ WriteRecord(Change(t, k, store[k], v))
      /\ UNCHANGED <<txnid, active, status, snapshot, proc, store, history>>
  BY DEF LogWrite, Running
<1>2. /\ store[k] \in Vals /\ txnid > 0 /\ t # Free
  BY <1>1, IdsAreNot DEF Basic, Types, StoreTypes, Idle, LogTypes, Ids
<1>3. /\ log \in Seq(Items) /\ x \in Items /\ log' = Append(log, x) /\ lsn' = lsn + 1
      /\ lsn \in Nat
  BY <1>1, <1>2, Recorded, Written DEF Basic, Types, LogTypes
<1>4. /\ x.lsn = lsn + 1 /\ x.rec.kind = "WRITE" /\ x.rec.txn = t /\ x.rec.key = k
      /\ x.rec.old = store[k] /\ x.rec.new = v
  BY DEF Change
<1> HIDE DEF x, n
<1>5. /\ n \in Nat /\ \A i \in DOMAIN log : log'[i] = log[i] /\ i < n /\ i \in Nat
      /\ log'[n] = x /\ n \notin DOMAIN log
      /\ Writes(log') = Writes(log) \cup {n} /\ On(log', k) = On(log, k) \cup {n}
      /\ \A j : j # k => On(log', j) = On(log, j)
      /\ \A u : /\ Begins(log', u) = Begins(log, u) /\ Commits(log', u) = Commits(log, u)
                /\ Ends(log', u) = Ends(log, u) /\ Lists(log', u) = Lists(log, u)
  <2>1. n = Len(log) + 1
    BY DEF n
  <2>2. /\ n \in Nat /\ \A i \in DOMAIN log : log'[i] = log[i] /\ i < n /\ i \in Nat
        /\ log'[n] = x /\ n \notin DOMAIN log
        /\ Writes(log') = Writes(log) \cup (IF x.rec.kind = "WRITE" THEN {n} ELSE {})
        /\ \A j : On(log', j) = On(log, j) \cup (IF x.rec.kind = "WRITE" /\ x.rec.key = j
                                                THEN {n} ELSE {})
    BY <1>3, <2>1, Sets DEF Grown
  <2>3. \A u : /\ Begins(log', u) = Begins(log, u) \cup
                     (IF x.rec.kind = "BEGIN" /\ x.rec.txn = u THEN {n} ELSE {})
                /\ Commits(log', u) = Commits(log, u) \cup
                     (IF x.rec.kind = "COMMIT" /\ x.rec.txn = u THEN {n} ELSE {})
                /\ Ends(log', u) = Ends(log, u) \cup
                     (IF x.rec.kind \in {"COMMIT", "ABORT"} /\ x.rec.txn = u THEN {n} ELSE {})
                /\ Lists(log', u) = Lists(log, u) \cup
                     (IF x.rec.kind = "CHECKPOINT" /\ u \in x.rec.list THEN {n} ELSE {})
    BY <1>3, <2>1, Sets DEF Grown
  <2>4. \A u : /\ Begins(log', u) = Begins(log, u) /\ Commits(log', u) = Commits(log, u)
                /\ Ends(log', u) = Ends(log, u) /\ Lists(log', u) = Lists(log, u)
    BY <1>4, <2>3
  <2>5. QED BY <1>4, <2>2, <2>4
<1>6. /\ \A i \in Writes(log) : /\ i \in DOMAIN log /\ log'[i] = log[i] /\ i < n /\ i \in Nat
                                /\ log[i].lsn \in Nat /\ log[i].rec.txn \in Ids
                                /\ log[i].rec.key \in Keys /\ i # n
      /\ \A j : On(log, j) \subseteq Writes(log) /\ LostOn(log, j) \subseteq On(log, j)
                /\ WonOn(log, j) \subseteq On(log, j)
      /\ \A j : \A i \in On(log, j) : log[i].rec.key = j
      /\ \A u : Commits(log, u) \subseteq Ends(log, u)
  BY <1>3, <1>5, LogSets
<1>7. Ends(log, t) = {} /\ Commits(log, t) = {} /\ Begins(log, t) # {} /\ ~Ended(t)
  <2>1. ~Ended(t)
    BY <1>1 DEF Ended
  <2>2. QED BY <1>1, <1>2, <1>6, <2>1 DEF Inner, Life
<1>8. /\ holder'[k] = t /\ \A j \in Keys \ {k} : holder'[j] = holder[j]
      /\ write'[t] = {<<k, v>>} /\ \A u \in Ids \ {t} : write'[u] = write[u]
  BY <1>1 DEF Basic, Types, ManagerTypes
\* A transaction without an end has the keys it wrote.
<1>9. \A i \in Writes(log) : Ends(log, log[i].rec.txn) = {} =>
        holder[log[i].rec.key] = log[i].rec.txn
  BY <1>2, <1>6 DEF Inner, Life
<1>10. Life'
  <2>1. \A u \in Ids : Ended(u)' <=> Ended(u)
    BY <1>1 DEF Ended
  <2>2. \A u \in Ids : (Ended(u)' <=> Ends(log', u) # {})
                       /\ (status'[u] # "none" => Begins(log', u) # {})
    BY <1>1, <1>2, <1>5, <2>1 DEF Inner, Life
  <2>3. ASSUME NEW i \in Writes(log')
        PROVE  (/\ status[log[i].rec.txn] \notin {"none", "begun"}
                /\ ~Ended(log[i].rec.txn) => holder[log[i].rec.key] = log[i].rec.txn
                /\ log[i].lsn <= lsn)'
    <3>1. CASE i = n
      <4>1. log'[i].rec.txn = t /\ log'[i].rec.key = k /\ log'[i].lsn = lsn + 1
        BY <1>4, <1>5, <3>1
      <4>2. QED BY <1>1, <1>3, <1>8, <4>1
    <3>2. CASE i # n
      <4>1. i \in Writes(log) /\ log'[i] = log[i]
        BY <1>5, <1>6, <3>2
      <4>2. /\ status[log[i].rec.txn] \notin {"none", "begun"} /\ log[i].lsn <= lsn
            /\ ~Ended(log[i].rec.txn) => holder[log[i].rec.key] = log[i].rec.txn
        BY <1>2, <4>1 DEF Inner, Life
      <4>3. ~Ended(log[i].rec.txn) => holder'[log[i].rec.key] = log[i].rec.txn
        BY <1>1, <1>6, <1>8, <4>1, <4>2, IdsAreNot
      <4>4. Ended(log[i].rec.txn)' <=> Ended(log[i].rec.txn)
        BY <1>1, <4>1 DEF Ended
      <4>5. log[i].lsn <= lsn + 1
        BY <1>3, <1>6, <4>1, <4>2
      <4>6. QED BY <1>1, <1>3, <4>1, <4>2, <4>3, <4>4, <4>5
    <3>3. QED BY <3>1, <3>2
  <2>4. QED BY <2>2, <2>3 DEF Life
<1>11. Orders(log')
  <2>1. \A i, j \in Writes(log') : i < j => log'[i].lsn < log'[j].lsn
    <3>1. \A i \in Writes(log) : log[i].lsn < lsn + 1
      BY <1>2, <1>3, <1>6 DEF Inner, Life
    <3>2. \A i, j \in Writes(log) : i < j => log[i].lsn < log[j].lsn
      BY DEF Inner, Orders
    <3>3. ASSUME NEW i \in Writes(log'), NEW j \in Writes(log'), i < j
          PROVE  log'[i].lsn < log'[j].lsn
      <4>1. i \in Writes(log)
        BY <1>5, <1>6, <3>3
      <4>2. CASE j = n
        <5>1. log'[j].lsn = lsn + 1 /\ log'[i] = log[i]
          BY <1>4, <1>5, <1>6, <4>1, <4>2
        <5>2. QED BY <3>1, <4>1, <5>1
      <4>3. CASE j # n
        BY <1>5, <1>6, <3>2, <3>3, <4>1, <4>3
      <4>4. QED BY <4>2, <4>3
    <3>4. QED BY <3>3
  <2>2. \A i \in Writes(log') : Begins(log', log'[i].rec.txn) # {}
    BY <1>4, <1>5, <1>6, <1>7 DEF Inner, Orders
  <2>3. QED BY <1>5, <2>1, <2>2 DEF Inner, Orders
<1>12. /\ \A j : WonOn(log', j) = WonOn(log, j)
       /\ LostOn(log', k) = LostOn(log, k) \cup {n}
       /\ \A j : j # k => LostOn(log', j) = LostOn(log, j)
  <2>1. \A j : \A i \in On(log, j) : log'[i] = log[i]
    BY <1>6
  <2>2. log'[n].rec.txn = t
    BY <1>4, <1>5
  <2>3. ASSUME NEW j PROVE WonOn(log', j) = WonOn(log, j)
    <3>1. On(log', j) \subseteq On(log, j) \cup {n} /\ On(log, j) \subseteq On(log', j)
      BY <1>5
    <3>2. QED BY <1>5, <1>7, <2>1, <2>2, <3>1 DEF WonOn
  <2>4. LostOn(log', k) = LostOn(log, k) \cup {n}
    BY <1>5, <1>7, <2>1, <2>2 DEF LostOn
  <2>5. \A j : j # k => LostOn(log', j) = LostOn(log, j)
    BY <1>5, <2>1 DEF LostOn
  <2>6. QED BY <2>3, <2>4, <2>5
<1>13. InLog'
  <2>1. ASSUME NEW j \in Keys PROVE News(log', truth', j)
    BY <1>1, <1>6, <1>12 DEF Inner, InLog, News
  <2>2. ASSUME NEW j \in Keys, j # k PROVE Olds(log', truth', j)
    <3>1. LostOn(log', j) = LostOn(log, j) /\ \A i \in LostOn(log, j) : log'[i] = log[i]
      BY <1>6, <1>12, <2>2
    <3>2. Olds(log, truth, j)
      BY DEF Inner, InLog
    <3>3. QED BY <1>1, <3>1, <3>2 DEF Olds
  <2>3. Olds(log', truth', k)
    <3>1. \A i \in LostOn(log, k) : log[i].rec.txn = t /\ holder[k] = t
      <4>1. \A i \in LostOn(log, k) : /\ i \in Writes(log) /\ log[i].rec.key = k
                                      /\ Ends(log, log[i].rec.txn) = {}
        BY <1>6 DEF LostOn
      <4>2. \A i \in LostOn(log, k) : holder[k] = log[i].rec.txn /\ log[i].rec.txn \in Ids
        BY <1>6, <1>9, <4>1
      <4>3. QED BY <1>1, <4>2, IdsAreNot
    <3>2. \A i \in LostOn(log', k) : log'[i].rec.txn = t
      BY <1>4, <1>5, <1>6, <1>12, <3>1
    <3>3. LostOn(log, k) = {} => store[k] = truth[k]
      <4>1. Held(k)
        BY DEF Inner
      <4>2. CASE holder[k] = Free
        BY <1>1, <4>1, <4>2 DEF Held
      <4>3. CASE holder[k] = t
        <5>1. PICK i \in On(log, k) : log[i].rec.txn = t
          BY <1>1, <1>2, <4>1, <4>3 DEF Held
        <5>2. i \in LostOn(log, k)
          BY <1>7, <5>1 DEF LostOn
        <5>3. QED BY <5>2
      <4>4. QED BY <1>1, <4>2, <4>3
    <3>4. ASSUME NEW i \in LostOn(log', k), \A j \in LostOn(log', k) : i <= j
          PROVE  log'[i].rec.old = truth[k]
      <4>1. CASE i = n
        <5>1. LostOn(log, k) = {}
          BY <1>5, <1>6, <1>12, <3>4, <4>1
        <5>2. QED BY <1>4, <1>5, <3>3, <4>1, <5>1
      <4>2. CASE i # n
        <5>1. i \in LostOn(log, k) /\ log'[i] = log[i] /\ \A j \in LostOn(log, k) : i <= j
          BY <1>6, <1>12, <3>4, <4>2
        <5>2. Olds(log, truth, k)
          BY DEF Inner, InLog
        <5>3. QED BY <5>1, <5>2 DEF Olds
      <4>3. QED BY <4>1, <4>2
    <3>5. QED BY <1>1, <3>2, <3>4 DEF Olds
  <2>4. QED BY <2>1, <2>2, <2>3 DEF InLog
<1>14. ASSUME NEW j \in Keys PROVE Held(j)'
  <2>1. CASE j = k
    <3>1. /\ n \in On(log', k) /\ log'[n].rec.txn = t /\ log'[n].rec.new = v
          /\ \A i \in On(log', k) : i <= n
      BY <1>4, <1>5, <1>6
    <3>2. <<k, log'[n].rec.new>> \in write'[holder'[k]] /\ holder'[k] = t
      BY <1>8, <3>1
    <3>3. QED BY <1>1, <1>2, <2>1, <3>1, <3>2 DEF Held
  <2>2. CASE j # k
    <3>1. /\ Held(j) /\ holder'[j] = holder[j] /\ holder[j] \in Ids \cup {Free}
          /\ On(log', j) = On(log, j) /\ \A i \in On(log, j) : log'[i] = log[i]
      BY <1>5, <1>6, <1>8, <2>2 DEF Inner, Basic, Types, ManagerTypes
    <3>2. CASE holder[j] # t
      <4>1. CASE holder[j] # Free /\ status[holder[j]] = "running"
        <5>1. PICK i \in On(log, j) :
                /\ log[i].rec.txn = holder[j] /\ \A m \in On(log, j) : m <= i
                /\ \/ <<j, log[i].rec.new>> \in write[holder[j]]
                   \/ (\A w \in write[holder[j]] : w[1] # j) /\ store[j] = log[i].rec.new
          BY <3>1, <4>1 DEF Held
        <5>2. write'[holder[j]] = write[holder[j]] /\ status' = status /\ store' = store
          BY <1>1, <1>8, <3>1, <3>2, <4>1
        <5>3. QED BY <3>1, <4>1, <5>1, <5>2 DEF Held
      <4>2. CASE ~(holder[j] # Free /\ status[holder[j]] = "running")
        BY <1>1, <3>1, <4>2 DEF Held
      <4>3. QED BY <4>1, <4>2
    <3>3. CASE holder[j] = t
      <4>1. PICK i \in On(log, j) :
              /\ log[i].rec.txn = t /\ \A m \in On(log, j) : m <= i
              /\ store[j] = log[i].rec.new
        BY <1>1, <1>2, <3>1, <3>3 DEF Held
      <4>2. \A w \in write'[t] : w[1] # j
        BY <1>8, <2>2
      <4>3. QED BY <1>1, <1>2, <3>1, <3>3, <4>1, <4>2 DEF Held
    <3>4. QED BY <3>2, <3>3
  <2>3. QED BY <2>1, <2>2
<1>15. Down' /\ Recovering'
  BY <1>1 DEF Down, Recovering
<1>16. QED BY <1>10, <1>11, <1>13, <1>14, <1>15 DEF Inner

\* What the end of t makes of the log, when t has not ended.
AfterEnd(kind, t) ==
  /\ Life' /\ Orders(log')
  /\ \A k : On(log', k) = On(log, k) /\ \A i \in On(log, k) : log'[i] = log[i]
  /\ \A k : LostOn(log', k) = {i \in LostOn(log, k) : log[i].rec.txn # t}
  /\ \A k : WonOn(log', k) =
       {i \in On(log, k) : i \in WonOn(log, k) \/ (kind = "COMMIT" /\ log[i].rec.txn = t)}
  /\ \A k : \A i \in LostOn(log, k) : holder[k] = log[i].rec.txn
  /\ \A k : \A i \in On(log, k) : log[i].rec.txn = t /\ ~Ended(t) => holder[k] = t

LEMMA EndLogged ==
  ASSUME Basic, Inner, NEW t \in Ids, NEW kind \in {"COMMIT", "ABORT"},
         WriteRecord(Mark(kind, t)), proc = "up", ~Ended(t), status[t] # "none",
         status' = [status EXCEPT ![t] = "ended"], UNCHANGED <<txnid, holder>>
  PROVE  AfterEnd(kind, t)
<1> DEFINE x == [lsn |-> lsn + 1, rec |-> Mark(kind, t)]
           n == Len(log) + 1
<1>1. /\ log \in Seq(Items) /\ x \in Items /\ log' = Append(log, x) /\ lsn' = lsn + 1
      /\ lsn \in Nat
  BY Recorded, Written DEF Basic, Types, LogTypes
<1>2. x.rec.kind = kind /\ x.rec.txn = t
  BY DEF Mark
<1>3. Grown(log, x, log', n)
  BY <1>1, Sets
<1> HIDE DEF x, n
<1>4. /\ Writes(log') = Writes(log) /\ \A k : On(log', k) = On(log, k)
      /\ \A i \in Writes(log) : log'[i] = log[i]
  <2>1. x.rec.kind # "WRITE"
    BY <1>2
  <2>2. QED BY <1>1, <2>1, NoWrite DEF Unwritten
<1>5. /\ \A u : Begins(log', u) = Begins(log, u) /\ Lists(log', u) = Lists(log, u)
      /\ \A u : u # t => Ends(log', u) = Ends(log, u) /\ Commits(log', u) = Commits(log, u)
      /\ Ends(log', t) = Ends(log, t) \cup {n}
      /\ Commits(log', t) = Commits(log, t) \cup (IF kind = "COMMIT" THEN {n} ELSE {})
  <2>1. \A u : /\ Begins(log', u) = Begins(log, u) \cup
                     (IF x.rec.kind = "BEGIN" /\ x.rec.txn = u THEN {n} ELSE {})
                /\ Commits(log', u) = Commits(log, u) \cup
                     (IF x.rec.kind = "COMMIT" /\ x.rec.txn = u THEN {n} ELSE {})
                /\ Ends(log', u) = Ends(log, u) \cup
                     (IF x.rec.kind \in {"COMMIT", "ABORT"} /\ x.rec.txn = u THEN {n} ELSE {})
                /\ Lists(log', u) = Lists(log, u) \cup
                     (IF x.rec.kind = "CHECKPOINT" /\ u \in x.rec.list THEN {n} ELSE {})
    BY <1>3 DEF Grown
  <2>2. kind # "BEGIN" /\ kind # "CHECKPOINT"
    OBVIOUS
  <2>3. \A u : Begins(log', u) = Begins(log, u) /\ Lists(log', u) = Lists(log, u)
    BY <1>2, <2>1, <2>2
  <2>4. \A u : u # t => Ends(log', u) = Ends(log, u) /\ Commits(log', u) = Commits(log, u)
    BY <1>2, <2>1
  <2>5. Ends(log', t) = Ends(log, t) \cup {n}
    BY <1>2, <2>1
  <2>6. Commits(log', t) = Commits(log, t) \cup (IF kind = "COMMIT" THEN {n} ELSE {})
    BY <1>2, <2>1
  <2>7. QED BY <2>3, <2>4, <2>5, <2>6
<1>6. /\ \A i \in DOMAIN log : i < n
      /\ \A u : Begins(log, u) \cup Lists(log, u) \subseteq DOMAIN log
  BY <1>3 DEF Grown, Begins, Lists
<1>7. txnid > 0
  BY DEF Basic, Idle, Types, LogTypes, Ids
<1>8. status'[t] = "ended" /\ \A u \in Ids \ {t} : status'[u] = status[u]
  BY DEF Basic, Types, ManagerTypes
<1>9. \A k : On(log, k) \subseteq Writes(log) /\ LostOn(log, k) \subseteq On(log, k)
             /\ \A i \in On(log, k) : log[i].rec.key = k /\ log[i].rec.txn \in Ids
  BY <1>1, LogSets
<1>10. Life'
  <2>1. \A u \in Ids : (Ended(u)' <=> Ended(u) \/ u = t)
    BY <1>8 DEF Ended
  <2>2. \A u \in Ids : (Ended(u)' <=> Ends(log', u) # {})
    BY <1>5, <1>7, <2>1 DEF Inner, Life
  <2>3. \A u \in Ids : status'[u] # "none" => Begins(log', u) # {}
    BY <1>5, <1>7, <1>8 DEF Inner, Life
  <2>4. ASSUME NEW i \in Writes(log')
        PROVE  (/\ status[log[i].rec.txn] \notin {"none", "begun"}
                /\ ~Ended(log[i].rec.txn) => holder[log[i].rec.key] = log[i].rec.txn
                /\ log[i].lsn <= lsn)'
    <3>1. i \in Writes(log) /\ log'[i] = log[i]
      BY <1>4
    <3>2. /\ status[log[i].rec.txn] \notin {"none", "begun"} /\ log[i].lsn <= lsn
          /\ ~Ended(log[i].rec.txn) => holder[log[i].rec.key] = log[i].rec.txn
      BY <1>7, <3>1 DEF Inner, Life
    <3>3. log[i].rec.txn \in Ids /\ log[i].lsn \in Nat
      BY <1>1, <3>1, LogSets
    <3>4. /\ status'[log[i].rec.txn] \notin {"none", "begun"}
          /\ ~Ended(log[i].rec.txn)' => ~Ended(log[i].rec.txn)
      <4>1. log'[i].rec.txn = log[i].rec.txn
        BY <3>1
      <4>2. CASE log[i].rec.txn = t
        BY <1>8, <4>1, <4>2 DEF Ended
      <4>3. CASE log[i].rec.txn # t
        BY <1>8, <3>2, <3>3, <4>1, <4>3 DEF Ended
      <4>4. QED BY <4>2, <4>3
    <3>5. QED BY <1>1, <3>1, <3>2, <3>3, <3>4
  <2>5. QED BY <2>2, <2>3, <2>4 DEF Life
<1>11. Orders(log')
  <2>1. \A u \in Ids : \A i \in Lists(log', u) \cup Begins(log', u), j \in Ends(log', u) : i < j
    BY <1>5, <1>6 DEF Inner, Orders
  <2>2. \A i, j \in Writes(log') : i < j => log'[i].lsn < log'[j].lsn
    BY <1>4 DEF Inner, Orders
  <2>3. \A i \in Writes(log') : Begins(log', log'[i].rec.txn) # {}
    BY <1>4, <1>5 DEF Inner, Orders
  <2>4. QED BY <2>1, <2>2, <2>3 DEF Orders
<1>12. \A k : On(log', k) = On(log, k) /\ \A i \in On(log, k) : log'[i] = log[i]
  BY <1>4, <1>9
<1>13. ASSUME NEW k
       PROVE  LostOn(log', k) = {i \in LostOn(log, k) : log[i].rec.txn # t}
  BY <1>5, <1>12 DEF LostOn
<1>14. ASSUME NEW k
       PROVE  WonOn(log', k) =
              {i \in On(log, k) : i \in WonOn(log, k) \/ (kind = "COMMIT" /\ log[i].rec.txn = t)}
  BY <1>5, <1>12 DEF WonOn
<1>15. ASSUME NEW k, NEW i \in On(log, k)
       PROVE  ~Ended(log[i].rec.txn) => holder[k] = log[i].rec.txn
  BY <1>7, <1>9 DEF Inner, Life
<1>16. ASSUME NEW k, NEW i \in LostOn(log, k) PROVE holder[k] = log[i].rec.txn
  <2>1. i \in On(log, k) /\ Ends(log, log[i].rec.txn) = {} /\ log[i].rec.txn \in Ids
    BY <1>9 DEF LostOn
  <2>2. ~Ended(log[i].rec.txn)
    BY <1>7, <2>1 DEF Inner, Life
  <2>3. QED BY <1>15, <2>1, <2>2
<1>17. QED BY <1>10, <1>11, <1>12, <1>13, <1>14, <1>15, <1>16 DEF AfterEnd

\* The first write that is lost on a key stays the first, when another transaction ends.
LEMMA OldsKept ==
  ASSUME NEW g, NEW h, NEW t, NEW k, NEW tr, NEW tr2, Olds(g, tr, k),
         LostOn(h, k) = {i \in LostOn(g, k) : g[i].rec.txn # t},
         \A i \in LostOn(g, k) : h[i] = g[i],
         LostOn(h, k) # {} => tr2[k] = tr[k]
  PROVE  Olds(h, tr2, k)
<1>1. \A i, j \in LostOn(h, k) : h[i].rec.txn = h[j].rec.txn
  BY DEF Olds
<1>2. ASSUME NEW i \in LostOn(h, k), \A j \in LostOn(h, k) : i <= j
      PROVE  h[i].rec.old = tr2[k]
  <2>1. i \in LostOn(g, k) /\ g[i].rec.txn # t /\ h[i] = g[i]
    OBVIOUS
  <2>2. \A j \in LostOn(g, k) : g[j].rec.txn # t
    BY <2>1 DEF Olds
  <2>3. \A j \in LostOn(g, k) : i <= j
    BY <1>2, <2>2
  <2>4. QED BY <2>1, <2>3 DEF Olds
<1>3. QED BY <1>1, <1>2 DEF Olds

LEMMA AbortInner ==
  ASSUME Basic, Inner, NEW t \in Ids, Abort(t)
  PROVE  Inner'
<1>1. /\ status[t] = "rolled" /\ proc = "up" /\ status' = [status EXCEPT ![t] = "ended"]
      /\ WriteRecord(Mark("ABORT", t))
      /\ UNCHANGED <<txnid, active, write, holder, snapshot, proc, store, history>>
  BY DEF Abort
<1>2. ~Ended(t)
  BY <1>1 DEF Ended
<1>3. /\ Life' /\ Orders(log')
      /\ \A k : On(log', k) = On(log, k) /\ \A i \in On(log, k) : log'[i] = log[i]
      /\ \A k : LostOn(log', k) = {i \in LostOn(log, k) : log[i].rec.txn # t}
      /\ \A k : WonOn(log', k) = {i \in On(log, k) : i \in WonOn(log, k)}
  <2>1. AfterEnd("ABORT", t)
    BY <1>1, <1>2, EndLogged
  <2>2. QED BY <2>1 DEF AfterEnd
<1>4. status'[t] = "ended" /\ \A u \in Ids \ {t} : status'[u] = status[u]
  BY <1>1 DEF Basic, Types, ManagerTypes
<1>5. /\ log \in Seq(Items)
      /\ \A k : LostOn(log, k) \subseteq On(log, k)
      /\ \A k : WonOn(log', k) = WonOn(log, k)
  BY <1>3 DEF Basic, Types, LogTypes, LostOn, WonOn
<1>6. ASSUME NEW k \in Keys PROVE Olds(log', truth', k) /\ News(log', truth', k)
  <2>1. Olds(log, truth, k) /\ News(log, truth, k)
    BY DEF Inner, InLog
  <2>2. Olds(log', truth', k)
    <3>1. /\ LostOn(log', k) = {i \in LostOn(log, k) : log[i].rec.txn # t}
          /\ \A i \in LostOn(log, k) : log'[i] = log[i]
          /\ LostOn(log', k) # {} => truth'[k] = truth[k]
      BY <1>1, <1>3, <1>5
    <3>2. QED BY <2>1, <3>1, OldsKept
  <2>3. \A i \in WonOn(log, k) : log'[i] = log[i]
    BY <1>3 DEF WonOn
  <2>4. QED BY <1>1, <1>5, <2>1, <2>2, <2>3 DEF News
<1>7. ASSUME NEW k \in Keys PROVE Held(k)'
  <2>1. Held(k) /\ holder[k] \in Ids \cup {Free} /\ On(log', k) = On(log, k)
        /\ \A i \in On(log, k) : log'[i] = log[i]
    BY <1>3 DEF Inner, Basic, Types, ManagerTypes
  <2>2. CASE holder[k] # Free /\ status[holder[k]] = "running"
    <3>1. PICK i \in On(log, k) :
            /\ log[i].rec.txn = holder[k] /\ \A j \in On(log, k) : j <= i
            /\ \/ <<k, log[i].rec.new>> \in write[holder[k]]
               \/ (\A w \in write[holder[k]] : w[1] # k) /\ store[k] = log[i].rec.new
      BY <2>1, <2>2 DEF Held
    <3>2. status'[holder[k]] = "running"
      BY <1>1, <1>4, <2>1, <2>2
    <3>3. QED BY <1>1, <2>1, <2>2, <3>1, <3>2 DEF Held
  <2>3. CASE ~(holder[k] # Free /\ status[holder[k]] = "running")
    <3>1. holder[k] # Free => status'[holder[k]] # "running"
      BY <1>4, <2>1, <2>3
    <3>2. QED BY <1>1, <2>1, <2>3, <3>1 DEF Held
  <2>4. QED BY <2>2, <2>3
<1>8. Down' /\ Recovering'
  BY <1>1 DEF Down, Recovering
<1>9. QED BY <1>3, <1>6, <1>7, <1>8 DEF Inner, InLog

LEMMA CommitInner ==
  ASSUME Basic, Inner, NEW t \in Ids, Commit(t)
  PROVE  Inner'
<1>1. /\ status[t] = "running" /\ proc = "up" /\ status' = [status EXCEPT ![t] = "ended"]
      /\ write[t] = {} /\ WriteRecord(Mark("COMMIT", t))
      /\ truth' = [k \in Keys |-> IF holder[k] = t THEN store[k] ELSE truth[k]]
      /\ UNCHANGED <<txnid, active, write, holder, snapshot, proc, store>>
  BY DEF Commit, Running
<1>2. ~Ended(t) /\ t # Free
  BY <1>1, IdsAreNot DEF Ended
<1>3. /\ Life' /\ Orders(log')
      /\ \A k : On(log', k) = On(log, k) /\ \A i \in On(log, k) : log'[i] = log[i]
      /\ \A k : LostOn(log', k) = {i \in LostOn(log, k) : log[i].rec.txn # t}
      /\ \A k : WonOn(log', k) =
           {i \in On(log, k) : i \in WonOn(log, k) \/ log[i].rec.txn = t}
      /\ \A k : \A i \in LostOn(log, k) : holder[k] = log[i].rec.txn
      /\ \A k : \A i \in On(log, k) : log[i].rec.txn = t => holder[k] = t
  <2>1. AfterEnd("COMMIT", t)
    BY <1>1, <1>2, EndLogged
  <2>2. QED BY <1>2, <2>1 DEF AfterEnd
<1>4. status'[t] = "ended" /\ \A u \in Ids \ {t} : status'[u] = status[u]
  BY <1>1 DEF Basic, Types, ManagerTypes
<1>5. \A k : LostOn(log, k) \subseteq On(log, k) /\ WonOn(log, k) \subseteq On(log, k)
             /\ On(log, k) \subseteq Nat
  BY LogSets DEF Basic, Types, LogTypes
<1>6. \A k \in Keys : truth'[k] = IF holder[k] = t THEN store[k] ELSE truth[k]
  BY <1>1
<1>7. ASSUME NEW k \in Keys PROVE Olds(log', truth', k)
  <2>1. Olds(log, truth, k)
    BY DEF Inner, InLog
  <2>2. LostOn(log', k) # {} => holder[k] # t
    BY <1>3
  <2>3. /\ LostOn(log', k) = {i \in LostOn(log, k) : log[i].rec.txn # t}
        /\ \A i \in LostOn(log, k) : log'[i] = log[i]
        /\ LostOn(log', k) # {} => truth'[k] = truth[k]
    BY <1>3, <1>5, <1>6, <2>2
  <2>4. QED BY <2>1, <2>3, OldsKept
<1>8. ASSUME NEW k \in Keys PROVE News(log', truth', k)
  <2>1. News(log, truth, k) /\ Held(k)
    BY DEF Inner, InLog
  <2>2. CASE holder[k] = t
    <3>1. PICK m \in On(log, k) :
            /\ log[m].rec.txn = t /\ \A j \in On(log, k) : j <= m
            /\ store[k] = log[m].rec.new
      BY <1>1, <1>2, <2>1, <2>2 DEF Held
    <3>2. m \in WonOn(log', k) /\ \A i \in WonOn(log', k) : i \in On(log, k) /\ i <= m
      BY <1>3, <3>1
    <3>3. ASSUME NEW i \in WonOn(log', k), \A j \in WonOn(log', k) : j <= i
          PROVE  log'[i].rec.new = truth'[k]
      <4>1. i = m
        BY <1>5, <3>2, <3>3
      <4>2. QED BY <1>3, <1>6, <2>2, <3>1, <4>1
    <3>4. QED BY <3>3 DEF News
  <2>3. CASE holder[k] # t
    <3>1. WonOn(log', k) = WonOn(log, k)
      <4>1. \A i \in On(log, k) : log[i].rec.txn # t
        BY <1>3, <2>3
      <4>2. WonOn(log', k) =
              {i \in On(log, k) : i \in WonOn(log, k) \/ log[i].rec.txn = t}
        BY <1>3
      <4>3. QED BY <1>5, <4>1, <4>2
    <3>2. \A i \in WonOn(log, k) : log'[i] = log[i]
      BY <1>3, <1>5
    <3>3. QED BY <1>6, <2>1, <2>3, <3>1, <3>2 DEF News
  <2>4. QED BY <2>2, <2>3
<1>9. ASSUME NEW k \in Keys PROVE Held(k)'
  <2>1. Held(k) /\ holder[k] \in Ids \cup {Free} /\ On(log', k) = On(log, k)
        /\ \A i \in On(log, k) : log'[i] = log[i]
    BY <1>3 DEF Inner, Basic, Types, ManagerTypes
  <2>2. CASE holder[k] = t
    BY <1>1, <1>2, <1>4, <1>6, <2>2 DEF Held
  <2>3. CASE holder[k] # t /\ holder[k] # Free /\ status[holder[k]] = "running"
    <3>1. PICK i \in On(log, k) :
            /\ log[i].rec.txn = holder[k] /\ \A j \in On(log, k) : j <= i
            /\ \/ <<k, log[i].rec.new>> \in write[holder[k]]
               \/ (\A w \in write[holder[k]] : w[1] # k) /\ store[k] = log[i].rec.new
      BY <2>1, <2>3 DEF Held
    <3>2. status'[holder[k]] = "running"
      BY <1>4, <2>1, <2>3
    <3>3. QED BY <1>1, <2>1, <2>3, <3>1, <3>2 DEF Held
  <2>4. CASE holder[k] # t /\ ~(holder[k] # Free /\ status[holder[k]] = "running")
    <3>1. holder[k] # Free => status'[holder[k]] # "running"
      BY <1>4, <2>1, <2>4
    <3>2. truth'[k] = truth[k] /\ store[k] = truth[k]
      BY <1>1, <1>6, <2>1, <2>4 DEF Held
    <3>3. QED BY <1>1, <3>1, <3>2 DEF Held
  <2>5. QED BY <2>2, <2>3, <2>4
<1>10. Down' /\ Recovering'
  BY <1>1 DEF Down, Recovering
<1>11. QED BY <1>3, <1>7, <1>8, <1>9, <1>10 DEF Inner, InLog

\* A checkpoint, when it lists no transaction that has ended.
LEMMA LogCheckpointInner ==
  ASSUME Basic, Inner, LogCheckpoint, ~stale'
  PROVE  Inner'
<1>1. PICK list \in snapshot : /\ WriteRecord(Checkpoint(list))
                               /\ stale' = (stale \/ \E t \in list : Ended(t))
  BY DEF LogCheckpoint
<1> DEFINE x == [lsn |-> lsn + 1, rec |-> Checkpoint(list)]
           n == Len(log) + 1
<1>2. /\ proc = "up" /\ \A t \in list : ~Ended(t)
      /\ UNCHANGED <<txnid, active, status, write, holder, proc, store, truth>>
  BY <1>1 DEF LogCheckpoint
<1>3. Checkpoint(list) \in Contents /\ list \subseteq 1 .. txnid
  BY Recorded DEF Basic, Types, ManagerTypes, Idle
<1>4. /\ log \in Seq(Items) /\ x \in Items /\ log' = Append(log, x) /\ lsn' = lsn + 1
      /\ lsn \in Nat /\ txnid \in Nat
  BY <1>1, <1>3, Written DEF Basic, Types, LogTypes
<1>5. x.rec.kind = "CHECKPOINT" /\ x.rec.list = list
  BY DEF Checkpoint
<1>6. Grown(log, x, log', n)
  BY <1>4, Sets
<1> HIDE DEF x, n
<1>7. /\ Writes(log') = Writes(log) /\ \A k : On(log', k) = On(log, k)
      /\ \A i \in Writes(log) : log'[i] = log[i]
  <2>1. x.rec.kind # "WRITE"
    BY <1>5
  <2>2. QED BY <1>4, <2>1, NoWrite DEF Unwritten
<1>8. /\ \A u : /\ Begins(log', u) = Begins(log, u) /\ Commits(log', u) = Commits(log, u)
                /\ Ends(log', u) = Ends(log, u)
      /\ \A u : Lists(log', u) = Lists(log, u) \cup (IF u \in list THEN {n} ELSE {})
  <2>1. \A u : /\ Begins(log', u) = Begins(log, u) \cup
                     (IF x.rec.kind = "BEGIN" /\ x.rec.txn = u THEN {n} ELSE {})
               /\ Commits(log', u) = Commits(log, u) \cup
                     (IF x.rec.kind = "COMMIT" /\ x.rec.txn = u THEN {n} ELSE {})
               /\ Ends(log', u) = Ends(log, u) \cup
                     (IF x.rec.kind \in {"COMMIT", "ABORT"} /\ x.rec.txn = u THEN {n} ELSE {})
               /\ Lists(log', u) = Lists(log, u) \cup
                     (IF x.rec.kind = "CHECKPOINT" /\ u \in x.rec.list THEN {n} ELSE {})
    BY <1>6 DEF Grown
  <2>2. \A u : /\ Begins(log', u) = Begins(log, u) /\ Commits(log', u) = Commits(log, u)
               /\ Ends(log', u) = Ends(log, u)
    BY <1>5, <2>1
  <2>3. \A u : Lists(log', u) = Lists(log, u) \cup (IF u \in list THEN {n} ELSE {})
    BY <1>5, <2>1
  <2>4. QED BY <2>2, <2>3
<1>9. ASSUME NEW u \in Ids, u \in list PROVE Ends(log, u) = {}
  <2>1. txnid > 0
    BY <1>3, <1>4, <1>9 DEF Ids
  <2>2. QED BY <1>2, <1>9, <2>1 DEF Inner, Life
<1>10. \A k : On(log, k) \subseteq Writes(log)
  BY DEF On
<1>11. Life'
  <2>1. \A u \in Ids : Ended(u)' <=> Ended(u)
    BY <1>2 DEF Ended
  <2>2. txnid > 0 => \A u \in Ids : (Ended(u)' <=> Ends(log', u) # {})
                                    /\ (status'[u] # "none" => Begins(log', u) # {})
    BY <1>2, <1>8, <2>1 DEF Inner, Life
  <2>3. ASSUME txnid > 0, NEW i \in Writes(log')
        PROVE  (/\ status[log[i].rec.txn] \notin {"none", "begun"}
                /\ ~Ended(log[i].rec.txn) => holder[log[i].rec.key] = log[i].rec.txn
                /\ log[i].lsn <= lsn)'
    <3>1. i \in Writes(log) /\ log'[i] = log[i]
      BY <1>7
    <3>2. /\ status[log[i].rec.txn] \notin {"none", "begun"} /\ log[i].lsn <= lsn
          /\ ~Ended(log[i].rec.txn) => holder[log[i].rec.key] = log[i].rec.txn
      BY <2>3, <3>1 DEF Inner, Life
    <3>3. log[i].lsn \in Nat
      BY <1>4, <3>1, LogSets
    <3>4. QED BY <1>2, <1>4, <3>1, <3>2, <3>3 DEF Ended
  <2>4. QED BY <1>2, <2>2, <2>3 DEF Life
<1>12. Orders(log')
  <2>1. \A u \in Ids : \A i \in Lists(log', u) \cup Begins(log', u), j \in Ends(log', u) : i < j
    BY <1>8, <1>9 DEF Inner, Orders
  <2>2. \A i, j \in Writes(log') : i < j => log'[i].lsn < log'[j].lsn
    BY <1>7 DEF Inner, Orders
  <2>3. \A i \in Writes(log') : Begins(log', log'[i].rec.txn) # {}
    BY <1>7, <1>8 DEF Inner, Orders
  <2>4. QED BY <2>1, <2>2, <2>3 DEF Orders
<1>13. InLog'
  <2>1. ASSUME NEW k
        PROVE  LostOn(log', k) = LostOn(log, k) /\ WonOn(log', k) = WonOn(log, k)
    BY <1>7, <1>8, <1>10 DEF LostOn, WonOn
  <2>2. \A k : \A i \in LostOn(log, k) \cup WonOn(log, k) : log'[i] = log[i]
    BY <1>4, <1>7, LogSets
  <2>3. QED BY <1>2, <2>1, <2>2 DEF Inner, InLog, Olds, News
<1>14. ASSUME NEW k \in Keys PROVE Held(k)'
  <2>1. Held(k) /\ On(log', k) = On(log, k) /\ \A i \in On(log, k) : log'[i] = log[i]
    BY <1>7, <1>10 DEF Inner
  <2>2. QED BY <1>2, <2>1 DEF Held
<1>15. Down' /\ Recovering'
  BY <1>2 DEF Down, Recovering
<1>16. QED BY <1>11, <1>12, <1>13, <1>14, <1>15 DEF Inner

-----------------------------------------------------------------------------
(* A crash, and the recovery.                                              *)

LEMMA CrashInner ==
  ASSUME Basic, Inner, Crash
  PROVE  Inner'
<1>1. /\ proc' = "down" /\ txnid' = 0 /\ holder' = [k \in Keys |-> Free]
      /\ UNCHANGED <<log, store, truth>>
  BY DEF Crash, Forgotten
<1>2. Life' /\ Recovering' /\ \A k \in Keys : Held(k)'
  BY <1>1 DEF Life, Recovering, Held
<1>3. ASSUME NEW k \in Keys
      PROVE  store[k] = truth[k] \/ \E i \in On(log, k) : Redone(i) \/ i \in LostOn(log, k)
  <2>1. CASE proc = "down"
    BY <2>1 DEF Inner, Down
  <2>2. CASE proc = "recovering"
    <3>1. CASE store[k] = truth[k]
      BY <3>1
    <3>2. CASE store[k] # truth[k]
      <4>1. PICK i \in On(log, k) : i \in toRedo \cup toUndo
        BY <2>2, <3>2 DEF Inner, Recovering
      <4>2. Redone(i) \/ i \in Lost(log)
        BY <2>2, <4>1 DEF Inner, Recovering
      <4>3. QED BY <4>1, <4>2 DEF Lost, LostOn
    <3>3. QED BY <3>1, <3>2
  <2>3. CASE proc = "up"
    <3>1. Held(k)
      BY DEF Inner
    <3>2. CASE holder[k] # Free /\ status[holder[k]] = "running"
      <4>1. PICK i \in On(log, k) : log[i].rec.txn = holder[k]
        BY <3>1, <3>2 DEF Held
      <4>2. holder[k] \in Ids
        BY <3>2 DEF Basic, Types, ManagerTypes
      <4>3. ~Ended(holder[k])
        BY <3>2 DEF Ended
      <4>4. txnid > 0
        BY <3>2, <4>2 DEF Basic, Idle, Types, LogTypes, Ids
      <4>5. Ends(log, holder[k]) = {}
        BY <4>2, <4>3, <4>4 DEF Inner, Life
      <4>6. QED BY <4>1, <4>5 DEF LostOn
    <3>3. CASE ~(holder[k] # Free /\ status[holder[k]] = "running")
      BY <2>3, <3>1, <3>3 DEF Held
    <3>4. QED BY <3>2, <3>3
  <2>4. QED BY <2>1, <2>2, <2>3 DEF Basic, Types, ManagerTypes
<1>4. \A i : Redone(i)' <=> Redone(i)
  BY <1>1 DEF Redone, RedoFrom, Records, Winners, Of
<1>5. \A k \in Keys : On(log', k) = On(log, k) /\ LostOn(log', k) = LostOn(log, k)
  BY <1>1 DEF On, LostOn, Writes, Ends
<1>6. Down'
  BY <1>1, <1>3, <1>4, <1>5 DEF Down
<1>7. QED BY <1>1, <1>2, <1>6, LogUnread DEF Inner

LEMMA NobodyHolds ==
  ASSUME Basic, txnid = 0
  PROVE  \A k \in Keys : holder[k] = Free
<1>1. ASSUME NEW t \in Ids PROVE status[t] = "none"
  <2>1. t \in Nat /\ t # 0
    BY IdsAreNot
  <2>2. status[t] # "none" => t <= 0
    BY DEF Basic, Idle
  <2>3. QED BY <2>1, <2>2
<1>2. ASSUME NEW k \in Keys, holder[k] # Free PROVE FALSE
  <2>1. holder[k] \in Ids
    BY <1>2 DEF Basic, Types, ManagerTypes
  <2>2. status[holder[k]] # "none"
    BY <1>2 DEF Basic, Idle
  <2>3. QED BY <1>1, <2>1, <2>2
<1>3. QED BY <1>2

LEMMA RestartInner ==
  ASSUME Basic, Inner, Restart
  PROVE  Inner'
<1>1. /\ proc = "down" /\ proc' = "recovering"
      /\ toRedo' = {i \in DOMAIN log : Redone(i)} /\ toUndo' = {i \in DOMAIN log : Undone(i)}
      /\ UNCHANGED <<log, txnid, active, status, write, holder, snapshot, store, history>>
  BY DEF Restart
<1>2. txnid = 0
  BY <1>1 DEF Basic, Idle
<1>3. toUndo' = Lost(log)
  BY <1>1, LostIsUndone DEF Inner
<1>4. Life' /\ Down'
  BY <1>1, <1>2 DEF Basic, Types, LogTypes, Life, Down
<1>5. \A k \in Keys : Held(k)'
  <2>1. \A k \in Keys : holder[k] = Free
    BY <1>2, NobodyHolds
  <2>2. QED BY <1>1, <2>1 DEF Held
<1>6. Recovering'
  <2>1. \A i : Redone(i)' <=> Redone(i)
    BY <1>1 DEF Redone, RedoFrom, Records, Winners, Of
  <2>2. /\ Lost(log') = Lost(log) /\ Writes(log') = Writes(log)
        /\ \A k : On(log', k) = On(log, k)
    BY <1>1
  <2>3. \A k \in Keys : store[k] = truth[k] \/ \E i \in On(log, k) : i \in toRedo' \cup toUndo'
    <3>1. ASSUME NEW k \in Keys, NEW i \in On(log, k), Redone(i) \/ i \in LostOn(log, k)
          PROVE  i \in toRedo' \cup toUndo'
      BY <1>1, <1>3, <3>1 DEF LostOn, On, Writes, Lost
    <3>2. QED BY <1>1, <3>1 DEF Inner, Down
  <2>4. \A j \in Writes(log) : Redone(j) => j \in toRedo'
    BY <1>1 DEF Writes
  <2>5. QED BY <1>1, <1>3, <2>1, <2>2, <2>3, <2>4 DEF Recovering
<1>7. QED BY <1>1, <1>4, <1>5, <1>6, LogUnread DEF Inner

\* A set of positions has a last one.
LEMMA LastOne ==
  ASSUME NEW n \in Nat, NEW T \in SUBSET (1 .. n), T # {}
  PROVE  \E x \in T : \A y \in T : y <= x
<1> DEFINE U == {m \in Nat : \A y \in T : y <= m}
<1>1. n \in U /\ U \in SUBSET Nat
  OBVIOUS
<1>2. PICK x \in U : \A m \in U : x <= m
  <2> HIDE DEF U
  <2>1. QED BY <1>1, LeastNumber
<1>3. x \in Nat /\ \A y \in T : y <= x
  OBVIOUS
<1>4. x \in T
  <2>1. SUFFICES ASSUME x \notin T PROVE FALSE
    OBVIOUS
  <2>2. \A y \in T : y \in Nat /\ y >= 1 /\ y < x
    BY <1>3, <2>1
  <2>3. PICK y \in T : TRUE
    OBVIOUS
  <2>4. x - 1 \in Nat
    BY <1>3, <2>2, <2>3
  <2>5. x - 1 \in U
    BY <1>3, <2>2, <2>4
  <2>6. QED BY <1>2, <1>3, <2>5
<1>5. QED BY <1>3, <1>4

LEMMA RedoFromIsNumber == ASSUME Basic PROVE RedoFrom \in Nat
<1> DEFINE all == Records({"CHECKPOINT"})
<1>1. log \in Seq(Items) /\ Len(log) \in Nat /\ all \in SUBSET (1 .. Len(log)) /\ all \subseteq DOMAIN log
  BY DEF Basic, Types, LogTypes, Records
<1>2. CASE all = {}
  BY <1>2 DEF RedoFrom
<1>3. CASE all # {}
  <2> HIDE DEF all
  <2>1. \E x \in all : \A y \in all : y <= x
    BY <1>1, <1>3, LastOne
  <2>2. (CHOOSE x \in all : \A y \in all : y <= x) \in all
    BY <2>1
  <2>3. RedoFrom = log[CHOOSE x \in all : \A y \in all : y <= x].lsn
    BY <1>3 DEF RedoFrom, all
  <2>4. QED BY <1>1, <2>2, <2>3, ItemFields
<1>4. QED BY <1>2, <1>3

\* A later write of a transaction that committed is redone if an earlier write is.
LEMMA RedoneOnwards ==
  ASSUME Basic, Orders(log), NEW i \in Writes(log), NEW j \in Writes(log), i < j, Redone(i),
         Commits(log, log[j].rec.txn) # {}
  PROVE  Redone(j)
<1>1. log \in Seq(Items)
  BY DEF Basic, Types, LogTypes
<1>2. /\ log[i].lsn \in Nat /\ log[j].lsn \in Nat /\ log[j].rec.txn \in Ids
      /\ log[j].rec.kind = "WRITE"
  BY <1>1, LogSets DEF Writes
<1>3. log[i].lsn < log[j].lsn /\ log[i].lsn >= RedoFrom /\ RedoFrom \in Nat
  BY RedoFromIsNumber DEF Orders, Redone
<1>4. log[j].rec.txn \in Winners
  BY <1>2 DEF Winners, Commits, Records, Of
<1>5. QED BY <1>2, <1>3, <1>4 DEF Redone

LEMMA RedoneCommitted ==
  ASSUME NEW i \in Writes(log), Redone(i)
  PROVE  Commits(log, log[i].rec.txn) # {}
BY DEF Redone, Winners, Commits, Records, Of

LEMMA RedoInner ==
  ASSUME Basic, Chosen, Inner, Redo
  PROVE  Inner'
<1>1. PICK i \in toRedo :
        /\ \A j \in toRedo : i <= j
        /\ store' = [store EXCEPT ![log[i].rec.key] = log[i].rec.new]
        /\ toRedo' = toRedo \ {i}
  BY DEF Redo
<1>2. /\ proc = "recovering" /\ UNCHANGED <<log, file, memory, proc, toUndo, history>>
  BY DEF Redo
<1>3. /\ i \in Writes(log) /\ Redone(i) /\ toRedo \subseteq Writes(log) /\ Orders(log)
      /\ toUndo \subseteq Lost(log) /\ Lost(log) \subseteq toUndo
      /\ \A j \in toRedo, m \in Writes(log) : j < m /\ Redone(m) => m \in toRedo
      /\ \A j \in toRedo : Redone(j)
  BY <1>1, <1>2 DEF Inner, Recovering, Chosen, Writes
<1>4. log \in Seq(Items) /\ Writes(log) \subseteq Nat /\ log[i].rec.key \in Keys
  BY <1>3, LogSets DEF Basic, Types, LogTypes
<1>5. /\ store'[log[i].rec.key] = log[i].rec.new
      /\ \A k \in Keys : k # log[i].rec.key => store'[k] = store[k]
  BY <1>1, <1>4 DEF Basic, Types, StoreTypes
<1>6. ASSUME NEW k \in Keys
      PROVE  store'[k] = truth[k] \/ \E j \in On(log, k) : j \in toRedo' \cup toUndo
  <2>1. SUFFICES ASSUME \A j \in On(log, k) : j \notin toRedo' \cup toUndo
                 PROVE  store'[k] = truth[k]
    OBVIOUS
  <2>2. CASE k # log[i].rec.key
    <3>1. \A j \in On(log, k) : j \notin toRedo \cup toUndo
      BY <1>1, <2>1, <2>2 DEF On
    <3>2. QED BY <1>2, <1>5, <2>2, <3>1 DEF Inner, Recovering
  <2>3. CASE k = log[i].rec.key
    <3>1. i \in WonOn(log, k)
      BY <1>3, <2>3, RedoneCommitted DEF WonOn, On
    <3>2. ASSUME NEW j \in WonOn(log, k) PROVE j <= i
      <4>1. j \in On(log, k) /\ j \in Writes(log) /\ Commits(log, log[j].rec.txn) # {}
        BY DEF WonOn, On
      <4>2. SUFFICES ASSUME i < j PROVE FALSE
        BY <1>3, <1>4, <4>1
      <4>3. Redone(j)
        BY <1>3, <4>1, <4>2, RedoneOnwards
      <4>4. j \in toRedo' \/ j = i
        BY <1>1, <1>3, <4>1, <4>2, <4>3
      <4>5. QED BY <1>3, <1>4, <2>1, <4>1, <4>2, <4>4
    <3>3. News(log, truth, k)
      BY DEF Inner, InLog
    <3>4. QED BY <1>5, <2>3, <3>1, <3>2, <3>3 DEF News
  <2>4. QED BY <2>2, <2>3
<1>7. \A j : Redone(j)' <=> Redone(j)
  BY <1>2 DEF Redone, RedoFrom, Records, Winners, Of
<1>8. /\ Lost(log') = Lost(log) /\ Writes(log') = Writes(log) /\ \A k : On(log', k) = On(log, k)
  BY <1>2
<1>9. \A j \in toRedo', m \in Writes(log) : j < m /\ Redone(m) => m \in toRedo'
  BY <1>1, <1>3, <1>4
<1>10. \A j \in toUndo, m \in Lost(log) :
         m < j /\ log[m].rec.txn = log[j].rec.txn => m \in toUndo
  BY <1>2 DEF Inner, Recovering
<1>11. Recovering'
  <2>1. /\ toUndo' \subseteq Lost(log') /\ \A j \in toRedo' : Redone(j)'
        /\ toRedo' # {} => Lost(log') \subseteq toUndo'
    BY <1>1, <1>2, <1>3, <1>7, <1>8
  <2>2. (\A j \in toRedo, m \in Writes(log) : j < m /\ Redone(m) => m \in toRedo)'
    BY <1>2, <1>7, <1>8, <1>9
  <2>3. (\A k \in Keys : store[k] = truth[k] \/ \E j \in On(log, k) : j \in toRedo \cup toUndo)'
    BY <1>2, <1>6, <1>8
  <2>4. (\A j \in toUndo, m \in Lost(log) :
           m < j /\ log[m].rec.txn = log[j].rec.txn => m \in toUndo)'
    BY <1>2, <1>8, <1>10
  <2>5. QED BY <2>1, <2>2, <2>3, <2>4 DEF Recovering
<1>12. Life' /\ Down'
  BY <1>2 DEF Inner, Life, Down, Ended
<1>13. \A k \in Keys : Held(k)'
  <2>1. \A k \in Keys : holder[k] = Free
    BY <1>2, NobodyHolds DEF Basic, Idle
  <2>2. QED BY <1>2, <2>1 DEF Held
<1>14. QED BY <1>2, <1>11, <1>12, <1>13, LogUnread DEF Inner

LEMMA UndoInner ==
  ASSUME Basic, Chosen, Inner, Undo
  PROVE  Inner'
<1>1. PICK i \in toUndo :
        /\ \A j \in toUndo : log[j].rec.txn = log[i].rec.txn => j <= i
        /\ store' = [store EXCEPT ![log[i].rec.key] = log[i].rec.old]
        /\ toUndo' = toUndo \ {i}
  <2>1. \A t : ~MetBefore(t, t)
    BY DEF Basic, Types, LogTypes, MetBefore, Of
  <2>2. QED BY <2>1 DEF Undo
<1>2. /\ proc = "recovering" /\ toRedo = {}
      /\ UNCHANGED <<log, file, memory, proc, toRedo, history>>
  BY DEF Undo
<1>3. /\ i \in Lost(log) /\ toUndo \subseteq Lost(log) /\ Lost(log) \subseteq Writes(log)
      /\ \A j \in toUndo, m \in Lost(log) :
           m < j /\ log[m].rec.txn = log[j].rec.txn => m \in toUndo
  BY <1>1, <1>2 DEF Inner, Recovering, Lost
<1>4. /\ log \in Seq(Items) /\ Writes(log) \subseteq Nat /\ Lost(log) \subseteq Nat
      /\ log[i].rec.key \in Keys
  BY <1>3, LogSets DEF Basic, Types, LogTypes
<1>5. /\ store'[log[i].rec.key] = log[i].rec.old
      /\ \A k \in Keys : k # log[i].rec.key => store'[k] = store[k]
  BY <1>1, <1>4 DEF Basic, Types, StoreTypes
<1>6. ASSUME NEW k \in Keys
      PROVE  store'[k] = truth[k] \/ \E j \in On(log, k) : j \in toRedo \cup toUndo'
  <2>1. SUFFICES ASSUME \A j \in On(log, k) : j \notin toRedo \cup toUndo'
                 PROVE  store'[k] = truth[k]
    OBVIOUS
  <2>2. CASE k # log[i].rec.key
    <3>1. \A j \in On(log, k) : j \notin toRedo \cup toUndo
      BY <1>1, <2>1, <2>2 DEF On
    <3>2. QED BY <1>2, <1>5, <2>2, <3>1 DEF Inner, Recovering
  <2>3. CASE k = log[i].rec.key
    <3>1. i \in LostOn(log, k) /\ Olds(log, truth, k)
      BY <1>3, <2>3 DEF LostOn, On, Lost, Inner, InLog
    <3>2. ASSUME NEW j \in LostOn(log, k) PROVE i <= j
      <4>1. j \in On(log, k) /\ j \in Lost(log) /\ log[j].rec.txn = log[i].rec.txn
        BY <3>1 DEF LostOn, On, Lost, Olds
      <4>2. SUFFICES ASSUME j < i PROVE FALSE
        BY <1>3, <1>4, <4>1
      <4>3. j \in toUndo'
        BY <1>1, <1>3, <1>4, <4>1, <4>2
      <4>4. QED BY <2>1, <4>1, <4>3
    <3>3. QED BY <1>5, <2>3, <3>1, <3>2 DEF Olds
  <2>4. QED BY <2>2, <2>3
<1>7. /\ Lost(log') = Lost(log) /\ Writes(log') = Writes(log) /\ \A k : On(log', k) = On(log, k)
  BY <1>2
<1>8. ASSUME NEW j \in toUndo', NEW m \in Lost(log), m < j, log[m].rec.txn = log[j].rec.txn
      PROVE  m \in toUndo'
  <2>1. j \in toUndo /\ m \in toUndo
    BY <1>1, <1>3, <1>8
  <2>2. m # i
    BY <1>1, <1>3, <1>4, <1>8, <2>1
  <2>3. QED BY <1>1, <2>1, <2>2
<1>9. Recovering'
  <2>1. (\A j \in toUndo, m \in Lost(log) :
           m < j /\ log[m].rec.txn = log[j].rec.txn => m \in toUndo)'
    BY <1>2, <1>7, <1>8
  <2>2. (\A k \in Keys : store[k] = truth[k] \/ \E j \in On(log, k) : j \in toRedo \cup toUndo)'
    BY <1>2, <1>6, <1>7
  <2>3. toUndo' \subseteq Lost(log') /\ toRedo' = {}
    BY <1>1, <1>2, <1>3
  <2>4. QED BY <2>1, <2>2, <2>3 DEF Recovering
<1>10. Life' /\ Down'
  BY <1>2 DEF Inner, Life, Down, Ended
<1>11. \A k \in Keys : Held(k)'
  <2>1. \A k \in Keys : holder[k] = Free
    BY <1>2, NobodyHolds DEF Basic, Idle
  <2>2. QED BY <1>2, <2>1 DEF Held
<1>12. QED BY <1>2, <1>9, <1>10, <1>11, LogUnread DEF Inner

LEMMA RecoveredInner ==
  ASSUME Basic, Inner, Recovered
  PROVE  Inner'
<1>1. /\ proc = "recovering" /\ proc' = "up" /\ toRedo = {} /\ toUndo = {}
      /\ UNCHANGED <<log, file, memory, store, history>>
  BY DEF Recovered
<1>2. \A k \in Keys : store[k] = truth[k]
  BY <1>1 DEF Inner, Recovering
<1>3. \A k \in Keys : holder[k] = Free
  BY <1>1, NobodyHolds DEF Basic, Idle
<1>4. \A k \in Keys : Held(k)'
  BY <1>1, <1>2, <1>3 DEF Held
<1>5. Life' /\ Down' /\ Recovering'
  BY <1>1 DEF Inner, Life, Down, Recovering, Ended
<1>6. QED BY <1>1, <1>4, <1>5, LogUnread DEF Inner

LEMMA StepInner ==
  Basic /\ Chosen /\ (Calm => Inner) /\ [Next]_vars => (Calm => Inner)'
<1> SUFFICES ASSUME Basic, Chosen, Calm => Inner, [Next]_vars, Calm' PROVE Inner'
  OBVIOUS
<1>1. Calm /\ Inner
  <2>1. (stale => stale') /\ (reused => reused')
    <3>1. CASE Begin
      BY <3>1 DEF Begin
    <3>2. CASE LogCheckpoint
      BY <3>2 DEF LogCheckpoint
    <3>3. CASE UNCHANGED <<stale, reused>>
      BY <3>3
    <3>4. QED
      BY <3>1, <3>2, <3>3
      DEF Next, Register, LogWrite, Apply, Commit, RollBack, Abort, Unregister,
          ReadActive, Crash, Restart, Redo, Undo, Recovered
  <2>2. QED BY <2>1 DEF Calm
<1>2. CASE UNCHANGED vars
  <2>1. Orders(log)' /\ InLog'
    BY <1>1, <1>2, LogUnread
  <2>2. Life' /\ \A k \in Keys : Held(k)'
    BY <1>1, <1>2 DEF Inner, Life, Ended, Held
  <2>3. \A i : Redone(i)' <=> Redone(i)
    BY <1>2 DEF Redone, RedoFrom, Records, Winners, Of
  <2>4. /\ Lost(log') = Lost(log) /\ Writes(log') = Writes(log)
        /\ \A k : On(log', k) = On(log, k) /\ LostOn(log', k) = LostOn(log, k)
    BY <1>2
  <2>5. Down'
    BY <1>1, <1>2, <2>3, <2>4 DEF Inner, Down
  <2>6. Recovering'
    BY <1>1, <1>2, <2>3, <2>4 DEF Inner, Recovering
  <2>7. QED BY <2>1, <2>2, <2>5, <2>6 DEF Inner
<1>3. ASSUME NEW t \in Ids,
             Register(t) \/ Apply(t) \/ Commit(t) \/ RollBack(t) \/ Abort(t)
             \/ Unregister(t) \/ \E k \in Keys, v \in Vals : LogWrite(t, k, v)
      PROVE  Inner'
  BY <1>1, <1>3, RegisterInner, ApplyInner, CommitInner, RollBackInner, AbortInner,
     UnregisterInner, LogWriteInner
<1>4. CASE Begin \/ ReadActive \/ LogCheckpoint
  BY <1>1, <1>4, BeginInner, ReadActiveInner, LogCheckpointInner DEF Calm
<1>5. CASE Crash \/ Restart \/ Redo \/ Undo \/ Recovered
  BY <1>1, <1>5, CrashInner, RestartInner, RedoInner, UndoInner, RecoveredInner
<1>6. QED BY <1>2, <1>3, <1>4, <1>5, Zenon DEF Next

\* Committed transactions survive and the others leave nothing, wherever the process
\* dies and however often, unless a checkpoint has listed a transaction that had ended
\* or an id was taken again (write_ahead_log.py: recover, analyze, redo, undo).
THEOREM RecoveryRestores == Spec => []CrashSafe
<1>1. Init => (Calm => Inner)
  BY InnerInit
<1>2. Basic /\ (Calm => Inner) => CrashSafe
  BY DEF Calm, Inner, Held, CrashSafe, Consistent
<1>3. QED BY <1>1, <1>2, SpecBasic, StepInner, PTL DEF Spec
=============================================================================
