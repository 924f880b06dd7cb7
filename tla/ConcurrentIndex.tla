-------------------------- MODULE ConcurrentIndex --------------------------
(***************************************************************************)
(* An index built in the background while its table is written: a          *)
(* ConcurrentIndex of concurrent_index.py and the IndexManager that        *)
(* creates, drops and updates it.  A row is its key, a row id its place;   *)
(* an absent value is null.                                                *)
(*                                                                         *)
(* External: the table.  One writer changes it first and calls the         *)
(* manager's update_indexes_for_* after that.                              *)
(***************************************************************************)
EXTENDS Naturals, Sequences, FiniteSets, SequencesExt

CONSTANTS
  CIKeys,
  CINull,
  CIRows,     \* bound: rows of the table
  CIWrites    \* bound: changes of the table

ASSUME CIAssumption == CIRows \in Nat /\ CIWrites \in Nat /\ CINull \notin CIKeys

VARIABLES
  ciTable,    \* the keys of the table's rows
  ciWrite,    \* the writes counted; of the one under way: at is "none", "changed" or "looked", and the index's
              \* operations that are left
  ciUnique, ciOnline,
  ciKnown,    \* the manager's entry: "never", "yes" or "dropped"
  ciLocked,   \* create_index holds the manager's lock until the index is built
  ciState,
  ciData,     \* the row ids of each key
  ciPending,
  ciBuilder,  \* the build thread: "none", "started", "scanning", "applying", "validating", "built",
              \* "calling" or "ended"
  ciTodo,     \* rows of its snapshot, then the writes it applies
  ciClean     \* history: no write met the build or was refused

ciVars == <<ciTable, ciWrite, ciUnique, ciOnline, ciKnown, ciLocked, ciState, ciData, ciPending,
            ciBuilder, ciTodo, ciClean>>

CIOp(what, key, id) == [what |-> what, key |-> key, id |-> id]

CIIdle(changes) == [changes |-> changes, at |-> "none", ops |-> <<>>]

CIInit ==
  /\ ciTable \in UNION {[1..n -> CIKeys \cup {CINull}] : n \in 0..CIRows}
  /\ ciWrite = CIIdle(0) /\ ciUnique \in BOOLEAN /\ ciOnline \in BOOLEAN
  /\ ciKnown = "never" /\ ciLocked = FALSE /\ ciState = "pending"
  /\ ciData = [k \in CIKeys \cup {CINull} |-> <<>>]
  /\ ciPending = <<>> /\ ciBuilder = "none" /\ ciTodo = <<>> /\ ciClean = TRUE

-----------------------------------------------------------------------------
(* The index. *)

\* Mutant of CIDuplicate: a unique index takes a second row.
CIDuplicateNever(key) == FALSE

CIDuplicate(key) == ciUnique /\ ciData[key] # <<>>

CIAdded(key, id) == [ciData EXCEPT ![key] = Append(@, id)]

\* Mutant of CIRemoved: an update or a delete leaves the old entry.
CIRemovedNot(key, id) == ciData

CIRemoved(key, id) == [ciData EXCEPT ![key] = RemoveFirst(@, id)]

CIQueues == ciState \in {"building", "validating"}

\* insert and delete: what they do to the data and to the writes that wait, unless the
\* insert raises.
CIRaises(op) == ~CIQueues /\ op.what = "insert" /\ CIDuplicate(op.key)

CIApplied(op) ==
  IF CIQueues
  THEN ciPending' = Append(ciPending, op) /\ UNCHANGED ciData
  ELSE /\ ciData' = IF op.what = "insert" THEN CIAdded(op.key, op.id)
                    ELSE CIRemoved(op.key, op.id)
       /\ UNCHANGED ciPending

-----------------------------------------------------------------------------
(* The writer. *)

\* The table's rows, and what the manager is told of the change.
CIChange(table, ops) ==
  /\ ciWrite.at = "none" /\ ciWrite.changes < CIWrites
  /\ ciTable' = table /\ ciWrite' = [changes |-> ciWrite.changes + 1, at |-> "changed", ops |-> ops]
  /\ ciClean' = (ciClean /\ ciBuilder \in {"none", "calling", "ended"})
  /\ UNCHANGED <<ciUnique, ciOnline, ciKnown, ciLocked, ciState, ciData, ciPending, ciBuilder, ciTodo>>

CIInsert(key) ==
  /\ Len(ciTable) < CIRows
  /\ CIChange(Append(ciTable, key),
              IF key = CINull THEN <<>> ELSE <<CIOp("insert", key, Len(ciTable) + 1)>>)

\* The last row, so that the others keep their ids.
CIDelete ==
  LET n == Len(ciTable)
  IN  /\ n > 0
      /\ CIChange(Front(ciTable), IF Last(ciTable) = CINull THEN <<>> ELSE <<CIOp("delete", Last(ciTable), n)>>)

\* update is a delete and an insert, also of a null.
CIUpdate(id, key) ==
  /\ ciTable[id] # key
  /\ CIChange([ciTable EXCEPT ![id] = key], <<CIOp("delete", ciTable[id], id), CIOp("insert", key, id)>>)

\* get_table_indexes, and the state that is read without the index's lock: an insert skips an
\* index that is not built, the other two do not.
CILook ==
  /\ ciWrite.at = "changed" /\ ~ciLocked
  /\ ciWrite' =
       IF \/ ciKnown # "yes" \/ ciWrite.ops = <<>>
          \/ Head(ciWrite.ops).what = "insert" /\ ciState \notin {"active", "building", "validating", "ready"}
       THEN CIIdle(ciWrite.changes) ELSE [ciWrite EXCEPT !.at = "looked"]
  /\ UNCHANGED <<ciTable, ciUnique, ciOnline, ciKnown, ciLocked, ciState, ciData, ciPending,
                 ciBuilder, ciTodo, ciClean>>

\* One operation; the writer gets the exception of an insert that is refused.
CITell ==
  LET op == Head(ciWrite.ops)
  IN  /\ ciWrite.at = "looked"
      /\ IF CIRaises(op)
         THEN ciWrite' = CIIdle(ciWrite.changes) /\ ciClean' = FALSE /\ UNCHANGED <<ciData, ciPending>>
         ELSE /\ CIApplied(op) /\ UNCHANGED ciClean
              /\ ciWrite' = IF Len(ciWrite.ops) = 1 THEN CIIdle(ciWrite.changes) ELSE [ciWrite EXCEPT !.ops = Tail(@)]
      /\ UNCHANGED <<ciTable, ciUnique, ciOnline, ciKnown, ciLocked, ciState, ciBuilder, ciTodo>>

-----------------------------------------------------------------------------
(* The build thread. *)

\* Mutant of CILockTaken: create_index waits for every build.
CILockTakenAlways == TRUE

CILockTaken == ~ciOnline

\* create_index: writes wait from here on.
CICreate ==
  /\ ciKnown = "never" /\ ciKnown' = "yes" /\ ciLocked' = CILockTaken
  /\ ciState' = "building" /\ ciBuilder' = "started"
  /\ ciClean' = (ciClean /\ ciWrite.at = "none")
  /\ UNCHANGED <<ciTable, ciWrite, ciUnique, ciOnline, ciData, ciPending, ciTodo>>

\* The thread takes its snapshot under the table's lock; a change between the two is in it, and
\* waits as well.
CISnapshot ==
  /\ ciBuilder = "started" /\ ciBuilder' = "scanning"
  /\ ciTodo' = [id \in 1..Len(ciTable) |-> CIOp("insert", ciTable[id], id)]
  /\ UNCHANGED <<ciTable, ciWrite, ciUnique, ciOnline, ciKnown, ciLocked, ciState, ciData, ciPending, ciClean>>

\* The build fails: its callback does no more than say so.
CIFailed ==
  /\ ciState' = "failed" /\ ciBuilder' = "ended" /\ ciTodo' = <<>>
  /\ UNCHANGED <<ciTable, ciWrite, ciUnique, ciOnline, ciKnown, ciLocked, ciData, ciPending, ciClean>>

\* _index_row.
CIScan ==
  LET op == Head(ciTodo)
  IN  /\ ciBuilder = "scanning" /\ ciTodo # <<>>
      /\ IF op.key # CINull /\ CIDuplicate(op.key) THEN CIFailed
         ELSE /\ ciData' = IF op.key = CINull THEN ciData ELSE CIAdded(op.key, op.id)
              /\ ciTodo' = Tail(ciTodo)
              /\ UNCHANGED <<ciTable, ciWrite, ciUnique, ciOnline, ciKnown, ciLocked, ciState, ciPending,
                             ciBuilder, ciClean>>

\* _apply_pending_writes takes the writes that waited ...
CITakePending ==
  /\ ciBuilder = "scanning" /\ ciTodo = <<>>
  /\ ciBuilder' = "applying" /\ ciTodo' = ciPending /\ ciPending' = <<>>
  /\ UNCHANGED <<ciTable, ciWrite, ciUnique, ciOnline, ciKnown, ciLocked, ciState, ciData, ciClean>>

\* ... and calls insert and delete, which make them wait again.
CIApply ==
  LET op == Head(ciTodo)
  IN  /\ ciBuilder = "applying" /\ ciTodo # <<>>
      /\ IF CIRaises(op) THEN CIFailed
         ELSE /\ CIApplied(op) /\ ciTodo' = Tail(ciTodo)
              /\ UNCHANGED <<ciTable, ciWrite, ciUnique, ciOnline, ciKnown, ciLocked, ciState,
                             ciBuilder, ciClean>>

\* _validate_index overwrites the state, without the lock.
CIValidating ==
  /\ ciBuilder = "applying" /\ ciTodo = <<>>
  /\ ciBuilder' = "validating" /\ ciState' = "validating"
  /\ UNCHANGED <<ciTable, ciWrite, ciUnique, ciOnline, ciKnown, ciLocked, ciData, ciPending, ciTodo, ciClean>>

\* Its sample holds every key of an index of at most 100.
CIMatchesTable ==
  \A k \in DOMAIN ciData : \A n \in DOMAIN ciData[k] : ciData[k][n] <= Len(ciTable) /\ ciTable[ciData[k][n]] = k

CIValidate ==
  /\ ciBuilder = "validating"
  /\ IF ~CIMatchesTable THEN CIFailed
     ELSE /\ ciState' = "ready" /\ ciBuilder' = "built"
          /\ UNCHANGED <<ciTable, ciWrite, ciUnique, ciOnline, ciKnown, ciLocked, ciData, ciPending,
                         ciTodo, ciClean>>

\* The callback looks the name up without the manager's lock; an index created offline has
\* no callback.
CICallback ==
  /\ ciBuilder = "built"
  /\ ciBuilder' = IF ciKnown = "yes" /\ ciOnline THEN "calling" ELSE "ended"
  /\ UNCHANGED <<ciTable, ciWrite, ciUnique, ciOnline, ciKnown, ciLocked, ciState, ciData, ciPending,
                 ciTodo, ciClean>>

\* Mutant of CIActivated: any state will do.
CIActivatedAny == "active"

\* activate() raises in another state than READY.
CIActivated == IF ciState = "ready" THEN "active" ELSE ciState

CIActivate ==
  /\ ciBuilder = "calling"
  /\ ciState' = CIActivated /\ ciBuilder' = "ended"
  /\ UNCHANGED <<ciTable, ciWrite, ciUnique, ciOnline, ciKnown, ciLocked, ciData, ciPending, ciTodo, ciClean>>

\* Mutant of CILockFreed: an activation that raises leaves the lock taken.
CILockFreedNot == ciState = "failed"

\* What is left of the lock.
CILockFreed == FALSE

\* create_index goes on after wait_for_ready, and activates or raises.
CICreated ==
  /\ ciLocked /\ ciState \in {"ready", "active", "failed"}
  /\ ciLocked' = CILockFreed /\ ciState' = CIActivated
  /\ UNCHANGED <<ciTable, ciWrite, ciUnique, ciOnline, ciKnown, ciData, ciPending, ciBuilder, ciTodo, ciClean>>

-----------------------------------------------------------------------------

\* drop_index; the build thread and a writer that has looked go on.
CIDrop ==
  /\ ciKnown = "yes" /\ ~ciLocked
  /\ ciState' = "dropping" /\ ciKnown' = "dropped"
  /\ UNCHANGED <<ciTable, ciWrite, ciUnique, ciOnline, ciLocked, ciData, ciPending, ciBuilder, ciTodo, ciClean>>

CIBuildStep ==
  CISnapshot \/ CIScan \/ CITakePending \/ CIApply \/ CIValidating \/ CIValidate \/ CICallback \/ CIActivate

CINext ==
  \/ \E key \in CIKeys \cup {CINull} :
       CIInsert(key) \/ \E id \in 1..Len(ciTable) : CIUpdate(id, key)
  \/ CIDelete \/ CILook \/ CITell
  \/ CICreate \/ CIBuildStep \/ CICreated \/ CIDrop

\* The build thread runs, and create_index polls the state.
CIFairness == WF_ciVars(CIBuildStep) /\ WF_ciVars(CICreated)

CISpec == CIInit /\ [][CINext]_ciVars /\ CIFairness

-----------------------------------------------------------------------------
(* Properties. *)

\* Every variable has its type; the manager's lock is held only while the index is built.
CITypeOK ==
  /\ ciTable \in Seq(CIKeys \cup {CINull}) /\ Len(ciTable) <= CIRows
  /\ ciState \in {"pending", "building", "validating", "ready", "active", "failed", "dropping"}
  /\ ciBuilder \in {"none", "started", "scanning", "applying", "validating", "built", "calling", "ended"}
  /\ ciData \in [CIKeys \cup {CINull} -> Seq(1..CIRows)] /\ ciWrite.at \in {"none", "changed", "looked"}
  /\ ciKnown \in {"never", "yes", "dropped"}
  /\ ciLocked => ~ciOnline /\ ciKnown = "yes"

\* An index no write met during its build follows the table from then on: between two writes
\* it holds exactly the rows of each key, each once, whatever was inserted, updated and deleted.
CIFollows ==
  ciClean /\ ciWrite.at = "none" /\ ciState \in {"ready", "active"} /\ ciKnown = "yes" =>
    \A k \in CIKeys :
      /\ ToSet(ciData[k]) = {id \in 1..Len(ciTable) : ciTable[id] = k}
      /\ Len(ciData[k]) = Cardinality(ToSet(ciData[k]))

\* A unique index never holds two rows of a key, through its build and the writes of the
\* other thread.
CIUniqueHolds == ciUnique => \A k \in CIKeys : Len(ciData[k]) <= 1

\* An index that was dropped never becomes active, though its build goes on, and the callback
\* may have looked it up already.
CIDroppedStays == ciKnown = "dropped" => ciState # "active"

\* A build ends, and the lock of a creation that waits for it is released.
CIEnds == (ciBuilder = "started" ~> ciBuilder = "ended") /\ (ciLocked ~> ~ciLocked)
=============================================================================
