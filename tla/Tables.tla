------------------------------- MODULE Tables -------------------------------
(***************************************************************************)
(* One table of a database (database.py): its rows, its per-entry UNIQUE   *)
(* index, its schema record with next_id, and the transaction overlay over *)
(* all three.  A row is its key and the value of one UNIQUE column.        *)
(*                                                                         *)
(* A command that takes the server lock is one step; its loop over rows is *)
(* the recursive function Loop, so that a command that returns an error in *)
(* the middle leaves behind what it wrote before.  BATCH UPDATE takes no   *)
(* lock and is two steps: the rows in one LevelDB batch, then the index.   *)
(***************************************************************************)
EXTENDS Naturals, FiniteSets

CONSTANTS
  N,          \* bound: keys are 1 .. N
  Vals,       \* values of the UNIQUE column
  Absent,     \* what LevelDB answers for a key it does not hold
  Untouched,  \* an item the transaction overlay does not mention
  TxnOps,     \* commands a run issues inside a transaction
  MaxCmds     \* bound: commands

Keys  == 1 .. N
Row(k)    == <<"row", k>>
Idx(v, k) == <<"idx", v, k>>
NextId    == <<"schema">>      \* the schema record, of which next_id changes
Items == {Row(k) : k \in Keys} \cup {NextId}
           \cup {Idx(v, k) : v \in Vals, k \in Keys}

ASSUME TablesAssumption ==
  /\ N \in Nat \ {0} /\ MaxCmds \in Nat
  /\ Absent \notin Vals /\ Untouched \notin Vals /\ Absent # Untouched
  /\ Absent \notin Nat \cup {"1"} /\ Untouched \notin Nat \cup {"1"}

VARIABLES
  pk,       \* the table was created with a primary key
  disk,     \* LevelDB: item -> value or Absent
  changes,  \* _transaction_changes: item -> value, Absent or Untouched
  active,   \* _transaction_active
  batch,    \* BATCH UPDATE between its two steps: {<<key, old, new>>}
  waived,   \* history: what the commands so far may have broken, see Waives
  cmds      \* commands so far

vars == <<pk, disk, changes, active, batch, waived, cmds>>

NoChanges == [i \in Items |-> Untouched]

Init ==
  /\ pk \in BOOLEAN
  /\ disk = [i \in Items |-> IF i = NextId THEN 1 ELSE Absent]
  /\ changes = NoChanges /\ active = FALSE
  /\ batch = {} /\ waived = {} /\ cmds = 0

-----------------------------------------------------------------------------
(* Reading and writing.  st is what the command has seen change so far.    *)

Now == [disk |-> disk, changes |-> changes, err |-> FALSE]

Current(st, i) ==
  IF st.changes[i] # Untouched THEN st.changes[i] ELSE st.disk[i]

\* Mutant of Put: every write goes to the overlay.
PutOverlay(st, i, v) == [st EXCEPT !.changes[i] = v]

Put(st, i, v) ==
  IF active THEN [st EXCEPT !.changes[i] = v] ELSE [st EXCEPT !.disk[i] = v]

Delete(st, i) == Put(st, i, Absent)

\* Mutant of UniqueViolation: no entry is ever found.
NoViolation(st, v, k) == FALSE

\* _check_unique_violation: any entry of another key, in LevelDB or pending;
\* a pending deletion counts as an entry too.
UniqueViolation(st, v, k) ==
  \E j \in Keys \ {k} : \/ st.changes[Idx(v, j)] # Untouched
                        \/ st.disk[Idx(v, j)] # Absent

\* Mutant of Reindex: the entry of the old value stays.
ReindexAddOnly(st, old, k, v, j) == Put(st, Idx(v, j), "1")

\* _remove_from_indexes of the old row, then _update_indexes of the new one.
Reindex(st, old, k, v, j) == Put(Delete(st, Idx(old, k)), Idx(v, j), "1")

\* Which rows a WHERE selects, from the iterator's snapshot of LevelDB.
Scan == {k \in Keys : disk[Row(k)] # Absent}
Wheres == {{Row(k)} : k \in Keys} \cup Vals \cup {Absent}
Matches(w) ==
  {k \in Scan : w = Absent \/ w = disk[Row(k)] \/ w = {Row(k)}}

Fail(st) == [st EXCEPT !.err = TRUE]

-----------------------------------------------------------------------------
(* Loops over rows. *)

\* One row of UPDATE SET u = v: the row is written before UNIQUE is checked.
SetRow(v, st, k) ==
  LET put == Put(st, Row(k), v)
  IN  IF UniqueViolation(put, v, k) THEN Fail(put)
      ELSE Reindex(put, disk[Row(k)], k, v, k)

\* One row of UPDATE SET pk = j: the row moves to key j, if that is free.
MoveRow(j, st, k) ==
  LET old == disk[Row(k)]
  IN  IF k = j THEN Reindex(Put(st, Row(k), old), old, k, old, k)
      ELSE IF Current(st, Row(j)) # Absent THEN Fail(st)
      ELSE Reindex(Put(Delete(st, Row(k)), Row(j), old), old, k, old, j)

\* One row of DELETE.
DeleteRow(st, k) == Delete(Delete(st, Row(k)), Idx(disk[Row(k)], k))

\* What a command does to a row of its selection.
OneRow(op, st, k) ==
  CASE op.does = "SET"    -> SetRow(op.to, st, k)
    [] op.does = "MOVE"   -> MoveRow(op.to, st, k)
    [] op.does = "DELETE" -> DeleteRow(st, k)

\* A loop over rows in key order that stops at the first error.
Loop(S, op) ==
  LET f[k \in 0 .. N] ==
        IF k = 0 THEN Now
        ELSE IF k \in S /\ ~f[k - 1].err THEN OneRow(op, f[k - 1], k) ELSE f[k - 1]
  IN  f[N]

-----------------------------------------------------------------------------
(* Commands. *)

May(op) ==
  /\ cmds < MaxCmds /\ cmds' = cmds + 1
  /\ active => op \in TxnOps

\* What no property is claimed for afterwards: "index", the agreement of rows
\* and UNIQUE index, or "keys", that next_id is beyond every row.
Waives(what, condition) ==
  waived' = IF condition THEN waived \cup {what} ELSE waived

\* What a locked command leaves behind.
Becomes(st) ==
  /\ disk' = st.disk /\ changes' = st.changes
  /\ UNCHANGED <<pk, active, batch>>

\* A command that scans LevelDB, not the overlay, and may fail half way.
Rewrites(st) ==
  /\ Becomes(st)
  /\ Waives("index", active \/ (st.err /\ st.disk # disk))

AddRow(st, k, v) == Put(Put(st, Row(k), v), Idx(v, k), "1")

\* _insert_row with the primary key among the columns.
InsertKey(k, v) ==
  /\ May("INSERT_KEY") /\ pk
  /\ Current(Now, NextId) # Absent
  /\ Current(Now, Row(k)) = Absent
  /\ ~UniqueViolation(Now, v, k)
  /\ Becomes(AddRow(Now, k, v)) /\ UNCHANGED waived

\* Mutant of TakeKey: the schema is not written back.
KeepKey(st, k) == st

TakeKey(st, k) == Put(st, NextId, k + 1)

\* _insert_row without one: next_id moves first, and is not given back when
\* the row turns out to break UNIQUE; the key is not looked up.
InsertAuto(v) ==
  /\ May("INSERT_AUTO")
  /\ Current(Now, NextId) \in Keys
  /\ LET k  == Current(Now, NextId)
         st == TakeKey(Now, k)
     IN  /\ Becomes(IF UniqueViolation(st, v, k) THEN st ELSE AddRow(st, k, v))
         /\ Waives("index", Current(Now, Row(k)) # Absent)

Update(w, v) ==
  /\ May("SET") /\ disk[NextId] # Absent
  /\ Rewrites(Loop(Matches(w), [does |-> "SET", to |-> v]))

UpdateKey(w, j) ==
  /\ May("MOVE") /\ pk /\ disk[NextId] # Absent
  /\ Rewrites(Loop(Matches(w), [does |-> "MOVE", to |-> j]))

DeleteRows(w) ==
  /\ May("DELETE") /\ disk[NextId] # Absent
  /\ Rewrites(Loop(Matches(w), [does |-> "DELETE"]))

\* Mutant of Dropped: the index entries stay.
DroppedRows(store) ==
  [i \in Items |-> IF i \in {Row(k) : k \in Keys} \cup {NextId}
                   THEN Absent ELSE store[i]]

\* Every key LevelDB itself holds under the table's prefixes.
Dropped(store) ==
  [i \in Items |-> IF disk[i] # Absent THEN Absent ELSE store[i]]

DropTable ==
  /\ May("DROP") /\ disk[NextId] # Absent
  /\ Rewrites(IF active THEN [Now EXCEPT !.changes = Dropped(changes)]
                        ELSE [Now EXCEPT !.disk = Dropped(disk)])

CreateTable ==
  /\ May("CREATE")
  /\ disk[NextId] = Absent /\ changes[NextId] = Untouched
  /\ Becomes(Put(Now, NextId, 1)) /\ UNCHANGED waived

\* SET TABLE next_id: read through the overlay, written past it.
SetNextId(n) ==
  /\ May("SET_TABLE")
  /\ Current(Now, NextId) # Absent
  /\ Becomes([Now EXCEPT !.disk[NextId] = n])
  /\ Waives("keys", n < Current(Now, NextId))

\* BatchUpdateCommand.execute over a list of primary keys: no UNIQUE check,
\* the rows straight to LevelDB, the index through the overlay.
BatchRows(S, v) ==
  /\ May("BATCH") /\ batch = {}
  /\ Current(Now, NextId) # Absent
  /\ S \cap Scan # {}
  /\ batch' = {<<k, disk[Row(k)], v>> : k \in S \cap Scan}
  /\ disk' = [i \in Items |-> IF \E k \in S \cap Scan : i = Row(k) THEN v ELSE disk[i]]
  /\ Waives("index", TRUE)
  /\ UNCHANGED <<pk, changes, active>>

BatchIndex ==
  /\ batch # {} /\ batch' = {}
  /\ LET added   == {Idx(b[3], b[1]) : b \in batch}
         removed == {Idx(b[2], b[1]) : b \in batch}
         reindexed(store) ==
           [i \in Items |-> IF i \in added THEN "1"
                            ELSE IF i \in removed THEN Absent ELSE store[i]]
     IN  IF active THEN changes' = reindexed(changes) /\ UNCHANGED disk
                   ELSE disk' = reindexed(disk) /\ UNCHANGED changes
  /\ UNCHANGED <<pk, active, waived, cmds>>

Begin ==
  /\ ~active /\ TxnOps # {} /\ cmds < MaxCmds
  /\ active' = TRUE
  /\ UNCHANGED <<pk, disk, changes, batch, waived, cmds>>

Commit ==
  /\ active
  /\ disk' = [i \in Items |-> Current(Now, i)]
  /\ changes' = NoChanges /\ active' = FALSE
  /\ UNCHANGED <<pk, batch, waived, cmds>>

Rollback ==
  /\ active
  /\ changes' = NoChanges /\ active' = FALSE
  /\ UNCHANGED <<pk, disk, batch, waived, cmds>>

Next ==
  \/ \E k \in Keys, v \in Vals : InsertKey(k, v)
  \/ \E v \in Vals : InsertAuto(v)
  \/ \E w \in Wheres : \/ \E v \in Vals : Update(w, v)
                       \/ \E j \in Keys : UpdateKey(w, j)
                       \/ DeleteRows(w)
  \/ DropTable \/ CreateTable
  \/ \E n \in Keys : SetNextId(n)
  \/ \E S \in SUBSET Keys, v \in Vals : BatchRows(S, v)
  \/ BatchIndex
  \/ Begin \/ Commit \/ Rollback

Spec == Init /\ [][Next]_vars

-----------------------------------------------------------------------------
(* Properties. *)

Marks == {"1", Absent}
RowVals == Vals \cup {Absent}

\* Every item holds a value of its kind, and the overlay is empty outside a
\* transaction (begin, commit and rollback of database.py all reset it).
TypeOK ==
  /\ DOMAIN disk = Items /\ DOMAIN changes = Items
  /\ \A k \in Keys : /\ disk[Row(k)] \in RowVals
                     /\ changes[Row(k)] \in RowVals \cup {Untouched}
                     /\ \A v \in Vals :
                          /\ disk[Idx(v, k)] \in Marks
                          /\ changes[Idx(v, k)] \in Marks \cup {Untouched}
  /\ pk \in BOOLEAN /\ active \in BOOLEAN /\ waived \subseteq {"index", "keys"}
  /\ cmds \in 0 .. MaxCmds
  /\ ~active => changes = NoChanges

Rows == {k \in Keys : disk[Row(k)] # Absent}

\* Two committed rows never share the value of the UNIQUE column, whatever
\* statements and transactions made them, but for the commands Waives names
\* (_check_unique_violation).
UniqueHolds ==
  "index" \notin waived =>
    \A j, k \in Rows : disk[Row(j)] = disk[Row(k)] => j = k

\* What the comment "Enforce UNIQUE on update" of update() promises.
UniqueAlways ==
  \A j, k \in Rows : disk[Row(j)] = disk[Row(k)] => j = k

\* The index lists exactly the rows, so a SELECT that uses it finds what a scan
\* finds (_update_indexes, _remove_from_indexes), also while a transaction is
\* open and after it was rolled back; and a dropped table leaves no row and no
\* entry for its successor.
IndexMatches ==
  "index" \notin waived =>
    /\ \A k \in Keys, v \in Vals :
         disk[Idx(v, k)] # Absent <=> disk[Row(k)] = v
    /\ disk[NextId] = Absent => \A i \in Items : disk[i] = Absent

\* An INSERT that is given no key adds a row and leaves the others as they are,
\* in the overlay or in LevelDB.
InsertsNeverReplace ==
  [][(\E v \in Vals : InsertAuto(v)) /\ ~pk /\ "keys" \notin waived =>
       \A k \in Keys : Current(Now, Row(k)) # Absent
                         => Current(Now, Row(k))' = Current(Now, Row(k))]_vars
=============================================================================
