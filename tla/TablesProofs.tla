---------------------------- MODULE TablesProofs ----------------------------
(***************************************************************************)
(* Proofs about Tables, for every number of keys, every set of values and  *)
(* of commands inside a transaction, and any number of commands.           *)
(***************************************************************************)
EXTENDS Tables, Inductions, TLAPS

-----------------------------------------------------------------------------
(* Items and stores.                                                       *)

Numbers == 1 .. (N + 1)
Any     == Vals \cup Numbers \cup {Absent, "1", Untouched}

\* What LevelDB may hold for an item.
Kept(i) == IF i = NextId THEN Numbers \cup {Absent}
           ELSE IF i \in {Row(k) : k \in Keys} THEN RowVals ELSE Marks

Disks    == {d \in [Items -> Any] : \A i \in Items : d[i] \in Kept(i)}
Overlays == {c \in [Items -> Any] : \A i \in Items : c[i] \in Kept(i) \cup {Untouched}}
States   == [disk : Disks, changes : Overlays, err : BOOLEAN]

\* What a reader inside the transaction sees.
Seen(d, c) == [i \in Items |-> IF c[i] # Untouched THEN c[i] ELSE d[i]]

LEMMA ItemsDiffer ==
  /\ NextId \in Items
  /\ \A k \in Keys : Row(k) \in Items /\ Row(k) # NextId
  /\ \A k \in Keys, v \in Vals : Idx(v, k) \in Items /\ Idx(v, k) # NextId
  /\ \A j, k \in Keys : Row(j) = Row(k) => j = k
  /\ \A j, k \in Keys, v \in Vals : Row(j) # Idx(v, k)
  /\ \A j, k \in Keys, u, v \in Vals : Idx(u, j) = Idx(v, k) => u = v /\ j = k
  /\ \A i \in Items : \/ i = NextId \/ \E k \in Keys : i = Row(k)
                      \/ \E k \in Keys, v \in Vals : i = Idx(v, k)
BY DEF Items, Row, Idx, NextId

LEMMA KeptIs ==
  /\ Kept(NextId) = Numbers \cup {Absent}
  /\ \A k \in Keys : Kept(Row(k)) = RowVals
  /\ \A k \in Keys, v \in Vals : Kept(Idx(v, k)) = Marks
BY ItemsDiffer DEF Kept

LEMMA KeysAre ==
  /\ N \in Nat /\ Keys \subseteq Nat /\ Keys \subseteq Numbers /\ Numbers \subseteq Nat
  /\ \A k \in Keys : k + 1 \in Numbers
  /\ Absent \notin Vals \cup Numbers \cup {"1", Untouched}
  /\ Untouched \notin Vals \cup Numbers \cup {"1", Absent}
BY TablesAssumption DEF TablesAssumption, Keys, Numbers

LEMMA KeptKinds ==
  ASSUME NEW i \in Items
  PROVE  Kept(i) \subseteq Any /\ Untouched \notin Kept(i) /\ Absent \in Kept(i)
BY KeysAre DEF Kept, Any, RowVals, Marks

LEMMA DiskFields ==
  ASSUME NEW d \in Disks
  PROVE  /\ d \in [Items -> Any] /\ d[NextId] \in Numbers \cup {Absent}
         /\ \A k \in Keys : d[Row(k)] \in RowVals
         /\ \A k \in Keys, v \in Vals : d[Idx(v, k)] \in Marks
BY ItemsDiffer, KeptIs DEF Disks

LEMMA OverlayFields ==
  ASSUME NEW c \in Overlays
  PROVE  /\ c \in [Items -> Any] /\ c[NextId] \in Numbers \cup {Absent, Untouched}
         /\ \A k \in Keys : c[Row(k)] \in RowVals \cup {Untouched}
         /\ \A k \in Keys, v \in Vals : c[Idx(v, k)] \in Marks \cup {Untouched}
BY ItemsDiffer, KeptIs DEF Overlays

LEMMA DiskPut ==
  ASSUME NEW d \in Disks, NEW i \in Items, NEW v \in Kept(i)
  PROVE  [d EXCEPT ![i] = v] \in Disks
<1>1. v \in Any /\ d \in [Items -> Any]
  BY KeptKinds DEF Disks
<1>2. [d EXCEPT ![i] = v] \in [Items -> Any]
  BY <1>1
<1>3. \A j \in Items : [d EXCEPT ![i] = v][j] \in Kept(j)
  BY <1>1 DEF Disks
<1>4. QED BY <1>2, <1>3 DEF Disks

LEMMA OverlayPut ==
  ASSUME NEW c \in Overlays, NEW i \in Items, NEW v \in Kept(i)
  PROVE  [c EXCEPT ![i] = v] \in Overlays
<1>1. v \in Any /\ c \in [Items -> Any]
  BY KeptKinds DEF Overlays
<1>2. [c EXCEPT ![i] = v] \in [Items -> Any]
  BY <1>1
<1>3. \A j \in Items : [c EXCEPT ![i] = v][j] \in Kept(j) \cup {Untouched}
  BY <1>1 DEF Overlays
<1>4. QED BY <1>2, <1>3 DEF Overlays

LEMMA NothingChanged == NoChanges \in Overlays /\ \A d \in Disks : Seen(d, NoChanges) = d
BY DEF NoChanges, Overlays, Any, Seen, Disks

LEMMA SeenDisk ==
  ASSUME NEW d \in Disks, NEW c \in Overlays
  PROVE  Seen(d, c) \in Disks /\ \A i \in Items : Seen(d, c)[i] # Untouched
<1>1. \A i \in Items : Seen(d, c)[i] \in Kept(i)
  BY DEF Seen, Disks, Overlays
<1>2. \A i \in Items : Kept(i) \subseteq Any /\ Untouched \notin Kept(i)
  BY KeptKinds
<1>3. Seen(d, c) \in [Items -> Any]
  BY <1>1, <1>2 DEF Seen
<1>4. QED BY <1>1, <1>2, <1>3 DEF Disks

-----------------------------------------------------------------------------
(* Writing an item.                                                        *)

\* st2 is st with v at i, on disk or in the overlay.
Wrote(st, i, v, st2) ==
  /\ st2 \in States /\ st2.err = st.err
  /\ active  => st2.disk = st.disk /\ st2.changes = [st.changes EXCEPT ![i] = v]
  /\ ~active => st2.changes = st.changes /\ st2.disk = [st.disk EXCEPT ![i] = v]

LEMMA PutWrites ==
  ASSUME NEW st \in States, NEW i \in Items, NEW v \in Kept(i), active \in BOOLEAN
  PROVE  Wrote(st, i, v, Put(st, i, v))
<1>1. st.disk \in Disks /\ st.changes \in Overlays /\ st.err \in BOOLEAN
  BY DEF States
<1>2. CASE active
  <2>1. Put(st, i, v) = [st EXCEPT !.changes = [st.changes EXCEPT ![i] = v]]
    BY <1>2 DEF Put
  <2>2. [st.changes EXCEPT ![i] = v] \in Overlays
    BY <1>1, OverlayPut
  <2>3. QED BY <1>1, <1>2, <2>1, <2>2 DEF Wrote, States
<1>3. CASE ~active
  <2>1. Put(st, i, v) = [st EXCEPT !.disk = [st.disk EXCEPT ![i] = v]]
    BY <1>3 DEF Put
  <2>2. [st.disk EXCEPT ![i] = v] \in Disks
    BY <1>1, DiskPut
  <2>3. QED BY <1>1, <1>3, <2>1, <2>2 DEF Wrote, States
<1>4. QED BY <1>2, <1>3

\* Item by item, and as a reader sees it.
LEMMA PutItems ==
  ASSUME NEW st \in States, NEW i \in Items, NEW v \in Kept(i), active \in BOOLEAN,
         NEW j \in Items
  PROVE  /\ Put(st, i, v) \in States /\ Put(st, i, v).err = st.err
         /\ Put(st, i, v).disk[j] = IF ~active /\ j = i THEN v ELSE st.disk[j]
         /\ Put(st, i, v).changes[j] = IF active /\ j = i THEN v ELSE st.changes[j]
<1>1. Wrote(st, i, v, Put(st, i, v))
  BY PutWrites
<1>2. st.disk \in [Items -> Any] /\ st.changes \in [Items -> Any]
  BY DEF States, Disks, Overlays
<1>3. QED BY <1>1, <1>2 DEF Wrote

\* One write, or several, of a command that is going well.
OnlyWrites(st, st2) ==
  /\ st2 \in States /\ st2.err = st.err
  /\ active  => st2.disk = st.disk
  /\ ~active => st2.changes = st.changes

LEMMA PutOnlyWrites ==
  ASSUME NEW st \in States, NEW i \in Items, NEW v \in Kept(i), active \in BOOLEAN
  PROVE  OnlyWrites(st, Put(st, i, v))
BY PutWrites DEF Wrote, OnlyWrites

\* What is written to i after a state s, or kept of it: d is the item's value before.
LEMMA ReindexItems ==
  ASSUME NEW st \in States, NEW old \in Vals, NEW v \in Vals, NEW k \in Keys, NEW j \in Keys,
         active \in BOOLEAN, NEW i \in Items
  PROVE  /\ OnlyWrites(st, Reindex(st, old, k, v, j))
         /\ Reindex(st, old, k, v, j).disk[i] =
              IF ~active /\ i = Idx(v, j) THEN "1"
              ELSE IF ~active /\ i = Idx(old, k) THEN Absent ELSE st.disk[i]
         /\ Reindex(st, old, k, v, j).changes[i] =
              IF active /\ i = Idx(v, j) THEN "1"
              ELSE IF active /\ i = Idx(old, k) THEN Absent ELSE st.changes[i]
<1> DEFINE st1 == Put(st, Idx(old, k), Absent)
           st2 == Put(st1, Idx(v, j), "1")
<1>1. /\ Idx(old, k) \in Items /\ Idx(v, j) \in Items
      /\ Absent \in Kept(Idx(old, k)) /\ "1" \in Kept(Idx(v, j))
  BY ItemsDiffer, KeptIs DEF Marks
<1>2. /\ st1 \in States
      /\ st1.disk[i] = IF ~active /\ i = Idx(old, k) THEN Absent ELSE st.disk[i]
      /\ st1.changes[i] = IF active /\ i = Idx(old, k) THEN Absent ELSE st.changes[i]
  BY <1>1, PutItems
<1>3. OnlyWrites(st, st1)
  BY <1>1, PutOnlyWrites
<1> HIDE DEF st1
<1>4. /\ st2 \in States
      /\ st2.disk[i] = IF ~active /\ i = Idx(v, j) THEN "1" ELSE st1.disk[i]
      /\ st2.changes[i] = IF active /\ i = Idx(v, j) THEN "1" ELSE st1.changes[i]
  BY <1>1, <1>2, PutItems
<1>5. OnlyWrites(st1, st2)
  BY <1>1, <1>2, PutOnlyWrites
<1>6. Reindex(st, old, k, v, j) = st2
  BY DEF Reindex, Delete, st1
<1> HIDE DEF st2
<1>7. OnlyWrites(st, st2)
  BY <1>3, <1>5 DEF OnlyWrites
<1>8. QED BY <1>2, <1>4, <1>6, <1>7

LEMMA FailKeeps ==
  ASSUME NEW st \in States
  PROVE  Fail(st) \in States /\ Fail(st).disk = st.disk /\ Fail(st).changes = st.changes
         /\ Fail(st).err = TRUE
BY DEF Fail, States

-----------------------------------------------------------------------------
(* One row of a command.                                                   *)

\* What each of the three does when it goes well, item by item.
SetDone(st, st2, k, old, v) ==
  /\ OnlyWrites(st, st2)
  /\ \A i \in Items :
       /\ st2.disk[i] = IF ~active /\ i = Idx(v, k) THEN "1"
                        ELSE IF ~active /\ i = Idx(old, k) THEN Absent
                        ELSE IF ~active /\ i = Row(k) THEN v ELSE st.disk[i]
       /\ st2.changes[i] = IF active /\ i = Idx(v, k) THEN "1"
                           ELSE IF active /\ i = Idx(old, k) THEN Absent
                           ELSE IF active /\ i = Row(k) THEN v ELSE st.changes[i]

MoveDone(st, st2, k, old, j) ==
  /\ OnlyWrites(st, st2)
  /\ \A i \in Items :
       /\ st2.disk[i] = IF ~active /\ i = Idx(old, j) THEN "1"
                        ELSE IF ~active /\ i = Idx(old, k) THEN Absent
                        ELSE IF ~active /\ i = Row(j) THEN old
                        ELSE IF ~active /\ i = Row(k) THEN Absent ELSE st.disk[i]
       /\ st2.changes[i] = IF active /\ i = Idx(old, j) THEN "1"
                           ELSE IF active /\ i = Idx(old, k) THEN Absent
                           ELSE IF active /\ i = Row(j) THEN old
                           ELSE IF active /\ i = Row(k) THEN Absent ELSE st.changes[i]

DeleteDone(st, st2, k, old) ==
  /\ OnlyWrites(st, st2)
  /\ \A i \in Items :
       /\ st2.disk[i] = IF ~active /\ i = Idx(old, k) THEN Absent
                        ELSE IF ~active /\ i = Row(k) THEN Absent ELSE st.disk[i]
       /\ st2.changes[i] = IF active /\ i = Idx(old, k) THEN Absent
                           ELSE IF active /\ i = Row(k) THEN Absent ELSE st.changes[i]

\* The row was written, and nothing else, before the error.
SetFailed(st, st2, k, v) ==
  /\ st2 \in States /\ st2.err = TRUE
  /\ active  => st2.disk = st.disk
  /\ ~active => st2.changes = st.changes
  /\ \A i \in Items :
       /\ st2.disk[i] = IF ~active /\ i = Row(k) THEN v ELSE st.disk[i]
       /\ st2.changes[i] = IF active /\ i = Row(k) THEN v ELSE st.changes[i]

LEMMA SetRowDoes ==
  ASSUME NEW st \in States, NEW k \in Keys, NEW v \in Vals, disk[Row(k)] \in Vals,
         active \in BOOLEAN
  PROVE  \/ SetFailed(st, SetRow(v, st, k), k, v)
         \/ /\ SetDone(st, SetRow(v, st, k), k, disk[Row(k)], v)
            /\ ~UniqueViolation(Put(st, Row(k), v), v, k)
<1> DEFINE put == Put(st, Row(k), v)
           old == disk[Row(k)]
           re  == Reindex(put, old, k, v, k)
<1>1. Row(k) \in Items /\ v \in Kept(Row(k))
  BY ItemsDiffer, KeptIs DEF RowVals
<1>2. OnlyWrites(st, put)
  BY <1>1, PutOnlyWrites
<1>3. put \in States
  BY <1>2 DEF OnlyWrites
<1>4. \A i \in Items :
        /\ put.disk[i] = IF ~active /\ i = Row(k) THEN v ELSE st.disk[i]
        /\ put.changes[i] = IF active /\ i = Row(k) THEN v ELSE st.changes[i]
  BY <1>1, PutItems
<1>5. SetRow(v, st, k) = IF UniqueViolation(put, v, k) THEN Fail(put) ELSE re
  BY DEF SetRow
<1> HIDE DEF put
<1>6. CASE UniqueViolation(put, v, k)
  <2>1. /\ Fail(put) \in States /\ Fail(put).disk = put.disk /\ Fail(put).changes = put.changes
        /\ Fail(put).err = TRUE
    BY <1>3, FailKeeps
  <2>2. SetFailed(st, Fail(put), k, v)
    BY <1>2, <1>4, <2>1 DEF SetFailed, OnlyWrites
  <2>3. QED BY <1>5, <1>6, <2>2
<1>7. CASE ~UniqueViolation(put, v, k)
  <2>1. \A i \in Items :
          /\ OnlyWrites(put, re)
          /\ re.disk[i] = IF ~active /\ i = Idx(v, k) THEN "1"
                          ELSE IF ~active /\ i = Idx(old, k) THEN Absent ELSE put.disk[i]
          /\ re.changes[i] = IF active /\ i = Idx(v, k) THEN "1"
                             ELSE IF active /\ i = Idx(old, k) THEN Absent ELSE put.changes[i]
    BY <1>3, ReindexItems
  <2> HIDE DEF re
  <2>2. OnlyWrites(put, re)
    BY <1>1, <2>1
  <2>3. OnlyWrites(st, re)
    BY <1>2, <2>2 DEF OnlyWrites
  <2>4. SetDone(st, re, k, old, v)
    BY <1>4, <2>1, <2>3 DEF SetDone
  <2>5. ~UniqueViolation(Put(st, Row(k), v), v, k)
    BY <1>7 DEF put
  <2>6. QED BY <1>5, <1>7, <2>4, <2>5
<1>8. QED BY <1>6, <1>7

LEMMA MoveRowDoes ==
  ASSUME NEW st \in States, NEW k \in Keys, NEW j \in Keys, disk[Row(k)] \in Vals,
         active \in BOOLEAN
  PROVE  \/ MoveRow(j, st, k) = Fail(st)
         \/ /\ MoveDone(st, MoveRow(j, st, k), k, disk[Row(k)], j)
            /\ k = j \/ Current(st, Row(j)) = Absent
<1> DEFINE old == disk[Row(k)]
<1>1. /\ Row(k) \in Items /\ Row(j) \in Items /\ old \in Kept(Row(k)) /\ old \in Kept(Row(j))
      /\ Absent \in Kept(Row(k))
  BY ItemsDiffer, KeptIs DEF RowVals
<1>2. CASE k = j
  <2> DEFINE put == Put(st, Row(k), old)
             re  == Reindex(put, old, k, old, k)
  <2>1. OnlyWrites(st, put)
    BY <1>1, PutOnlyWrites
  <2>2. put \in States
    BY <2>1 DEF OnlyWrites
  <2>3. \A i \in Items :
          /\ put.disk[i] = IF ~active /\ i = Row(k) THEN old ELSE st.disk[i]
          /\ put.changes[i] = IF active /\ i = Row(k) THEN old ELSE st.changes[i]
    BY <1>1, PutItems
  <2>4. MoveRow(j, st, k) = re
    BY <1>2 DEF MoveRow
  <2> HIDE DEF put
  <2>5. \A i \in Items :
          /\ OnlyWrites(put, re)
          /\ re.disk[i] = IF ~active /\ i = Idx(old, k) THEN "1"
                          ELSE IF ~active /\ i = Idx(old, k) THEN Absent ELSE put.disk[i]
          /\ re.changes[i] = IF active /\ i = Idx(old, k) THEN "1"
                             ELSE IF active /\ i = Idx(old, k) THEN Absent ELSE put.changes[i]
    BY <2>2, ReindexItems
  <2> HIDE DEF re
  <2>6. OnlyWrites(put, re)
    BY <1>1, <2>5
  <2>7. OnlyWrites(st, re)
    BY <2>1, <2>6 DEF OnlyWrites
  <2>8. MoveDone(st, re, k, old, j)
    BY <1>2, <2>3, <2>5, <2>7 DEF MoveDone
  <2>9. QED BY <1>2, <2>4, <2>8
<1>3. CASE k # j /\ Current(st, Row(j)) # Absent
  BY <1>3 DEF MoveRow
<1>4. CASE k # j /\ Current(st, Row(j)) = Absent
  <2> DEFINE del == Put(st, Row(k), Absent)
             put == Put(del, Row(j), old)
             re  == Reindex(put, old, k, old, j)
  <2>1. OnlyWrites(st, del)
    BY <1>1, PutOnlyWrites
  <2>2. del \in States
    BY <2>1 DEF OnlyWrites
  <2>3. \A i \in Items :
          /\ del.disk[i] = IF ~active /\ i = Row(k) THEN Absent ELSE st.disk[i]
          /\ del.changes[i] = IF active /\ i = Row(k) THEN Absent ELSE st.changes[i]
    BY <1>1, PutItems
  <2>4. MoveRow(j, st, k) = re
    BY <1>4 DEF MoveRow, Delete
  <2> HIDE DEF del
  <2>5. OnlyWrites(del, put)
    BY <1>1, <2>2, PutOnlyWrites
  <2>6. put \in States
    BY <2>5 DEF OnlyWrites
  <2>7. \A i \in Items :
          /\ put.disk[i] = IF ~active /\ i = Row(j) THEN old ELSE del.disk[i]
          /\ put.changes[i] = IF active /\ i = Row(j) THEN old ELSE del.changes[i]
    BY <1>1, <2>2, PutItems
  <2> HIDE DEF put
  <2>8. \A i \in Items :
          /\ OnlyWrites(put, re)
          /\ re.disk[i] = IF ~active /\ i = Idx(old, j) THEN "1"
                          ELSE IF ~active /\ i = Idx(old, k) THEN Absent ELSE put.disk[i]
          /\ re.changes[i] = IF active /\ i = Idx(old, j) THEN "1"
                             ELSE IF active /\ i = Idx(old, k) THEN Absent ELSE put.changes[i]
    BY <2>6, ReindexItems
  <2> HIDE DEF re
  <2>9. OnlyWrites(put, re)
    BY <1>1, <2>8
  <2>10. OnlyWrites(st, re)
    BY <2>1, <2>5, <2>9 DEF OnlyWrites
  <2>11. MoveDone(st, re, k, old, j)
    BY <2>3, <2>7, <2>8, <2>10 DEF MoveDone
  <2>12. QED BY <1>4, <2>4, <2>11
<1>5. QED BY <1>2, <1>3, <1>4

LEMMA DeleteRowDoes ==
  ASSUME NEW st \in States, NEW k \in Keys, disk[Row(k)] \in Vals, active \in BOOLEAN
  PROVE  DeleteDone(st, DeleteRow(st, k), k, disk[Row(k)])
<1> DEFINE old == disk[Row(k)]
           del == Put(st, Row(k), Absent)
           re  == Put(del, Idx(old, k), Absent)
<1>1. /\ Row(k) \in Items /\ Absent \in Kept(Row(k))
      /\ Idx(old, k) \in Items /\ Absent \in Kept(Idx(old, k))
  BY ItemsDiffer, KeptIs DEF RowVals, Marks
<1>2. OnlyWrites(st, del)
  BY <1>1, PutOnlyWrites
<1>3. del \in States
  BY <1>2 DEF OnlyWrites
<1>4. \A i \in Items :
        /\ del.disk[i] = IF ~active /\ i = Row(k) THEN Absent ELSE st.disk[i]
        /\ del.changes[i] = IF active /\ i = Row(k) THEN Absent ELSE st.changes[i]
  BY <1>1, PutItems
<1>5. DeleteRow(st, k) = re
  BY DEF DeleteRow, Delete
<1> HIDE DEF del
<1>6. OnlyWrites(del, re)
  BY <1>1, <1>3, PutOnlyWrites
<1>7. \A i \in Items :
        /\ re.disk[i] = IF ~active /\ i = Idx(old, k) THEN Absent ELSE del.disk[i]
        /\ re.changes[i] = IF active /\ i = Idx(old, k) THEN Absent ELSE del.changes[i]
  BY <1>1, <1>3, PutItems
<1> HIDE DEF re
<1>8. OnlyWrites(st, re)
  BY <1>2, <1>6 DEF OnlyWrites
<1>9. DeleteDone(st, re, k, old)
  BY <1>4, <1>7, <1>8 DEF DeleteDone
<1>10. QED BY <1>5, <1>9

-----------------------------------------------------------------------------
(* A loop over rows.                                                       *)

Ops == [does : {"SET"}, to : Vals] \cup [does : {"MOVE"}, to : Keys] \cup [does : {"DELETE"}]

\* What OneRow may do to any of its states.
Stays(st, st2) ==
  /\ st2 \in States
  /\ active  => st2.disk = st.disk
  /\ ~active => st2.changes = st.changes
  /\ st2.disk[NextId] = st.disk[NextId] /\ st2.changes[NextId] = st.changes[NextId]

LEMMA OneRowStays ==
  ASSUME NEW st \in States, NEW k \in Keys, NEW op \in Ops, disk[Row(k)] \in Vals,
         active \in BOOLEAN
  PROVE  Stays(st, OneRow(op, st, k))
<1>0. /\ NextId \in Items /\ \A j \in Keys : Row(j) # NextId
      /\ \A j \in Keys, v \in Vals : Idx(v, j) # NextId
  BY ItemsDiffer
<1>1. CASE op.does = "SET" /\ op.to \in Vals
  <2>1. OneRow(op, st, k) = SetRow(op.to, st, k)
    BY <1>1 DEF OneRow
  <2>2. CASE SetFailed(st, SetRow(op.to, st, k), k, op.to)
    BY <1>0, <2>1, <2>2 DEF SetFailed, Stays
  <2>3. CASE SetDone(st, SetRow(op.to, st, k), k, disk[Row(k)], op.to)
    BY <1>0, <1>1, <2>1, <2>3 DEF SetDone, OnlyWrites, Stays
  <2>4. QED BY <1>1, <2>2, <2>3, SetRowDoes
<1>2. CASE op.does = "MOVE" /\ op.to \in Keys
  <2>1. OneRow(op, st, k) = MoveRow(op.to, st, k)
    BY <1>2 DEF OneRow
  <2>2. CASE MoveRow(op.to, st, k) = Fail(st)
    BY <2>1, <2>2, FailKeeps DEF Stays
  <2>3. CASE MoveDone(st, MoveRow(op.to, st, k), k, disk[Row(k)], op.to)
    BY <1>0, <1>2, <2>1, <2>3 DEF MoveDone, OnlyWrites, Stays
  <2>4. QED BY <1>2, <2>2, <2>3, MoveRowDoes
<1>3. CASE op.does = "DELETE"
  <2>1. OneRow(op, st, k) = DeleteRow(st, k)
    BY <1>3 DEF OneRow
  <2>2. DeleteDone(st, DeleteRow(st, k), k, disk[Row(k)])
    BY DeleteRowDoes
  <2>3. QED BY <1>0, <2>1, <2>2 DEF DeleteDone, OnlyWrites, Stays
<1>4. QED BY <1>1, <1>2, <1>3 DEF Ops

StepOf(S, op, st, k) == IF k \in S /\ ~st.err THEN OneRow(op, st, k) ELSE st

\* The rows a command selects hold a value.
Selects(S) == S \subseteq Keys /\ \A k \in S : disk[Row(k)] \in Vals

LEMMA StepOfStays ==
  ASSUME NEW S, Selects(S), NEW op \in Ops, NEW st \in States, NEW k, active \in BOOLEAN
  PROVE  Stays(st, StepOf(S, op, st, k))
<1>1. CASE k \in S /\ ~st.err
  <2>1. k \in Keys /\ disk[Row(k)] \in Vals
    BY <1>1 DEF Selects
  <2>2. StepOf(S, op, st, k) = OneRow(op, st, k)
    BY <1>1 DEF StepOf
  <2>3. QED BY <2>1, <2>2, OneRowStays
<1>2. CASE ~ (k \in S /\ ~st.err)
  BY <1>2 DEF StepOf, Stays
<1>3. QED BY <1>1, <1>2

\* f is the loop's course.
Course(S, op, f) ==
  /\ f \in [0 .. N -> States]
  /\ f[0] = Now
  /\ \A k \in 1 .. N : f[k] = StepOf(S, op, f[k - 1], k)

LoopDef(S, op, f) ==
  f = [k \in 0 .. N |->
        IF k = 0 THEN Now
        ELSE IF k \in S /\ ~f[k - 1].err THEN OneRow(op, f[k - 1], k) ELSE f[k - 1]]

LEMMA LoopChosen ==
  ASSUME NEW S, NEW op
  PROVE  Loop(S, op) = (CHOOSE f : LoopDef(S, op, f))[N]
  BY Zenon DEF Loop, LoopDef

LEMMA CourseIsDef ==
  ASSUME NEW S, NEW op, NEW f, Course(S, op, f)
  PROVE  LoopDef(S, op, f)
<1>1. f = [k \in 0 .. N |-> f[k]]
  BY DEF Course
<1>2. \A k \in 0 .. N :
        f[k] = IF k = 0 THEN Now
               ELSE IF k \in S /\ ~f[k - 1].err THEN OneRow(op, f[k - 1], k) ELSE f[k - 1]
  BY KeysAre DEF Course, StepOf
<1>3. QED BY <1>1, <1>2, Zenon DEF LoopDef

LEMMA DefIsCourse ==
  ASSUME NEW S, Selects(S), NEW op \in Ops, Now \in States, active \in BOOLEAN,
         NEW f, LoopDef(S, op, f)
  PROVE  Course(S, op, f)
<1>0. N \in Nat
  BY KeysAre
<1>1. \A k \in 0 .. N : f[k] = IF k = 0 THEN Now ELSE StepOf(S, op, f[k - 1], k)
  BY Zenon DEF LoopDef, StepOf
<1> DEFINE T == {k \in Nat : k <= N => f[k] \in States}
<1>2. 0 \in T
  BY <1>0, <1>1
<1>3. ASSUME NEW k \in Nat, k \in T PROVE k + 1 \in T
  <2>1. SUFFICES ASSUME k + 1 <= N PROVE f[k + 1] \in States
    OBVIOUS
  <2>2. k + 1 \in 0 .. N /\ k + 1 # 0 /\ (k + 1) - 1 = k /\ k <= N
    BY <1>0, <2>1
  <2>3. f[k] \in States
    BY <1>3, <2>2
  <2>4. Stays(f[k], StepOf(S, op, f[k], k + 1))
    BY <2>3, StepOfStays
  <2>5. f[k + 1] = StepOf(S, op, f[k], k + 1)
    BY <1>1, <2>2
  <2>6. QED BY <2>4, <2>5 DEF Stays
<1>4. \A k \in Nat : k \in T
  <2> HIDE DEF T
  <2>1. QED BY <1>2, <1>3, SetInduction
<1>5. \A k \in 0 .. N : f[k] \in States
  BY <1>0, <1>4
<1>6. f \in [0 .. N -> States]
  <2>1. f = [k \in 0 .. N |-> f[k]]
    BY Zenon DEF LoopDef
  <2>2. QED BY <1>5, <2>1
<1>7. f[0] = Now
  BY <1>0, <1>1
<1>8. \A k \in 1 .. N : f[k] = StepOf(S, op, f[k - 1], k)
  BY <1>0, <1>1
<1>9. QED BY <1>6, <1>7, <1>8 DEF Course

\* The function Loop recurses over exists, and Loop is its last value.
LEMMA LoopRuns ==
  ASSUME NEW S, Selects(S), NEW op \in Ops, Now \in States, active \in BOOLEAN
  PROVE  \E f : Course(S, op, f) /\ Loop(S, op) = f[N]
<1> DEFINE F == [p \in (1 .. N) \X States |-> StepOf(S, op, p[2], p[1])]
<1>0. N \in Nat
  BY KeysAre
<1>1. PICK f : RunsOf(F, Now, N, f)
  <2> HIDE DEF F
  <2>1. QED BY <1>0, RunExists
<1>2. f = [k \in 0 .. N |-> IF k = 0 THEN Now ELSE F[<<k, f[k - 1]>>]]
  BY <1>1, Zenon DEF RunsOf
<1>3. \A k \in 0 .. N : f[k] = IF k = 0 THEN Now ELSE F[<<k, f[k - 1]>>]
  BY <1>2, Zenon
<1>4. \A k \in 1 .. N, st \in States : F[<<k, st>>] = StepOf(S, op, st, k)
  OBVIOUS
<1> HIDE DEF F
<1> DEFINE T == {k \in Nat : k <= N => f[k] \in States}
<1>5. 0 \in T
  <2>1. 0 \in 0 .. N
    BY <1>0
  <2>2. QED BY <1>3, <2>1
<1>6. ASSUME NEW k \in Nat, k \in T PROVE k + 1 \in T
  <2>1. SUFFICES ASSUME k + 1 <= N PROVE f[k + 1] \in States
    OBVIOUS
  <2>2. k + 1 \in 1 .. N /\ k + 1 \in 0 .. N /\ k + 1 # 0 /\ (k + 1) - 1 = k /\ k <= N
    BY <1>0, <2>1
  <2>3. f[k] \in States
    BY <1>6, <2>2
  <2>4. f[k + 1] = StepOf(S, op, f[k], k + 1)
    BY <1>3, <1>4, <2>2, <2>3
  <2>5. Stays(f[k], StepOf(S, op, f[k], k + 1))
    BY <2>3, StepOfStays
  <2>6. QED BY <2>4, <2>5 DEF Stays
<1>7. \A k \in Nat : k \in T
  <2> HIDE DEF T
  <2>1. QED BY <1>5, <1>6, SetInduction
<1>8. \A k \in 0 .. N : f[k] \in States
  BY <1>0, <1>7
<1>9. f \in [0 .. N -> States]
  <2>1. f = [k \in 0 .. N |-> f[k]]
    BY <1>2, Zenon
  <2>2. QED BY <1>8, <2>1
<1>10. f[0] = Now
  <2>1. 0 \in 0 .. N
    BY <1>0
  <2>2. QED BY <1>3, <2>1
<1>11. ASSUME NEW k \in 1 .. N PROVE f[k] = StepOf(S, op, f[k - 1], k)
  <2>1. k \in 0 .. N /\ k # 0 /\ k - 1 \in 0 .. N
    BY <1>0
  <2>2. QED BY <1>3, <1>4, <1>8, <2>1
<1>12. Course(S, op, f)
  BY <1>9, <1>10, <1>11 DEF Course
<1>13. LoopDef(S, op, f)
  BY <1>12, CourseIsDef
<1> DEFINE g == CHOOSE h : LoopDef(S, op, h)
<1>14. LoopDef(S, op, g) /\ Loop(S, op) = g[N]
  BY <1>13, LoopChosen
<1> HIDE DEF g
<1>15. Course(S, op, g)
  BY <1>14, DefIsCourse
<1>16. QED BY <1>14, <1>15

\* Types, and what no loop touches.
LEMMA LoopStays ==
  ASSUME NEW S, Selects(S), NEW op \in Ops, Now \in States, active \in BOOLEAN,
         NEW f, Course(S, op, f), NEW k \in Nat, k <= N
  PROVE  Stays(Now, f[k])
<1> DEFINE T == {i \in Nat : i <= N => Stays(Now, f[i])}
<1>0. N \in Nat
  BY KeysAre
<1>1. 0 \in T
  BY DEF Course, Stays
<1>2. ASSUME NEW i \in Nat, i \in T PROVE i + 1 \in T
  <2>1. SUFFICES ASSUME i + 1 <= N PROVE Stays(Now, f[i + 1])
    OBVIOUS
  <2>2. i + 1 \in 1 .. N /\ (i + 1) - 1 = i /\ i <= N
    BY <1>0, <2>1
  <2>3. Stays(Now, f[i])
    BY <1>2, <2>2
  <2>4. f[i] \in States
    BY <2>3 DEF Stays
  <2>5. Stays(f[i], StepOf(S, op, f[i], i + 1))
    BY <2>4, StepOfStays
  <2>6. f[i + 1] = StepOf(S, op, f[i], i + 1)
    BY <2>2 DEF Course
  <2>7. QED BY <2>3, <2>5, <2>6 DEF Stays
<1>3. \A i \in Nat : i \in T
  <2> HIDE DEF T
  <2>1. QED BY <1>1, <1>2, SetInduction
<1>4. QED BY <1>3

-----------------------------------------------------------------------------
(* Rows and index agree after every row of a loop outside a transaction.   *)

\* The index lists the rows, ...
Listed(s) == \A k \in Keys, v \in Vals : s[Idx(v, k)] # Absent <=> s[Row(k)] = v
\* ... a table that is not there has neither, ...
Whole(s) == s[NextId] = Absent => \A i \in Items : s[i] = Absent
\* ... and no two rows have the same value.
Distinct(s) == \A j, k \in Keys : s[Row(j)] # Absent /\ s[Row(j)] = s[Row(k)] => j = k

Good(s) == Listed(s) /\ Whole(s) /\ Distinct(s)

\* The other rows are as they were.
OthersStay(st, st2, k) ==
  \A j \in Keys \ {k} : st.disk[Row(j)] # Absent => st2.disk[Row(j)] = st.disk[Row(j)]

LEMMA SetKeepsGood ==
  ASSUME NEW st \in States, NEW k \in Keys, NEW v \in Vals, NEW r, active = FALSE,
         Good(st.disk), st.disk[NextId] # Absent, st.disk[Row(k)] \in Vals,
         SetDone(st, r, k, st.disk[Row(k)], v),
         ~UniqueViolation(Put(st, Row(k), v), v, k)
  PROVE  Good(r.disk) /\ OthersStay(st, r, k)
<1> DEFINE old == st.disk[Row(k)]
<1>1. ASSUME NEW j \in Keys PROVE r.disk[Row(j)] = IF j = k THEN v ELSE st.disk[Row(j)]
  <2>1. Row(j) \in Items /\ Row(j) # Idx(v, k) /\ Row(j) # Idx(old, k)
        /\ (Row(j) = Row(k) <=> j = k)
    BY ItemsDiffer
  <2>2. QED BY <2>1 DEF SetDone
<1>2. ASSUME NEW j \in Keys, NEW u \in Vals
      PROVE  r.disk[Idx(u, j)] = IF j = k /\ u = v THEN "1"
                                 ELSE IF j = k /\ u = old THEN Absent ELSE st.disk[Idx(u, j)]
  <2>1. /\ Idx(u, j) \in Items /\ Idx(u, j) # Row(k)
        /\ Idx(u, j) = Idx(v, k) <=> j = k /\ u = v
        /\ Idx(u, j) = Idx(old, k) <=> j = k /\ u = old
    BY ItemsDiffer
  <2>2. QED BY <2>1 DEF SetDone
<1>3. r.disk[NextId] = st.disk[NextId]
  BY ItemsDiffer DEF SetDone
<1>4. Listed(r.disk)
  BY <1>1, <1>2, KeysAre DEF Good, Listed
<1>5. Whole(r.disk)
  BY <1>3 DEF Whole
<1>6. ASSUME NEW j \in Keys, j # k PROVE st.disk[Row(j)] # v
  <2>1. Row(k) \in Items /\ v \in Kept(Row(k)) /\ Idx(v, j) \in Items /\ Idx(v, j) # Row(k)
    BY ItemsDiffer, KeptIs DEF RowVals
  <2>2. Put(st, Row(k), v).disk[Idx(v, j)] = st.disk[Idx(v, j)]
    <3>1. active \in BOOLEAN
      OBVIOUS
    <3>2. Put(st, Row(k), v).disk[Idx(v, j)] =
            IF ~active /\ Idx(v, j) = Row(k) THEN v ELSE st.disk[Idx(v, j)]
      BY <2>1, <3>1, PutItems
    <3>3. QED BY <2>1, <3>2
  <2>3. st.disk[Idx(v, j)] = Absent
    BY <1>6, <2>2 DEF UniqueViolation
  <2>4. QED BY <2>3 DEF Good, Listed
<1>7. Distinct(r.disk)
  BY <1>1, <1>6 DEF Good, Distinct
<1>8. OthersStay(st, r, k)
  BY <1>1 DEF OthersStay
<1>9. QED BY <1>4, <1>5, <1>7, <1>8 DEF Good

LEMMA MoveKeepsGood ==
  ASSUME NEW st \in States, NEW k \in Keys, NEW j \in Keys, NEW r, active = FALSE,
         Good(st.disk), st.disk[NextId] # Absent, st.disk[Row(k)] \in Vals,
         MoveDone(st, r, k, st.disk[Row(k)], j),
         k = j \/ st.disk[Row(j)] = Absent
  PROVE  Good(r.disk) /\ OthersStay(st, r, k)
<1> DEFINE old == st.disk[Row(k)]
<1>1. ASSUME NEW h \in Keys
      PROVE  r.disk[Row(h)] = IF h = j THEN old ELSE IF h = k THEN Absent ELSE st.disk[Row(h)]
  <2>1. Row(h) \in Items /\ Row(h) # Idx(old, j) /\ Row(h) # Idx(old, k)
        /\ (Row(h) = Row(k) <=> h = k) /\ (Row(h) = Row(j) <=> h = j)
    BY ItemsDiffer
  <2>2. QED BY <2>1 DEF MoveDone
<1>2. ASSUME NEW h \in Keys, NEW u \in Vals
      PROVE  r.disk[Idx(u, h)] = IF h = j /\ u = old THEN "1"
                                 ELSE IF h = k /\ u = old THEN Absent ELSE st.disk[Idx(u, h)]
  <2>1. /\ Idx(u, h) \in Items /\ Idx(u, h) # Row(k) /\ Idx(u, h) # Row(j)
        /\ Idx(u, h) = Idx(old, j) <=> h = j /\ u = old
        /\ Idx(u, h) = Idx(old, k) <=> h = k /\ u = old
    BY ItemsDiffer
  <2>2. QED BY <2>1 DEF MoveDone
<1>3. r.disk[NextId] = st.disk[NextId]
  BY ItemsDiffer DEF MoveDone
<1>4. ASSUME NEW h \in Keys, NEW u \in Vals PROVE r.disk[Idx(u, h)] # Absent <=> r.disk[Row(h)] = u
  <2>1. /\ st.disk[Idx(u, h)] # Absent <=> st.disk[Row(h)] = u
        /\ st.disk[Idx(u, k)] # Absent <=> st.disk[Row(k)] = u
    BY DEF Good, Listed
  <2>2. "1" # Absent /\ u # Absent /\ old # Absent
    BY KeysAre
  <2>3. QED BY <1>1, <1>2, <2>1, <2>2
<1>5. Listed(r.disk)
  BY <1>4 DEF Listed
<1>6. Whole(r.disk)
  BY <1>3 DEF Whole
<1>7. Distinct(r.disk)
  <2>1. ASSUME NEW h \in Keys, h # j, r.disk[Row(h)] # Absent
        PROVE  r.disk[Row(h)] = st.disk[Row(h)] /\ r.disk[Row(h)] # old
    <3>1. h # k /\ r.disk[Row(h)] = st.disk[Row(h)]
      BY <1>1, <2>1
    <3>2. QED BY <2>1, <3>1 DEF Good, Distinct
  <2>2. r.disk[Row(j)] = old
    BY <1>1
  <2>3. ASSUME NEW h \in Keys, NEW i \in Keys, r.disk[Row(h)] # Absent,
               r.disk[Row(h)] = r.disk[Row(i)], h # j, i # j
        PROVE  h = i
    <3>1. r.disk[Row(h)] = st.disk[Row(h)] /\ r.disk[Row(i)] = st.disk[Row(i)]
      BY <2>1, <2>3
    <3>2. QED BY <2>3, <3>1 DEF Good, Distinct
  <2>4. QED BY <2>1, <2>2, <2>3 DEF Distinct
<1>8. OthersStay(st, r, k)
  BY <1>1 DEF OthersStay
<1>9. QED BY <1>5, <1>6, <1>7, <1>8 DEF Good

LEMMA DeleteKeepsGood ==
  ASSUME NEW st \in States, NEW k \in Keys, NEW r, active = FALSE,
         Good(st.disk), st.disk[NextId] # Absent, st.disk[Row(k)] \in Vals,
         DeleteDone(st, r, k, st.disk[Row(k)])
  PROVE  Good(r.disk) /\ OthersStay(st, r, k)
<1> DEFINE old == st.disk[Row(k)]
<1>1. ASSUME NEW h \in Keys PROVE r.disk[Row(h)] = IF h = k THEN Absent ELSE st.disk[Row(h)]
  <2>1. Row(h) \in Items /\ Row(h) # Idx(old, k) /\ (Row(h) = Row(k) <=> h = k)
    BY ItemsDiffer
  <2>2. QED BY <2>1 DEF DeleteDone
<1>2. ASSUME NEW h \in Keys, NEW u \in Vals
      PROVE  r.disk[Idx(u, h)] = IF h = k /\ u = old THEN Absent ELSE st.disk[Idx(u, h)]
  <2>1. /\ Idx(u, h) \in Items /\ Idx(u, h) # Row(k)
        /\ Idx(u, h) = Idx(old, k) <=> h = k /\ u = old
    BY ItemsDiffer
  <2>2. QED BY <2>1 DEF DeleteDone
<1>3. r.disk[NextId] = st.disk[NextId]
  BY ItemsDiffer DEF DeleteDone
<1>4. Listed(r.disk)
  BY <1>1, <1>2, KeysAre DEF Good, Listed
<1>5. Whole(r.disk)
  BY <1>3 DEF Whole
<1>6. Distinct(r.disk)
  BY <1>1 DEF Good, Distinct
<1>7. OthersStay(st, r, k)
  BY <1>1 DEF OthersStay
<1>8. QED BY <1>4, <1>5, <1>6, <1>7 DEF Good

LEMMA OneRowKeepsGood ==
  ASSUME NEW st \in States, NEW k \in Keys, NEW op \in Ops, active = FALSE,
         st.changes = NoChanges,
         Good(st.disk), st.disk[NextId] # Absent, st.disk[Row(k)] = disk[Row(k)],
         disk[Row(k)] \in Vals, ~OneRow(op, st, k).err
  PROVE  Good(OneRow(op, st, k).disk) /\ OthersStay(st, OneRow(op, st, k), k)
<1>1. CASE op.does = "SET" /\ op.to \in Vals
  <2>1. OneRow(op, st, k) = SetRow(op.to, st, k)
    BY <1>1 DEF OneRow
  <2>2. ~SetFailed(st, SetRow(op.to, st, k), k, op.to)
    BY <2>1 DEF SetFailed
  <2>3. /\ SetDone(st, SetRow(op.to, st, k), k, disk[Row(k)], op.to)
        /\ ~UniqueViolation(Put(st, Row(k), op.to), op.to, k)
    BY <1>1, <2>2, SetRowDoes
  <2>4. QED BY <1>1, <2>1, <2>3, SetKeepsGood
<1>2. CASE op.does = "MOVE" /\ op.to \in Keys
  <2>1. OneRow(op, st, k) = MoveRow(op.to, st, k)
    BY <1>2 DEF OneRow
  <2>2. MoveRow(op.to, st, k) # Fail(st)
    BY <2>1, FailKeeps
  <2>3. /\ MoveDone(st, MoveRow(op.to, st, k), k, disk[Row(k)], op.to)
        /\ k = op.to \/ Current(st, Row(op.to)) = Absent
    BY <1>2, <2>2, MoveRowDoes
  <2>4. Row(op.to) \in Items
    BY <1>2, ItemsDiffer
  <2>5. Current(st, Row(op.to)) = st.disk[Row(op.to)]
    BY <2>4 DEF Current, NoChanges
  <2>6. QED BY <1>2, <2>1, <2>3, <2>5, MoveKeepsGood
<1>3. CASE op.does = "DELETE"
  <2>1. OneRow(op, st, k) = DeleteRow(st, k)
    BY <1>3 DEF OneRow
  <2>2. DeleteDone(st, DeleteRow(st, k), k, disk[Row(k)])
    BY DeleteRowDoes
  <2>3. QED BY <2>1, <2>2, DeleteKeepsGood
<1>4. QED BY <1>1, <1>2, <1>3 DEF Ops

\* A loop that ends well, or that wrote nothing, leaves rows and index in agreement.
LEMMA LoopKeepsGood ==
  ASSUME NEW S, Selects(S), NEW op \in Ops, Now \in States, active = FALSE,
         changes = NoChanges, Good(disk), disk[NextId] # Absent
  PROVE  ~Loop(S, op).err => Good(Loop(S, op).disk)
<1>0. N \in Nat /\ Keys = 1 .. N /\ S \subseteq Keys
  BY KeysAre DEF Keys, Selects
<1>1. PICK f : Course(S, op, f) /\ Loop(S, op) = f[N]
  BY LoopRuns
<1> DEFINE T == {k \in Nat : k <= N /\ ~f[k].err =>
                   /\ Good(f[k].disk)
                   /\ \A j \in S : j > k => f[k].disk[Row(j)] = disk[Row(j)]}
<1>2. 0 \in T
  BY <1>1 DEF Course, Now
<1>3. ASSUME NEW k \in Nat, k \in T PROVE k + 1 \in T
  <2>1. SUFFICES ASSUME k + 1 <= N, ~f[k + 1].err
                 PROVE  /\ Good(f[k + 1].disk)
                        /\ \A j \in S : j > k + 1 => f[k + 1].disk[Row(j)] = disk[Row(j)]
    OBVIOUS
  <2>2. k + 1 \in 1 .. N /\ (k + 1) - 1 = k /\ k <= N
    BY <1>0, <2>1
  <2>3. f[k + 1] = StepOf(S, op, f[k], k + 1)
    BY <1>1, <2>2 DEF Course
  <2>4. Stays(Now, f[k])
    BY <1>1, <2>2, LoopStays
  <2>5. /\ f[k] \in States /\ f[k].changes = NoChanges
        /\ f[k].disk[NextId] # Absent
    BY <2>4 DEF Stays, Now
  <2>6. ~f[k].err
    BY <2>1, <2>3 DEF StepOf
  <2>7. /\ Good(f[k].disk)
        /\ \A j \in S : j > k => f[k].disk[Row(j)] = disk[Row(j)]
    BY <1>3, <2>2, <2>6
  <2>8. CASE k + 1 \in S
    <3>1. f[k + 1] = OneRow(op, f[k], k + 1)
      BY <2>3, <2>6, <2>8 DEF StepOf
    <3>2. disk[Row(k + 1)] \in Vals /\ k + 1 \in Keys
      BY <1>0, <2>8 DEF Selects
    <3>3. f[k].disk[Row(k + 1)] = disk[Row(k + 1)]
      BY <2>7, <2>8
    <3>4. ~OneRow(op, f[k], k + 1).err
      BY <2>1, <3>1
    <3>5. Good(f[k + 1].disk) /\ OthersStay(f[k], f[k + 1], k + 1)
      BY <2>5, <2>7, <3>1, <3>2, <3>3, <3>4, OneRowKeepsGood
    <3>6. ASSUME NEW j \in S, j > k + 1 PROVE f[k + 1].disk[Row(j)] = disk[Row(j)]
      <4>1. j \in Keys \ {k + 1} /\ j > k /\ disk[Row(j)] \in Vals
        BY <1>0, <3>6 DEF Selects
      <4>2. f[k].disk[Row(j)] = disk[Row(j)] /\ f[k].disk[Row(j)] # Absent
        BY <2>7, <4>1, KeysAre
      <4>3. QED BY <3>5, <4>1, <4>2 DEF OthersStay
    <3>7. QED BY <3>5, <3>6
  <2>9. CASE k + 1 \notin S
    <3>1. f[k + 1] = f[k]
      BY <2>3, <2>9 DEF StepOf
    <3>2. ASSUME NEW j \in S, j > k + 1 PROVE j > k
      BY <1>0, <3>2
    <3>3. QED BY <2>7, <3>1, <3>2
  <2>10. QED BY <2>8, <2>9
<1>4. \A k \in Nat : k \in T
  <2> HIDE DEF T
  <2>1. QED BY <1>2, <1>3, SetInduction
<1>5. N \in T
  BY <1>0, <1>4
<1>6. QED BY <1>0, <1>1, <1>5

-----------------------------------------------------------------------------
(* The invariant: types, and the agreement of rows and index.              *)

Types ==
  /\ pk \in BOOLEAN /\ active \in BOOLEAN /\ disk \in Disks /\ changes \in Overlays
  /\ batch \subseteq Keys \X Vals \X Vals
  /\ waived \subseteq {"index", "keys"} /\ cmds \in 0 .. MaxCmds
  /\ ~active => changes = NoChanges

\* In LevelDB and as the transaction sees it.
Agree ==
  "index" \notin waived =>
    Good(disk) /\ Good(Seen(disk, changes)) /\ batch = {}

\* A state whose store and view are in agreement.
Fine(st) == Good(st.disk) /\ Good(Seen(st.disk, st.changes))

LEMMA NowIs ==
  ASSUME Types
  PROVE  /\ Now \in States /\ Now.disk = disk /\ Now.changes = changes /\ Now.err = FALSE
         /\ \A i \in Items : Current(Now, i) = Seen(disk, changes)[i]
BY DEF Types, Now, States, Current, Seen

\* Adding a row with its entry.
LEMMA GoodAdd ==
  ASSUME NEW s, NEW s2, NEW k \in Keys, NEW v \in Vals, Good(s), s[NextId] # Absent,
         s[Row(k)] = Absent, \A j \in Keys \ {k} : s[Idx(v, j)] = Absent,
         \A i \in Items : s2[i] = IF i = Idx(v, k) THEN "1" ELSE IF i = Row(k) THEN v ELSE s[i]
  PROVE  Good(s2)
<1>1. ASSUME NEW h \in Keys PROVE s2[Row(h)] = IF h = k THEN v ELSE s[Row(h)]
  <2>1. Row(h) \in Items /\ Row(h) # Idx(v, k) /\ (Row(h) = Row(k) <=> h = k)
    BY ItemsDiffer
  <2>2. QED BY <2>1
<1>2. ASSUME NEW h \in Keys, NEW u \in Vals
      PROVE  s2[Idx(u, h)] = IF h = k /\ u = v THEN "1" ELSE s[Idx(u, h)]
  <2>1. Idx(u, h) \in Items /\ Idx(u, h) # Row(k) /\ (Idx(u, h) = Idx(v, k) <=> h = k /\ u = v)
    BY ItemsDiffer
  <2>2. QED BY <2>1
<1>3. s2[NextId] = s[NextId]
  BY ItemsDiffer
<1>4. ASSUME NEW h \in Keys, NEW u \in Vals PROVE s2[Idx(u, h)] # Absent <=> s2[Row(h)] = u
  <2>1. s[Idx(u, h)] # Absent <=> s[Row(h)] = u
    BY DEF Good, Listed
  <2>2. "1" # Absent /\ u # Absent
    BY KeysAre
  <2>3. QED BY <1>1, <1>2, <2>1, <2>2
<1>5. Distinct(s2)
  <2>1. ASSUME NEW j \in Keys, j # k PROVE s[Row(j)] # v
    BY <2>1 DEF Good, Listed
  <2>2. QED BY <1>1, <2>1 DEF Good, Distinct
<1>6. QED BY <1>3, <1>4, <1>5 DEF Good, Listed, Whole

\* Writing next_id.
LEMMA GoodNextId ==
  ASSUME NEW s, NEW s2, Good(s), s2[NextId] # Absent,
         \A i \in Items : i # NextId => s2[i] = s[i]
  PROVE  Good(s2)
<1>1. /\ \A k \in Keys : s2[Row(k)] = s[Row(k)]
      /\ \A k \in Keys, v \in Vals : s2[Idx(v, k)] = s[Idx(v, k)]
  BY ItemsDiffer
<1>2. QED BY <1>1 DEF Good, Listed, Whole, Distinct

\* A table that is gone.
LEMMA GoodNothing ==
  ASSUME NEW s, \A i \in Items : s[i] = Absent
  PROVE  Good(s)
BY ItemsDiffer, KeysAre DEF Good, Listed, Whole, Distinct

LEMMA SeenPut ==
  ASSUME NEW st \in States, NEW i \in Items, NEW v \in Kept(i), active \in BOOLEAN,
         ~active => st.changes = NoChanges, NEW j \in Items
  PROVE  /\ Seen(Put(st, i, v).disk, Put(st, i, v).changes)[j] =
              IF j = i THEN v ELSE Seen(st.disk, st.changes)[j]
         /\ ~active => Put(st, i, v).changes = NoChanges
         /\ active => Put(st, i, v).disk = st.disk
<1>1. /\ Put(st, i, v).disk[j] = IF ~active /\ j = i THEN v ELSE st.disk[j]
      /\ Put(st, i, v).changes[j] = IF active /\ j = i THEN v ELSE st.changes[j]
  BY PutItems
<1>2. Wrote(st, i, v, Put(st, i, v))
  BY PutWrites
<1>3. v # Untouched
  BY KeptKinds
<1>4. ~active => st.changes[j] = Untouched
  BY DEF NoChanges
<1>5. /\ ~active => Put(st, i, v).changes = NoChanges
      /\ active => Put(st, i, v).disk = st.disk
  BY <1>2 DEF Wrote
<1>6. Seen(Put(st, i, v).disk, Put(st, i, v).changes)[j] =
        IF j = i THEN v ELSE Seen(st.disk, st.changes)[j]
  BY <1>1, <1>3, <1>4 DEF Seen
<1>7. QED BY <1>5, <1>6

\* The state of a command that writes through Put only.
Through(st) == st \in States /\ st.err = FALSE /\ (~active => st.changes = NoChanges)

LEMMA FineAddRow ==
  ASSUME NEW st, Through(st), Fine(st), active \in BOOLEAN, NEW k \in Keys, NEW v \in Vals,
         Current(st, NextId) # Absent, Current(st, Row(k)) = Absent, ~UniqueViolation(st, v, k)
  PROVE  Fine(AddRow(st, k, v))
<1> DEFINE st1 == Put(st, Row(k), v)
           st2 == Put(st1, Idx(v, k), "1")
           s   == Seen(st.disk, st.changes)
           s1  == Seen(st1.disk, st1.changes)
           s2  == Seen(st2.disk, st2.changes)
<1>1. /\ Row(k) \in Items /\ v \in Kept(Row(k))
      /\ Idx(v, k) \in Items /\ "1" \in Kept(Idx(v, k)) /\ NextId \in Items
  BY ItemsDiffer, KeptIs DEF RowVals, Marks
<1>2. st \in States /\ (~active => st.changes = NoChanges)
  BY DEF Through
<1>3. st1 \in States
  BY <1>1, <1>2, PutOnlyWrites DEF OnlyWrites
<1>4. \A i \in Items :
        /\ s1[i] = IF i = Row(k) THEN v ELSE s[i]
        /\ ~active => st1.changes = NoChanges
        /\ active => st1.disk = st.disk
  BY <1>1, <1>2, SeenPut
<1>5. /\ ~active => st1.changes = NoChanges
      /\ active => st1.disk = st.disk
  BY <1>1, <1>4
<1> HIDE DEF st1
<1>6. \A i \in Items :
        /\ s2[i] = IF i = Idx(v, k) THEN "1" ELSE s1[i]
        /\ ~active => st2.changes = NoChanges
        /\ active => st2.disk = st1.disk
  BY <1>1, <1>3, <1>5, SeenPut
<1>7. /\ ~active => st2.changes = NoChanges
      /\ active => st2.disk = st.disk
  BY <1>1, <1>5, <1>6
<1>8. st2 \in States
  BY <1>1, <1>3, PutOnlyWrites DEF OnlyWrites
<1>9. AddRow(st, k, v) = st2
  BY DEF AddRow, st1
<1> HIDE DEF st2
<1>10. s[NextId] # Absent /\ s[Row(k)] = Absent
  BY <1>1 DEF Current, Seen
<1>11. ASSUME NEW j \in Keys \ {k} PROVE s[Idx(v, j)] = Absent
  <2>1. Idx(v, j) \in Items
    BY ItemsDiffer
  <2>2. st.changes[Idx(v, j)] = Untouched /\ st.disk[Idx(v, j)] = Absent
    BY DEF UniqueViolation
  <2>3. QED BY <2>1, <2>2 DEF Seen
<1>12. \A i \in Items : s2[i] = IF i = Idx(v, k) THEN "1" ELSE IF i = Row(k) THEN v ELSE s[i]
  BY <1>4, <1>6
<1>13. Good(s)
  BY DEF Fine
<1> HIDE DEF s, s2, s1
<1>14. Good(s2)
  BY <1>10, <1>11, <1>12, <1>13, GoodAdd
<1>15. Good(st2.disk)
  <2>1. CASE active
    BY <1>7, <2>1 DEF Fine
  <2>2. CASE ~active
    <3>1. s2 = st2.disk
      BY <1>7, <1>8, <2>2, NothingChanged DEF States, s2
    <3>2. QED BY <1>14, <3>1
  <2>3. QED BY <2>1, <2>2
<1>16. QED BY <1>9, <1>14, <1>15 DEF Fine, s2

LEMMA FinePutNextId ==
  ASSUME NEW st, Through(st), Fine(st), active \in BOOLEAN, NEW n \in Numbers
  PROVE  /\ Fine(Put(st, NextId, n)) /\ Through(Put(st, NextId, n))
         /\ Current(Put(st, NextId, n), NextId) # Absent
         /\ \A k \in Keys : Current(Put(st, NextId, n), Row(k)) = Current(st, Row(k))
<1> DEFINE st2 == Put(st, NextId, n)
           s   == Seen(st.disk, st.changes)
           s2  == Seen(st2.disk, st2.changes)
<1>1. NextId \in Items /\ n \in Kept(NextId) /\ n # Absent
  BY ItemsDiffer, KeptIs, KeysAre
<1>2. st \in States /\ (~active => st.changes = NoChanges)
  BY DEF Through
<1>3. OnlyWrites(st, st2)
  BY <1>1, <1>2, PutOnlyWrites
<1>4. \A i \in Items :
        /\ s2[i] = IF i = NextId THEN n ELSE s[i]
        /\ ~active => st2.changes = NoChanges
        /\ active => st2.disk = st.disk
  BY <1>1, <1>2, SeenPut
<1> HIDE DEF st2
<1>5. /\ ~active => st2.changes = NoChanges
      /\ active => st2.disk = st.disk
      /\ st2 \in States
  BY <1>1, <1>3, <1>4 DEF OnlyWrites
<1>6. Good(s)
  BY DEF Fine
<1>7. Good(s2)
  <2> HIDE DEF s, s2
  <2>1. QED BY <1>1, <1>4, <1>6, GoodNextId
<1>8. Good(st2.disk)
  <2>1. CASE active
    BY <1>5, <2>1 DEF Fine
  <2>2. CASE ~active
    <3>1. s2 = st2.disk
      BY <1>5, <2>2, NothingChanged DEF States
    <3>2. QED BY <1>7, <3>1
  <2>3. QED BY <2>1, <2>2
<1>9. \A i \in Items : Current(st2, i) = s2[i] /\ Current(st, i) = s[i]
  BY DEF Current, Seen
<1>10. Through(st2)
  BY <1>3, <1>5 DEF Through, OnlyWrites
<1>11. Current(st2, NextId) # Absent
  BY <1>1, <1>4, <1>9
<1>12. \A k \in Keys : Current(st2, Row(k)) = Current(st, Row(k))
  <2> HIDE DEF s, s2
  <2>1. QED BY <1>4, <1>9, ItemsDiffer
<1>13. QED BY <1>7, <1>8, <1>10, <1>11, <1>12 DEF Fine, st2

-----------------------------------------------------------------------------
(* Every action keeps the invariant.                                       *)

LEMMA MayCounts ==
  ASSUME Types, NEW op, May(op)
  PROVE  cmds' \in 0 .. MaxCmds
BY TablesAssumption DEF Types, May, TablesAssumption

LEMMA BecomesTypes ==
  ASSUME Types, NEW st \in States, ~active => st.changes = NoChanges, Becomes(st),
         cmds' \in 0 .. MaxCmds, waived' \subseteq {"index", "keys"}
  PROVE  Types'
BY DEF Types, Becomes, States

\* A command that keeps rows and index in agreement in LevelDB and in the view.
LEMMA BecomesFine ==
  ASSUME Types, Agree, NEW st, Through(st), Becomes(st), NEW op, May(op),
         waived' \subseteq {"index", "keys"},
         "index" \notin waived' => "index" \notin waived /\ Fine(st)
  PROVE  Types' /\ Agree'
<1>1. Types'
  BY MayCounts, BecomesTypes DEF Through
<1>2. disk' = st.disk /\ changes' = st.changes /\ batch' = batch
  BY DEF Becomes
<1>3. Agree'
  BY <1>2 DEF Agree, Fine
<1>4. QED BY <1>1, <1>3

LEMMA NowFine ==
  ASSUME Types, Agree
  PROVE  Through(Now) /\ ("index" \notin waived => Fine(Now))
BY NowIs DEF Types, Agree, Through, Fine

LEMMA AddRowThrough ==
  ASSUME NEW st, Through(st), active \in BOOLEAN, NEW k \in Keys, NEW v \in Vals
  PROVE  Through(AddRow(st, k, v))
<1> DEFINE st1 == Put(st, Row(k), v)
           st2 == Put(st1, Idx(v, k), "1")
<1>1. /\ Row(k) \in Items /\ v \in Kept(Row(k))
      /\ Idx(v, k) \in Items /\ "1" \in Kept(Idx(v, k))
  BY ItemsDiffer, KeptIs DEF RowVals, Marks
<1>2. OnlyWrites(st, st1)
  BY <1>1, PutOnlyWrites DEF Through
<1> HIDE DEF st1
<1>3. OnlyWrites(st1, st2)
  BY <1>1, <1>2, PutOnlyWrites DEF OnlyWrites
<1>4. AddRow(st, k, v) = st2
  BY DEF AddRow, st1
<1> HIDE DEF st2
<1>5. QED BY <1>2, <1>3, <1>4 DEF OnlyWrites, Through

LEMMA InsertKeyKeeps ==
  ASSUME Types, Agree, NEW k \in Keys, NEW v \in Vals, InsertKey(k, v)
  PROVE  Types' /\ Agree'
<1>1. /\ May("INSERT_KEY") /\ Current(Now, NextId) # Absent /\ Current(Now, Row(k)) = Absent
      /\ ~UniqueViolation(Now, v, k) /\ Becomes(AddRow(Now, k, v)) /\ waived' = waived
  BY DEF InsertKey
<1>2. Through(Now) /\ ("index" \notin waived => Fine(Now)) /\ active \in BOOLEAN
  BY NowFine DEF Types
<1>3. Through(AddRow(Now, k, v))
  BY <1>2, AddRowThrough
<1>4. "index" \notin waived => Fine(AddRow(Now, k, v))
  BY <1>1, <1>2, FineAddRow
<1>5. QED BY <1>1, <1>3, <1>4, BecomesFine DEF Types

LEMMA InsertAutoKeeps ==
  ASSUME Types, Agree, NEW v \in Vals, InsertAuto(v)
  PROVE  Types' /\ Agree'
<1> DEFINE k   == Current(Now, NextId)
           st  == TakeKey(Now, k)
           st2 == IF UniqueViolation(st, v, k) THEN st ELSE AddRow(st, k, v)
<1>1. /\ May("INSERT_AUTO") /\ k \in Keys /\ Becomes(st2)
      /\ Waives("index", Current(Now, Row(k)) # Absent)
  BY DEF InsertAuto
<1>2. Through(Now) /\ ("index" \notin waived => Fine(Now)) /\ active \in BOOLEAN
  BY NowFine DEF Types
<1>3. k + 1 \in Numbers /\ st = Put(Now, NextId, k + 1)
  BY <1>1, KeysAre DEF TakeKey
<1> HIDE DEF k
<1>4. Through(st)
  <2>1. NextId \in Items /\ k + 1 \in Kept(NextId) /\ Now \in States
    BY <1>2, <1>3, ItemsDiffer, KeptIs DEF Through
  <2>2. OnlyWrites(Now, Put(Now, NextId, k + 1))
    BY <1>2, <2>1, PutOnlyWrites
  <2>3. QED BY <1>2, <1>3, <2>2 DEF OnlyWrites, Through
<1>5. ASSUME "index" \notin waived
      PROVE  /\ Fine(st) /\ Current(st, NextId) # Absent
             /\ Current(st, Row(k)) = Current(Now, Row(k))
  <2>1. Fine(Now)
    BY <1>2, <1>5
  <2>2. /\ Fine(Put(Now, NextId, k + 1))
        /\ Current(Put(Now, NextId, k + 1), NextId) # Absent
        /\ \A h \in Keys : Current(Put(Now, NextId, k + 1), Row(h)) = Current(Now, Row(h))
    BY <1>2, <1>3, <2>1, FinePutNextId
  <2>3. QED BY <1>1, <1>3, <2>2
<1> HIDE DEF st
<1>6. Through(st2)
  BY <1>1, <1>2, <1>4, AddRowThrough
<1>7. waived' \subseteq {"index", "keys"}
  BY <1>1 DEF Waives, Types
<1>8. ASSUME "index" \notin waived' PROVE "index" \notin waived /\ Fine(st2)
  <2>1. "index" \notin waived /\ Current(Now, Row(k)) = Absent
    BY <1>1, <1>8 DEF Waives
  <2>2. /\ Fine(st) /\ Current(st, NextId) # Absent /\ Current(st, Row(k)) = Absent
    BY <1>5, <2>1
  <2>3. CASE UniqueViolation(st, v, k)
    BY <2>1, <2>2, <2>3
  <2>4. CASE ~UniqueViolation(st, v, k)
    BY <1>1, <1>2, <1>4, <2>1, <2>2, <2>4, FineAddRow
  <2>5. QED BY <2>3, <2>4
<1> HIDE DEF st2
<1>9. QED BY <1>1, <1>6, <1>7, <1>8, BecomesFine

\* UPDATE, UPDATE of the key, DELETE.
LEMMA LoopKeeps ==
  ASSUME Types, Agree, NEW op \in Ops, NEW S, S \subseteq Scan, disk[NextId] # Absent,
         NEW name, May(name), Rewrites(Loop(S, op))
  PROVE  Types' /\ Agree'
<1>1. Selects(S)
  <2>1. \A k \in Keys : disk[Row(k)] \in RowVals
    BY DiskFields DEF Types
  <2>2. QED BY <2>1 DEF Selects, Scan, RowVals
<1>2. Now \in States /\ active \in BOOLEAN /\ N \in Nat
  BY NowIs, KeysAre DEF Types
<1>3. PICK f : Course(S, op, f) /\ Loop(S, op) = f[N]
  BY <1>1, <1>2, LoopRuns
<1>4. Stays(Now, Loop(S, op))
  BY <1>1, <1>2, <1>3, LoopStays
<1> DEFINE st == Loop(S, op)
<1>5. /\ Becomes(st) /\ Waives("index", active \/ (st.err /\ st.disk # disk))
  BY DEF Rewrites
<1>6. ~active => st.changes = NoChanges
  BY <1>4 DEF Stays, Now, Types
<1>7. Types'
  <2>1. st \in States
    BY <1>4 DEF Stays
  <2>2. waived' \subseteq {"index", "keys"}
    BY <1>5 DEF Waives, Types
  <2> HIDE DEF st
  <2>3. QED BY <1>5, <1>6, <2>1, <2>2, MayCounts, BecomesTypes
<1>8. ASSUME "index" \notin waived'
      PROVE  Good(disk') /\ Good(Seen(disk', changes')) /\ batch' = {}
  <2>1. /\ "index" \notin waived /\ active = FALSE /\ (st.err => st.disk = disk)
    BY <1>2, <1>5, <1>8 DEF Waives
  <2>2. Good(disk) /\ batch = {} /\ changes = NoChanges
    BY <2>1 DEF Agree, Types
  <2>3. ~st.err => Good(st.disk)
    BY <1>1, <1>2, <2>1, <2>2, LoopKeepsGood
  <2>4. Good(st.disk)
    BY <2>1, <2>2, <2>3
  <2>5. disk' = st.disk /\ changes' = NoChanges /\ batch' = {} /\ st.disk \in Disks
    BY <1>4, <1>5, <1>6, <2>1, <2>2 DEF Becomes, Stays, States
  <2>6. Seen(disk', changes') = disk'
    BY <2>5, NothingChanged
  <2>7. QED BY <2>4, <2>5, <2>6
<1>9. QED BY <1>7, <1>8 DEF Agree

LEMMA UpdateKeeps ==
  ASSUME Types, Agree, NEW w, NEW v \in Vals, Update(w, v)
  PROVE  Types' /\ Agree'
<1>1. [does |-> "SET", to |-> v] \in Ops /\ Matches(w) \subseteq Scan
  BY DEF Ops, Matches
<1>2. QED BY <1>1, LoopKeeps DEF Update

LEMMA UpdateKeyKeeps ==
  ASSUME Types, Agree, NEW w, NEW j \in Keys, UpdateKey(w, j)
  PROVE  Types' /\ Agree'
<1>1. [does |-> "MOVE", to |-> j] \in Ops /\ Matches(w) \subseteq Scan
  BY DEF Ops, Matches
<1>2. QED BY <1>1, LoopKeeps DEF UpdateKey

LEMMA DeleteRowsKeeps ==
  ASSUME Types, Agree, NEW w, DeleteRows(w)
  PROVE  Types' /\ Agree'
<1>1. [does |-> "DELETE"] \in Ops /\ Matches(w) \subseteq Scan
  BY DEF Ops, Matches
<1>2. QED BY <1>1, LoopKeeps DEF DeleteRows

LEMMA DropTableKeeps ==
  ASSUME Types, Agree, DropTable
  PROVE  Types' /\ Agree'
<1> DEFINE c  == Dropped(changes)
           d  == Dropped(disk)
           st == IF active THEN [Now EXCEPT !.changes = c] ELSE [Now EXCEPT !.disk = d]
<1>1. May("DROP") /\ Becomes(st) /\ Waives("index", active \/ (st.err /\ st.disk # disk))
  BY DEF DropTable, Rewrites
<1>2. c \in Overlays
  BY KeptKinds DEF Dropped, Types, Overlays
<1>3. d \in Disks /\ \A i \in Items : d[i] = Absent
  BY KeptKinds DEF Dropped, Types, Disks
<1> HIDE DEF c, d
<1>4. /\ st \in States /\ st.err = FALSE
      /\ active  => st.disk = disk
      /\ ~active => st.disk = d /\ st.changes = changes
  BY <1>2, <1>3, NowIs DEF States
<1> HIDE DEF st
<1>5. Through(st)
  BY <1>4 DEF Through, Types
<1>6. waived' \subseteq {"index", "keys"}
  BY <1>1 DEF Waives, Types
<1>7. ASSUME "index" \notin waived' PROVE "index" \notin waived /\ Fine(st)
  <2>1. "index" \notin waived /\ ~active
    BY <1>1, <1>7 DEF Waives
  <2>2. st.disk = d /\ st.changes = NoChanges /\ Good(d)
    BY <1>3, <1>4, <2>1, GoodNothing DEF Types
  <2>3. QED BY <1>3, <2>1, <2>2, NothingChanged DEF Fine
<1>8. QED BY <1>1, <1>5, <1>6, <1>7, BecomesFine

LEMMA CreateTableKeeps ==
  ASSUME Types, Agree, CreateTable
  PROVE  Types' /\ Agree'
<1>1. May("CREATE") /\ Becomes(Put(Now, NextId, 1)) /\ waived' = waived
  BY DEF CreateTable
<1>2. Through(Now) /\ ("index" \notin waived => Fine(Now)) /\ active \in BOOLEAN
  BY NowFine DEF Types
<1>3. 1 \in Numbers
  BY KeysAre DEF Numbers
<1>4. Through(Put(Now, NextId, 1))
  <2>1. NextId \in Items /\ 1 \in Kept(NextId) /\ Now \in States
    BY <1>2, <1>3, ItemsDiffer, KeptIs DEF Through
  <2>2. OnlyWrites(Now, Put(Now, NextId, 1))
    BY <1>2, <2>1, PutOnlyWrites
  <2>3. QED BY <1>2, <2>2 DEF OnlyWrites, Through
<1>5. "index" \notin waived => Fine(Put(Now, NextId, 1))
  BY <1>2, <1>3, FinePutNextId
<1>6. QED BY <1>1, <1>4, <1>5, BecomesFine DEF Types

LEMMA SetNextIdKeeps ==
  ASSUME Types, Agree, NEW n \in Keys, SetNextId(n)
  PROVE  Types' /\ Agree'
<1> DEFINE d  == [disk EXCEPT ![NextId] = n]
           st == [Now EXCEPT !.disk = d]
<1>1. /\ May("SET_TABLE") /\ Current(Now, NextId) # Absent
      /\ Becomes([Now EXCEPT !.disk[NextId] = n]) /\ Waives("keys", n < Current(Now, NextId))
  BY DEF SetNextId
<1>2. NextId \in Items /\ n \in Kept(NextId) /\ n # Absent
  BY ItemsDiffer, KeptIs, KeysAre
<1>3. d \in Disks /\ \A i \in Items : d[i] = IF i = NextId THEN n ELSE disk[i]
  BY <1>2, DiskPut DEF Types, Disks
<1>4. [Now EXCEPT !.disk[NextId] = n] = st
  BY DEF Now
<1> HIDE DEF d
<1>5. st \in States /\ st.disk = d /\ st.changes = changes /\ st.err = FALSE
  BY <1>3, NowIs DEF States
<1> HIDE DEF st
<1>6. Through(st)
  BY <1>5 DEF Through, Types
<1>7. waived' \subseteq {"index", "keys"}
  BY <1>1 DEF Waives, Types
<1>8. ASSUME "index" \notin waived' PROVE "index" \notin waived /\ Fine(st)
  <2>1. "index" \notin waived
    BY <1>1, <1>8 DEF Waives
  <2>2. Good(disk) /\ Good(Seen(disk, changes))
    BY <2>1 DEF Agree
  <2>3. Good(d)
    BY <1>2, <1>3, <2>2, GoodNextId
  <2>4. /\ \A i \in Items : i # NextId => Seen(d, changes)[i] = Seen(disk, changes)[i]
        /\ Seen(d, changes)[NextId] # Absent
    BY <1>1, <1>2, <1>3, NowIs DEF Seen
  <2>5. Good(Seen(d, changes))
    BY <2>2, <2>4, GoodNextId
  <2>6. QED BY <1>5, <2>1, <2>3, <2>5 DEF Fine
<1>9. QED BY <1>1, <1>4, <1>6, <1>7, <1>8, BecomesFine

LEMMA BatchRowsKeeps ==
  ASSUME Types, Agree, NEW S \in SUBSET Keys, NEW v \in Vals, BatchRows(S, v)
  PROVE  Types' /\ Agree'
<1> DEFINE b == {<<k, disk[Row(k)], v>> : k \in S \cap Scan}
           d == [i \in Items |-> IF \E k \in S \cap Scan : i = Row(k) THEN v ELSE disk[i]]
<1>1. /\ May("BATCH") /\ batch' = b /\ disk' = d /\ Waives("index", TRUE)
      /\ UNCHANGED <<pk, changes, active>>
  BY DEF BatchRows
<1>2. d \in Disks
  <2>1. \A i \in Items : d[i] \in Kept(i)
    BY KeptIs DEF RowVals, Types, Disks
  <2>2. \A i \in Items : d[i] \in Any
    BY <2>1, KeptKinds
  <2>3. QED BY <2>1, <2>2 DEF Disks
<1>3. b \subseteq Keys \X Vals \X Vals
  <2>1. \A k \in Keys : disk[Row(k)] \in RowVals
    BY DiskFields DEF Types
  <2>2. QED BY <2>1 DEF RowVals, Scan
<1> HIDE DEF b, d
<1>4. cmds' \in 0 .. MaxCmds
  BY <1>1, MayCounts
<1>5. QED BY <1>1, <1>2, <1>3, <1>4 DEF Types, Agree, Waives

LEMMA BatchIndexKeeps ==
  ASSUME Types, Agree, BatchIndex
  PROVE  Types' /\ Agree'
<1> DEFINE added   == {Idx(b[3], b[1]) : b \in batch}
           removed == {Idx(b[2], b[1]) : b \in batch}
           re(store) == [i \in Items |-> IF i \in added THEN "1"
                                         ELSE IF i \in removed THEN Absent ELSE store[i]]
<1>1. /\ batch # {} /\ batch' = {} /\ UNCHANGED <<pk, active, waived, cmds>>
      /\ IF active THEN changes' = re(changes) /\ UNCHANGED disk
                   ELSE disk' = re(disk) /\ UNCHANGED changes
  BY DEF BatchIndex
<1>2. "index" \in waived
  BY <1>1 DEF Agree
<1>3. \A i \in added \cup removed : Kept(i) = Marks
  <2>1. \A b \in batch : b[1] \in Keys /\ b[2] \in Vals /\ b[3] \in Vals
    BY DEF Types
  <2>2. QED BY <2>1, KeptIs
<1>4. re(disk) \in Disks
  <2>1. ASSUME NEW i \in Items PROVE re(disk)[i] \in Kept(i)
    BY <1>3, KeptKinds DEF Marks, Types, Disks
  <2>2. \A i \in Items : re(disk)[i] \in Any
    BY <2>1, KeptKinds
  <2>3. QED BY <2>1, <2>2 DEF Disks
<1>5. re(changes) \in Overlays
  <2>1. ASSUME NEW i \in Items PROVE re(changes)[i] \in Kept(i) \cup {Untouched}
    BY <1>3, KeptKinds DEF Marks, Types, Overlays
  <2>2. \A i \in Items : re(changes)[i] \in Any
    BY <2>1, KeptKinds DEF Any
  <2>3. QED BY <2>1, <2>2 DEF Overlays
<1> HIDE DEF re
<1>6. QED BY <1>1, <1>2, <1>4, <1>5 DEF Types, Agree

LEMMA TransactionKeeps ==
  ASSUME Types, Agree, Begin \/ Commit \/ Rollback
  PROVE  Types' /\ Agree'
<1>1. CASE Begin
  BY <1>1 DEF Begin, Types, Agree
<1>2. CASE Commit
  <2>1. /\ disk' = [i \in Items |-> Current(Now, i)] /\ changes' = NoChanges /\ active' = FALSE
        /\ UNCHANGED <<pk, batch, waived, cmds>>
    BY <1>2 DEF Commit
  <2>2. disk' = Seen(disk, changes)
    BY <2>1, NowIs DEF Seen
  <2>3. Seen(disk, changes) \in Disks
    BY SeenDisk DEF Types
  <2>4. changes' \in Overlays /\ Seen(disk', changes') = disk'
    BY <2>1, <2>2, <2>3, NothingChanged
  <2>5. Types'
    BY <2>1, <2>2, <2>3, <2>4 DEF Types
  <2>6. Agree'
    BY <2>1, <2>2, <2>4 DEF Agree
  <2>7. QED BY <2>5, <2>6
<1>3. CASE Rollback
  <2>1. changes' = NoChanges /\ active' = FALSE /\ UNCHANGED <<pk, disk, batch, waived, cmds>>
    BY <1>3 DEF Rollback
  <2>2. changes' \in Overlays /\ Seen(disk', changes') = disk'
    BY <2>1, NothingChanged DEF Types
  <2>3. QED BY <2>1, <2>2 DEF Types, Agree
<1>4. QED BY <1>1, <1>2, <1>3

LEMMA InitKeeps == Init => Types /\ Agree
<1> SUFFICES ASSUME Init PROVE Types /\ Agree
  OBVIOUS
<1>1. /\ disk \in Disks /\ disk[NextId] = 1 /\ \A i \in Items : i # NextId => disk[i] = Absent
  <2>1. disk = [i \in Items |-> IF i = NextId THEN 1 ELSE Absent] /\ 1 \in Kept(NextId)
    BY KeptIs, KeysAre DEF Init, Numbers
  <2>2. \A i \in Items : disk[i] \in Kept(i) /\ disk[i] \in Any
    BY <2>1, KeptKinds
  <2>3. QED BY <2>1, <2>2, ItemsDiffer DEF Disks
<1>2. changes \in Overlays /\ Seen(disk, changes) = disk
  BY <1>1, NothingChanged DEF Init
<1>3. Good(disk)
  <2>1. Good([i \in Items |-> Absent])
    BY GoodNothing
  <2>2. disk[NextId] # Absent
    BY <1>1, KeysAre DEF Numbers
  <2>3. \A i \in Items : i # NextId => disk[i] = [j \in Items |-> Absent][i]
    BY <1>1
  <2>4. QED BY <2>1, <2>2, <2>3, GoodNextId
<1>4. /\ pk \in BOOLEAN /\ active \in BOOLEAN /\ batch = {} /\ waived = {}
      /\ changes = NoChanges
  BY DEF Init
<1>5. cmds \in 0 .. MaxCmds
  BY TablesAssumption DEF Init, TablesAssumption
<1>6. Types
  BY <1>1, <1>2, <1>4, <1>5 DEF Types
<1>7. QED BY <1>2, <1>3, <1>4, <1>6 DEF Agree

LEMMA NextKeeps == Types /\ Agree /\ [Next]_vars => Types' /\ Agree'
<1> SUFFICES ASSUME Types, Agree, [Next]_vars PROVE Types' /\ Agree'
  OBVIOUS
<1>1. ASSUME NEW k \in Keys, NEW v \in Vals, InsertKey(k, v) PROVE Types' /\ Agree'
  BY <1>1, InsertKeyKeeps
<1>2. ASSUME NEW v \in Vals, InsertAuto(v) PROVE Types' /\ Agree'
  BY <1>2, InsertAutoKeeps
<1>3. ASSUME NEW w \in Wheres, NEW v \in Vals, Update(w, v) PROVE Types' /\ Agree'
  BY <1>3, UpdateKeeps
<1>4. ASSUME NEW w \in Wheres, NEW j \in Keys, UpdateKey(w, j) PROVE Types' /\ Agree'
  BY <1>4, UpdateKeyKeeps
<1>5. ASSUME NEW w \in Wheres, DeleteRows(w) PROVE Types' /\ Agree'
  BY <1>5, DeleteRowsKeeps
<1>6. CASE DropTable
  BY <1>6, DropTableKeeps
<1>7. CASE CreateTable
  BY <1>7, CreateTableKeeps
<1>8. ASSUME NEW n \in Keys, SetNextId(n) PROVE Types' /\ Agree'
  BY <1>8, SetNextIdKeeps
<1>9. ASSUME NEW S \in SUBSET Keys, NEW v \in Vals, BatchRows(S, v) PROVE Types' /\ Agree'
  BY <1>9, BatchRowsKeeps
<1>10. CASE BatchIndex
  BY <1>10, BatchIndexKeeps
<1>11. CASE Begin \/ Commit \/ Rollback
  BY <1>11, TransactionKeeps
<1>12. CASE UNCHANGED vars
  BY <1>12 DEF vars, Types, Agree
<1>13. QED
  BY <1>1, <1>2, <1>3, <1>4, <1>5, <1>6, <1>7, <1>8, <1>9, <1>10, <1>11, <1>12, Zenon DEF Next

LEMMA InvariantHolds == Spec => [](Types /\ Agree)
<1>1. Init => Types /\ Agree
  BY InitKeeps
<1>2. Types /\ Agree /\ [Next]_vars => (Types /\ Agree)'
  BY NextKeeps
<1>3. QED BY <1>1, <1>2, PTL DEF Spec

LEMMA TypesGive == Types => TypeOK
<1> SUFFICES ASSUME Types PROVE TypeOK
  OBVIOUS
<1>1. DOMAIN disk = Items /\ DOMAIN changes = Items
  BY DEF Types, Disks, Overlays
<1>2. \A k \in Keys : /\ disk[Row(k)] \in RowVals
                      /\ changes[Row(k)] \in RowVals \cup {Untouched}
                      /\ \A v \in Vals : /\ disk[Idx(v, k)] \in Marks
                                         /\ changes[Idx(v, k)] \in Marks \cup {Untouched}
  BY DiskFields, OverlayFields DEF Types
<1>3. QED BY <1>1, <1>2 DEF Types, TypeOK

LEMMA AgreeGives == Types /\ Agree => UniqueHolds /\ IndexMatches
<1> SUFFICES ASSUME Types, Agree, "index" \notin waived
             PROVE  /\ \A j, k \in Rows : disk[Row(j)] = disk[Row(k)] => j = k
                    /\ \A k \in Keys, v \in Vals : disk[Idx(v, k)] # Absent <=> disk[Row(k)] = v
                    /\ disk[NextId] = Absent => \A i \in Items : disk[i] = Absent
  BY DEF UniqueHolds, IndexMatches
<1>1. Good(disk)
  BY DEF Agree
<1>2. QED BY <1>1 DEF Good, Listed, Whole, Distinct, Rows

\* Store and overlay hold values of their kind, and outside a transaction the overlay is empty.
THEOREM TableTypes == Spec => []TypeOK
<1>1. Types /\ Agree => TypeOK
  BY TypesGive
<1>2. QED BY InvariantHolds, <1>1, PTL

\* The scan of every index entry in _check_unique_violation, with the entries
\* that _update_indexes and _remove_from_indexes leave, keeps UNIQUE.
THEOREM UniqueKept == Spec => []UniqueHolds
<1>1. Types /\ Agree => UniqueHolds
  BY AgreeGives
<1>2. QED BY InvariantHolds, <1>1, PTL

\* The index lists exactly the rows, through transactions and after DROP TABLE.
THEOREM IndexTrue == Spec => []IndexMatches
<1>1. Types /\ Agree => IndexMatches
  BY AgreeGives
<1>2. QED BY InvariantHolds, <1>1, PTL

-----------------------------------------------------------------------------
(* Keys that are given out: next_id is beyond every row, in LevelDB and in *)
(* the view, of a table without primary key.                               *)

Below(d, c) ==
  /\ c[NextId] # Absent
  /\ \A k \in Keys : d[Row(k)] # Absent => d[NextId] # Absent /\ k < d[NextId]
  /\ \A k \in Keys : d[Row(k)] # Absent \/ Seen(d, c)[Row(k)] # Absent
                       => Seen(d, c)[NextId] # Absent /\ k < Seen(d, c)[NextId]

Beyond == ~pk /\ "keys" \notin waived => Below(disk, changes)

\* st has a row only where a row was.
Within(st) ==
  \A j \in Keys :
    /\ st.disk[Row(j)] # Absent => disk[Row(j)] # Absent
    /\ st.changes[Row(j)] \notin {Absent, Untouched}
         => changes[Row(j)] \notin {Absent, Untouched} \/ disk[Row(j)] # Absent
    /\ st.changes[Row(j)] = Untouched => changes[Row(j)] = Untouched

LEMMA WithinBelow ==
  ASSUME Types, NEW st \in States, Within(st), Below(disk, changes),
         st.disk[NextId] = disk[NextId], st.changes[NextId] = changes[NextId]
  PROVE  Below(st.disk, st.changes)
<1>0. NextId \in Items /\ \A k \in Keys : Row(k) \in Items
  BY ItemsDiffer
<1>1. Seen(st.disk, st.changes)[NextId] = Seen(disk, changes)[NextId]
  BY <1>0 DEF Seen
<1>2. ASSUME NEW k \in Keys, Seen(st.disk, st.changes)[Row(k)] # Absent
      PROVE  disk[Row(k)] # Absent \/ Seen(disk, changes)[Row(k)] # Absent
  <2>1. CASE st.changes[Row(k)] = Untouched
    BY <1>0, <1>2, <2>1 DEF Seen, Within
  <2>2. CASE st.changes[Row(k)] # Untouched
    <3>1. st.changes[Row(k)] \notin {Absent, Untouched}
      BY <1>0, <1>2, <2>2 DEF Seen
    <3>2. changes[Row(k)] \notin {Absent, Untouched} \/ disk[Row(k)] # Absent
      BY <3>1 DEF Within
    <3>3. QED BY <1>0, <3>2 DEF Seen
  <2>3. QED BY <2>1, <2>2
<1>3. QED BY <1>1, <1>2 DEF Below, Within

LEMMA OneRowWithin ==
  ASSUME NEW st \in States, Within(st), NEW k \in Keys, NEW op \in Ops, op.does # "MOVE",
         disk[Row(k)] \in Vals, active \in BOOLEAN
  PROVE  Within(OneRow(op, st, k))
<1> DEFINE r == OneRow(op, st, k)
<1>0. ASSUME NEW j \in Keys
      PROVE  /\ Row(j) \in Items /\ \A i \in Keys, u \in Vals : Row(j) # Idx(u, i)
             /\ Row(j) = Row(k) <=> j = k
  BY ItemsDiffer
<1>1. ASSUME NEW j \in Keys, j # k
      PROVE  r.disk[Row(j)] = st.disk[Row(j)] /\ r.changes[Row(j)] = st.changes[Row(j)]
  <2>1. CASE op.does = "SET" /\ op.to \in Vals
    <3>1. r = SetRow(op.to, st, k)
      BY <2>1 DEF OneRow
    <3>2. CASE SetFailed(st, SetRow(op.to, st, k), k, op.to)
      BY <1>0, <1>1, <3>1, <3>2 DEF SetFailed
    <3>3. CASE SetDone(st, SetRow(op.to, st, k), k, disk[Row(k)], op.to)
      BY <1>0, <1>1, <2>1, <3>1, <3>3 DEF SetDone
    <3>4. QED BY <2>1, <3>2, <3>3, SetRowDoes
  <2>2. CASE op.does = "DELETE"
    <3>1. r = DeleteRow(st, k)
      BY <2>2 DEF OneRow
    <3>2. DeleteDone(st, DeleteRow(st, k), k, disk[Row(k)])
      BY DeleteRowDoes
    <3>3. QED BY <1>0, <1>1, <3>1, <3>2 DEF DeleteDone
  <2>3. QED BY <2>1, <2>2 DEF Ops
<1>2. Stays(st, r)
  BY OneRowStays
<1>3. disk[Row(k)] # Absent
  BY KeysAre
<1>4. r.changes[Row(k)] = Untouched => st.changes[Row(k)] = Untouched
  <2>1. CASE op.does = "SET" /\ op.to \in Vals
    <3>0. op.to # Untouched
      BY <2>1, KeysAre
    <3>1. r = SetRow(op.to, st, k)
      BY <2>1 DEF OneRow
    <3>2. CASE SetFailed(st, SetRow(op.to, st, k), k, op.to)
      BY <1>0, <2>1, <3>0, <3>1, <3>2 DEF SetFailed
    <3>3. CASE SetDone(st, SetRow(op.to, st, k), k, disk[Row(k)], op.to)
      BY <1>0, <2>1, <3>0, <3>1, <3>3 DEF SetDone
    <3>4. QED BY <2>1, <3>2, <3>3, SetRowDoes
  <2>2. CASE op.does = "DELETE"
    <3>1. r = DeleteRow(st, k)
      BY <2>2 DEF OneRow
    <3>2. DeleteDone(st, DeleteRow(st, k), k, disk[Row(k)])
      BY DeleteRowDoes
    <3>3. QED BY <1>0, <3>1, <3>2, KeysAre DEF DeleteDone
  <2>3. QED BY <2>1, <2>2 DEF Ops
<1> HIDE DEF r
<1>5. Within(r)
  BY <1>1, <1>3, <1>4 DEF Within
<1>6. QED BY <1>5 DEF r

LEMMA LoopWithin ==
  ASSUME Types, NEW S, Selects(S), NEW op \in Ops, op.does # "MOVE"
  PROVE  /\ Within(Loop(S, op)) /\ Loop(S, op) \in States
         /\ Loop(S, op).disk[NextId] = disk[NextId]
         /\ Loop(S, op).changes[NextId] = changes[NextId]
<1>0. N \in Nat /\ Keys = 1 .. N /\ S \subseteq Keys /\ Now \in States /\ active \in BOOLEAN
      /\ Now.disk = disk /\ Now.changes = changes
  BY KeysAre, NowIs DEF Keys, Selects, Types
<1>1. PICK f : Course(S, op, f) /\ Loop(S, op) = f[N]
  BY <1>0, LoopRuns
<1> DEFINE T == {k \in Nat : k <= N => Within(f[k])}
<1>2. 0 \in T
  BY <1>0, <1>1 DEF Course, Within
<1>3. ASSUME NEW k \in Nat, k \in T PROVE k + 1 \in T
  <2>1. SUFFICES ASSUME k + 1 <= N PROVE Within(f[k + 1])
    OBVIOUS
  <2>2. k + 1 \in 1 .. N /\ (k + 1) - 1 = k /\ k <= N
    BY <1>0, <2>1
  <2>3. f[k + 1] = StepOf(S, op, f[k], k + 1)
    BY <1>1, <2>2 DEF Course
  <2>4. f[k] \in States
    <3>1. Stays(Now, f[k])
      BY <1>0, <1>1, <2>2, LoopStays
    <3>2. QED BY <3>1 DEF Stays
  <2>5. Within(f[k])
    BY <1>3, <2>2
  <2>6. CASE k + 1 \in S /\ ~f[k].err
    <3>1. f[k + 1] = OneRow(op, f[k], k + 1)
      BY <2>3, <2>6 DEF StepOf
    <3>2. disk[Row(k + 1)] \in Vals /\ k + 1 \in Keys
      BY <1>0, <2>6 DEF Selects
    <3>3. Within(OneRow(op, f[k], k + 1))
      BY <1>0, <2>4, <2>5, <3>2, OneRowWithin
    <3>4. QED BY <3>1, <3>3
  <2>7. CASE ~ (k + 1 \in S /\ ~f[k].err)
    BY <2>3, <2>5, <2>7 DEF StepOf
  <2>8. QED BY <2>6, <2>7
<1>4. \A k \in Nat : k \in T
  <2> HIDE DEF T
  <2>1. QED BY <1>2, <1>3, SetInduction
<1>5. Within(f[N])
  BY <1>0, <1>4
<1>6. Stays(Now, f[N])
  BY <1>0, <1>1, LoopStays
<1>7. QED BY <1>0, <1>1, <1>5, <1>6 DEF Stays

\* UPDATE and DELETE.
LEMMA LoopBelow ==
  ASSUME Types, Beyond, NEW op \in Ops, op.does # "MOVE", NEW S, S \subseteq Scan,
         Rewrites(Loop(S, op))
  PROVE  Beyond'
<1>1. Selects(S)
  <2>1. \A k \in Keys : disk[Row(k)] \in RowVals
    BY DiskFields DEF Types
  <2>2. QED BY <2>1 DEF Selects, Scan, RowVals
<1> DEFINE st == Loop(S, op)
<1>2. /\ Within(st) /\ st \in States /\ st.disk[NextId] = disk[NextId]
      /\ st.changes[NextId] = changes[NextId]
  BY <1>1, LoopWithin
<1>3. /\ disk' = st.disk /\ changes' = st.changes /\ pk' = pk
      /\ "keys" \notin waived' => "keys" \notin waived
  BY DEF Rewrites, Becomes, Waives
<1> HIDE DEF st
<1>4. Below(disk, changes) => Below(st.disk, st.changes)
  BY <1>2, WithinBelow
<1>5. QED BY <1>3, <1>4 DEF Beyond

\* What an INSERT without key leaves, apart from index entries.
AutoDone(st, k) ==
  /\ st.disk[NextId] = IF active THEN disk[NextId] ELSE k + 1
  /\ st.changes[NextId] = IF active THEN k + 1 ELSE changes[NextId]
  /\ \A j \in Keys \ {k} : /\ st.disk[Row(j)] = disk[Row(j)]
                           /\ st.changes[Row(j)] = changes[Row(j)]
  /\ active  => st.disk[Row(k)] = disk[Row(k)]
  /\ ~active => st.changes[Row(k)] = changes[Row(k)]

LEMMA InsertAutoDoes ==
  ASSUME Types, NEW v \in Vals, InsertAuto(v)
  PROVE  \E st, k : /\ k \in Keys /\ k = Seen(disk, changes)[NextId] /\ AutoDone(st, k)
                    /\ disk' = st.disk /\ changes' = st.changes /\ pk' = pk
                    /\ "keys" \notin waived' => "keys" \notin waived
<1> DEFINE k   == Current(Now, NextId)
           st  == TakeKey(Now, k)
           st2 == IF UniqueViolation(st, v, k) THEN st ELSE AddRow(st, k, v)
<1>1. /\ k \in Keys /\ Becomes(st2) /\ Waives("index", Current(Now, Row(k)) # Absent)
      /\ k = Seen(disk, changes)[NextId]
  BY NowIs, ItemsDiffer DEF InsertAuto
<1>2. k + 1 \in Numbers /\ st = Put(Now, NextId, k + 1)
  BY <1>1, KeysAre DEF TakeKey
<1> HIDE DEF k
<1>3. /\ NextId \in Items /\ k + 1 \in Kept(NextId) /\ Now \in States /\ active \in BOOLEAN
      /\ Now.disk = disk /\ Now.changes = changes
      /\ Row(k) \in Items /\ v \in Kept(Row(k))
      /\ Idx(v, k) \in Items /\ "1" \in Kept(Idx(v, k))
  <2>1. NextId \in Items /\ k + 1 \in Kept(NextId)
    BY <1>2, ItemsDiffer, KeptIs
  <2>2. Now \in States /\ active \in BOOLEAN /\ Now.disk = disk /\ Now.changes = changes
    BY NowIs DEF Types
  <2>3. Row(k) \in Items /\ v \in Kept(Row(k))
    BY <1>1, ItemsDiffer, KeptIs DEF RowVals
  <2>4. Idx(v, k) \in Items /\ "1" \in Kept(Idx(v, k))
    BY <1>1, ItemsDiffer, KeptIs DEF Marks
  <2>5. QED BY <2>1, <2>2, <2>3, <2>4
<1>4. /\ st \in States
      /\ \A i \in Items :
           /\ st.disk[i] = IF ~active /\ i = NextId THEN k + 1 ELSE disk[i]
           /\ st.changes[i] = IF active /\ i = NextId THEN k + 1 ELSE changes[i]
  <2>1. \A i \in Items :
          /\ Put(Now, NextId, k + 1) \in States
          /\ Put(Now, NextId, k + 1).disk[i] = IF ~active /\ i = NextId THEN k + 1 ELSE Now.disk[i]
          /\ Put(Now, NextId, k + 1).changes[i] =
               IF active /\ i = NextId THEN k + 1 ELSE Now.changes[i]
    BY <1>3, PutItems
  <2>2. QED BY <1>2, <1>3, <2>1
<1> HIDE DEF st
<1>5. AutoDone(st, k)
  BY <1>1, <1>3, <1>4, ItemsDiffer DEF AutoDone
<1>6. AutoDone(AddRow(st, k, v), k)
  <2> DEFINE a1 == Put(st, Row(k), v)
             a2 == Put(a1, Idx(v, k), "1")
  <2>1. /\ a1 \in States
        /\ \A i \in Items :
             /\ a1.disk[i] = IF ~active /\ i = Row(k) THEN v ELSE st.disk[i]
             /\ a1.changes[i] = IF active /\ i = Row(k) THEN v ELSE st.changes[i]
    <3>1. \A i \in Items :
             /\ a1 \in States
             /\ a1.disk[i] = IF ~active /\ i = Row(k) THEN v ELSE st.disk[i]
             /\ a1.changes[i] = IF active /\ i = Row(k) THEN v ELSE st.changes[i]
      BY <1>3, <1>4, PutItems
    <3>2. QED BY <1>3, <3>1
  <2>2. AddRow(st, k, v) = a2
    BY DEF AddRow
  <2> HIDE DEF a1
  <2>3. \A i \in Items :
          /\ a2.disk[i] = IF ~active /\ i = Idx(v, k) THEN "1" ELSE a1.disk[i]
          /\ a2.changes[i] = IF active /\ i = Idx(v, k) THEN "1" ELSE a1.changes[i]
    BY <1>3, <2>1, PutItems
  <2> HIDE DEF a2
  <2>4. a2.disk[NextId] = st.disk[NextId] /\ a2.changes[NextId] = st.changes[NextId]
    BY <1>1, <2>1, <2>3, ItemsDiffer
  <2>5. ASSUME NEW j \in Keys
        PROVE  /\ a2.disk[Row(j)] = IF ~active /\ j = k THEN v ELSE st.disk[Row(j)]
               /\ a2.changes[Row(j)] = IF active /\ j = k THEN v ELSE st.changes[Row(j)]
    <3>1. Row(j) \in Items /\ Row(j) # Idx(v, k) /\ (Row(j) = Row(k) <=> j = k)
      BY <1>1, ItemsDiffer
    <3>2. QED BY <2>1, <2>3, <3>1
  <2>6. AutoDone(a2, k)
    BY <1>1, <1>5, <2>4, <2>5 DEF AutoDone
  <2>7. QED BY <2>2, <2>6
<1>7. AutoDone(st2, k)
  BY <1>5, <1>6
<1> HIDE DEF st2
<1>8. /\ disk' = st2.disk /\ changes' = st2.changes /\ pk' = pk
      /\ "keys" \notin waived' => "keys" \notin waived
  BY <1>1 DEF Becomes, Waives
<1>9. QED BY <1>1, <1>7, <1>8

LEMMA AutoBelow ==
  ASSUME Types, NEW k \in Keys, k = Seen(disk, changes)[NextId], NEW st, AutoDone(st, k),
         Below(disk, changes)
  PROVE  Below(st.disk, st.changes)
<1>0. /\ NextId \in Items /\ \A j \in Keys : Row(j) \in Items
      /\ \A j \in Keys : j \in Nat /\ j # Absent /\ j # Untouched
      /\ k + 1 \in Nat /\ k + 1 # Absent /\ k + 1 # Untouched
  BY ItemsDiffer, KeysAre
<1>1. Seen(st.disk, st.changes)[NextId] = k + 1
  <2>1. CASE active
    BY <1>0, <2>1 DEF AutoDone, Seen
  <2>2. CASE ~active
    BY <1>0, <2>2 DEF AutoDone, Seen, Types, NoChanges
  <2>3. QED BY <2>1, <2>2
<1>2. st.changes[NextId] # Absent
  BY <1>0 DEF AutoDone, Below
<1>3. ASSUME NEW j \in Keys, j # k
      PROVE  /\ Seen(st.disk, st.changes)[Row(j)] = Seen(disk, changes)[Row(j)]
             /\ st.disk[Row(j)] = disk[Row(j)]
  BY <1>0, <1>3 DEF AutoDone, Seen
<1>4. ASSUME NEW j \in Keys, disk[Row(j)] # Absent \/ Seen(disk, changes)[Row(j)] # Absent
      PROVE  j < k
  BY <1>0, <1>4 DEF Below
<1>5. ASSUME NEW j \in Keys,
             st.disk[Row(j)] # Absent \/ Seen(st.disk, st.changes)[Row(j)] # Absent
      PROVE  j < k + 1
  <2>1. CASE j = k
    BY <1>0, <2>1
  <2>2. CASE j # k
    <3>1. j < k
      BY <1>3, <1>4, <1>5, <2>2
    <3>2. QED BY <1>0, <3>1
  <2>3. QED BY <2>1, <2>2
<1>6. ASSUME NEW j \in Keys, st.disk[Row(j)] # Absent
      PROVE  st.disk[NextId] # Absent /\ j < st.disk[NextId]
  <2>1. CASE active
    <3>1. st.disk[Row(j)] = disk[Row(j)] /\ st.disk[NextId] = disk[NextId]
      BY <1>3, <2>1 DEF AutoDone
    <3>2. QED BY <1>6, <3>1 DEF Below
  <2>2. CASE ~active
    <3>1. st.disk[NextId] = k + 1
      BY <2>2 DEF AutoDone
    <3>2. QED BY <1>0, <1>5, <1>6, <3>1
  <2>3. QED BY <2>1, <2>2
<1>7. QED BY <1>0, <1>1, <1>2, <1>5, <1>6 DEF Below

LEMMA InsertAutoBeyond ==
  ASSUME Types, Beyond, NEW v \in Vals, InsertAuto(v)
  PROVE  Beyond'
<1>1. PICK st, k : /\ k \in Keys /\ k = Seen(disk, changes)[NextId] /\ AutoDone(st, k)
                   /\ disk' = st.disk /\ changes' = st.changes /\ pk' = pk
                   /\ "keys" \notin waived' => "keys" \notin waived
  BY InsertAutoDoes
<1>2. Below(disk, changes) => Below(st.disk, st.changes)
  BY <1>1, AutoBelow
<1>3. QED BY <1>1, <1>2 DEF Beyond

LEMMA SeenOfNoChanges ==
  ASSUME NEW d \in Disks
  PROVE  Below(d, NoChanges) <=> \A k \in Keys : d[Row(k)] # Absent => d[NextId] # Absent /\ k < d[NextId]
<1>1. Seen(d, NoChanges) = d
  BY NothingChanged
<1>2. NoChanges[NextId] # Absent
  BY ItemsDiffer, KeysAre DEF NoChanges
<1>3. QED BY <1>1, <1>2 DEF Below

LEMMA DropTableBeyond ==
  ASSUME Types, Beyond, DropTable, "DROP" \notin TxnOps
  PROVE  Beyond'
<1>1. active = FALSE /\ changes = NoChanges
  BY DEF DropTable, May, Types
<1>2. /\ disk' = Dropped(disk) /\ changes' = NoChanges
  BY <1>1 DEF DropTable, Rewrites, Becomes, Now
<1>3. \A i \in Items : disk'[i] = Absent
  BY <1>2 DEF Dropped
<1>4. disk' \in Disks
  <2>1. disk' \in [Items -> Any]
    BY <1>2 DEF Dropped, Any, Types, Disks
  <2>2. QED BY <1>3, <2>1, KeptKinds DEF Disks
<1>5. Below(disk', changes')
  BY <1>2, <1>3, <1>4, SeenOfNoChanges, ItemsDiffer
<1>6. QED BY <1>5 DEF Beyond

LEMMA CreateTableBeyond ==
  ASSUME Types, Beyond, CreateTable
  PROVE  Beyond'
<1> DEFINE st == Put(Now, NextId, 1)
<1>1. /\ disk[NextId] = Absent /\ changes[NextId] = Untouched
      /\ disk' = st.disk /\ changes' = st.changes /\ pk' = pk /\ waived' = waived
  BY DEF CreateTable, Becomes
<1>2. SUFFICES ASSUME Below(disk, changes) PROVE Below(st.disk, st.changes)
  BY <1>1 DEF Beyond
<1>3. NextId \in Items /\ 1 \in Kept(NextId) /\ 1 # Absent /\ Now \in States
      /\ active \in BOOLEAN /\ Now.disk = disk /\ Now.changes = changes
  <2>1. 1 \in Numbers
    BY KeysAre DEF Numbers
  <2>2. NextId \in Items /\ 1 \in Kept(NextId) /\ 1 # Absent
    BY <2>1, ItemsDiffer, KeptIs, KeysAre
  <2>3. QED BY <2>2, NowIs DEF Types
<1>4. \A i \in Items :
        /\ st \in States
        /\ st.disk[i] = IF ~active /\ i = NextId THEN 1 ELSE Now.disk[i]
        /\ st.changes[i] = IF active /\ i = NextId THEN 1 ELSE Now.changes[i]
  BY <1>3, PutItems
<1> HIDE DEF st
<1>5. Seen(disk, changes)[NextId] = Absent
  BY <1>1, <1>3 DEF Seen
<1>6. \A k \in Keys : disk[Row(k)] = Absent /\ Seen(disk, changes)[Row(k)] = Absent
  BY <1>2, <1>5 DEF Below
<1>7. ASSUME NEW k \in Keys
      PROVE  st.disk[Row(k)] = Absent /\ Seen(st.disk, st.changes)[Row(k)] = Absent
  <2>1. Row(k) \in Items /\ Row(k) # NextId
    BY ItemsDiffer
  <2>2. st.disk[Row(k)] = disk[Row(k)] /\ st.changes[Row(k)] = changes[Row(k)]
    BY <1>3, <1>4, <2>1
  <2>3. QED BY <1>6, <2>1, <2>2 DEF Seen
<1>8. st.changes[NextId] # Absent
  BY <1>1, <1>3, <1>4, KeysAre
<1>9. QED BY <1>7, <1>8 DEF Below

LEMMA SetNextIdBeyond ==
  ASSUME Types, Beyond, NEW n \in Keys, SetNextId(n)
  PROVE  Beyond'
<1> DEFINE d == [disk EXCEPT ![NextId] = n]
<1>0. NextId \in Items /\ disk \in [Items -> Any] /\ n \in Nat /\ n # Absent
      /\ \A k \in Keys : Row(k) \in Items /\ Row(k) # NextId /\ k \in Nat
  BY ItemsDiffer, KeysAre DEF Types, Disks
<1>1. /\ disk' = d /\ changes' = changes /\ pk' = pk
      /\ waived' = IF n < Current(Now, NextId) THEN waived \cup {"keys"} ELSE waived
      /\ Current(Now, NextId) # Absent
  BY DEF SetNextId, Becomes, Waives, Now
<1>2. SUFFICES ASSUME Below(disk, changes), ~ (n < Seen(disk, changes)[NextId]),
                      Seen(disk, changes)[NextId] # Absent
               PROVE  Below(d, changes)
  BY <1>0, <1>1, NowIs DEF Beyond
<1>3. /\ d[NextId] = n
      /\ \A k \in Keys : d[Row(k)] = disk[Row(k)]
                         /\ Seen(d, changes)[Row(k)] = Seen(disk, changes)[Row(k)]
      /\ Seen(d, changes)[NextId] = IF changes[NextId] # Untouched THEN changes[NextId] ELSE n
      /\ Seen(disk, changes)[NextId] = IF changes[NextId] # Untouched THEN changes[NextId]
                                       ELSE disk[NextId]
  BY <1>0 DEF Seen
<1>4. Seen(disk, changes)[NextId] \in Nat
  <2>1. Seen(disk, changes) \in Disks
    BY SeenDisk DEF Types
  <2>2. Seen(disk, changes)[NextId] \in Numbers
    BY <1>2, <2>1, DiskFields
  <2>3. QED BY <2>2, KeysAre
<1> HIDE DEF d
<1>5. ASSUME NEW k \in Keys, disk[Row(k)] # Absent \/ Seen(disk, changes)[Row(k)] # Absent
      PROVE  k < n /\ k < Seen(disk, changes)[NextId]
  <2>1. k < Seen(disk, changes)[NextId]
    BY <1>2, <1>5 DEF Below
  <2>2. QED BY <1>0, <1>2, <1>4, <2>1
<1>6. changes[NextId] # Absent
  BY <1>2 DEF Below
<1>7. ASSUME NEW k \in Keys, d[Row(k)] # Absent PROVE d[NextId] # Absent /\ k < d[NextId]
  BY <1>0, <1>3, <1>5, <1>7
<1>8. ASSUME NEW k \in Keys, d[Row(k)] # Absent \/ Seen(d, changes)[Row(k)] # Absent
      PROVE  Seen(d, changes)[NextId] # Absent /\ k < Seen(d, changes)[NextId]
  BY <1>0, <1>3, <1>5, <1>6, <1>8
<1>9. QED BY <1>6, <1>7, <1>8 DEF Below

LEMMA BatchRowsBeyond ==
  ASSUME Types, Beyond, NEW S \in SUBSET Keys, NEW v \in Vals, BatchRows(S, v)
  PROVE  Beyond'
<1> DEFINE st == [disk |-> disk', changes |-> changes, err |-> FALSE]
<1>1. /\ disk' = [i \in Items |-> IF \E k \in S \cap Scan : i = Row(k) THEN v ELSE disk[i]]
      /\ changes' = changes /\ pk' = pk /\ Waives("index", TRUE)
  BY DEF BatchRows
<1>2. disk' \in Disks
  <2>1. \A i \in Items : disk'[i] \in Kept(i)
    BY <1>1, KeptIs DEF RowVals, Types, Disks
  <2>2. \A i \in Items : disk'[i] \in Any
    BY <2>1, KeptKinds
  <2>3. QED BY <1>1, <2>1, <2>2 DEF Disks
<1>3. ASSUME NEW j \in Keys, disk'[Row(j)] # Absent PROVE disk[Row(j)] # Absent
  <2>1. Row(j) \in Items /\ \A k \in Keys : Row(j) = Row(k) => j = k
    BY ItemsDiffer
  <2>2. CASE \E k \in S \cap Scan : Row(j) = Row(k)
    BY <2>1, <2>2 DEF Scan
  <2>3. CASE ~ \E k \in S \cap Scan : Row(j) = Row(k)
    BY <1>1, <1>3, <2>1, <2>3
  <2>4. QED BY <2>2, <2>3
<1>4. disk'[NextId] = disk[NextId]
  BY <1>1, ItemsDiffer
<1>5. st \in States /\ st.disk = disk' /\ st.changes = changes
  BY <1>2 DEF States, Types
<1> HIDE DEF st
<1>6. Within(st)
  BY <1>3, <1>5 DEF Within
<1>7. Below(disk, changes) => Below(st.disk, st.changes)
  BY <1>4, <1>5, <1>6, WithinBelow
<1>8. QED BY <1>1, <1>5, <1>7 DEF Beyond, Waives

LEMMA BatchIndexBeyond ==
  ASSUME Types, Beyond, BatchIndex, Types'
  PROVE  Beyond'
<1> DEFINE added   == {Idx(b[3], b[1]) : b \in batch}
           removed == {Idx(b[2], b[1]) : b \in batch}
           re(store) == [i \in Items |-> IF i \in added THEN "1"
                                         ELSE IF i \in removed THEN Absent ELSE store[i]]
           st == [disk |-> disk', changes |-> changes', err |-> FALSE]
<1>1. /\ UNCHANGED <<pk, waived>>
      /\ IF active THEN changes' = re(changes) /\ UNCHANGED disk
                   ELSE disk' = re(disk) /\ UNCHANGED changes
  BY DEF BatchIndex
<1>2. \A i \in Items \ (added \cup removed) : re(disk)[i] = disk[i] /\ re(changes)[i] = changes[i]
  OBVIOUS
<1>3. /\ NextId \in Items \ (added \cup removed)
      /\ \A k \in Keys : Row(k) \in Items \ (added \cup removed)
  <2>1. \A b \in batch : b[1] \in Keys /\ b[2] \in Vals /\ b[3] \in Vals
    BY DEF Types
  <2>2. QED BY <2>1, ItemsDiffer
<1> HIDE DEF re
<1>4. /\ disk'[NextId] = disk[NextId] /\ changes'[NextId] = changes[NextId]
      /\ \A k \in Keys : disk'[Row(k)] = disk[Row(k)] /\ changes'[Row(k)] = changes[Row(k)]
  BY <1>1, <1>2, <1>3
<1>5. st \in States /\ st.disk = disk' /\ st.changes = changes'
  BY DEF States, Types
<1> HIDE DEF st
<1>6. Within(st)
  BY <1>4, <1>5 DEF Within
<1>7. Below(disk, changes) => Below(st.disk, st.changes)
  BY <1>4, <1>5, <1>6, WithinBelow
<1>8. QED BY <1>1, <1>5, <1>7 DEF Beyond

LEMMA TransactionBeyond ==
  ASSUME Types, Beyond, Begin \/ Commit \/ Rollback
  PROVE  Beyond'
<1>1. CASE Begin
  BY <1>1 DEF Begin, Beyond
<1>2. CASE Commit
  <2>1. /\ disk' = [i \in Items |-> Current(Now, i)] /\ changes' = NoChanges
        /\ UNCHANGED <<pk, waived>>
    BY <1>2 DEF Commit
  <2>2. disk' = Seen(disk, changes)
    BY <2>1, NowIs DEF Seen
  <2>3. disk' \in Disks
    BY <2>2, SeenDisk DEF Types
  <2>4. Below(disk, changes) => Below(disk', changes')
    BY <2>1, <2>2, <2>3, SeenOfNoChanges DEF Below
  <2>5. QED BY <2>1, <2>4 DEF Beyond
<1>3. CASE Rollback
  <2>1. changes' = NoChanges /\ UNCHANGED <<pk, disk, waived>>
    BY <1>3 DEF Rollback
  <2>2. Below(disk, changes) => Below(disk, NoChanges)
    BY SeenOfNoChanges DEF Below, Types
  <2>3. QED BY <2>1, <2>2 DEF Beyond
<1>4. QED BY <1>1, <1>2, <1>3

LEMMA InitBeyond == Init => Beyond
<1> SUFFICES ASSUME Init PROVE Beyond
  OBVIOUS
<1>1. Types
  BY InitKeeps
<1>2. \A k \in Keys : disk[Row(k)] = Absent
  BY ItemsDiffer DEF Init
<1>3. QED BY <1>1, <1>2, SeenOfNoChanges DEF Init, Types, Beyond

LEMMA NextBeyond ==
  ASSUME "DROP" \notin TxnOps
  PROVE  Types /\ Types' /\ Beyond /\ [Next]_vars => Beyond'
<1> SUFFICES ASSUME Types, Types', Beyond, [Next]_vars PROVE Beyond'
  OBVIOUS
<1>1. ASSUME NEW k \in Keys, NEW v \in Vals, InsertKey(k, v) PROVE Beyond'
  BY <1>1 DEF InsertKey, Becomes, Beyond
<1>2. ASSUME NEW v \in Vals, InsertAuto(v) PROVE Beyond'
  BY <1>2, InsertAutoBeyond
<1>3. ASSUME NEW w \in Wheres, NEW v \in Vals, Update(w, v) PROVE Beyond'
  <2>1. [does |-> "SET", to |-> v] \in Ops /\ Matches(w) \subseteq Scan
    BY DEF Ops, Matches
  <2>2. [does |-> "SET", to |-> v].does # "MOVE"
    OBVIOUS
  <2>3. Rewrites(Loop(Matches(w), [does |-> "SET", to |-> v]))
    BY <1>3 DEF Update
  <2>4. QED BY <2>1, <2>2, <2>3, LoopBelow
<1>4. ASSUME NEW w \in Wheres, NEW j \in Keys, UpdateKey(w, j) PROVE Beyond'
  BY <1>4 DEF UpdateKey, Rewrites, Becomes, Beyond
<1>5. ASSUME NEW w \in Wheres, DeleteRows(w) PROVE Beyond'
  <2>1. [does |-> "DELETE"] \in Ops /\ Matches(w) \subseteq Scan
    BY DEF Ops, Matches
  <2>2. [does |-> "DELETE"].does # "MOVE"
    OBVIOUS
  <2>3. Rewrites(Loop(Matches(w), [does |-> "DELETE"]))
    BY <1>5 DEF DeleteRows
  <2>4. QED BY <2>1, <2>2, <2>3, LoopBelow
<1>6. CASE DropTable
  BY <1>6, DropTableBeyond
<1>7. CASE CreateTable
  BY <1>7, CreateTableBeyond
<1>8. ASSUME NEW n \in Keys, SetNextId(n) PROVE Beyond'
  BY <1>8, SetNextIdBeyond
<1>9. ASSUME NEW S \in SUBSET Keys, NEW v \in Vals, BatchRows(S, v) PROVE Beyond'
  BY <1>9, BatchRowsBeyond
<1>10. CASE BatchIndex
  BY <1>10, BatchIndexBeyond
<1>11. CASE Begin \/ Commit \/ Rollback
  BY <1>11, TransactionBeyond
<1>12. CASE UNCHANGED vars
  BY <1>12 DEF vars, Beyond
<1>13. QED
  BY <1>1, <1>2, <1>3, <1>4, <1>5, <1>6, <1>7, <1>8, <1>9, <1>10, <1>11, <1>12, Zenon DEF Next

\* The step InsertsNeverReplace is about.
AutoAdds ==
  (\E v \in Vals : InsertAuto(v)) /\ ~pk /\ "keys" \notin waived =>
     \A k \in Keys : Current(Now, Row(k)) # Absent
                       => Current(Now, Row(k))' = Current(Now, Row(k))

LEMMA AutoStepAdds ==
  ASSUME Types, Beyond, NEW v \in Vals, InsertAuto(v), ~pk, "keys" \notin waived,
         NEW j \in Keys, Current(Now, Row(j)) # Absent
  PROVE  Current(Now, Row(j))' = Current(Now, Row(j))
<1>1. PICK st, k : /\ k \in Keys /\ k = Seen(disk, changes)[NextId] /\ AutoDone(st, k)
                   /\ disk' = st.disk /\ changes' = st.changes /\ pk' = pk
                   /\ "keys" \notin waived' => "keys" \notin waived
  BY InsertAutoDoes
<1>2. Row(j) \in Items /\ j \in Nat /\ k \in Nat
  BY <1>1, ItemsDiffer, KeysAre
<1>3. Seen(disk, changes)[Row(j)] # Absent
  BY <1>2, NowIs
<1>4. j < k
  BY <1>1, <1>3 DEF Beyond, Below
<1>5. disk'[Row(j)] = disk[Row(j)] /\ changes'[Row(j)] = changes[Row(j)]
  BY <1>1, <1>2, <1>4 DEF AutoDone
<1>6. QED BY <1>5 DEF Current, Now

\* INSERT without a key takes next_id from the schema record and does not look
\* the key up: it never meets a row, as long as no transaction drops the table
\* (the rows it added itself outlive the schema record then) and nobody sets
\* next_id back.
THEOREM InsertsAdd ==
  ASSUME "DROP" \notin TxnOps
  PROVE  Spec => InsertsNeverReplace
<1>1. Init => Types /\ Agree /\ Beyond
  BY InitKeeps, InitBeyond
<1>2. Types /\ Agree /\ Beyond /\ [Next]_vars => (Types /\ Agree /\ Beyond)'
  BY NextKeeps, NextBeyond
<1>3. Types /\ Beyond => AutoAdds
  BY AutoStepAdds, Zenon DEF AutoAdds
<1>4. Types /\ Beyond /\ [Next]_vars => [AutoAdds]_vars
  BY <1>3
<1>5. InsertsNeverReplace <=> [][AutoAdds]_vars
  BY PTL DEF InsertsNeverReplace, AutoAdds
<1>6. QED BY <1>1, <1>2, <1>4, <1>5, PTL DEF Spec
=============================================================================
