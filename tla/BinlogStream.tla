---------------------------- MODULE BinlogStream ----------------------------
(***************************************************************************)
(* What the storage engine promises to a replica, and nothing about how it *)
(* keeps the promise: a log of statements, each one durable before it is   *)
(* listed and listed at most once, whose positions only grow and keep      *)
(* their statements.  Module Database implements it.                       *)
(***************************************************************************)
EXTENDS Naturals

VARIABLES
  durable,   \* numbers of the statements whose write has reached the store
  binlog,    \* position -> number of the statement listed there
  position   \* the counter the next position is taken from

vars == <<durable, binlog, position>>

Logged == {binlog[p] : p \in DOMAIN binlog}

Init == durable = {} /\ binlog = <<>> /\ position = 0

\* Statements become durable, one by one or as a transaction.
Store ==
  /\ durable \subseteq durable'
  /\ UNCHANGED <<binlog, position>>

\* A durable statement that is not in the log is listed at a new position.
List(n) ==
  /\ position' = position + 1
  /\ binlog' = [p \in DOMAIN binlog \cup {position + 1} |->
                  IF p = position + 1 THEN n ELSE binlog[p]]
  /\ UNCHANGED durable

\* A write of the log fails: its position stays empty.
Skip ==
  /\ position' = position + 1
  /\ UNCHANGED <<durable, binlog>>

\* The log is opened again: the counter may go back, but over no statement.
Reopen ==
  /\ position' \in 0 .. position
  /\ \A p \in DOMAIN binlog : p <= position'
  /\ UNCHANGED <<durable, binlog>>

Next == Store \/ (\E n \in durable \ Logged : List(n)) \/ Skip \/ Reopen

Spec == Init /\ [][Next]_vars
=============================================================================
