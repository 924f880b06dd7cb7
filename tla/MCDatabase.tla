----------------------------- MODULE MCDatabase -----------------------------
(* Instances of Database for TLC: one row of two binary columns. *)
EXTENDS Database, TLC

CONSTANTS k1, w1, w2, b1

OneKey     == {k1}
TwoWriters == {w1, w2}
OneWriter  == {w1}
OneBatch   == {b1}
NoThreads  == {}
NoTxn      == {}
SafeTxnOps == {"INSERT", "DELETE"}
Columns    == {"a", "b"}
Bits       == {0, 1}
=============================================================================
