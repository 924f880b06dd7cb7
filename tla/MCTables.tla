------------------------------ MODULE MCTables ------------------------------
(* Instances of Tables for TLC. *)
EXTENDS Tables, TLC

CONSTANTS a, b, c

TwoVals    == {a, b}
ThreeVals  == {a, b, c}
InTxn      == {"INSERT_KEY", "INSERT_AUTO", "SET"}
=============================================================================
