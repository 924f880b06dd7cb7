-------------------------- MODULE MCWriteAheadLog --------------------------
(* Instances of WriteAheadLog for TLC. *)
EXTENDS WriteAheadLog, TLC

CONSTANTS k1, k2, a, b

TwoKeys == {k1, k2}
OneKey  == {k1}
Values  == {a, b, NoRow}
=============================================================================
