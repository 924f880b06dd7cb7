CONSTANTS
  a = a
  b = b
  c = c
  Absent = Absent
  Untouched = Untouched
  N = 2
  Vals <- TwoVals
  TxnOps <- InTxn
  MaxCmds = 4
SPECIFICATION Spec
INVARIANT UniqueAlways
CHECK_DEADLOCK FALSE
