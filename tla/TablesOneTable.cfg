CONSTANTS
  a = a
  b = b
  c = c
  Absent = Absent
  Untouched = Untouched
  N = 3
  Vals <- ThreeVals
  TxnOps <- InTxn
  MaxCmds = 5
SPECIFICATION Spec
INVARIANT TypeOK
INVARIANT UniqueHolds
INVARIANT IndexMatches
PROPERTY InsertsNeverReplace
CHECK_DEADLOCK FALSE
