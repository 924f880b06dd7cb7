CONSTANTS
  k1 = k1
  k2 = k2
  a = a
  b = b
  NoRow = NoRow
  Free = Free
  Keys <- TwoKeys
  Vals <- Values
  FileRecords = 2
  MaxTxns = 2
  MaxWrites = 2
  MaxCheckpoints = 1
  MaxCrashes = 2
SPECIFICATION Spec
INVARIANT TypeOK
INVARIANT CrashSafe
CHECK_DEADLOCK FALSE
