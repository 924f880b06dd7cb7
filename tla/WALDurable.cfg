CONSTANTS
  k1 = k1
  k2 = k2
  a = a
  b = b
  NoRow = NoRow
  Free = Free
  Keys <- OneKey
  Vals <- Values
  FileRecords = 3
  MaxTxns = 2
  MaxWrites = 2
  MaxCheckpoints = 0
  MaxCrashes = 2
SPECIFICATION Spec
INVARIANT Durable
CHECK_DEADLOCK FALSE
