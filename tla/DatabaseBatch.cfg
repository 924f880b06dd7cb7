CONSTANTS
  k1 = k1
  w1 = w1
  w2 = w2
  b1 = b1
  NoRow = NoRow
  Untouched = Untouched
  None = None
  Stop = Stop
  Keys <- OneKey
  Cols <- Columns
  Vals <- Bits
  Writers <- OneWriter
  BatchWriters <- OneBatch
  TxnOps <- NoTxn
  MaxStmts = 3
  MaxFails = 0
  MaxTimeouts = 0
  MaxRestarts = 0
SPECIFICATION FairSpec
PROPERTY EventuallyLogged
PROPERTY CloseTerminates
CHECK_DEADLOCK FALSE
