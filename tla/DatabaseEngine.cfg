CONSTANTS
  k1 = k1
  w1 = w1
  w2 = w2
  b1 = b1
  NoRow = NoRow
  Untouched = Untouched
  None = None
  Stop = Stop
  Keys <- OneKey
  Cols <- Columns
  Vals <- Bits
  Writers <- TwoWriters
  BatchWriters <- NoThreads
  TxnOps <- SafeTxnOps
  MaxStmts = 3
  MaxFails = 1
  MaxTimeouts = 1
  MaxRestarts = 1
SPECIFICATION Spec
INVARIANT TypeOK
INVARIANT OnlyDurableLogged
INVARIANT BinlogInOrder
INVARIANT ReplayMatches
INVARIANT CloseFlushes
PROPERTY PositionsStable
PROPERTY ImplementsStream
CHECK_DEADLOCK FALSE
