CONSTANTS
  mst = mst
  srv = srv
  t1 = t1
  NoTable = NoTable
  Servers <- Pair
  Links <- MasterSlave
  Primaries <- Master1
  Tables <- OneTable
  Ops <- AllOps
  MaxStmts = 2
  MaxDrops = 0
  MaxCuts = 0
  MaxFails = 0
  MaxResets = 0
  MaxLog = 2
SPECIFICATION Spec
INVARIANT RowsFollow
CHECK_DEADLOCK FALSE
