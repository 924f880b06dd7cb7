CONSTANTS
  mst = mst
  srv = srv
  t1 = t1
  NoTable = NoTable
  Servers <- Pair
  Links <- MasterSlave
  Primaries <- Master1
  Tables <- OneTable
  Ops <- AllOps
  MaxStmts = 3
  MaxDrops = 1
  MaxCuts = 1
  MaxFails = 1
  MaxResets = 1
  MaxLog = 8
SPECIFICATION FairSpec
INVARIANT TypeOK
INVARIANT SchemaFollows
PROPERTY PositionAdvances
PROPERTY CatchesUp
CHECK_DEADLOCK FALSE
