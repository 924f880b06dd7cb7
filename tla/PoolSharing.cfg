CONSTANTS
  NoThread = NoThread
  Threads = {t1, t2, t3}
  MinConns = 1
  MaxConns = 2
  MaxIds = 3
SPECIFICATION PoolFairSpec
INVARIANT TypeOK
INVARIANT Exclusive
INVARIANT PermitsBacked
INVARIANT NothingLost
PROPERTY GetTerminates
CHECK_DEADLOCK FALSE
