SPECIFICATION Spec
CHECK_DEADLOCK FALSE
CONSTANTS
  s1 = s1 x = x a = a b = b null = null ta = ta tb = tb
  MVViews = {s1}
  MVSlots = 3
  CIKeys = {x}
  CINull = null
  CIRows = 2
  CIWrites = 2
  AMCallers = {a}
  AMTries = 2
  AMRoom = 2
  AMTells = 1
  BPCallers = {a, b}
  BPMin = 2
  BPMax = 2
  BPCalls = 3
  BPRounds = 2
  CDTables = {ta, tb}
  CDLimit = 2
  CDMaxEvents = 3
  CDMaxConsumers = 1
  CDMaxThreads = 2
  SRRows = 5
  SRChunkSize = 2
  SRBuffered = 2
INVARIANT ThreadsTypeOK
INVARIANT IndexesFollow
INVARIANT NothingLostOrTwice
PROPERTY EveryoneGetsOn
