SPECIFICATION Spec
VIEW MCView
CHECK_DEADLOCK FALSE
CONSTANTS
  c1 = c1 c2 = c2 c3 = c3 s1 = s1 s2 = s2 s3 = s3 x = x y = y a = a b = b ta = ta tb = tb
  qa = qa qA = qA qb = qb r1 = r1 r2 = r2 k1 = k1 k2 = k2 k3 = k3 b1 = b1 b2 = b2 n1 = n1
  u1 = u1 u2 = u2 z1 = z1 z2 = z2 z3 = z3 p1 = p1 p2 = p2
  RCTables = {ta}
  RCQueries = {qa, qA, qb}
  RCReaders = {r1, r2}
  RCKey <- MCKey
  RCReads <- MCReads
  RCMentions <- MCReads
  RCMaxSize = 1
  RCMaxVersion = 2
  PCKeys = {k1, k2, k3}
  PCTables = {ta, tb}
  PCCapacity = 2
  PSTexts = {qa, qA, qb}
  PSNorm <- MCKey
  PSMax = 1
  PSClients = {r1, r2}
  PSNames = {n1}
  PSMaxIds = 2
  PSMaxManagers = 2
  BETables = {ta, tb}
  BEQueries = {qa, qA, qb}
  BEStatements = {n1}
  BEReads <- MCJoins
  BETarget <- MCTarget
  BEMaxSize = 2
  BEMaxLen = 2
  BEMaxWrites = 1
  BCBatches = {b1, b2}
  BCTables = {ta}
  BCFilters <- MCFilters
  BCCommands <- MCCommands
  BCBurst = 1
  BCMaxFaults = 1
  RWRows = 5
  RWChunkSize = 2
  RWAsk = 3
  SSTokens = {k1}
  SSUpdates = 1
  SSTimes = 1
  AUThreads = {r1, r2}
  AUUsers = {u1, u2}
  AUQueries = {qa, qb}
  AUScore <- MCScore
  AURepeat = 2
  AULimit = 5
  AUKeep = 1
  AUCalls = 3
  RARoles = {z1, z2, z3}
  RAPermissions = {p1, p2}
  RAAdmin = p2
  RASets <- MCRoleSets
  RAUsers = {u1}
  RANone = RANone
  QPTables = {ta}
  QPQueries <- MCAsks
  QPLower <- MCKey
  QPStatistics <- MCStatistics
  QPCalls = 2
  PWMessages = 3
  MWCommands = 2
  MWNumbers = 6
  MWRows = {0, 1, 2}
  TQThreads = {r1, r2}
  TQConnection <- MCSameConnection
  TQLimits = {0, 1}
  TQRate = 1
  TQWindow = 2
  TQTime = 1
  TQObjects = 2
  TBTenants = {ta, tb}
  TBSystem = z1
  TBNone = n1
  TBLength = 3
  TBAllowance = 2
  BZCallers = {r1, r2}
  BZInstalled = {"zstd"}
  BZSizes = {5, 10}
  BZPacked <- MCPacked
  BZThresholds = {0, 8}
  BZEncodings <- MCEncodings
  BZNames = {"gzip", "lz4", "none"}
  BZCalls = 3
  DTCallers = {c1, c2}
  DTShards <- TwoShards
  RTShards = {s1, s2, s3}
  RTKeys = {x, y}
  RTNone = RTNone
  RTNodes <- MCNodes
  RTHash <- MCHash
  RTPlace <- MCPlace
  RTBounds <- MCBounds
  RTMaxRanges = 2
  ROViews = {s1, s2, s3}
  ROLower = {s1, s2, s3}
  FTIds = {a, b}
  FTTerms = {x, y}
  FTTexts <- MCTexts
  FTK = 1
  VIIds = {a, b}
  VIVectors = {0, 1}
  VIClusters = 2
  VIProbe = 2
  VIK = 2
  VIChanges = 5
  BBWriters = {a, b}
  BBCommands = 0
  BBLimit = 1
  BBOpens = 2
  BBPositions = 3
  SMMigrations = 3
  SMSteps = 2
  SMRuns = 3
  SMSeconds = 0
  SMLong = {1}
  TSWriters = {a}
  TSInterval = 2
  TSTimes = {0, 1, 2}
  TSRanges <- MCRanges
  TSCutoffs = {0}
  TSSource = 1
  TSTarget = 2
  TSParts = 2
  BKFiles = {a, b}
  BKDatabases = {x, y}
  BKSource = x
  BKRows = 1
  BKKeep = 1
  BKChains <- MCChains
  BKTime = 2
  BKRuns = 1
  GHWorld = 64
  GHPrecision = 2
  GHPoints <- MCPlaces
  GHCorners <- MCCorners
  GHInside <- MCInside
  SPMax = 3
  SPInserts <- MCObjects
  SPQueries <- MCAreas
  SPChanges = 7
  DITables <- TwoTables
  DIKeyed = {ta}
  DIGiven = {2}
  DIMaxRows = 2
  DIMaxNext = 3
  FCMaxAhead = 2
  SVSessions = {r1, r2}
  SVDatabases = {x, y}
  SVNone = n1
  UGNames = {u1, u2}
  UGDatabases = {x}
  UGTokens = {k1}
  UGMaxNext = 3
  SLCols = {k1, k2}
  SLNoCol = n1
  SLSchemas <- MCSchemas
  SLOldTables <- MCOldTables
  SLMax = 2
  SLAlters = 1
  SNKeys = {1, 2, 3}
  SNInternal = {1}
  SNMaxWrites = 2
  VKServers = {1, 2, 3}
  VKMaxTicks = 2
  VKStamps = {1, 2}
  VKEntries = 3
  SOKeys = {1, 2}
  SOLength = 3
  SOTops = {0, 1, 2}
  SGBackends = {"auto", "builtin"}
  SGLarge = 4
  SGEnvs <- MCEnvs
  SGFiles <- MCFiles
  SGTtl = 2
  VUMaxFaults = 2
  VUMaxRuns = 3
  None = None
  Nodes <- TwoNodes
  Clusters <- Both
  MaxTerm = 3
  MaxProposals = 2
INVARIANT ServicesTypeOK
INVARIANT NothingStale
INVARIANT SearchesTrue
INVARIANT TextsComeBack
 
INVARIANT EachItsOwn
INVARIANT WholeOrNotAtAll
INVARIANT FailoverTypeOK
INVARIANT LeadersAlone
PROPERTY DTImplements
PROPERTY StepsKept
PROPERTY VoteStands
