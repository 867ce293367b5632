CONSTANTS
  RwWorkloads <- MCRwWorkloads
  RwBatch = 2
  RwTries = 2
  RwWrites = 1
  RwFaults = 1
  AsStreams <- MCStreams
  AsCap = 2
  AsMaxFrame = 5
  AsMaxBytes = 10
  AbCalls = {"c1", "c2"}
  AbWorkloads <- MCAbWorkloads
  AbMaxBytes = 1
  NoFrame = NoFrame
  KvCalls = {1, 2}
  KvKeys = {1, 2}
  KvValueMax = 3
  KvRespMax = 5
  KvInFlight = 4
  KvDeadline = 1
  KvMaxTime = 2
  KvWorkloads <- MCKvWorkloads
  RrDbs = {1, 2}
  RrSize <- MCRrSize
  RrTTL = 1
  RrMaxEntries = 1
  RrMaxBytes = 5
  RrMaxDbs = 2
  RrWorkloads <- MCRrWorkloads
  NoRr = NoRr
  DbTasks = {t1, t2}
  DbCalls = {q1, q2}
  Databases = {"a", "b"}
  Sessions = {"s"}
  SessionOf <- MCSessionOf
  Params = {"p"}
  Batches <- MCBatches
  NoDb = NoDb
  MaxStmts = 2
  MaxDbMoves = 1
  EnRequests <- MCEnRequests
  EnTasks = 3
  MaxBody = 8
  MaxReply = 1
  MaxEnvelope = 16
  MaxHeaders = 4
  MaxHeaderBytes = 1
  MaxUrl = 1
  MaxName = 1
  Unknown = Unknown
SPECIFICATION MCSpec
SYMMETRY MCSymmetry
CHECK_DEADLOCK FALSE
INVARIANTS
  WireExact
  StreamFaithful
  AiCallsKept
  KvExact
  
  D1CallsOnce
  CallIntact
