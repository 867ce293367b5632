CONSTANTS
  Workers <- MCWorkers
  NsOf <- MCNsOf
  PlatformNs = {"p1", "p2"}
  Slots <- MCSlots
  Crons = {1, 2}
  Queues = {"q"}
  Dbs = {"d"}
  Names = {"x"}
  SecretKeys = {"k", "v"}
  Requests = {r1, r2}
  Workloads <- MCWorkloads
  MaxVersion = 3
  MaxRevision = 2
  MaxSequence = 3
  MaxEnv = 2
  None = None
  DcCallers = {"c1", "c2", "c3"}
  DcWorkloads <- MCDcWorkloads
  DbNames = {"x"}
  Migrations = {"m1", "m2"}
  Checksums = {"s", "t"}
  DbIds = {1, 2, 3}
  ProvisionalTTL = 1
  DcMaxTime = 2
  DcMaxCrashes = 1
  NoDb = NoDb
  AuCalls = {u1, u2}
  AuIsolates = {"i1", "i2"}
  AuFresh = {"a", "b"}
  AuNs = {"n1", "n2"}
  AuLockTTL = 2
  AuTokenTTL = 3
  AuMaxTime = 4
  NoAu = NoAu
  AuWorkloads <- MCAuWorkloads
  ScProcs = {s1, s2}
  ScPrefixes = 2
  ScKeys = 2
  ScPage = 1
  ScLease = 2
  ScMaxAttempts = 2
  ScMaxPages = 3
  ScMaxTime = 3
  ScMaxFaults = 1
  NoCheckpoint = NoCheckpoint
  ScIntents = {"valid", "malformed", "drifting"}
  AcProviders = {"p1", "p2"}
  AcAliases = {"m1", "m2"}
  AcAdmins = {"a1", "a2"}
  AcRuns = {"r1", "r2"}
  AcMaxModels = 2
  AcPerProvider = 2
  AcWorkloads <- MCAcWorkloads
  NoRec = NoRec
  WlScan <- MCWlScan
  WlNames = {1, 2, 3, 4, 5}
  WlSize <- MCWlSize
  WlMaxWorkers = 2
  WlPageBytes = 3
  WlReadBytes = 5
  WlMetaMax = 5
  WlMaxDefs = 4
  WlMaxVersion = 3
  WlTimeout = 2
  WlDeadline = 4
  WlLockTTL = 6
  WlCheckPages = 2
  WlMaxTime = 8
  WlWorkloads <- MCWlWorkloads
  NoMeta = NoMeta
  NoPrint = NoPrint
SPECIFICATION MCSpec
CHECK_DEADLOCK FALSE
SYMMETRY Symmetry
INVARIANTS
  
  IndexesExact
  MigrationsTrue
  CleanupDuty
PROPERTIES
  SequencesFresh
  CatalogHeld
  
  ProviderBound
  ListingTrue
