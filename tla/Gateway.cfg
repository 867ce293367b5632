CONSTANTS
  GrKeys = {"k1", "k2"}
  GrRequests = {1, 2}
  GrNone = GrNone
  GrWorkloads <- MCGrWorkloads
  GrAttempts = 2
  GrCacheMax = 1
  GsSessions = {1, 2}
  GsNone = GsNone
  GsAttempts = 2
  GsWorkloads <- MCGsWorkloads
  PxFrames = 4
  PxSockets = 4
  PxBuffer = 3
  PxBudget = 2
  GdSlots <- MCGdSlots
  GdMost = 3
  GdHosts <- MCGdHosts
  GdPaths <- MCGdPaths
  GdNone = GdNone
  TnMaxActive = 2
  TnMaxStarted = 3
  TnWorkloads <- MCTnWorkloads
  RcTurns = {1, 2}
  RcKeys = {"i", "j"}
  RcOrdinals = {1, 2}
  RcSizes = {1, 3}
  NoCache = NoCache
  CacheMax = 2
  WorkingMax = 4
  InstancesMax = 1
  StepsMax = 2
  TfWorkloads <- MCTfWorkloads
  TfWorkers = {"a", "b"}
  TfTasks = {"t1", "t2"}
  TfHit = 1
  TfMiss = 2
  TfMissMax = 1
  TfTimeout = 1
  TfLimit = 3
  TfMaxTime = 4
  TsWorkloads <- MCTsWorkloads
  TsWorkers = {"a", "b"}
  TsMaxSession = 3
  TsIdle = 2
  TsBlock = 1
  TsTTL = 1
  TsMaxWorkers = 2
  TsMaxActive = 1
  TsMaxTime = 3
  CaPaths <- MCCaPaths
  CaMethods = {"GET", "HEAD", "POST", "PUT", "DELETE"}
  CaTenants = {"t1", "t2"}
SPECIFICATION MCSpec
CHECK_DEADLOCK FALSE
INVARIANTS
  RoutingConverges
  SessionsFollowPolicy
  UpstreamHeld
  RoutedAsDeclared
  
  TailHeld
  AccessAgrees
PROPERTIES
  OutcomeTrue
