SPECIFICATION MCSpec
CONSTANTS
  c1 = c1
  c2 = c2
  d1 = d1
  d2 = d2
  Callers = {c1}
  Dispatchers = {d1,d2}
  Stages <- OneStep
  Kind <- AllDo
  EventTypes = {"go"}
  WaitType = "go"
  RetryLimit = 2
  RetryDelay = 1
  Backoff = "exponential"
  Oversize = FALSE
  SleepFor = 1
  WaitTimeout = 0
  Lease = 1
  PendingTTL = 1
  CreateWait = 1
  Retention = 3
  ClockLag = 0
  Workload = {"create","pause","resume","terminate","restart"}
  MaxTime = 2
  MaxClaims = 2
  MaxGeneration = 3
  MaxEvents = 0
  MaxCreates = 1
  Faults = 0
SYMMETRY Symmetry
INVARIANTS
  IndexesMatchStatus
  CompletedMeansDone
  EventDelivery
  SentWakes
PROPERTIES
  LifecycleHeld
CHECK_DEADLOCK FALSE
