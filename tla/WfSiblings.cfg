SPECIFICATION Spec
CONSTANTS
  Callers = {c1}
  Dispatchers = {d1}
  Stages <- Fanout
  Kind <- AllDo
  EventTypes = {"go"}
  WaitType = "go"
  RetryLimit = 2
  RetryDelay = 2
  Backoff = "exponential"
  Oversize = FALSE
  SleepFor = 1
  WaitTimeout = 0
  Lease = 4
  PendingTTL = 1
  CreateWait = 1
  Retention = 9
  ClockLag = 0
  Workload = {"create","send"}
  MaxTime = 4
  MaxClaims = 3
  MaxGeneration = 1
  MaxEvents = 1
  MaxCreates = 1
  Faults = 0
INVARIANT FailedOnlyByStep
CHECK_DEADLOCK FALSE
