SPECIFICATION FairSpec
CONSTANTS
  Callers = {c1}
  Dispatchers = {d1}
  Stages <- OneStep
  Kind <- AllSleep
  EventTypes = {"go"}
  WaitType = "go"
  RetryLimit = 2
  RetryDelay = 1
  Backoff = "exponential"
  Oversize = FALSE
  SleepFor = 1
  WaitTimeout = 0
  Lease = 2
  PendingTTL = 1
  CreateWait = 1
  Retention = 9
  ClockLag = 0
  Workload = {"create"}
  MaxTime = 3
  MaxClaims = 3
  MaxGeneration = 1
  MaxEvents = 0
  MaxCreates = 1
  Faults = 1
PROPERTY EventuallyOver
CHECK_DEADLOCK FALSE
