SPECIFICATION MCSpec
CONSTANTS
  Callers = {c1}
  Dispatchers = {d1}
  Stages <- TwoSteps
  Kind <- SleepThenDo
  EventTypes = {"go"}
  WaitType = "go"
  RetryLimit = 2
  RetryDelay = 1
  Backoff = "exponential"
  Oversize = TRUE
  SleepFor = 1
  WaitTimeout = 0
  Lease = 5
  PendingTTL = 1
  CreateWait = 1
  Retention = 9
  ClockLag = 0
  Workload = {"create","send","pause","resume"}
  MaxTime = 3
  MaxClaims = 5
  MaxGeneration = 3
  MaxEvents = 1
  MaxCreates = 1
  Faults = 0
PROPERTY StepsNeverRegress
PROPERTY EventuallyOver
CHECK_DEADLOCK FALSE
