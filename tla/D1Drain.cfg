SPECIFICATION MCSpec
CONSTANTS
  Tasks = {t1, t2}
  Ops = {o1, o2}
  NoTask = NoTask
  TTL = 3
  Guard = 2
  ObsTTL = 0
  MaxDelay = 1
  SqlTime = 1
  Retries = 1
  MaxStmts = 1
  MaxGen = 2
  MaxTime = 2
  Legacy = TRUE
  Workload = {"query", "renew"}
  Stopping = {t1}
PROPERTY DrainForgets
