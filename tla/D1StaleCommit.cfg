SPECIFICATION Spec
CONSTANTS
  Tasks = {t1, t2}
  Ops = {o1, o2}
  NoTask = NoTask
  TTL = 3
  Guard = 2
  ObsTTL = 0
  MaxDelay = 1
  SqlTime = 1
  Retries = 1
  MaxStmts = 1
  MaxGen = 2
  MaxTime = 1
  Legacy = FALSE
  Workload = {"query", "rebalance"}
  Stopping = {}
PROPERTY NoStaleCommit
