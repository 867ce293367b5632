SPECIFICATION MCSpec
CONSTANTS
  Tasks = {t1, t2}
  Ops = {o1, o2}
  NoTask = NoTask
  TTL = 1
  Guard = 0
  ObsTTL = 0
  MaxDelay = 0
  SqlTime = 0
  Retries = 1
  MaxStmts = 1
  MaxGen = 2
  MaxTime = 1
  Legacy = FALSE
  Workload = {"query", "rebalance"}
  Stopping = {}
SYMMETRY Symmetry
INVARIANT SqlUnderLease
PROPERTIES
  GenerationRises
  ImplementsFencedWriter
