CONSTANTS
  k1 = k1
  k2 = k2
  k3 = k3
  k4 = k4
  c1 = c1
  c2 = c2
  c3 = c3
  c4 = c4
  DoTasks = {t1, t2}
  DoCalls = {k1, k2, k3, k4}
  NoOne = NoOne
  DoTTL = 4
  DoGuard = 2
  DoDelay = 1
  DoLag = 0
  DoCheck = 1
  DoRetries = 2
  DoHops = 1
  DoMaxGen = 3
  DoWorkloads <- MCDoWorkloads
  TxTasks = {o1, o2}
  TxCalls = {x1, x2}
  NoHint = NoHint
  MaxMoves = 2
  AlCalls = {c1, c2, c3, c4}
  NoAl = NoAl
  AlRuns = 2
  AlTries = 1
  AlWorkloads <- MCAlWorkloads
SPECIFICATION MCSpec
CHECK_DEADLOCK FALSE
SYMMETRY Symmetry
INVARIANTS
  
  CallsOnce
  
PROPERTIES
  DoImplementsFenced
  FiresOnlyWanted
