SPECIFICATION Spec
CONSTANTS
  k1 = k1
  k2 = k2
  s1 = s1
  Work <- MCWork
  Worker = {k1, k2}
  NoWorker = NoWorker
  Session = {s1}
  SessionOf <- MCSessionOf
  Parent <- MCParent
  Deps <- MCDeps
  InitLane <- MCInitLane
  Captured = {1, 2}
  Outcomes = {"satisfied"}
  AskUser = {}
  Uncertain = {}
  TTL = 2
  Watchdog = 1
  Grace = 1
  Delay = 1
  MaxLag = 1
  MaxTime = 4
  MaxFence = 3
  MaxVersion = 1
INVARIANT SessionExclusive
CHECK_DEADLOCK FALSE
