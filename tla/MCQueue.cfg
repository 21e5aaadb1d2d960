SPECIFICATION QueueSpec
CONSTANTS
  k1 = k1
  k2 = k2
  s1 = s1
  s2 = s2
  Work <- MCWork
  Worker = {k1, k2}
  NoWorker = NoWorker
  Session = {s1, s2}
  SessionOf <- MCSessionOf
  Parent <- MCParent
  Deps <- MCDeps
  InitLane <- MCInitLane
  Captured = {1}
  Outcomes = {"satisfied"}
  AskUser = {1}
  Uncertain = {1}
  TTL = 2
  Watchdog = 1
  Grace = 1
  Delay = 1
  MaxLag = 0
  MaxTime = 4
  MaxFence = 3
  MaxVersion = 2
SYMMETRY WorkerSymmetry
INVARIANTS
  SessionExclusive
  AttemptLogKept
  OrphanFree
  RevisionAnswered
  PrerequisitesMet
PROPERTIES
  LockSpec
CHECK_DEADLOCK FALSE
