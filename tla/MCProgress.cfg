SPECIFICATION ProgressSpec
CONSTANTS
  k1 = k1
  s1 = s1
  s2 = s2
  s3 = s3
  Work <- MCWork
  Worker = {k1}
  NoWorker = NoWorker
  Session = {s1, s2, s3}
  SessionOf <- MCSessionOf
  Parent <- MCParent
  Deps <- MCDeps
  InitLane <- MCInitLane
  Captured = {1}
  Outcomes = {"satisfied", "partial"}
  AskUser = {}
  Uncertain = {}
  TTL = 1
  Watchdog = 1
  Grace = 1
  Delay = 0
  MaxLag = 0
  MaxTime = 1
  MaxFence = 2
  MaxVersion = 1
PROPERTIES
  DelegatedParentResumes
  FailedBranchBlocks
  EventsSettle
  WorkFinishes
CHECK_DEADLOCK FALSE
