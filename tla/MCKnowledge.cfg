SPECIFICATION KnowledgeSpec
CONSTANTS
  MWork = {1, 2}
  MSession = {"s"}
  MSessionOf <- OneSession
  MParentOf <- ChainOfTwo
  MDependsOn <- NoDependency
  MWorker = {"a"}
  MRequest = {"p", "q"}
  MaxClaims = 2
  LeaseTtl = 2
  MaxNow = 2
  MaxSteer <- FirstRevised
  Works = {"v", "w"}
  Files = {"f"}
  MaxAttempts = 2
  MaxGen = 3
  MaxWrites = 2
  Docs = {1}
  AdminActs = {"k", "l"}
  MaxWrite = 3
  MaxForget = 2
  MaxFence = 2
  MaxRequest = 2
  Sources = {1}
  Scopes = {"A", "B"}
  Drains = {"d", "e"}
  CaptureTries = 2
  JobTries = 2
  MaxJobs = 2
  MaxEpoch = 1
  Candidates = {1, 2, 3}
  PinRuns = {"u"}
  MaxVersion = 4
  MaxItems = 5
  SoftLimit = 4
  Background = 3
  HardLimit = 6
  KeepTail = 2
  SummarySize = 2
  MaxRevisions = 1
  Writers = {"x", "y"}
  Operations = {"o", "p"}
  Fields = {"f", "g"}
  MaxFieldVersion = 2
  MaxSeq = 3
  PageSize = 1
INVARIANTS
  StoreSafe
  WorkspaceSafe
  DocumentsSafe
  LearningSafe
  EvolutionSafe
  CompactionSafe
  SharedSafe
PROPERTIES
  StoreImplementsLock
CHECK_DEADLOCK FALSE
