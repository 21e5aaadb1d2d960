SPECIFICATION ResourcesSpec
CONSTANTS
  a = a
  b = b
  Caller = {a, b}
  Size = {2}
  Usage = {1, 3}
  MaxCalls = 3
  MaxTokens = 5
  MaxTries = 2
  MaxIds = 3
  Calls = {1, 2, 3, 4, 5, 6}
  Background = {1, 2, 3}
  Capacity = 2
  MaxQueued = 2
  Reserved = 1
  Jobs = {1, 2, 3}
  Operations = {1, 2}
  MaxRuns = 2
  ReservedRuns = 1
  MaxFaults = 2
SYMMETRY Interchangeable
INVARIANTS
  BudgetExact
  OverrunOnlyByEstimates
  QuotaKept
  LoopKept
CHECK_DEADLOCK FALSE
