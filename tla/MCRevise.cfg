SPECIFICATION Spec
CONSTANTS
  MaxFence = 2
  MaxVersion = 2
  MaxCalls = 2
  ContinueLimit = 3
  RepairLimit = 2
  Kinds = {"write", "unsafe"}
  Leftover = {}
  Faults = {}
INVARIANT RevisionContinues
CHECK_DEADLOCK FALSE
