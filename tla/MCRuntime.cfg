SPECIFICATION RuntimeSpec
CONSTANTS
  MaxFence = 2
  MaxVersion = 2
  MaxCalls = 2
  ContinueLimit = 2
  RepairLimit = 1
  Kinds = {"write", "cell"}
  Leftover = {"write", "cell"}
  Faults = {"crash", "model", "review", "tool", "defer", "stop"}
  Keys = {"s", "t"}
  Cells = {1, 2, 3}
  KeyOf <- SessionOf
  MaxKernels = 1
  MaxInst = 3
INVARIANTS
  AnswerIsCurrent
  ModelSeesPairs
  EffectOnce
  ParkedCanWake
  PoolKept
PROPERTIES
  AttemptEnds
  DecidedResumes
  CellsSettle
CHECK_DEADLOCK FALSE
