SPECIFICATION Spec
CONSTANTS
  a1 = a1
  a2 = a2
  h1 = h1
  h2 = h2
  Action <- MCPair
  Call = {h1, h2}
  Effects = {"uncertain"}
  Approvals = {FALSE}
  MaxFence = 2
  MaxVersion = 1
  MaxResource = 1
SYMMETRY PairSymmetry
PROPERTIES
  WritesAwaitSettlement
CHECK_DEADLOCK FALSE
