SPECIFICATION Spec
CONSTANTS
  a1 = a1
  a2 = a2
  h1 = h1
  h2 = h2
  Action <- MCAction
  Call = {h1, h2}
  Effects = {"transaction", "idempotent", "uncertain"}
  Approvals = {TRUE, FALSE}
  MaxFence = 2
  MaxVersion = 2
  MaxResource = 2
SYMMETRY HandlerSymmetry
INVARIANTS
  UncertainOnce
  TransactionExact
  ApprovedOnly
PROPERTIES
  SettledStays
CHECK_DEADLOCK FALSE
