SPECIFICATION Spec
CONSTANTS
  Calls = {c1, c2}
  Execs = {x1, x2}
  None = None
  Limit = 1
  TimeoutSet = TRUE
  MaxEpoch = 3
  MaxCrashes = 1
  MaxFaults = 1
SYMMETRY CallSymmetry
INVARIANTS
  ChildRunsOnce
  TransferWaitsForChild
  ReceiptIsTrue
CHECK_DEADLOCK FALSE
