SPECIFICATION Spec
CONSTANTS
  Ops = {o1}
  Sessions = {s1, s2, s3}
  None = None
  MaxSessions = 3
  ExitStates = {"completed"}
  Retention = TRUE
  MaxFaults = 0
  MaxCrashes = 1
SYMMETRY IdSymmetry
CHECK_DEADLOCK FALSE
INVARIANT OneProcessPerOperation
