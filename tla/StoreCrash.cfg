SPECIFICATION Spec
CONSTANTS
  Ops = {o1, o2}
  Sessions = {s1, s2, s3}
  None = None
  MaxSessions = 1
  ExitStates = {"completed"}
  Retention = TRUE
  MaxFaults = 1
  MaxCrashes = 1
SYMMETRY IdSymmetry
CHECK_DEADLOCK FALSE
INVARIANTS
  TypeOK
  AtMostOneSpawn
  SpawnOnDurableRecord
  CommandsWithinCapacity
  NoTerminalConflict
  TerminalHasReceipt
