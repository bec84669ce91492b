SPECIFICATION FairSpec
CONSTANTS
  Ops = {o1, o2}
  Sessions = {s1, s2}
  None = None
  MaxSessions = 2
  ExitStates = {"completed"}
  Retention = FALSE
  MaxFaults = 2
  MaxCrashes = 2

INVARIANT ShownReceiptDurable
PROPERTIES
  ImplementsContract
  OnlyStrandedStopsRecovery
  EveryRunGetsReceipt
CHECK_DEADLOCK FALSE
