SPECIFICATION FairSpec
CONSTANTS
  Writers = {"w", "h"}
  Hiding = {"h"}
  Mine = {1, 2}
  Shown = {2}
  ScanLimit = 1
  MaxEvents = 1
  MaxSeq = 2
  MaxFaults = 2
  MaxCrashes = 1
INVARIANTS
  
  ProjectionIsSound
  
PROPERTIES
  CommittedIsProjected
CHECK_DEADLOCK FALSE
