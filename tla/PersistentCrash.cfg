SPECIFICATION FairSpec
CONSTANTS
  MaxOutput = 2
  MaxCrashes = 2
  MaxFaults = 1
  SupervisorMayDie = TRUE
  SlowStartup = TRUE
INVARIANTS
  OneSupervisor
  OutputIsImportedOnce
  OpenIsOwned
  DecisionsAgree
PROPERTY SessionSettles
CHECK_DEADLOCK FALSE
