SPECIFICATION FairSpec
CONSTANTS
  Handoffs = {h1, h2}
  Clients = {c1, c2}
  Controls = {k1}
  None = None
  MaxEpoch = 4
  MaxCrashes = 2
  MaxFaults = 1
  SessionMayEnd = TRUE
CHECK_DEADLOCK FALSE
INVARIANTS OneWriter OwnersAgree
 
