SPECIFICATION FairSpec
CONSTANTS
  Chunks = {"a"}
  MaxRecords = 2
  MaxQueued = 2
  Kills = {"k"}
  KillSignals = {"KILL"}
  MaxOutput = 1
  MaxFaults = 1
INVARIANTS
  InputInOrder
  RecordIsTrue
  KillAnswerIsTrue
  NoChildIsLeft
 
CHECK_DEADLOCK FALSE
