SPECIFICATION FairSpec
CONSTANTS
  MaxQueued = 2
  PipeSize = 1
  Payloads <- OneAndTwo
  MaxInput = 4
  StdinModes = {"closed", "stream"}
  KillIds = {k1}
  KillSignals = {"KILL"}
  Timeout = FALSE
  Limited = TRUE
  Stubborn = FALSE
  Holds = {{}, {"in"}, {"out"}, {"in", "out"}}
  MaxChunks = 0
  CaptureMayFail = FALSE
  ShutdownAllowed = FALSE
  EarlyRequests = FALSE
INVARIANTS
  InputInOrder
  JobsNeverFull
PROPERTY KillEndsSession
