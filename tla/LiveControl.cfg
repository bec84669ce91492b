SPECIFICATION FairSpec
CONSTANTS
  MaxQueued = 1
  PipeSize = 1
  Payloads <- OneByte
  MaxInput = 2
  StdinModes = {"stream"}
  KillIds = {k1}
  KillSignals = {"KILL"}
  Timeout = TRUE
  Limited = FALSE
  Stubborn = TRUE
  Holds = {{}, {"in"}, {"out"}}
  MaxChunks = 1
  CaptureMayFail = TRUE
  ShutdownAllowed = TRUE
  EarlyRequests = FALSE
INVARIANTS
  ReceiptIsTrue
  KillSentOnce
  ShutdownLeavesNothing
PROPERTY TimeoutEndsSession
