CONSTANTS
  Jobs = {1, 2, 3}
  Requests = {1, 2}
  Kinds = {"text", "audio"}
  LastBatch = 2
  MaxAttempts = 2
  Budget <- Troubles
  AtMost = 2
SPECIFICATION FairSpec
INVARIANTS
  DoneIsSearchable
  NoStrandedDocument
  DeletedLeavesNoChunks
  VerdictAgrees
PROPERTIES
  EveryJobSettlesDocument
CHECK_DEADLOCK FALSE
