CONSTANTS
  Jobs = {1}
  Requests = {}
  Kinds = {"text"}
  LastBatch = 2
  MaxAttempts = 2
  Budget <- CrashOnce
  AtMost = 1
SPECIFICATION Spec
INVARIANTS
  NoDuplicateChunks
CHECK_DEADLOCK FALSE
