CONSTANTS
  i1 = i1
  i2 = i2
  e1 = e1
  d1 = d1
  alice = alice
  granny = granny
  NoJob = NoJob
  NoWorker = NoWorker
  NoPersona = NoPersona
  Jobs = {i1, i2}
  IngestJobs = {i1, i2}
  Exports = {}
  Deletions = {}
  Users = {alice}
  UserOf <- OneOwner
  Personas = {granny}
  PersonaOf <- OnePersona
  Workers = {w1, w2}
  Cap = 1
  MaxAttempts = 2
  Budget <- Everything
SPECIFICATION FairSpec
INVARIANTS
  PickIsExclusive
  RunningRowIsRecoverable
  GivenUpOnlyAfterMaxStarts
PROPERTIES
  EveryJobSettles
  FailureReachesDocument
CHECK_DEADLOCK FALSE
