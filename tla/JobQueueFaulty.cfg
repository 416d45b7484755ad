CONSTANTS
  i1 = i1
  i2 = i2
  e1 = e1
  d1 = d1
  alice = alice
  granny = granny
  NoJob = NoJob
  NoWorker = NoWorker
  NoPersona = NoPersona
  Jobs = {i1, e1, d1}
  IngestJobs = {i1}
  Exports = {e1}
  Deletions = {d1}
  Users = {alice}
  UserOf <- OneOwner
  Personas = {granny}
  PersonaOf <- OnePersona
  Workers = {w1, w2}
  Cap = 1
  MaxAttempts = 2
  Budget <- Faulty
SPECIFICATION Spec
SYMMETRY WorkerSymmetry
INVARIANTS
  ExecutorOwnsRow
  AttemptsCountStarts
PROPERTIES
  DoneIsFinal
  ImplementsLedger
CHECK_DEADLOCK FALSE
