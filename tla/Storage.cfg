CONSTANTS
  u1 = u1
  u2 = u2
  u3 = u3
  p1 = p1
  k1 = k1
  a = a
  b = b
  NoUpload = NoUpload
  Stale = Stale
  Uploads = {u1, u2, u3}
  Personas = {p1}
  PersonaOf <- OnePersona
  ContentOf <- Contents
  KeyOf <- SameKey
  SizeOf <- Sizes
  MaxBytes = 2
  QuotaBytes = 2
  QuotaDocs = 2
  Budget = 1
SPECIFICATION FairSpec
INVARIANTS
  CountersAreAccountedFor
  QuotaHolds
  FileLostOnlyToSweepOrErasure
  NoFileWithoutRow
PROPERTIES
  LeftoversAreRemoved
CHECK_DEADLOCK FALSE
