CONSTANTS
  c1 = c1
  c2 = c2
  r1 = r1
  r2 = r2
  r3 = r3
  ann = ann
  k1 = k1
  a = a
  b = b
  None = None
  Stale = Stale
  Creates = {c1, c2}
  Posts = {r1, r2, r3}
  Users = {ann}
  SessionOf <- Session
  OwnerOf <- OneUser
  KeyOf <- OneKey
  BodyOf <- Bodies
  MaxGeneration = 2
  UserCap = 1
  Budget = 1
SPECIFICATION FairSpec
INVARIANTS
  SlotsAreAccountedFor
  RepeatAddsNothing
  EmptyAnswerIsBeingWritten
PROPERTIES
  EveryRequestEnds
  KeepsContract
CHECK_DEADLOCK FALSE
