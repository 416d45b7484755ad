CONSTANTS
  l1 = l1
  l2 = l2
  x1 = x1
  x2 = x2
  v1 = v1
  m1 = m1
  d1 = d1
  t1 = t1
  Logins = {l1, l2}
  Resets = {x1, x2}
  Revocations = {v1}
  Visits = {m1}
  Departures = {d1}
  Tokens = {t1}
  TokenOf <- OneToken
  MaxFailures = 1
  Budget = 1
  MaxEvents = 5
SPECIFICATION Spec
SYMMETRY Symmetry
CONSTRAINT AtMostMaxEvents
INVARIANTS
  TokenIsSingleUse
  GuessesAreBounded
  OutdatedSessionOverlappedReset
  LiveSessionIsIndexed
CHECK_DEADLOCK FALSE
