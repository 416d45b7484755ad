CONSTANTS
  d1 = d1
  r2 = r2
  e1 = e1
  r1 = r1
  g1 = g1
  Whole = Whole
  NoRow = NoRow
  Docs = {d1}
  Eras = {e1}
  EraOf <- InEra
  Recomputes = {r1, r2}
  Gets = {g1}
  MaxAttempts = 2
  MaxFaults = 1
SPECIFICATION ProfilesSpec
SYMMETRY Symmetry
INVARIANTS
  QuietProfileIsCurrent
  FinalAnswerIsCurrent
CHECK_DEADLOCK FALSE
