CONSTANTS
  e1 = e1
  e2 = e2
  g1 = g1
  p1 = p1
  p2 = p2
  NoExport = NoExport
  Exports = {e1, e2}
  Polls = {g1}
  Personas = {p1, p2}
  MaxAttempts = 2
  Budget = 2
SPECIFICATION FairSpec
INVARIANTS
  OneExportUnlessChecksOverlap
  DoneArchiveIsComplete
  NoArchiveOutlivesAccount
PROPERTIES
  ArchivesAreRemoved
CHECK_DEADLOCK FALSE
