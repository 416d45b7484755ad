CONSTANTS
  p0 = p0
  c1 = c1
  c2 = c2
  c3 = c3
  n1 = n1
  d1 = d1
  d2 = d2
  a1 = a1
  a2 = a2
  x1 = x1
  ann = ann
  ben = ben
  cyd = cyd
  NoFile = NoFile
  NoOne = NoOne
  Existing = {p0}
  Creates = {c1, c2, c3}
  Renames = {n1}
  Deletes = {d1, d2}
  AvatarUploads = {a1, a2}
  AvatarDeletes = {x1}
  PersonaOf <- OnFirst
  NameOf <- ThreeNames
  Quota = 2
  Budget = 1
SPECIFICATION Spec
SYMMETRY Symmetry
INVARIANTS
  CountMatchesRows
  AvatarLostOnlyToLateRemovalOrErasure
  DeletedPersonaLeavesNoAvatar
CHECK_DEADLOCK FALSE
