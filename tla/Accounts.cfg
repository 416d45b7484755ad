CONSTANTS
  a1 = a1
  a2 = a2
  n1 = n1
  n2 = n2
  i1 = i1
  q1 = q1
  e1 = e1
  None = None
  Boot = Boot
  Admins = {a1, a2}
  Invites = {i1}
  EmailOf <- Email
  RoleOf <- Role
  Accepts = {n1, n2}
  InviteOf <- OneInvite
  Patches = {q1}
  Changes <- SomeChanges
  Old = {a1}
  MaxAttempts = 2
  Budget = 1
SPECIFICATION Spec
SYMMETRY Symmetry
INVARIANTS
  OneAccountPerInvite
  AdminsRunOutOnlyByPatchOrRace
PROPERTIES
  RevokedInviteMakesNoAccount
CHECK_DEADLOCK FALSE
