SPECIFICATION Spec
CONSTANTS
  u1 = u1
  u2 = u2
  k1 = k1
  k2 = k2
  h1 = h1
  h2 = h2
  None = None
  Users <- MCUsers
  Keys <- MCKeys
  Handlers <- MCHandlers
SYMMETRY Symmetry
INVARIANTS
  TypeOK
  ActivatedIsFunded
PROPERTIES
  AdminsComeFromAdmins
  KeepsDirectory
