SPECIFICATION Spec
CONSTANTS
  s1 = s1
  s2 = s2
  None = None
  Sessions <- TwoSessions
  K = 4
  Degrees = {2, 4}
  MaxFrames = 7
SYMMETRY Symmetry
INVARIANTS
  TypeOK
  HoldsOfTheSource
  PlainFramesSuffice
