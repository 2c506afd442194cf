SPECIFICATION Spec
CONSTANTS
  h1 = h1
  h2 = h2
  c1 = c1
  c2 = c2
  t1 = t1
  t2 = t2
  t3 = t3
  None = None
  Handlers <- MCHandlers
  Challenges <- MCChallenges
  Tokens <- MCTokens
SYMMETRY Symmetry
INVARIANTS
  TypeOK
  OneLoginPerRow
PROPERTY
  RotatedStaysDead
