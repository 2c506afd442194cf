SPECIFICATION Spec
CONSTANTS
  s1 = s1
  s2 = s2
  w1 = w1
  w2 = w2
  a1 = a1
  a2 = a2
  a3 = a3
  r1 = r1
  r2 = r2
  None = None
  Screens <- MCScreens
  AllowanceIds <- FewAllowanceIds
  AuthIds <- MCAuthIds
  Requests <- MCRequests
  Amount <- MCAmount
  Limits <- MCLimits
  LeaveWhileSigning = TRUE
SYMMETRY Symmetry
INVARIANT
  BranchesCovered
