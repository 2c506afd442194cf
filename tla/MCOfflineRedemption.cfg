SPECIFICATION SpecRedemption
CONSTANTS
  s1 = s1
  k1 = k1
  k2 = k2
  w1 = w1
  a1 = a1
  a2 = a2
  r1 = r1
  None = None
  Screens <- MCScreens
  Sheets <- OneSheet
  AllowanceIds <- MCAllowanceIds
  AuthIds <- TwoAuths
  Requests <- MCRequests
  Amount <- MCAmount
  Limits <- MCLimits
  LeaveWhileSigning = FALSE
  SheetsOverlap = FALSE
  MaxPaid = 2
INVARIANTS
  TypeOKRedemption
  RepaidOnlyUnsettled
  FinalIsNotQueued
PROPERTY
  LeavesQueueForAReason
