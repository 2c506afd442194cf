SPECIFICATION FairSpecRedemption
CONSTANTS
  s1 = s1
  k1 = k1
  k2 = k2
  w1 = w1
  a1 = a1
  a2 = a2
  r1 = r1
  None = None
  Screens <- MCScreens
  Sheets <- TwoSheets
  AllowanceIds <- MCAllowanceIds
  AuthIds <- OneAuth
  Requests <- MCRequests
  Amount <- MCAmount
  Limits <- MCLimits
  LeaveWhileSigning = TRUE
  SheetsOverlap = TRUE
  MaxPaid = 2
INVARIANT
  SettledIsPaid
PROPERTY
  SyncEnds
