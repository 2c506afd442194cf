SPECIFICATION FairSpec
CONSTANTS
  p1 = p1
  c1 = c1
  c2 = c2
  a1 = a1
  a2 = a2
  None = None
  Plans <- MCPlans
  Checks <- MCChecks
  Attempts <- MCAttempts
  MaxPeriods = 2
  MaxRows = 4
  MaxTxs = 2
INVARIANTS
  TypeOK
  RecordedIsPaid
  TotalWithinRecorded
  NoExtraBilling
PROPERTY
  DueIsBilled
