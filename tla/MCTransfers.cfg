SPECIFICATION Spec
CONSTANTS
  u1 = u1
  u2 = u2
  k1 = k1
  k2 = k2
  t1 = t1
  p1 = p1
  b1 = b1
  h1 = h1
  h2 = h2
  None = None
  Users <- MCUsers
  Keys <- MCKeys
  Tags <- MCTags
  Payments <- MCPayments
  Bills <- MCBills
  Lists <- MCLists
  Reports <- MCReports
  Handlers <- MCHandlers
SYMMETRY Symmetry
INVARIANTS
  TypeOK
  PayeeIsPaid
  RecordTellsChain
  BillsNameTheirContributors
