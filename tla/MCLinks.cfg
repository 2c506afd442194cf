SPECIFICATION Spec
CONSTANTS
  l1 = l1
  l2 = l2
  h1 = h1
  h2 = h2
  None = None
  Links <- TwoLinks
  MaxBalances = 2
  Amounts = {1, 2}
  Handlers <- MCHandlers
SYMMETRY Symmetry
INVARIANTS
  TypeOK
  FundedIsBacked
PROPERTIES
  ClaimedFundsNoMore
  LinkSpec
