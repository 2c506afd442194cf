SPECIFICATION Spec
CONSTANTS
  m1 = m1
  m2 = m2
  m3 = m3
  m4 = m4
  None = None
  Vault = Vault
  Members <- MCMembers
  Amounts <- MCAmounts
  Holdings <- MCHoldings
  MaxEntries = 2
  MaxSigned = 2
SYMMETRY Symmetry
INVARIANTS
  TypeOK
  AdminsBounded
  Solvent
  LedgerTotals
PROPERTIES
  OutflowByRole
  ClosedIsFinal
