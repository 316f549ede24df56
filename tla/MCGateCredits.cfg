SPECIFICATION Spec
CHECK_DEADLOCK FALSE
CONSTANTS
  r1 = r1  r2 = r2  k1 = k1  k2 = k2  p1 = p1  g1 = g1  g2 = g2
  NoRequest = NoRequest
  Requests <- TwoRequests
  Keys = {k1, k2}
  Projects = {p1}
  Grants <- CreditGrants
  GrantInfo <- CreditInfo
  IssuedAtStart = {g1}
  BudgetLimits = {0, 1}
  Actuals = {1, 3}
  MaxTime = 1
  MonthLength = 2
  ApprovalTtl = 1
  OverdueAge = 0
  SweepLimit = 2
  Inputs <- CreditInputs
  Policies <- CreditPolicies
SYMMETRY Symmetry2
INVARIANTS
  TypeOK
  CreditConserved
  HoldsBackDecisions
  ShortOnlyOnExpiry
  SpendMatchesRows
PROPERTIES
  ImplementsLedger
