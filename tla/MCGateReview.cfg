SPECIFICATION Spec
CHECK_DEADLOCK FALSE
CONSTANTS
  r1 = r1  r2 = r2  k1 = k1  k2 = k2  p1 = p1  g1 = g1  g2 = g2
  NoRequest = NoRequest
  Requests <- TwoRequests
  Keys = {k1}
  Projects = {p1}
  Grants <- ReviewGrants
  GrantInfo <- ReviewInfo
  IssuedAtStart = {g1}
  BudgetLimits = {1}
  Actuals = {2}
  MaxTime = 3
  MonthLength = 2
  ApprovalTtl = 1
  OverdueAge = 1
  SweepLimit = 1
  Inputs <- ReviewInputs
  Policies <- ReviewPolicies
SYMMETRY Symmetry2
INVARIANTS
  RepliesAreDurable
  RefusedHoldsNothing
PROPERTIES
  SettlementIsFinal
