SPECIFICATION Spec
CHECK_DEADLOCK FALSE
CONSTANTS
  r1 = r1  r2 = r2  k1 = k1  k2 = k2  p1 = p1  g1 = g1  g2 = g2
  NoRequest = NoRequest
  Requests <- TwoRequests
  Keys = {k1, k2}
  Projects = {p1}
  Grants <- NoGrants
  GrantInfo <- NoGrantInfo
  IssuedAtStart = {}
  BudgetLimits <- BudgetLimitSet
  Actuals = {0}
  MaxTime = 1
  MonthLength = 1
  ApprovalTtl = 1
  OverdueAge = 0
  SweepLimit = 2
  Inputs <- BudgetInputs
  Policies <- BudgetPolicies
SYMMETRY Symmetry2
PROPERTIES
  NoOvercommit
  CeilingsHold
