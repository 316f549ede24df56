SPECIFICATION FairGate
CHECK_DEADLOCK FALSE
CONSTANTS
  r1 = r1  r2 = r2  k1 = k1  k2 = k2  p1 = p1  g1 = g1  g2 = g2
  NoRequest = NoRequest
  Requests <- TwoRequests
  Keys = {k1, k2}
  Projects = {p1}
  Grants <- ReviewGrants
  GrantInfo <- ReviewInfo
  IssuedAtStart = {g1}
  BudgetLimits = {0, 2}
  Actuals = {2}
  MaxTime = 1
  MonthLength = 9
  ApprovalTtl = 1
  OverdueAge = 0
  SweepLimit = 1
  Inputs <- LivenessInputs
  Policies <- CreditPolicies
PROPERTIES
  EveryCallAnswered
  OverdueReleased
