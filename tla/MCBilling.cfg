SPECIFICATION BillSpec
CONSTANTS
  h1 = h1  h2 = h2
  c1 = c1  c2 = c2
  MaxAttempts = 2
  RetryDays <- MCRetryDays
  JobAttempts <- MCJobAttempts
  Period = 1
  Retention <- MCRetention
  PaidTiers = {"pro"}
  Checkouts = {c1, c2}
  CheckoutTier <- MCCheckoutTier
  Hooks = {h1, h2}
  MaxFailures = 3
  MaxTime = 1
SYMMETRY Symmetry
INVARIANTS
  BillTypeOK
  PlanFollowsTier
  RetryIsQueued
