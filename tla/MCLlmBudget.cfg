SPECIFICATION LlmSpec
CONSTANTS
  c1 = c1  c2 = c2  c3 = c3
  p1 = p1  p2 = p2
  Processes = {p1, p2}
  Calls <- SomeCalls
  ProcessOf <- MCProcessOf
  Cached = TRUE
  Estimates = {2}
  Prices = {1, 3}
  Limits = {1, 4}
  DefaultLimit = 2
  SlotCap = 1
  DailyLimit = 1
  LastMonth = 1
SYMMETRY Symmetry
INVARIANTS
  LlmTypeOK
  SpendMatchesUsage
  SpendWithinLimit
  SlotsHeld
  QuotaOvershoot
