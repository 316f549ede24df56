SPECIFICATION FairCosts
CONSTANTS
  c1 = c1  s1 = s1  s2 = s2
  Records = {c1}
  DayOf <- FirstDay
  Costs = {1, 2}
  Sessions = {s1, s2}
  RuleSets <- RulesOfMC
  IngestDays = 1
  AttributeDays = 2
  FinalizeDays = 1
  RetentionDays = 1
  MaxDay = 2
  MaxId = 1
INVARIANTS
  AllocationsFollowCost
PROPERTIES
  CostsBecomeFinal
