SPECIFICATION ActionsSpec
CHECK_DEADLOCK FALSE
CONSTANTS
  a1 = a1  a2 = a2  w1 = w1  w2 = w2  c1 = c1  c2 = c2
  Nobody = Nobody
  Actions <- TwoActions
  Workers = {w1, w2}
  Calls = {c1, c2}
  MaxAttempts <- Limits
  RetryBackoff = 1
  LeaseTtl = 1
  Tries = 2
  MaxTime = 2
SYMMETRY Symmetric
INVARIANTS
  ActionTypeOK
  GrantsAreCounted
  WaitingHasAttempts
PROPERTIES
  EndedStaysEnded
