SPECIFICATION RemSpec
CONSTANTS
  r1 = r1  r2 = r2  w1 = w1  w2 = w2  f1 = f1  nofinding = nofinding
  Requests = {r1, r2}
  Workers <- SomeWorkers
  Findings = {f1}
  NoFinding = nofinding
  Finding <- SameFinding
  Sensitive = {r1}
  SafeActions = {r1}
  Grace = 1
  MaxTime = 1
  FailureLimit = 1
SYMMETRY Symmetry
INVARIANTS
  RemTypeOK
  OverrideRequired
  GraceRespected
PROPERTIES
  ExecutedOnce
