SPECIFICATION FairJobs
CONSTANTS
  j1 = j1  j2 = j2  j3 = j3  p1 = p1  p2 = p2
  Jobs <- ThreeJobs
  Processors = {p1, p2}
  Webhooks = {j2}
  Deliveries = {d1}
  BatchLimit = 2
  JobTimeout = 1
  LockTimeouts = {1, 3}
  BackoffBase = 1
  MaxAttempts <- ThreeAttempts
  Priority <- Priorities
INVARIANTS
  JobTypeOK
  AttemptsBounded
  NoAttemptShared
  NoDoubleProcessing
PROPERTIES
  EveryJobEnds
