CONSTANTS
  e1 = e1
  e2 = e2
  e3 = e3
  s1 = s1
  s2 = s2
  Callers <- MCEvents
  Others <- MCOthers
  Batches = 2
  WatchedBatch = 1
  FailureThreshold = 2
  SuccessThreshold = 1
SPECIFICATION FairBusSpec
INVARIANTS
  ProbeFlagHasOwner
  HealthShowsCircuit
PROPERTIES
  PublishReturns
\* the events are finitely many
CHECK_DEADLOCK FALSE
