\* Four calls, one of them without a timer; critical sections may hang.
CONSTANTS
  c1 = c1
  c2 = c2
  c3 = c3
  c4 = c4
  Calls <- MCCalls
  Unbounded <- MCUnbounded
SPECIFICATION FairSpec
INVARIANTS
  MutualExclusion
  FirstComeFirstServed
  DepthCountsUnsettled
PROPERTIES
  NobodyWaitsForever
  ChainDrains
\* the calls are finitely many and may all have returned
CHECK_DEADLOCK FALSE
