CONSTANTS
  a = a
  b = b
  c = c
  d = d
  review = review
  autofix = autofix
  Runs <- MCRuns
  Inside <- MCInside
  Limit = 2
SPECIFICATION FairLimitSpec
INVARIANTS
  NoIdleSlot
  NestedInsideSlot
PROPERTIES
  ImplementsSlotPool
  WaitersServed
\* the calls are finitely many and may all have returned
CHECK_DEADLOCK FALSE
