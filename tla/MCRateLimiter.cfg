\* Every limit is within reach of three requests in the three hours of a day.
CONSTANTS
  r1 = r1
  r2 = r2
  r3 = r3
  alice = alice
  bob = bob
  repo = repo
  Calls <- MCRequests
  Unbounded <- MCUnbounded
  Repo <- MCRepo
  Pr <- MCPr
  User <- MCUser
  Tier <- MCTier
  Cooldown <- MCCooldown
  Estimate <- MCEstimate
  FailOpen <- MCFailOpen
  Actual <- MCActual
  ReadFailures <- MCReadFailures
  RepoCap = 1
  UserCap = 1
  Budget = 3
  Retention = 3
  HourTicks = 1
  DayTicks = 3
  MaxTime = 3
SPECIFICATION LimiterSpec
INVARIANTS
  CountCaps
  CooldownRespected
  DailyBudget
\* the requests are finitely many and the clock is bounded
CHECK_DEADLOCK FALSE
