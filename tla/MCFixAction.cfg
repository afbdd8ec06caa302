\* Both entry points, with and without checks; one push of somebody else.
CONSTANTS
  Modes = {"loop", "once"}
  Settings = {"none", "valid", "rejected"}
  MaxIterations = 2
  MaxRetries = 2
  MaxForeign = 1
SPECIFICATION FairSpec
INVARIANTS
  UnverifiedPushFailsJob
  ReadyIsEarned
  GateSeesOwnCommits
  LostPushNotReported
PROPERTIES
  RunEnds
\* a run that is over stays over
CHECK_DEADLOCK FALSE
