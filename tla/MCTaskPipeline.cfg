\* One command, delivered twice, created by hand, retried; two slots, two crashes.
CONSTANTS
  push = push
  command = command
  analysis = analysis
  p1 = p1
  c1 = c1
  c2 = c2
  pr = pr
  Keys = {command}
  Type <- MCType
  Headless = {command}
  AtTip = {push}
  Places = {pr}
  Place <- MCPlace
  Deliveries = {c1}
  Key <- MCKey
  Attempts = 2
  Concurrency = 2
  MaxStalls = 1
  MaxRetries = 1
  MaxCrashes = 2
SPECIFICATION FairSpec
INVARIANTS
  NoDeliveryLost
  PublishedOncePerRequest
  RunningRowHasJob
  SettledRowAgreesWithJob
PROPERTIES
  RunningRowsSettle
\* the deliveries are finitely many
CHECK_DEADLOCK FALSE
