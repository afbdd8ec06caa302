\* The same command given twice on one pull request.
CONSTANTS
  push = push
  command = command
  analysis = analysis
  p1 = p1
  c1 = c1
  c2 = c2
  pr = pr
  Keys = {command}
  Type <- MCType
  Headless = {command}
  AtTip = {push}
  Places = {pr}
  Place <- MCPlace
  Deliveries = {c1, c2}
  Key <- MCKey
  Attempts = 1
  Concurrency = 1
  MaxStalls = 1
  MaxRetries = 0
  MaxCrashes = 0
SPECIFICATION Spec
PROPERTY NewDeliveryIsServed
\* the deliveries are finitely many
CHECK_DEADLOCK FALSE
