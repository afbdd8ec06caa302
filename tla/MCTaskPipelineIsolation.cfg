\* A push to a pull request and a command on it, with two slots.
CONSTANTS
  push = push
  command = command
  analysis = analysis
  p1 = p1
  c1 = c1
  c2 = c2
  pr = pr
  Keys = {push, command}
  Type <- MCType
  Headless = {command}
  AtTip = {push}
  Places = {pr}
  Place <- MCPlace
  Deliveries = {p1, c1}
  Key <- MCKey
  Attempts = 1
  Concurrency = 2
  MaxStalls = 1
  MaxRetries = 0
  MaxCrashes = 0
SPECIFICATION Spec
INVARIANT WorkspaceIsolated
\* the deliveries are finitely many
CHECK_DEADLOCK FALSE
