SPECIFICATION Spec
CONSTANTS
  Finding = {f1}
  Batches = 2
  Severity <- MCSeverity
  Line <- MCLine
  Ways = {"reviews-array"}
  VerdictMode = "approve"
  Attempts = 2
  MaxThreads = 2
  Runs = 2
  FailOn = {"critical"}
  FailCI = TRUE
INVARIANTS
  StillReportedStaysOpen
CHECK_DEADLOCK FALSE
