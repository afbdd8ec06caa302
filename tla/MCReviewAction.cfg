SPECIFICATION Spec
CONSTANTS
  Finding = {f1}
  Batches = 2
  Severity <- MCSeverity
  Line <- MCLine
  Ways = {"plain", "streaming", "reviews-array"}
  VerdictMode = "approve"
  Attempts = 2
  MaxThreads = 2
  Runs = 2
  FailOn = {"critical"}
  FailCI = TRUE
INVARIANTS
  GreenMeansDelivered
  ApprovalMeansReviewed
  FindingsShown
  NoDuplicateThreads
  CommentsStayOpen
CHECK_DEADLOCK FALSE
