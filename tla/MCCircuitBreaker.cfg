SPECIFICATION FairSpec
CONSTANTS
    c1 = c1
    c2 = c2
    c3 = c3
    Callers <- MCCallers
    FailureThreshold = 2
    SuccessThreshold = 2
INVARIANTS
    ClosedIffBelowThreshold
    SuccessesBelongToWindow
    ProbeFlagHasOwner
PROPERTY EventuallyClosed
