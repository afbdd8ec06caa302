CONSTANTS
  c1 = c1
  c2 = c2
  None = None
  Commands <- MCCommands
  MaxHead = 2
SPECIFICATION Spec
INVARIANT JoinedPushIsReviewed
\* all events may have been handled
CHECK_DEADLOCK FALSE
