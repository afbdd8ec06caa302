\* Two comments on one thread; nothing fails and nothing restarts.
CONSTANTS
  Users = {c1, c2}
  Nobody = Nobody
  TurnLimits = {0}
  Faults = FALSE
  MaxStarts = 0
SPECIFICATION Spec
INVARIANT ThreadSurvivesRestart
CHECK_DEADLOCK FALSE
