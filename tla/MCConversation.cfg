\* Three comments on one thread, one restart, every call of the store may fail.
CONSTANTS
  Users = {c1, c2, c3}
  Nobody = Nobody
  TurnLimits = {1, 2}
  Faults = TRUE
  MaxStarts = 1
SYMMETRY Alike
SPECIFICATION Spec
INVARIANTS
  OneConnection
  TurnBudget
  NumbersDistinct
  QueueMoves
\* the comments are finitely many
CHECK_DEADLOCK FALSE
