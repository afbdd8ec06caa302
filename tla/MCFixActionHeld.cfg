\* The same instance, for what the engine's types promise of a held fix.
CONSTANTS
  Modes = {"loop", "once"}
  Settings = {"none", "valid", "rejected"}
  MaxIterations = 2
  MaxRetries = 2
  MaxForeign = 1
SPECIFICATION Spec
INVARIANT HeldIsNotPushed
CHECK_DEADLOCK FALSE
