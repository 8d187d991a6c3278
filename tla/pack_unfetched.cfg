CONSTANTS
  Modes = {"manual"}
  Faults = {"download", "fetch"}
SPECIFICATION Spec
INVARIANTS PublishedIsVerified
CHECK_DEADLOCK FALSE
