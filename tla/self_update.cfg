CONSTANTS
  None = None
  Damaged = Damaged
  Pack = Pack
  Whole = Whole
  Versions <- MCVersions
  Pages <- MCPages
SPECIFICATION FairSpec
INVARIANTS TypeOK Recoverable OfferedIffLater
PROPERTIES UpdateArrives
CHECK_DEADLOCK FALSE
