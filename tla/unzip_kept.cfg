CONSTANTS
  Names <- MCNames
  Below <- MCBelow
  Zip <- MCZip
  TempOf <- MCTempOf
  InitialSD <- MCInitialSD
  NoName = ""
  None = None
  Dir = Dir
  Damaged = Damaged
  Contents = {"old", "new"}
  SubDepth = 1
  KeepFiles = TRUE
  Kept = {"ini", "logo/old", "boot/x"}
  Verifies = {FALSE}
  Protected = {"package3"}
  BootLogo = "logo"
  Faults = {}
SPECIFICATION Spec
INVARIANTS KeptSurvives
CHECK_DEADLOCK FALSE
