CONSTANTS
  Names <- MCNames
  Below <- MCBelow
  Zip <- MCZip
  TempOf <- MCTempOf
  InitialSD <- MCInitialSD
  NoName = ""
  None = None
  Dir = Dir
  Damaged = Damaged
  Contents = {"old", "new"}
  SubDepth = 1
  KeepFiles = TRUE
  Kept = {"ini", "logo/old", "boot/x"}
  Verifies = {TRUE, FALSE}
  Protected = {"package3"}
  BootLogo = "logo"
  Faults = {"zip", "open", "read", "write", "silent", "malloc", "hash", "directory"}
SPECIFICATION FairSpec
INVARIANTS TypeOK SuccessCovers KeptUnlessExposed
PROPERTIES RunningFilesUntouched Terminates
CHECK_DEADLOCK FALSE
