CONSTANTS
  SysNand = SysNand
  EmuNands = {"e1", "e2"}
  NoNand = NoNand
  NoImage = NoImage
  MaxCalls = 2
  Images <- MCImages
  AutoTable <- MCTable
  UserMarkers <- MCUserMarkers
SPECIFICATION FairSpec
INVARIANTS TypeOK InstallsWhatWasValidated DowngradeTracked CleanWhenStarted
PROPERTIES DowngradeIsCleaned
