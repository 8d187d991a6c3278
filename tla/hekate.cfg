CONSTANTS
  None = None
  IniFiles <- MCIniFiles
  Folders <- MCFolders
  MaxLines = 7
  MaxSections = 2
  MaxFaults = 1
SPECIFICATION FairSpec
INVARIANTS TypeOK SaidIsDone OnlyBootLinesChange WholeCopyRemains
PROPERTIES UnattendedEnds
