CONSTANTS
  None = None
  IniFiles <- TwiceConfigured
  Folders <- MCFolders
  MaxLines = 7
  MaxSections = 2
  MaxFaults = 0
SPECIFICATION FairSpec
PROPERTIES ClockTakesFirst
