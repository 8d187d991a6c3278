CONSTANTS
  None = None
  IniFiles <- EntriesWithoutKeys
  Folders <- MCFolders
  MaxLines = 7
  MaxSections = 2
  MaxFaults = 0
SPECIFICATION FairSpec
INVARIANTS PickedIsBooted
