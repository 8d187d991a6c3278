CONSTANTS
  None = None
  MaxFaults = 2
  Packages <- MCPackages
  Meta <- MCMeta
  Parts <- MCParts
SPECIFICATION Spec
INVARIANTS TypeOK OnlyFaultsFail RetryRepairs InstalledHasRecords
