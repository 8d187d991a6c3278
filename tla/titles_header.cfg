CONSTANTS
  None = None
  MaxFaults = 2
  Packages <- MCPackages
  Meta <- MCMeta
  Parts <- MCParts
SPECIFICATION Spec
INVARIANTS InstalledIsThere
