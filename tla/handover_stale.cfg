CONSTANTS
  None = None
  Damaged = Damaged
  AmsRcm = AmsRcm
  Versions = {"v1", "v2"}
  Kinds = {"erista"}
  PackFiles <- MCPack
  Verify = TRUE
  Optional = {"update", "reboot"}
  Installs = 2
  MaxTrouble = 1
  Cards = {FALSE}
  Faults = {"cut"}
SPECIFICATION Spec
INVARIANTS LatestPackRuns
CHECK_DEADLOCK FALSE
