CONSTANTS
  None = None
  Damaged = Damaged
  AmsRcm = AmsRcm
  Versions = {"v1", "v2"}
  Kinds = {"erista", "patched", "mariko"}
  PackFiles <- MCPack
  Verify = TRUE
  Optional = {"update", "reboot"}
  Installs = 2
  MaxTrouble = 3
  Cards = {TRUE, FALSE}
  Faults = {"cut", "extract", "disk", "nand", "minerva"}
SPECIFICATION FairSpec
INVARIANTS TypeOK HandoverCompletes RcmIsTemporary BootloaderBeside FlagReachesRcm
PROPERTIES ImplementsSwap BackInSystem ComesToRest
CHECK_DEADLOCK FALSE
