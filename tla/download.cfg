CONSTANTS
  Length = 8
  Size = 3
  MaxBlock = 4
  Cache = 2
SPECIFICATION Spec
INVARIANTS TypeOK NothingSkipped SuccessMeansWhole
