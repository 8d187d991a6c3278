CONSTANTS
  Modes = {"manual", "auto", "only"}
  Faults <- MCFaults
SPECIFICATION PatientSpec
INVARIANTS TypeOK RunsOnlyOnRequest NothingLostOnCancel VettedBeforeChange FirmwareOfThisPack
PROPERTIES ComesBack
CHECK_DEADLOCK FALSE
