CONSTANTS
  None = None
  Damaged = Damaged
  Pack = Pack
  Whole = Whole
  Versions <- MCVersions
  Pages <- MCPages
SPECIFICATION Spec
INVARIANTS OfferIsPublished
CHECK_DEADLOCK FALSE
