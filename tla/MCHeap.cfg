SPECIFICATION Spec
CONSTANTS
  Start = 32
  Sizes <- MCSizes
  Limit = 700
INVARIANTS TypeOK Coalesced
PROPERTIES GrowsOnlyIfFull Promised
