SPECIFICATION Spec
CONSTANTS
  Files = {a, b}
  NoFile = NoFile
  Clusters = 4
  CSize = 2
  MaxSize = 6
  Lengths = {5}
  Offsets = {0, 1, 5}
  MaxFaults = 1
  MaxOpens = 3
CHECK_DEADLOCK FALSE
SYMMETRY FileSymmetry
VIEW FatView
CONSTRAINT NotLoose
INVARIANTS TypeOK ChainIsFound NothingLostOrShared ChecksHold NeverShared
