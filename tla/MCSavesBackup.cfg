SPECIFICATION Spec
CONSTANTS
  Chain = {c1, c2, c3, c4, c5}
  NoEntry = NoEntry
  Empty = Empty
  Free = Free
  Partial = Partial
  MaxBoots = 3
  Parts = 3
SYMMETRY ChainSymmetry
INVARIANT BackupIsPreserved
