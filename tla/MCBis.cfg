SPECIFICATION Spec
CONSTANTS
  Clusters = 3
  PerCluster = 2
  Entries = 2
  Parts = {p}
  NoPart = NoPart
VIEW BisView
INVARIANTS TypeOK Transparent LookupIsMutual DirtyIsCounted
