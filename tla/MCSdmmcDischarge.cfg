SPECIFICATION Spec
CONSTANTS
  SdCards <- MCSdCards
  MmcCards <- MCMmcCards
  NoCard = NoCard
  MaxPolls = 2
INVARIANT DischargedBeforeInit
