SPECIFICATION Spec
CONSTANTS
  SdCards <- MCSdCards
  MmcCards <- MCMmcCards
  NoCard = NoCard
  MaxPolls = 2
INVARIANTS TypeOK BusAgrees NeverTooFast SpeedIsWithinMode
PROPERTY InitReturns
