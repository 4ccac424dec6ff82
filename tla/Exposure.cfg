SPECIFICATION BookSpec
CONSTANTS
  Markets <- AllMarkets
  Offers <- MCOffers
  Runners <- ThreeRunners
  MaxOutcome = 8
INVARIANTS
  LockedIsWorstLoss
  RisklessBookLocksNothing
CHECK_DEADLOCK FALSE
