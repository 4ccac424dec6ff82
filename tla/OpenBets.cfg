SPECIFICATION Spec
CONSTANTS
  Books <- MCBooks
  Owner <- MCOwner
  BookOf <- MCBookOf
  SelectionOf <- MCSelectionOf
  KindOf <- MCKindOf
  MarketOf <- MCMarketOf
  MatchOf <- MCMatchOf
  Exposure <- MCExposure
  BookExposure <- MCBookExposure
  WithinLimit <- MCWithinLimit
  Funds <- MCFunds
  MaxOutcome = 8
  NoBet = NoBet
  Users <- AnnOnly
  Bets <- AnnsBets
  CancelFilters <- WholeMarkets
  Transfers <- MCTransfers
  AgentFunds = 4
  Stoppable = {"ann"}
  Blockable = {}
  Jobs = {"admin"}
  Overlap = {}
INVARIANTS
  TypeOK
  FundsConserved
  LiabilityIsExposure
  JournalExplainsBalance
  NoOverdraft
  WinningsCapped
  FancyRowCovers
PROPERTY ImplementsEscrow
CHECK_DEADLOCK FALSE
