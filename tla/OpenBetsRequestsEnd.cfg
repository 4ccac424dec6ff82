SPECIFICATION FairSpec
CONSTANTS
  Books <- MCBooks
  Owner <- MCOwner
  BookOf <- MCBookOf
  SelectionOf <- MCSelectionOf
  KindOf <- MCKindOf
  MarketOf <- MCMarketOf
  MatchOf <- MCMatchOf
  Exposure <- MCExposure
  BookExposure <- MCBookExposure
  WithinLimit <- MCWithinLimit
  Funds <- MCFunds
  MaxOutcome = 8
  NoBet = NoBet
  Users <- AnnOnly
  Bets <- OffsetPair
  CancelFilters <- WholeMarkets
  Transfers <- None
  AgentFunds = 0
  Stoppable = {}
  Blockable = {"matchOdds"}
  Jobs = {"admin", "staff"}
  Overlap = {"place", "admin"}
INVARIANT NoOverdraft
PROPERTY RequestsEnd
CHECK_DEADLOCK FALSE
