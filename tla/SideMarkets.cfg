SPECIFICATION Spec
CONSTANTS
  MaxOutcome = 5
  Users <- Clients
  Markets <- MCMarkets
  KindOf <- MCKindOf
  Offers <- AllOffers
  LateBets <- Late
  Filters <- AllOrOne
  MaxDelta = 1
  Funds <- MCFunds
  Admins = {"a", "b"}
  OutcomesOf <- MCOutcomesOf
  Reopenable <- MCReopenable
INVARIANTS
  MoneyMatchesResults
  LiabilityIsExposure
  OneWinner
  Reversible
  RowCoversOpenBets
CHECK_DEADLOCK FALSE
