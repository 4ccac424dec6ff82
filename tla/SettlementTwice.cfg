SPECIFICATION Spec
CONSTANTS
  MaxOutcome = 0
  Runners <- Both
  Funds <- MCFunds
  Users <- Ann
  Bets <- Late
  Markets <- OneMarket
  Admins = {"admin", "staff"}
  Outcomes = {"settle"}
  SettleFilters <- NoFilter
  RollbackFilters <- None
  PlacesInside = FALSE
  PayTogether = TRUE
  FailsAt = {}
INVARIANT MoneyMatchesResults
CHECK_DEADLOCK FALSE
