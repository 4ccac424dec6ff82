SPECIFICATION PersistentSpec
CONSTANTS
  MaxOutcome = 0
  Runners <- Both
  Funds <- MCFunds
  Users <- Clients
  Bets <- OnePerMarket
  Markets <- OneMarket
  Admins = {"admin"}
  Outcomes = {"settle", "cancel"}
  SettleFilters <- NoFilter
  RollbackFilters <- NoFilter
  PlacesInside = FALSE
  PayTogether = TRUE
  FailsAt = {"read", "validated", "recorded", "open", "reporting"}
INVARIANT MoneyMatchesResults
PROPERTY UnpaidIsPaid
CHECK_DEADLOCK FALSE
