SPECIFICATION Spec
CONSTANTS
  MaxOutcome = 0
  Runners <- Both
  Funds <- MCFunds
  Users <- Ann
  Bets <- OneSided
  Markets <- AllMarkets
  Admins = {admin, staff}
  Outcomes = {"settle"}
  SettleFilters <- PartFilter
  RollbackFilters <- NoFilter
  PlacesInside = FALSE
  PayTogether = FALSE
  FailsAt = {"read", "validated", "recorded", "open"}
SYMMETRY Symmetry
INVARIANTS
  MoneyMatchesResults
  LiabilityIsExposure
  SettledUnderLiveRecord
  OneWinner
  ReportIsSum
  SharesFollowResults
CHECK_DEADLOCK FALSE
