SPECIFICATION Spec
CONSTANTS
  Offers <- MCOffers
  Admins = {a, b}
  MarketNamed <- MCMarketNamed
  NumberOf <- MCNumberOf
  MaxNumbering = 1
  Runs = {1, 2, 3}
  MaxSettlements = 2
SYMMETRY Symmetry
INVARIANTS
  ShownWhereSettled
  PaidByName
  DecisionRunShown
  OneEntryPerBet
CHECK_DEADLOCK FALSE
