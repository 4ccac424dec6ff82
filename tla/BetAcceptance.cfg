SPECIFICATION Spec
CONSTANTS
  p = p
  q = q
  a = a
  b = b
  Events = {"derby", "final"}
  Placements = {p, q}
  Admins = {a, b}
  Requests <- MCRequests
  Quotes <- MCQuotes
  Delays = {2}
  Inherited = {{}, {"derby"}}
  MaxAcceptDelay = 1
  MaxFlight = 1
  Mixes <- MCMixes
SYMMETRY Symmetry
INVARIANTS
  StopHolds
  DelayHolds
PROPERTY PriceWasOffered
CHECK_DEADLOCK FALSE
