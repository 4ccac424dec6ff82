SPECIFICATION FairSpec
CONSTANTS
  Lanes <- MCLanes
  Pollers = {"p", "q"}
  MaxFlight = 1
  ClosedTtl = 5
  InactiveAfter = 1
INVARIANTS
  Fresh
  HiddenIsUnlisted
PROPERTY EventuallyShown
CHECK_DEADLOCK FALSE
