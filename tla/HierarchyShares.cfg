SPECIFICATION Spec
CONSTANTS
  Users <- MCUsers
  First <- MCFirst
  Tasks = {s, t}
  Mixes <- MCMixes
  MaxRequests = 3
  Newcomers <- MCNewcomers
  Shares = {30, 60}
  Amounts = {10}
  FirstBalance = 10
CHECK_DEADLOCK FALSE
INVARIANT NobodyLosesWithTheClient
