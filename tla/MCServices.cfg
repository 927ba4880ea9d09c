SPECIFICATION ServicesFairSpec
CONSTANTS
  c1 = c1
  c2 = c2
  w1 = w1
  w2 = w2
  w3 = w3
  Clients <- MCClients
  Docs = {1, 2}
  Workers <- TwoWorkers
  Projects <- WithResting
  MaxRequests = 2
  Parts = {"handlers", "hooks", "administration"}
INVARIANT ServicesSafe
PROPERTIES AuthorityHeld ServicesComplete
CHECK_DEADLOCK FALSE
