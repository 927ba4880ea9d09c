SPECIFICATION ServicesSpec
CONSTANTS
  c1 = c1
  c2 = c2
  w1 = w1
  w2 = w2
  w3 = w3
  Clients <- MCClients
  Docs = {1, 2}
  Workers <- MCWorkers
  Projects <- MCProjects
  MaxRequests = 3
  Parts = {"handlers"}
SYMMETRY Sym
INVARIANT HandlersSafe
PROPERTY RemovedByLast
CHECK_DEADLOCK FALSE
