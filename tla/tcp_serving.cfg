SPECIFICATION Spec
CONSTANTS
  g1 = g1
  f1 = f1
  f2 = f2
  Client = {g1, f1}
  Good = {g1}
  NoClient = NoClient
  Listener = 1
  MaxFd = 4
  FdSetSize = 4
  Backlog = 2
  Traffic <- AllTraffic
  InCap = 2
  OutCap = 1
INVARIANTS
  TypeOK
  NeverWaitsOnIdle
PROPERTIES
  GoodClientsKept
  ImplementsService
