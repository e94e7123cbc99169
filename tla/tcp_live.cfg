SPECIFICATION FairSpec
CONSTANTS
  g1 = g1
  f1 = f1
  f2 = f2
  Client = {g1, f1, f2}
  Good = {g1}
  NoClient = NoClient
  Listener = 1
  MaxFd = 3
  FdSetSize = 5
  Backlog = 2
  Traffic <- HalfOnly
  InCap = 1
  OutCap = 1
PROPERTIES
  GoodClientsAnswered
  BacklogDrains
  StopNeedsOneEvent
