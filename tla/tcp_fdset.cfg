SPECIFICATION Spec
CONSTANTS
  g1 = g1
  f1 = f1
  f2 = f2
  Client = {g1, f1, f2}
  Good = {g1}
  NoClient = NoClient
  Listener = 1
  MaxFd = 4
  FdSetSize = 4
  Backlog = 2
  Traffic <- WholeOrHalf
  InCap = 1
  OutCap = 1
SYMMETRY FaultySymmetry
INVARIANTS
  SelectSetIsOpenSet
  HighestIsMax
  PassIsExact
  ConnectionTable
  NothingLeaks
