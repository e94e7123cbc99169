SPECIFICATION FairSpec
CONSTANTS
  NumSettings = 2
  First = 0
  Last = 2
  MaxTid = 3
  MaxServed = 2
INVARIANTS
  TypeOK
  OnlyLateAnswersHurt
  LineGivenBack
PROPERTIES
  ImplementsScan
  ScanEnds
CHECK_DEADLOCK FALSE
