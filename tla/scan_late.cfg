SPECIFICATION Spec
CONSTANTS
  NumSettings = 1
  First = 1
  Last = 2
  MaxTid = 3
  MaxServed = 2
INVARIANTS
  TimelyAnswersCount
CHECK_DEADLOCK FALSE
