SPECIFICATION FairSpec
CONSTANTS
  MaxBuffer = 2
  MaxResidue = 2
INVARIANTS
  TypeOK
  RequestsHeardWhenCalm
  TalksInTurn
  NothingMissed
PROPERTIES
  Resyncs
  Ends
CHECK_DEADLOCK FALSE
