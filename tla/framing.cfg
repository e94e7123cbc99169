SPECIFICATION FairSpec
CONSTANTS
  Lines <- AllLines
  Filler = 16
  Breaks <- NearEnds
INVARIANTS
  TypeOK
  InBuffer
  WholeFrames
PROPERTIES
  ReceiveEnds
CHECK_DEADLOCK FALSE
