SPECIFICATION Spec
CONSTANTS
  MaxBuffer = 2
  MaxResidue = 2
INVARIANTS
  RequestsHeard
CHECK_DEADLOCK FALSE
