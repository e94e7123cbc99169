SPECIFICATION Spec
CONSTANTS
  c1 = c1
  c2 = c2
  None = None
  Clients <- MCClients
  Calls <- MCCalls
  Malformed <- MCMalformed
  Initial <- MCInitial
  StartBits = 1
  NbBits = 9
  StartRegisters = 1
  NbRegisters = 2
  ReadBitsLimit = 10
  WriteBitsLimit = 9
  ReadRegistersLimit = 3
  WriteRegistersLimit = 2
  WrWriteLimit = 1
  WrReadLimit = 3
CONSTRAINT OneFamily
SYMMETRY ClientSymmetry
INVARIANTS
  TypeOK
PROPERTIES
  ImplementsMemory
CHECK_DEADLOCK FALSE
