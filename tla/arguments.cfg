SPECIFICATION Spec
CONSTANTS
  Tables <- ProgramTables
  Lines <- MCLines
  Values <- MCValues
INVARIANTS
  TypeOK
  RangeAsWritten
  AcceptedIsSendable
  SendableIsAccepted
  OperandsKeepOrder
  ReadAsWritten
  StatusTellsTruth
  SettingsAsWritten
PROPERTIES
  ReadsOn
  ImplementsParts
  BlocksKeepOrder
CHECK_DEADLOCK FALSE
