SPECIFICATION FairSpec
CONSTANTS
  Tables <- ProgramTables
  Lines <- HangingLines
  Values = {}
PROPERTIES
  ParseEnds
CHECK_DEADLOCK FALSE
