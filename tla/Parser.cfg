SPECIFICATION FairSpec
CONSTANTS
  Sources <- MCSources
  Garbage <- MCGarbage
  GarbageOpcodes = {"halt", "?"}
  ValidInts = {"24", "0"}
  ValidChars = {"x"}
  InitialCapacity = 1
INVARIANTS
  TypeOK
  NoTokenIsLost
  ReportedIffMalformed
  LinesKeepApart
  ItemsKeepTheirPlace
PROPERTIES
  ParseEnds
CHECK_DEADLOCK FALSE
