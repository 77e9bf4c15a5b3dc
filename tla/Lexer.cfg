SPECIFICATION Spec
CONSTANTS
  Texts <- MCTexts
  ByteValue <- MCByteValue
  Tscs <- MCTscs
  TscsCount = 40
  IntModulus = 1000
  EscapeModulus = 10000
INVARIANTS
  LongestWords
  OnlyBlanksBetween
  LocationsAreTrue
  IntsMeanTheirDigits
  CharIsOneCharString
  NoSilentLiteral
CHECK_DEADLOCK FALSE
