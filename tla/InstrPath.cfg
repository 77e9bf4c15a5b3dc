SPECIFICATION Spec
CONSTANTS
  Instrs <- MCInstrs
  Addresses <- MCAddresses
INVARIANTS
  TypeOK
  ReservedSpaceIsFilled
  AddressFieldIsWhole
  OneRelocationPerField
  NoOperandIsLost
  SilentOnlyForStrings
  OnlyDocumentedForms
CHECK_DEADLOCK FALSE
