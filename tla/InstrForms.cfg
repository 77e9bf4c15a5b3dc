SPECIFICATION Spec
CONSTANTS
  Instrs <- MCInstrs
  Addresses <- MCAddresses
INVARIANTS
  TakesDocumentedForms
CHECK_DEADLOCK FALSE
