SPECIFICATION Spec
CONSTANTS
  Instrs <- MCInstrs
  Addresses <- MCAddresses
INVARIANTS
  JumpReadsWholeRegister
CHECK_DEADLOCK FALSE
