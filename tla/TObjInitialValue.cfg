SPECIFICATION Spec
CONSTANTS
  Programs <- MCPrograms
  Garbage <- MCGarbage
INVARIANTS
  InitialValueIsNotStored
CHECK_DEADLOCK FALSE
