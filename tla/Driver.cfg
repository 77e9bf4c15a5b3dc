SPECIFICATION Spec
CONSTANTS
  Args <- MCArgs
  Hyphened <- MCHyphened
  MaxArgs = 5
INVARIANTS
  TypeOK
  CommandLineIsMeant
  DefaultColorIsAuto
  
CHECK_DEADLOCK FALSE
