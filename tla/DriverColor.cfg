SPECIFICATION Spec
CONSTANTS
  Args <- MCArgs
  Hyphened <- MCHyphened
  MaxArgs = 4
INVARIANTS
  ColorIsHonoured
CHECK_DEADLOCK FALSE
