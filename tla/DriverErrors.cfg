SPECIFICATION Spec
CONSTANTS
  Args <- MCArgs
  Hyphened <- MCHyphened
  MaxArgs = 4
INVARIANTS
  ErrorsFail
CHECK_DEADLOCK FALSE
