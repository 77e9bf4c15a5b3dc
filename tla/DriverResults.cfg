SPECIFICATION Spec
CONSTANTS
  Args <- MCArgs
  Hyphened <- MCHyphened
  MaxArgs = 4
INVARIANTS
  OutputIsCompiledSource
CHECK_DEADLOCK FALSE
