SPECIFICATION Spec
CONSTANTS
  Programs <- MCPrograms
  Garbage <- MCGarbage
INVARIANTS
  TypeOK
  LabelsMeanTheirScope
  StoresFitImage
  InstrDiagnosedOnce
  
PROPERTIES
  ImplementsImage
  StoresStayInExtent
  NothingOverwritten
CHECK_DEADLOCK FALSE
