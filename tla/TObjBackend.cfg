SPECIFICATION Spec
CONSTANTS
  Programs <- MCPrograms
  Garbage <- MCGarbage
INVARIANTS
  TypeOK
  SectionsAgree
  BindingsHold
  ConflictsAreReported
  RelocsNameTheirLabel
  LabelsRelocatedOrReported
  LinksToRawImage
PROPERTIES
  SectionsOnlyGrow
CHECK_DEADLOCK FALSE
