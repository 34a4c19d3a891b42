SPECIFICATION Spec
CONSTANTS
  ORDER = 4
  Keys = {1, 2, 3, 4, 5, 6, 7, 8}
CHECK_DEADLOCK FALSE
INVARIANTS
  TypeOK
  SearchFindsInodes
  CutSplitHidesHalf
  TreeShape
  FindMissesSeparators
PROPERTY
  InsertTerminates
