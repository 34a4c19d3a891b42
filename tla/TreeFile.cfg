CHECK_DEADLOCK FALSE
SPECIFICATION Spec
CONSTANTS
  Paths = {2, 4, 6}
  Texts = {1, 5}
  Length <- MCLength
  DirtyLists <- MCDirtyLists
  Nil = Nil
INVARIANTS
  RegionsHold
  CutTreeReadable
  CutTreeListable
