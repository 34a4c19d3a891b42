CHECK_DEADLOCK FALSE
SPECIFICATION Spec
CONSTANTS
  SIZE = 2
  MaxLen = 3
  MaxTrees = 3
  Bufs <- MCBufs
  Zero = Zero
  Junk = Junk
  Nil = Nil
INVARIANTS
  ReadsBack
  ReadsInBounds
  WriteUsesBuffer
