SPECIFICATION Spec
CONSTANTS
  Nil = Nil
  f = f
  g = g
  d = d
  t = t
  v = v
  w = w
  Names = {f, g}
  Dirs = {"/", "t"}
  Parent <- MCParent
  FilePaths = {f, g}
  DirPaths = {}
  Links <- NoPairs
  Renames <- MCRenames
  Lengths = {}
  Blocks = {0}
  Values = {v, w}
  MAX_SIZE = 1
  SizeMod = 2
  NlinkMod = 4
  UninitSizes = {0}
  ClockSteps = {1}
  Gens = {1, 2}
  MaxTrees = 1
SYMMETRY ValueSymmetry
INVARIANT
  NewVersionListed
PROPERTIES
  RenameMovesContents
  OthersKeepBlocks
