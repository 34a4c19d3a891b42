SPECIFICATION Spec
CONSTANTS
  Nil = Nil
  f = f
  g = g
  d = d
  t = t
  v = v
  w = w
  Names = {f, g}
  Dirs = {"/", "t"}
  Parent <- MCParent
  FilePaths = {f, g}
  DirPaths = {}
  Links <- NoPairs
  Renames <- MCRenames
  Lengths = {}
  Blocks = {0}
  Values = {v, w}
  MAX_SIZE = 2
  SizeMod = 3
  NlinkMod = 4
  UninitSizes = {0, 1}
  ClockSteps = {1}
  Gens = {1, 2}
  MaxTrees = 2
SYMMETRY ValueSymmetry
INVARIANT CachedBlocksKept
