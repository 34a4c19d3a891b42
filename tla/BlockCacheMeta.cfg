SPECIFICATION Spec
CONSTANTS
  Nil = Nil
  f = f
  g = g
  d = d
  t = t
  v = v
  w = w
  Names = {f, d, t}
  Dirs = {"/", "t"}
  Parent <- MCParent
  FilePaths = {f}
  DirPaths = {d}
  Links <- MCLinks
  Renames <- NoPairs
  Lengths = {1}
  Blocks = {0}
  Values = {v}
  MAX_SIZE = 2
  SizeMod = 3
  NlinkMod = 4
  UninitSizes = {0, 1}
  ClockSteps = {1}
  Gens = {1, 2}
  MaxTrees = 2
SYMMETRY ValueSymmetry
INVARIANTS
  ListingOrderFree
  NewVersionListed
