SPECIFICATION Spec
CONSTANTS
  Sizes = {0, 1, 3}
  Addresses = {100, 200}
  MaxTires = 4
INVARIANTS
  TypeOK
  TiresDisjoint
  PointersFresh
