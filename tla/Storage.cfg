SPECIFICATION StoreSpec
CONSTANTS
  Ids = {b1, b2}
  NoBlock = NoBlock
  ALLOCSIZE = 48
  Globals = {"g"}
  Locals = {"l"}
  SymbolSize = 16
  StringSizes = {3, 60}
  MaxArgs = 3
  DepthBound = 2
  ListBound = 2
  ScopeBound = 1
SYMMETRY Blocks
INVARIANTS
  ObjectsApart
  PoolSound
  StringsLive
CHECK_DEADLOCK FALSE
