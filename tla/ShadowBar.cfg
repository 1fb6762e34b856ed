SPECIFICATION Spec
CONSTANTS
  Layers <- BothLayers
  LEAF = 2
  LEAVES = 2
  MaxSize = 3
  Byte = {0, 1}
  NoLeaf = NoLeaf
  Idle = Idle
INVARIANTS
  TypeOK
PROPERTIES
  ImplementsFlatShadow
CHECK_DEADLOCK FALSE
