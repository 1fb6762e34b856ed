SPECIFICATION DotSpec
CONSTANTS
  tmp_offset = 3
  gs_offset = 2
  base = 0
  nElems = 2
  Addrs = {0, 1}
  nVal = 2
  HALF = 2
  Statements <- MCStatements
  MaxIndex = 2
  MixedCAS = FALSE
  DirtyOverActive = FALSE
  MaxTies = FALSE
INVARIANTS
  TypeOK
  ModesAgree
PROPERTIES
  ImplementsTagged
CHECK_DEADLOCK FALSE
