SPECIFICATION Spec
CONSTANTS
  tmp_offset = 3
  gs_offset = 2
  base = 0
  nElems = 2
  Addrs = {0, 1}
  nVal = 2
  HALF = 2
  Statements <- MCStatements
  MaxIndex = 2
  MixedCAS = TRUE
  DirtyOverActive = FALSE
INVARIANTS
  CasTellsTruth
CHECK_DEADLOCK FALSE
