SPECIFICATION Spec
CONSTANTS
  bufsize = 2
  HIGH = 8
  Special = {15}
  DiffPairs <- OnePair
  Gradients = {1}
  Modes = {"typegrind"}
  Endings = {"newline"}
  MaxBlocks = 3
  MaxSeeds = 0
  MaxReads = 1
INVARIANTS
  TypegrindFindsAll
CHECK_DEADLOCK FALSE
