SPECIFICATION MCSpec
CONSTANTS
  bufsize = 2
  HIGH = 8
  Special = {15}
  DiffPairs <- Pairs
  Gradients = {1, 2}
  Modes = {"backward", "forward", "stats", "typegrind"}
  Endings = {"newline", "number", "text"}
  MaxBlocks = 4
  MaxSeeds = 2
  MaxReads = 1
INVARIANTS
  TypeOK
  GradientIsChainRule
  VisitsInOrder
  LoadsWithinFile
  StatsCount
PROPERTIES
  Terminates
CHECK_DEADLOCK FALSE
