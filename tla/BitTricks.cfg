SPECIFICATION TrickSpec
CONSTANTS
  a = a
  b = b
  Bits = 3
  Cells = {a, b}
  Input = a
  InputHalves = {{}, {0, 2}}
  MaskHalves = {{}, {0, 1}, {2}, {0, 1, 2}}
  Kinds = {"double", "pair", "single"}
  MixedFormats = FALSE
  Depths = {0, 1}
  MaxSteps = 2
INVARIANTS
  TypeOK
  ForwardDerivative
  RecordedDerivative
  RecordedValue
  SilenceMeansKnown
  WarnsOfTricksOnly
CHECK_DEADLOCK FALSE
