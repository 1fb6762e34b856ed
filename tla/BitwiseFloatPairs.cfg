SPECIFICATION Spec
CONSTANTS
  a = a
  b = b
  Bits = 3
  Cells = {a, b}
  Input = a
  InputHalves = {{}, {0, 2}}
  MaskHalves = {{}, {0, 1}, {2}, {0, 1, 2}}
  Kinds = {"pair"}
  MixedFormats = TRUE
  Depths = {0, 1}
  MaxSteps = 2
INVARIANTS
  RecordedDerivative
CHECK_DEADLOCK FALSE
