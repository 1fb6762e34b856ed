SPECIFICATION Spec
CONSTANTS
  t1 = t1
  t2 = t2
  x = x
  y = y
  NoVar = NoVar
  i1 = i1
  IndexVars = {i1}
  Threads = {t1}
  Vars = {x}
  BUFSIZE = 2
  HALF = 3
  typegrind = FALSE
  bar_record_values = FALSE
  tape_in_ram = FALSE
  recording_stop_indices <- TwoStops
  Diffs = {0}
  Values = {0}
  MaxIndex = 4
  MarkWhileStopped = TRUE
  MaxDisable = 1
  MaxFileEntries = 1
INVARIANTS
  TapeHoldsLog
CHECK_DEADLOCK FALSE
