SPECIFICATION ClientSpec
CONSTANTS
  t1 = t1
  t2 = t2
  NoVar = NoVar
  Threads = {t1, t2}
  UserNames = {"u"}
  Vars <- AllVars
  IndexVars <- AllIndexVars
  Unit <- OwnUnit
  Partial <- PartialOf
  Value <- ValueOf
  OutputDiffs = 1
  InnerDiffs = 2
  EndInBracket = FALSE
  MaxCalls = 2
  BUFSIZE = 2
  HALF = 3
  typegrind = FALSE
  bar_record_values = TRUE
  tape_in_ram = FALSE
  recording_stop_indices <- NoStops
  Diffs = {0, 1, 2, 3, 4}
  Values = {0, 1, 2}
  MaxIndex = 7
  MarkWhileStopped = FALSE
  MaxDisable = 3
  MaxFileEntries = 4
INVARIANTS
  ClientTypeOK
  CallsRecorded
  NothingInside
  TapeHoldsLog
PROPERTIES
  DeclaresOwnVariable
CHECK_DEADLOCK FALSE
