SPECIFICATION Spec
CONSTANTS
  t1 = t1
  t2 = t2
  Threads = {t1, t2}
  BUFSIZE = 3
  Values = {0, 1}
  MaxDisable = 1
  MaxResults = 4
SYMMETRY Symmetry
INVARIANTS
  FilesHoldResults
CHECK_DEADLOCK FALSE
