SPECIFICATION Spec
CONSTANTS
  a = a
  b = b
  p1 = p1
  p2 = p2
  None = None
  Whole = Whole
  Order = {1}
  Line = {a, b}
  Content <- Edited
  Process = {p1}
  PageSize = 1
  MaxTime = 2
  MaxEdits = 2
  MaxRuns = 2
CHECK_DEADLOCK FALSE
INVARIANTS
  RemovedLinesDisappear
