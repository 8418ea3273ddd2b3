SPECIFICATION Spec
CONSTANTS
  a = a
  b = b
  p1 = p1
  p2 = p2
  None = None
  Whole = Whole
  Order = {1, 2}
  Line = {a, b}
  Content <- Edited
  Process = {p1, p2}
  PageSize = 1
  MaxTime = 2
  MaxEdits = 4
  MaxRuns = 2
SYMMETRY Symmetry
CHECK_DEADLOCK FALSE
INVARIANTS
  NothingStranded
  SilverIsCurrent
  CurrentLinesShow
