SPECIFICATION FairSpec
CONSTANTS
  i1 = i1
  i2 = i2
  i3 = i3
  x1 = x1
  x2 = x2
  r1 = r1
  r2 = r2
  o1 = o1
  j1 = j1
  j2 = j2
  None = None
  Incident = {1, 2}
  Instance = {i1}
  Execution = {x1}
  Attempt = {1}
  RetentionDays = 0
  Horizon = 1
  Recorder = {r1}
  Operator = {o1}
  Janitor = {j1, j2}
  Found <- Both
  Runs <- MCRuns
INVARIANTS
  EligibilityStable
PROPERTIES
  TransactionsEnd
  Refinement
