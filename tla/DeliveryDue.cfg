SPECIFICATION FairSpec
CONSTANTS
  k1 = k1
  k2 = k2
  i1 = i1
  x1 = x1
  x2 = x2
  s1 = s1
  s2 = s2
  None = None
  Incident = {k1, k2}
  Instance = {i1}
  Execution = {x1}
  Attempt = {1}
  RetentionDays = 0
  Horizon = 0
  Runs <- Together
  Sender = {s1}
  MaxAttempts = 2
  RetryDelay = 0
  EscalationDelay = 1
  RecurrenceThreshold = 2
  Limit = 1
PROPERTIES
  DueIsAttempted
