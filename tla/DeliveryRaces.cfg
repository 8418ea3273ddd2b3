SPECIFICATION Spec
CONSTANTS
  k1 = k1
  k2 = k2
  i1 = i1
  x1 = x1
  x2 = x2
  s1 = s1
  s2 = s2
  None = None
  Incident = {k1}
  Instance = {i1}
  Execution = {x1, x2}
  Attempt = {1}
  RetentionDays = 0
  Horizon = 1
  Runs <- Worsening
  Sender = {s1, s2}
  MaxAttempts = 2
  RetryDelay = 1
  EscalationDelay = 1
  RecurrenceThreshold = 2
  Limit = 2
SYMMETRY Symmetry
INVARIANTS
  SentOnce
  ClaimIsExclusive
  AttemptsArePermitted
