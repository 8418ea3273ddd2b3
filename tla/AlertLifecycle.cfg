SPECIFICATION Spec
CONSTANTS
  k1 = k1
  k2 = k2
  i1 = i1
  i2 = i2
  x1 = x1
  x2 = x2
  x3 = x3
  None = None
  Incident = {k1}
  Instance = {i1, i2}
  Execution = {x1, x2, x3}
  Attempt = {1}
  RetentionDays = 0
  Horizon = 2
SYMMETRY Symmetry
INVARIANTS
  TypeOK
  OneActiveAlert
  CountsExecutions
  ReceiptsWithinAlert
  AuditIsChain
  CountedAgainOnlyAfterPurge
PROPERTIES
  ResolvedIsFrozen
  OpensForNewExecution
