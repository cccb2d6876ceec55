SPECIFICATION Spec
CONSTANTS
  Registering = {r1}
  Dying = {d1, d2}
  Ending = {e1}
  Listed = 2
  NoMetrics = NoMetrics
  maxRetries = 2
  RedisMayFail = TRUE
INVARIANTS
  ExhaustedByContention
  NoDeathLost
PROPERTIES
  DeletedStaysDeleted
  ImplementsCounters
CHECK_DEADLOCK FALSE
