SPECIFICATION Spec
CONSTANTS
  Pods = {p1}
  NumIds = 2
  NumSessions = 2
  MaxReports = 2
  MaxEvents = 0
  Faults = {}
  NoSession = NoSession
  NoMetrics = NoMetrics
  NoState = NoState
  AnyTarget = AnyTarget
INVARIANTS
  
  GoneIsStopped

  
CHECK_DEADLOCK FALSE
