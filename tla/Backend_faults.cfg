SPECIFICATION Safe
CONSTANTS
  Pods = {p1}
  NumIds = 1
  NumSessions = 1
  MaxReports = 1
  MaxEvents = 1
  Faults = {"redis", "timeout", "unanswered", "loss", "crash"}
  NoSession = NoSession
  NoMetrics = NoMetrics
  NoState = NoState
  AnyTarget = AnyTarget
INVARIANTS
  RegisteredIsListed
  RegistrationsCounted
CHECK_DEADLOCK FALSE
