SPECIFICATION Spec
CONSTANTS
  Conns = {c1, c2}
  Timers = {t1, t2}
  Sessions = {s1, s2}
  NoSession = NoSession
  Pending = Pending
  NoTimer = NoTimer
  Grace = 1
  RedisMayFail = TRUE
  MayRestart = FALSE
PROPERTIES
  ImplementsLifecycle
  ExplicitDisconnectEnds
CHECK_DEADLOCK FALSE
