SPECIFICATION Safe
CONSTANTS
  Conns = {c1, c2}
  Timers = {t1, t2}
  Sessions = {s1}
  NoSession = NoSession
  Pending = Pending
  NoTimer = NoTimer
  Grace = 1
  RedisMayFail = FALSE
  MayRestart = FALSE
PROPERTIES
  GracePeriodKept
CHECK_DEADLOCK FALSE
