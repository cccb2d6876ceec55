SPECIFICATION Safe
CONSTANTS
  Conns = {c1, c2, c3}
  Timers = {t1, t2, t3}
  Sessions = {s1, s2}
  NoSession = NoSession
  Pending = Pending
  NoTimer = NoTimer
  Grace = 1
  RedisMayFail = TRUE
  MayRestart = TRUE
SYMMETRY Symmetry
INVARIANTS
  SingleOwner
  SingleFinalizer
  HubServesCurrentSession
  OpenSessionQueryable
  InterruptedSessionHasEnder
CHECK_DEADLOCK FALSE
