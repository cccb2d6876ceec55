SPECIFICATION Spec
CONSTANTS
  Pods = {p1}
  MaxAttempts = 1
  MaxUpdates = 1
  Tries = 1
INVARIANTS
  PlayingIsConnected
CHECK_DEADLOCK FALSE
