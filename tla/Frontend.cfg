SPECIFICATION Spec
CONSTANTS
  Pods = {p1}
  MaxAttempts = 3
  MaxUpdates = 1
  Tries = 2
INVARIANTS
  OneOpenSocket
  
  
  ConnectingHasEnder
CHECK_DEADLOCK FALSE
