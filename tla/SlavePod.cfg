SPECIFICATION Spec
CONSTANTS
  InitialRemainingTurns = 6
  MaxTurns = 7
  Intn <- MCIntn
INVARIANTS
  LiveIsViable
  LifespanAccounted
PROPERTIES
  ImplementsPodLifecycle
CHECK_DEADLOCK FALSE
