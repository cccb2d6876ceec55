SPECIFICATION Spec
CONSTANTS
    Pods = {p1, p2}
    NoPod = NoPod
    Keys = {W}
    MaxRuns = 2
    HudInterval = 2
INVARIANTS QuietWhenInactive  LockedOnlyLate StatsOfThisSession
PROPERTIES HudCatchesUp DisconnectCompletes
