SPECIFICATION Spec
CONSTANTS
    Pods = {p1}
    MaxGusts = 2
    MaxFrame = 2
    MaxDelta = 1
    Lifetime = 3
    Cooldown = 3
INVARIANTS EntriesAccounted PushedOnce NoStacking
PROPERTIES SpamIsLimited GustsEnd
