SPECIFICATION Spec
CONSTANTS
    Pods = {p1, p2}
    NoPod = NoPod
    CrushFrames = 2
SYMMETRY Symmetry
INVARIANTS OneHandPerPod FrozenForAReason TouchedIsCrushed OneThingPerHand
PROPERTIES NoReportLost ImplementsBoard
