SPECIFICATION Spec
CONSTANTS
    x = x  y = y  z = z
    Tabs = {x, y, z}
    MaxLane = 3
SYMMETRY TabSymmetry
INVARIANTS
    TypeOK
    SessionsSurvive
    LastWriteWins
    TornOnlyWhenCut
CHECK_DEADLOCK FALSE
