SPECIFICATION Spec
CONSTANTS
    x = x  y = y  z = z
    Tabs = {x, y, z}
    MaxLane = 3
SYMMETRY TabSymmetry
INVARIANT OpenSessionsSurvive
CHECK_DEADLOCK FALSE
