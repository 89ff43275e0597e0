SPECIFICATION Spec
CONSTANTS
    x = x  y = y
    NoSub = NoSub
    Tabs = {x, y}
    Streaming = {x}
    MaxQueue = 1
    MaxTurns = 2
    MaxChunks = 0
INVARIANT ResubscribedAfterDrop
CHECK_DEADLOCK FALSE
