SPECIFICATION FairSpec
CONSTANTS
    x = x  y = y
    NoSub = NoSub
    Tabs = {x, y}
    Streaming = {x}
    MaxQueue = 1
    MaxTurns = 2
    MaxChunks = 1
INVARIANTS
    TypeOK
    OpenIsSubscribed
    RenderedOnce
    NoGapInTurn
PROPERTIES
    KeepsTrying
CHECK_DEADLOCK FALSE
