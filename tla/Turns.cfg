SPECIFICATION FairSpec
CONSTANTS
    t1 = t1  t2 = t2  c1 = c1  c2 = c2  c3 = c3  d1 = d1  d2 = d2
    None = None
    Tabs = {t1}
    Commands = {c1, c2, c3}
    Decisions = {d1, d2}
INVARIANTS
    TypeOK
    NothingLost
    OneLiveTurn
    ShownOnce
    OneDecisionPerPlan
    NoQueueStranded
PROPERTIES
    AwaitingKept
    KeepsContract
    WaitingMessagesGoOut
CHECK_DEADLOCK FALSE
CONSTRAINT FourRequests
