SPECIFICATION FairSpec
CONSTANTS
    r1 = r1  a = a  b = b  d = d  f = f
    w1 = w1  w2 = w2  op1 = op1
    None = None
    Runs = {r1}
    Items = {a, b, d, f}
    Workers = {w1, w2}
    Operators = {op1}
    RunOf <- DiamondRunOf
    Prereqs <- DiamondPrereqs
    FollowUps = {f}
    Serves <- ServesSome
    LeaseTtl = 1
    ReapGrace = 0
    MaxAttempts = 2
    MaxCancelAttempts = 2
INVARIANTS
    TypeOK
    LeaseConsistent
    PrerequisitesFirst
    TerminalRunClosed
    NoRunLeftOpen
    OutboxExactlyOnce
    PlanItemsFenced
    ResultFromHolder
PROPERTIES
    TerminalRunFrozen
    FencedWorkerPowerless
    ImplementsContract
    RunsSettle
    FencedItemReclaimed
CHECK_DEADLOCK FALSE
