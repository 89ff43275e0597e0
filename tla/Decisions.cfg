SPECIFICATION DecisionsSpec
CONSTANTS
    r1 = r1  a = a  b = b  f = f  w1 = w1  w2 = w2  op1 = op1
    None = None
    Runs = {r1}
    Items = {a, b, f}
    Workers = {w1}
    Operators = {op1}
    RunOf <- ChainRunOf
    Prereqs <- ChainPrereqs
    FollowUps = {f}
    Serves <- ServesAll
    LeaseTtl = 1
    ReapGrace = 0
    MaxAttempts = 2
    MaxCancelAttempts = 2
    MaxStops = 1
INVARIANTS
    DecisionsTypeOK
    DependentsReleased
    TerminalRunClosed
PROPERTIES
    FinishedItemsFrozen
CHECK_DEADLOCK FALSE
