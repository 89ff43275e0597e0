SPECIFICATION Spec
CONSTANTS
    r1 = r1  a = a  b = b  d = d  f = f
    w1 = w1  w2 = w2  op1 = op1
    None = None
    Runs = {r1}
    Items = {a, f}
    Workers = {w1}
    Operators = {op1}
    RunOf <- DiamondRunOf
    Prereqs <- DiamondPrereqs
    FollowUps = {f}
    Serves <- ServesAll
    LeaseTtl = 1
    ReapGrace = 0
    MaxAttempts = 2
    MaxCancelAttempts = 2
INVARIANTS
    CancelFencesEveryItem
CHECK_DEADLOCK FALSE
