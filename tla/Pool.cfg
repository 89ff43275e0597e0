SPECIFICATION FairSpec
CONSTANTS
    j1 = j1  x = x  w1 = w1  w2 = w2
    None = None
    Projects = {j1}
    Profiles = {x}
    Workers = {w1, w2}
    MinIdle <- NoFloor
    MaxConcurrent <- OneEach
    MaxWorkers = 2
    IdleTtl = 0
    MaxBacklog = 1
    MaxFaults = 1
INVARIANTS
    TypeOK
    CapRespected
PROPERTIES
    AdoptedGetFullTtl
    KeepsContract
    UselessReaped
