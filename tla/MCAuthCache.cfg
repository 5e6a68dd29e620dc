CONSTANTS
    Tasks = {t1, t2}
    Keys = {k1, k2}
    Capacity = 1
    DefaultTtl = 1
    UniformTtl = 0
    Ttl <- MCTtl
    InstantMax = 100
    ApiTasks = {t2}
    Volatile = {k1}
    AnswerLag = 1
    MaxTime = 2
SPECIFICATION Spec
INVARIANTS
    TypeOK
    SingleFlight
    CapacityBound
PROPERTIES
    OncePerTtl
    BoundedStaleness
