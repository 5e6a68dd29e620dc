CONSTANTS
    Tasks = {t1, t2, t3}
    Keys = {k1}
    Capacity = 1
    DefaultTtl = 1
    UniformTtl = 1
    Ttl <- MCTtl
    InstantMax = 1
    ApiTasks = {}
    Volatile = {k1}
    AnswerLag = 0
    MaxTime = 1
SPECIFICATION FairSpec
INVARIANTS
    NobodyStranded
PROPERTIES
    EveryCallReturns
