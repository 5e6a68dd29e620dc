CONSTANTS
    Tasks = {t1, t2}
    Keys = {k1}
    Capacity = 1
    DefaultTtl = 1
    UniformTtl = 200
    Ttl <- MCTtl
    InstantMax = 100
    ApiTasks = {}
    Volatile = {k1}
    AnswerLag = 1
    MaxTime = 1
SPECIFICATION Spec
INVARIANTS
    OptOutOfExpiry
