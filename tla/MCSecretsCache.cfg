CONSTANTS
    Tasks = {t1, t2}
    Buckets = {b1}
    ApiKeys = {k1, k2}
    Buffer = 1
    MinLifetime = 2
    MaxLifetime = 3
    AnswerLag = 1
    MaxTime = 4
SPECIFICATION Spec
SYMMETRY SecretsSymmetry
INVARIANTS
    TypeOK
PROPERTIES
    ServedAlive
    OwnApiKey
    NeverMuchOlder
