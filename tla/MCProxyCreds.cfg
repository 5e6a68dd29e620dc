CONSTANTS
    a1 = a1
    b1 = b1
    Requests = {r1, r2}
    Shapes <- MCPlainShapes
    AccessKeys = {a1}
    Buckets = {b1}
    Secrets = {s1, s2}
    Settings <- MCChecking
    MaxRetries = 1
SPECIFICATION Spec
SYMMETRY RequestSymmetry
INVARIANTS
    CredentialsFetchedOnce
