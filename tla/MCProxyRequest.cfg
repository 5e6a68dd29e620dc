CONSTANTS
    a1 = a1
    b1 = b1
    Requests = {r1, r2}
    Shapes <- MCShapes
    AccessKeys = {a1}
    Buckets = {b1}
    Secrets = {s1, s2}
    Settings <- MCSettings
    MaxRetries = 1
SPECIFICATION Spec
SYMMETRY RequestSymmetry
INVARIANTS
    TypeOK
    CredentialsFound
    NoPanic
    ForwardedIsAuthorized
PROPERTIES
    CredentialsKept
