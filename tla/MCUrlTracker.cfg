CONSTANTS
    r1 = r1
    r2 = r2
    r3 = r3
    r4 = r4
    r5 = r5
    plain = plain
    u1 = u1
    u2 = u2
    u3 = u3
    Requests = {r1, r2, r3, r4, r5, plain}
    Presigned = {r1, r2, r3, r4, r5}
    Urls = {u1, u2, u3}
    UrlOf <- MCUrlOf
    Max = 2
SPECIFICATION Spec
INVARIANTS
    RejectedOverLimit
    SequentialUsesServed
PROPERTIES
    ImplementsQuota
CHECK_DEADLOCK FALSE
