CONSTANTS
    w1 = w1
    w2 = w2
    Workers = {w1, w2}
    DayLength = 2
    MaxClock = 4
    Days <- MCDays
    Regions <- MCRegions
    Services <- MCServices
    Secrets <- MCSecrets
    Shards <- MCShards
    ShardOf <- MCShardOf
    Setups <- MCSetups
    ClientRegion = "eu"
    ClientSecret = "client secret"
    OtherSecret = "other secret"
SPECIFICATION Spec
INVARIANTS
    TypeOK
    ReturnedIsDerived
    DaysBounded
    VerifiedIsUntouched
    GenuineVerifies
    ForwardedVerifies
    OneSignature
    ForwardedNamesObject
    PeerIsAuthority
CHECK_DEADLOCK FALSE
