CONSTANTS
    w1 = w1
    w2 = w2
    Workers = {w1, w2}
    DayLength = 2
    MaxClock = 0
    Days <- MCDays
    Regions <- MCRegions
    Services <- MCServices
    Secrets <- MCSecrets
    Shards <- MCShards
    ShardOf <- MCShardOf
    Setups <- MCPathSetups
    ClientRegion = "eu"
    ClientSecret = "client secret"
    OtherSecret = "other secret"
SPECIFICATION Spec
INVARIANTS
    ObjectPathFollowsBucket
CHECK_DEADLOCK FALSE
