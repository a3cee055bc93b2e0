\* Two requests, one connection.
SPECIFICATION FairSpec
CONSTANTS
    Requests = {r1, r2}
    MaxTries = 2
    PoolSize = 1
INVARIANTS
    TypeOK
    SuccessIsThisCall
    RepeatedOnlyUntold
PROPERTIES
    EveryRelayAnswered
