SPECIFICATION FairSpec
CONSTANTS
    w1 = w1
    w2 = w2
    shop = shop
    proxy = proxy
    Direct = Direct
    Workers = {w1, w2}
    Requests <- FourRequests
    MaxContexts = 1
    MaxPools = 1
    Faults = {"launch", "create", "script", "clear", "page", "challenge", "cancel"}
INVARIANTS
    PoolsBounded
    PermitsAreExact
    IdentityIsKept
    LostIsExcused
PROPERTIES
    PermitIsGranted
