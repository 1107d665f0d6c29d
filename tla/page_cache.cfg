SPECIFICATION CacheSpec
CONSTANTS
    c1 = c1
    c2 = c2
    u1 = u1
    u2 = u2
    Nothing = Nothing
    Callers <- Pair
    Urls <- TwoUrls
    Formats = {"html", "text"}
    Sizes = {1, 2, 4, 5}
    MaxEntries = 2
    MaxBytes = 4
    Ttl = 2
    FetchTicks = 1
    Horizon = 4
INVARIANTS
    CapsHold
    ServedIsFresh
PROPERTIES
    OnlyClearDrifts
SYMMETRY CacheSymmetry
