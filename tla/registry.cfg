CONSTANTS
    k1 = k1
    k2 = k2
    k3 = k3
    Crawls = {k1, k2, k3}
    MaxActive = 2
    CrawlFaults = {"hang", "error", "close", "restart"}
SPECIFICATION RegistryFairSpec
PROPERTIES
    CancelledEnds
INVARIANTS
    RegistryIsExact
CHECK_DEADLOCK FALSE
