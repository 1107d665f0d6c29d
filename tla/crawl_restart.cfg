CONSTANTS
    a = a
    b = b
    c = c
    d = d
    e = e
    r1 = r1
    r2 = r2
    t1 = t1
    t2 = t2
    t3 = t3
    t4 = t4
    NoUrl = NoUrl
    NoRun = NoRun
    Urls <- Site
    Priority <- SkewedPriority
    Content <- OwnContent
    MaxUrlRetries = 2
    Seeds = {a}
    Links <- SiteLinks
    Runs = {r1, r2}
    Tasks = {t1, t2, t3}
    Concurrency = 2
    MaxPages = 0
    MaxDepth = 3
    Dedup = FALSE
    CachedBefore = {}
    Overlap = FALSE
    Faults = {"crash", "quit", "timeout", "fetch_error", "error_page", "parse_error", "deadline"}
SPECIFICATION Spec
SYMMETRY Symmetry
PROPERTIES
    ImplementsPageLifecycle
INVARIANTS
    ClaimExclusive
    RetryBudget
CHECK_DEADLOCK FALSE
