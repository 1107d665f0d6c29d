CONSTANTS
    a = a
    b = b
    c = c
    d = d
    e = e
    r1 = r1
    r2 = r2
    t1 = t1
    t2 = t2
    t3 = t3
    t4 = t4
    NoUrl = NoUrl
    NoRun = NoRun
    Urls <- DeepSite
    Priority <- FlatPriority
    Content <- SharedContent
    MaxUrlRetries = 2
    Seeds = {a, b}
    Links <- DeepLinks
    Runs = {r1, r2}
    Tasks = {t1, t2, t3, t4}
    Concurrency = 2
    MaxPages = 0
    MaxDepth = 1
    Dedup = TRUE
    CachedBefore = {}
    Overlap = FALSE
    Faults = {"fetch_error", "auth", "open", "unsafe", "disallow"}
SPECIFICATION Spec
SYMMETRY Symmetry
INVARIANTS
    VisitedIsHarvested
    FinishedIsComplete
    ItemsAreYielded
    DepthIsSound
    ContentBounded
CHECK_DEADLOCK FALSE
