CONSTANTS
    a = a
    b = b
    c = c
    d = d
    e = e
    r1 = r1
    r2 = r2
    t1 = t1
    t2 = t2
    t3 = t3
    t4 = t4
    NoUrl = NoUrl
    NoRun = NoRun
    Urls <- Site
    Priority <- FlatPriority
    Content <- OwnContent
    MaxUrlRetries = 2
    Seeds = {a}
    Links <- SiteLinks
    Runs = {r1}
    Tasks = {t1, t2, t3}
    Concurrency = 2
    MaxPages = 2
    MaxDepth = 3
    Dedup = FALSE
    CachedBefore = {}
    Overlap = FALSE
    Faults = {"timeout", "stop", "pause", "quit", "fetch_error", "parse_error", "no_handler"}
SPECIFICATION FairSpec
INVARIANTS
    TerminalRowIsQuiet
PROPERTIES
    RunEnds
CHECK_DEADLOCK FALSE
