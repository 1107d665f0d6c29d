SPECIFICATION Spec
CONSTANTS
    w1 = w1
    w2 = w2
    shop = shop
    blog = blog
    p1 = p1
    p2 = p2
    None = None
    Workers = {w1, w2}
    Hosts = {shop, blog}
    Proxies = {p1, p2}
    ProxyList <- RepeatingList
    Answers <- SomeAnswers
    MaxFailures = 1
    FailCap = 2
    MaxTracked = 1
    Faults = {"request", "browser", "raise", "cancel", "use_browser", "upkeep"}
SYMMETRY Symmetry
CONSTRAINT PagesAreFew
INVARIANTS
    QuarantineIsDeserved
    ProxiesAreSound
    AttributionIsRecent
PROPERTIES
    LeakIsExcused
    AnswerIsKept
