CONSTANTS
    w1 = w1
    w2 = w2
    w3 = w3
    Workers = {w1, w2, w3}
    FailThreshold = 2
    OpenTicks = 3
    HalfOpenProbe = 1
    FlightTicks = 1
    p1 = p1
    p2 = p2
    p3 = p3
    p4 = p4
    Pages = {p1, p2, p3, p4}
    Budget = 2
    NoPage = NoPage
    Faults = {"neutral", "parse_error", "timeout"}
SPECIFICATION FairSpec
PROPERTIES
    PagesAreSettled
INVARIANTS
    ProbesAreFew
