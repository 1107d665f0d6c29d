CONSTANTS
    c1 = c1
    c2 = c2
    c3 = c3
    o1 = o1
    o2 = o2
    o3 = o3
    NoOrigin = NoOrigin
    Clients = {c1, c2, c3}
    Origins = {o1, o2, o3}
    MaxEntries = 2
    Ttl = 2
    FetchTicks = 1
    Faults = {"cancel"}
    Horizon = 4
SPECIFICATION Spec
SYMMETRY Symmetry
INVARIANTS
    SingleFlight
PROPERTIES
    MapsBounded
CHECK_DEADLOCK FALSE
