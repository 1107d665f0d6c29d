SPECIFICATION FairSpec
CONSTANTS
    MaxRequests = 2
    MaxIncidents = 1
    MaxPolls = 2
    MaxCrashes = 1
    Faults = {"exception"}
INVARIANTS
    StatusIsCoherent
    ViewIsCurrent
PROPERTIES
    NothingIsForgotten
    RequestEnds
