CONSTANTS
    w1 = w1
    w2 = w2
    w3 = w3
    Workers = {w1, w2, w3}
    BaseGap = 2
    MaxGap = 4
    CbSleep = 2
    Window = 2
    CrawlDelay = 5
    Delays = {0, 1}
    Faults = {"429", "5xx", "0", "raise", "cancel"}
SPECIFICATION FairSpec
PROPERTIES
    StartsAreSpaced
    NoStartInPause
    WaiterStarts
CHECK_DEADLOCK FALSE
