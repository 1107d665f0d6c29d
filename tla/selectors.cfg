SPECIFICATION FairSpec
CONSTANTS
    t1 = t1
    t2 = t2
    a = a
    None = None
    Primary = primary
    Repaired = repaired
    Tasks = {t1, t2}
    Parsers = {a}
    ParserOf <- OneParser
    Limit = 1
    MaxCloses = 1
    MaxLosses = 1
INVARIANTS
    ConnectionsAreFew
    ErrorIsExcused
    HealingIsLearnt
PROPERTIES
    TaskEnds
