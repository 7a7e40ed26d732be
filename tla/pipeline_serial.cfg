SPECIFICATION Spec
CONSTANTS
    t1 = t1
    t2 = t2
    NIL = NIL
    Scheduler = sched
    Tickets = {t1, t2}
    ArticleIds = {1, 2, 3, 4}
    Imported = {1}
    Requests = {r1}
    Relevance <- MCRelevance
    DedupThreshold = 2
    NeighbourFloor = 1
    MaxConcurrent = 1
    MaxFaults = 1
    MaxResets = 1
INVARIANTS
    OrphansNeedFaults
    OneMasterPerTopic
PROPERTIES
    DecidedIsFinal
