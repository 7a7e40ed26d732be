SPECIFICATION Spec
CONSTANTS
    t1 = t1
    t2 = t2
    NIL = NIL
    Scheduler = sched
    Tickets = {t1, t2}
    ArticleIds = {1, 2, 3}
    Imported = {}
    Requests = {r1}
    Relevance <- MCRelevance
    DedupThreshold = 2
    NeighbourFloor = 1
    MaxConcurrent = 2
    MaxFaults = 0
    MaxResets = 0
INVARIANTS
    OneMasterPerTopic
