SPECIFICATION FairSpec
CONSTANTS
    t1 = t1
    t2 = t2
    NIL = NIL
    Scheduler = sched
    Tickets = {t1}
    ArticleIds = {1, 2, 3, 4, 5}
    Imported = {1}
    Requests = {r1}
    Relevance <- MCRelevance
    DedupThreshold = 2
    NeighbourFloor = 1
    MaxConcurrent = 2
    MaxFaults = 1
    MaxResets = 0
INVARIANTS
    TypeOK
    NoSelfCover
    DraftIsOwnAndIndexed
PROPERTIES
    FullTicketsDecided
    ThinTicketsFlagged
