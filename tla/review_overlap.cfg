SPECIFICATION Spec
CONSTANTS
    t1 = t1
    t2 = t2
    NIL = NIL
    ArticleIds = {1, 2}
    Drafts = {1}
    KbIds = {1, 2}
    Foreign = {}
    Tickets = {t1}
    Source <- MCSource
    Sessions = {s1, s2}
    Versions = {0}
    First = 0
    MaxConcurrent = 2
    MaxRows = 1
    MaxFaults = 0
INVARIANTS
    TypeOK
    PublishedHaveItems
    PushesLeaveTraces
