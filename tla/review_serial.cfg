SPECIFICATION Spec
CONSTANTS
    t1 = t1
    t2 = t2
    NIL = NIL
    ArticleIds = {1, 2}
    Drafts = {1}
    KbIds = {1, 2, 3}
    Foreign = {1}
    Tickets = {t1, t2}
    Source <- MCSource
    Sessions = {s1}
    Versions = {0, 1}
    First = 0
    MaxConcurrent = 1
    MaxRows = 1
    MaxFaults = 1
INVARIANTS
    LostItemsNeedFaults
    MissingLinksNeedFaults
    PushedTextPublished
    PushedIndexFresh
PROPERTIES
    LifeSpec
