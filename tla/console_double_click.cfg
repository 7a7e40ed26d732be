SPECIFICATION ConsoleSpec
CONSTANTS
    t1 = t1
    NIL = NIL
    ArticleIds = {1}
    Drafts = {1}
    KbIds = {1, 2, 3}
    Foreign = {}
    Tickets = {t1}
    Source <- MCSource
    Sessions = {p1, p2}
    Versions = {v1, v2}
    First = v1
    MaxConcurrent = 2
    MaxRows = 0
    MaxFaults = 0
    Tabs = {b1}
    Draft = 1
    MaxClicks = 2
INVARIANTS
    OneItem
