SPECIFICATION Spec
CONSTANTS
    t1 = t1
    t2 = t2
    k1 = k1
    k2 = k2
    NIL = NIL
    ArticleIds = {1, 2}
    Tickets = {t1, t2}
    Legacy = {t1}
    Categories = {k1, k2}
    Topic <- MCTopic
    Relevance <- MCRelevance
    Limits <- MCLimits
    Overshoot = 1
    BatchSize = 1
    MaxNotes = 2
    MaxWrites = 4
    MaxFaults = 1
INVARIANTS
    StatsMissNothing
    DraftedTopicsAreNoGaps
    SearchFindsTheBest
    
    BackfillIsComplete
