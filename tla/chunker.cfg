SPECIFICATION MCSpec
CONSTANTS
    MaxTokens = 16
    Lengths <- MCLengths
    Sizes <- MCSizes
    Overlaps <- MCOverlaps
    Titles = {0, 2}
    NIL = NIL
    NaN = NaN
    Settings <- MCSettings
    Default <- MCDefault
    MaxRows = 2
    Tickets <- MCTickets
INVARIANTS
    NothingCut
    EachChunkAdds
    ScoringTypeOK
    JudgedByOneRow
    FullerNotesNeverHurt
