SPECIFICATION FairSpec
CONSTANTS
    c1 = c1
    c2 = c2
    c3 = c3
    NIL = NIL
    ArticleIds = {1}
    Contents <- MCContents
    Texts <- MCTexts
    Sessions = {s1, s2}
    Batch = 2
    MaxAttempts = 2
INVARIANTS
    TypeOK
    EmbeddingsMatch
PROPERTIES
    IndexedAtomically
    IndexingsEnd
