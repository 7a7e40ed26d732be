SPECIFICATION FairSpec
CONSTANTS
    s1 = s1
    s2 = s2
    d1 = d1
    d2 = d2
    a1 = a1
    k1 = k1
    Callers = {boot, poll, cli, adm}
    Boot = boot
    Poll = poll
    Cli = cli
    Admin = {adm}
    Names = {s1, s2, d1, d2, a1}
    Categories = {k1}
    SeedTickets <- MCSeedTickets
    KbArticles <- MCArticles
    Packs <- MCPacks
    PageSize = 2
    MaxTotal = 3
    MaxFaults = 1
    MaxWrites = 1
    MaxInFlight = 2
INVARIANTS
    WalkNeverRepeats
    WalkMissesOnlyPurged
    HollowNotesNeedFaults
    BootstrapSeedsOnce
    CategoryCopiesBounded
PROPERTIES
    FirstBootSeeds
