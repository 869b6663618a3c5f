SPECIFICATION Spec
CONSTANTS
    relay = relay
    ana = ana
    bo = bo
    g1 = g1
    team = team
    None = None
    Events <- MCEvents
    Seeds <- MCSeeds
    Groups = {g1}
    ScopeOf <- MCScopeOf
    Default = Default
    MaxAt = 2
    PageSize = 1
    MaxPages = 3
    MaxChanges = 3
    RecentPerGroup = 1
    PageLimit = 1
    Reader = bo
CONSTRAINT ReportOrReader
INVARIANTS
    WipeReachesAll
    CasesNameTheAuthor
    PagesMissNothing
PROPERTIES
    GroupsKeepTheirRecords
    IndexCatchesUp
CHECK_DEADLOCK FALSE
