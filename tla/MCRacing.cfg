\* Two handlers at once on one key, with file errors and restarts.
CONSTANTS
    admin = admin
    newcomer = newcomer
    c1 = c1
    w1 = w1
    w2 = w2
    None = None
    NoFile = NoFile
    Empty = Empty
    Torn = Torn
    Codes <- MCCodes
    Keys <- MCOneKey
    Admins <- MCOneKey
    Minters <- MCOneKey
    Grants = {}
    FreshGrant <- MCFreshGrant
    GrantRequests <- MCGrantRequests
    AskedUses <- MCNone
    AskedTtls <- MCNone
    Allowance = 1
    AllowanceTtl = 1
    AdminUses = 4
    AdminTtl = 1
    MaxTime = 0
    MaxRedemptions = 2
    MaxTotal = 2
    Workers = {w1, w2}
    Kinds = {"mint", "claim", "evict", "grant", "restart"}
    IoErrors = TRUE
SPECIFICATION AdmissionSpec
CONSTRAINT CodesOrGrants
SYMMETRY WorkerSymmetry
INVARIANTS
    HotPathExact
    AddedPeopleKept
