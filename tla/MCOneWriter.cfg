\* One handler at a time, with crashes between its steps, backups and restores.
CONSTANTS
    admin = admin
    newcomer = newcomer
    c1 = c1
    w1 = w1
    w2 = w2
    None = None
    NoFile = NoFile
    Empty = Empty
    Torn = Torn
    Codes <- MCCodes
    Keys <- MCKeys
    Admins <- MCAdmins
    Minters <- MCAdmins
    Grants = {}
    FreshGrant <- MCFreshGrant
    GrantRequests <- MCAddingOne
    AskedUses <- MCNone
    AskedTtls <- MCNone
    Allowance = 2
    AllowanceTtl = 1
    AdminUses = 4
    AdminTtl = 1
    MaxTime = 0
    MaxRedemptions = 2
    MaxTotal = 3
    Workers = {w1}
    Kinds = {"mint", "claim", "revoke", "evict", "grant", "backup", "restart"}
    IoErrors = FALSE
SPECIFICATION AdmissionSpec
INVARIANTS
    AnsweredOnDisk
    DiskCurrent
